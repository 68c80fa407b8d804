SPECIFICATION RequestSpec
CONSTANTS
    MaxLineBytes = 2
    OutputMailbox = 1
    MaxEvents = 2
    Topics <- TwoTopics
    Conversations <- AllConversations
    Mails <- SomeMails
    Sanitized <- SomeNames
    MaxBytes = 9
    PreviewLimit = 4
    BatchMaxIds = 2
    BatchBudget = 12
    ExportTries = 1
    MaxLosses = 2
    People = {"me", "ann"}
    Me = "me"
    FirstLetters <- SomeFirstLetters
    Typings <- SomeTypings
    ReferencesCap = 2
    RecentThreads = 1
    MaxLetters = 3
    Mail <- SomeStores
    Arrivals <- SomeArrivals
    Terms <- SomeTerms
    Filters <- SomeFilters
    Lists <- SomeLists
    Limits <- SomeLimits
    PageMax = 2
    Statements <- SomeStatements
    SqlRowsMax = 3
    RowsRead = 4
    SqlTextMax = 3
    CellMax = 3
    ResponseMax = 5
    AskedCalls <- SomeAskedCalls
    DraftRows = {"draft"}
    MessageRows = {"message"}
    MaxAsked = 2
    MaxVersion = 2
    MaxLive = 1
    CellSizes = {0, 2, 3, 4}
INVARIANT UiCallsTaken
CHECK_DEADLOCK FALSE
