SPECIFICATION DraftsSpec
CONSTANTS
  Others = {"agent"}
  DraftIds = {1, 2}
  Texts = {"text"}
  Files = {"file"}
  Null = Null
  DraftScenarios <- MCDraftScenarios
INVARIANTS CleanIsSaved SentAsSaved NeverSentAgain NoHalfDraft
CHECK_DEADLOCK FALSE
