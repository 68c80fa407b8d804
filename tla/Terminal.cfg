CONSTANTS
  Null = Null
  HeaderLimit = 4
  BodyLimit = 3
  FileLimit = 2
  PageLines = 2
  HelpMax = 1
  MaxHits = 1
  KeySets <- MCKeySets
  Chars <- MCChars
  Conversations <- MCConversations
  BodyOf <- MCBodyOf
  SummaryOf <- MCSummaryOf
  FilesOf <- MCFilesOf
  PreviewLines <- MCPreviewLines
  Prefills <- MCPrefills
  Heights = {2, 3, 5}
  Widths = {0, 1, 2, 3, 4, 5, 9}
  Texts <- MCTexts
  Frames <- MCFrames
  Fragments <- MCTypedFragments
  MaxTyped = 2
  MaxCommandChars = 22
SPECIFICATION TerminalSpec
INVARIANTS ComposerSound ConversationSound ScreenSound CursorShown InputDocumented
CHECK_DEADLOCK FALSE
