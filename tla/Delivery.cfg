SPECIFICATION Spec
CONSTANTS
  Tokens <- MCTokens
  Words <- MCWords
  Upper <- MCUpper
  Lower <- MCLower
  Keys <- MCKeys
  Titles <- MCTitles
  Places <- MCPlaces
  Fields <- MCFields
  Files <- MCFiles
  Paths <- MCPaths
  UIDs <- MCUIDs
  FolderLists <- MCFolderLists
  RecordLists <- MCRecordLists
  LongTitles <- MCLongTitles
  MaxChanges = 2
  Unread = Unread
INVARIANTS ReadsAsMeant DeliversAsMeant FindsWhatIsThere
CHECK_DEADLOCK FALSE
