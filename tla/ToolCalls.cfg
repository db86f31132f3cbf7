SPECIFICATION FairSpec
CONSTANTS
  None = None
  Paths <- MCPaths
  Texts <- MCTexts
  MaxFileSize = 1
  MaxCalls = 3
  Replies <- MCReplies
  SliceWidth = 2
INVARIANTS
  EventsBracketed
  SessionsReleased
  Confined
  ZeroMeansRan
  AbortHeeded
  StreamTellsText
PROPERTIES
  PromptEnds
