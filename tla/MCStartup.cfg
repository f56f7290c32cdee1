CONSTANTS
  B1 = B1
  B2 = B2
  B3 = B3
  None = None
  Unreadable = Unreadable
  Batches = {B1, B2, B3}
  CommandLines <- MCCommandLines
  Configs <- MCConfigs
  NbNodes <- MCNbNodes
  Libraries <- MCLibraries
  Numbers <- MCNumbers
  Parse <- MCParse
SPECIFICATION FairSpec
INVARIANTS
  ConfigAlive
  PluginShared
  JobsFromDocument
  AnswerCounts
  AnswerFits
PROPERTY
  ComesToItsEnd
