SPECIFICATION FairSpec
CONSTANTS
  PayloadWords = 2
  CmdDepth = 2
  CommandSizes = {1, 2}
  Sizes = {0, 3, 6}
  BufferSizes = {1, 4}
  AnswerSizes = {1, 5}
  Reads = {1, 2, 3}
INVARIANTS TypeOK PanelGetsPackets ReadTellsTruth
PROPERTIES CallsEnd
