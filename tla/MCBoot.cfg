SPECIFICATION FairSpec
CONSTANTS
  Devices = {keyboard, pad}
  ProtoNone = {}
  BootClass = {keyboard}
  Refusing = {keyboard}
  QueueLen = 1
  MaxCalls = 2
  NULL = NULL
INVARIANTS HidTypeOK BootTypeOK ReadyMeansServed PanicHasCause RestartIsEarned AppOnSolidGround
PROPERTIES Served BootEnds
