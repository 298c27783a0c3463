SPECIFICATION Spec
CONSTANTS
  PCP_MAX_LEN = 1100
  PCP_MAX_SUPPORTED_VERSION = 2
  EpochMod = 96
  Flows <- MCFlows
  Servers <- MCServers
  SrcIp = "a"
  Nonce = "n"
  ServerIp = "s"
  PktInfo = TRUE
  Times = {0, 2, 20}
  MaxDelay = 2
  MaxRequests = 1
  MaxAnswers = 2
INVARIANTS
  TypeOK
  RequestFits
  AnswerUnderstood
  AnswerFindsFlow
  NoFalseRestart
  RestartNoticed
