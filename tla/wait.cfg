SPECIFICATION WFairSpec
CONSTANTS
  NServers = 2
  NFlows = 2
  Key <- Chain
  ServerVersion <- Speak22
  PCP_RETX_IRT = 1
  PCP_RETX_MRT = 1
  PCP_RETX_MRC = 1
  PCP_MAX_PING_COUNT = 2
  PCP_SERVER_DISCOVERY_RETRY_DELAY = 1
  PCP_MAX_SUPPORTED_VERSION = 2
  SendOutcomes = {TRUE}
  Lifetimes = {2}
  Granted = {2}
  Results = {"success", "no_resources"}
  Jumps = {FALSE}
  ApiCalls = {"new"}
  Unrouted = {}
  WaitTimes = {2}
  Terminations = {TRUE, FALSE}
INVARIANTS
  WTypeOK
  DoneIsNotWaitedFor
PROPERTIES
  SelectMaySleep
  CallReturns
  PulseReturns
  PingResolves
