SPECIFICATION HSpec
CONSTANTS
  NServers = 1
  NFlows = 2
  Key <- TwoFlows
  ServerVersion <- Speak2
  PCP_RETX_IRT = 1
  PCP_RETX_MRT = 2
  PCP_RETX_MRC = 3
  PCP_MAX_PING_COUNT = 5
  PCP_SERVER_DISCOVERY_RETRY_DELAY = 4
  PCP_MAX_SUPPORTED_VERSION = 2
  SendOutcomes = {TRUE}
  Lifetimes = {4}
  Granted = {4}
  Results = {"success"}
  Jumps = {FALSE, TRUE}
  ApiCalls = {"new", "close"}
  Unrouted = {}
INVARIANT ClosedFlowAsksForNothing
