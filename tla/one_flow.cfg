SPECIFICATION Spec
CONSTANTS
  NServers = 1
  NFlows = 1
  Key <- OneFlow
  ServerVersion <- Speak2
  PCP_RETX_IRT = 1
  PCP_RETX_MRT = 2
  PCP_RETX_MRC = 3
  PCP_MAX_PING_COUNT = 4
  PCP_SERVER_DISCOVERY_RETRY_DELAY = 2
  PCP_MAX_SUPPORTED_VERSION = 2
  SendOutcomes = {TRUE, FALSE}
  Lifetimes = {4}
  Granted = {4}
  Results = {"success", "no_resources", "not_authorized", "address_mismatch"}
  Jumps = {TRUE, FALSE}
  ApiCalls = {"new", "set_lifetime", "close", "delete"}
  Unrouted = {}
INVARIANTS
  TransientIsDriven
  RestartMarkIsMomentary
  PingHasDeadline
  RequestHasTimer
  NoOrphanFlow
