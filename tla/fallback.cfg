SPECIFICATION Spec
CONSTANTS
  NServers = 1
  NFlows = 2
  Key <- FlowAndAnnounce
  ServerVersion <- Speak0
  PCP_RETX_IRT = 1
  PCP_RETX_MRT = 1
  PCP_RETX_MRC = 2
  PCP_MAX_PING_COUNT = 2
  PCP_SERVER_DISCOVERY_RETRY_DELAY = 1
  PCP_MAX_SUPPORTED_VERSION = 2
  SendOutcomes = {TRUE, FALSE}
  Lifetimes = {2}
  Granted = {2}
  Results = {"success", "unsupp_version"}
  Jumps = {TRUE, FALSE}
  ApiCalls = {"new", "set_lifetime", "close", "delete", "readd"}
  Unrouted = {1}
INVARIANTS
  TypeOK
  TransientIsDriven
  PingFlowValid
  PingHasDeadline
  RequestHasTimer
  NoOrphanFlow
  UnsentIsScheduled
  VersionSupported
PROPERTY
  ImplementsLink
