SPECIFICATION Spec
CONSTANTS
  BUFSIZE = 5
  Dumps <- KernelDumps
  Ips = {"any", "v4", "fe"}
  AnyIp = "any"
  LinkLocal = {"fe"}
  Scopes = {0, 1, 2}
  PCP_INIT_SERVER_COUNT = 1
  MaxServers = 2
  Named <- SomeServers
  V4 = {"v4"}
  Requests = {1}
  Announce = 0
  NFlows = 3
  NBuckets = 2
  compute_flow_key <- Hash
  Sources <- SomeSources
INVARIANTS
  TypeOK
  TableWellFormed
  IterationHoldsLive
  IterationIsComplete
  AnswerReachesFlow
  GatewaysAllOrNone
PROPERTIES
  ServersStay
