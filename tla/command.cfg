SPECIFICATION AppSpec
CONSTANTS
  V4Texts <- V4s
  V6Texts <- V6s
  Value <- Numbers
  Commands <- CommandLines
  Gateways <- OneGateway
  PCP_MAX_SUPPORTED_VERSION = 2
CHECK_DEADLOCK FALSE
INVARIANTS
  TypeOK
  ExitIsAFlowsResult
  OneKindOfRequest
  
  WrittenIsRead
  RoundTrip
