----------------------------- MODULE PcpClosing -----------------------------
(***************************************************************************)
(* PcpClient with a history of the flows that the application has closed,  *)
(* for what pcp.h says of pcp_close_flow.                                  *)
(***************************************************************************)
EXTENDS PcpExpectations

(* History: the flows in the table that the application has closed. Of use  *)
(* where it does not set a lifetime again afterwards.                       *)
VARIABLE closed

hvars == <<vars, closed>>

HNext ==
  \/ /\ pulse.at = "app"
     /\ \E f \in Flows : /\ pcp_close_flow(f)
                         /\ closed' = closed \cup ChainFrom(f)
  \/ /\ Next
     /\ pulse'.at # "read"
     /\ closed' = {f \in closed : InDb(f)'}

HSpec == Init /\ closed = {} /\ [][HNext]_hvars

(* pcp.h: pcp_close_flow removes the flow from the server. No request for   *)
(* the mapping of a closed flow is outstanding.                             *)
ClosedFlowAsksForNothing ==
  \A f \in closed : flow[f].state = "pfs_wait_resp" => flow[f].lifetime = 0
=============================================================================
