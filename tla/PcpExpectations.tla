-------------------------- MODULE PcpExpectations --------------------------
(***************************************************************************)
(* What the comments, log texts, header and tests of the repository say of *)
(* the client, as properties of PcpClient. The code does not keep them;    *)
(* each has a run of its own in which TLC shows how.                       *)
(***************************************************************************)
EXTENDS PcpClient

(* pcp.h: pcp_pulse returns the "nearest time-out". While a server works,   *)
(* its next_timeout is no later than the timer of any of its flows          *)
(* (handle_wait_io_timeout, check_flow_timeout).                            *)
NearestTimeoutKept ==
  \A s \in Servers :
    server[s].state = "pss_wait_io" =>
      \A f \in FlowsOf(s) :
        flow[f].timeout > 0 => server[s].next_timeout \in 0 .. flow[f].timeout

(* test_version_negotiation.c: the client settles on the version that the   *)
(* server offers, here on no lower one (handle_version_negotiation).        *)
OfferedVersionKept ==
  \A s \in Servers : server[s].pcp_version >= ServerVersion[s]

(* pcp_app: a flow in pcp_state_succeeded is one whose signaling succeeded: *)
(* the result code that pcp_flow_get_info reports with it is success        *)
(* (handle_server_restart, the fev_ignored row of flow_events_sm).          *)
SuccessIsNoError ==
  \A f \in Flows : flow[f].state = "pfs_wait_for_lifetime_renew" =>
                     flow[f].recv_result = "success"
=============================================================================
