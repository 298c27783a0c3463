--------------------------- MODULE PcpClientLink ---------------------------
(***************************************************************************)
(* PcpClient implements PcpLink: the states of server_sm as what they mean *)
(* for the relation to the server, and the requests on the wire as the     *)
(* servers that were reached.                                              *)
(***************************************************************************)
EXTENDS PcpClient

(* Versions 0 (NAT-PMP), 1 and 2 are all there are. With a version 3, the   *)
(* refusal of a server that speaks 2 could, when it arrives again and       *)
(* again, take the client from 3 down to 1 and back up to 2.                *)
ASSUME VersionAssumption == PCP_MAX_SUPPORTED_VERSION <= 2

LinkOf(state) ==
  CASE state = "pss_unitialized" -> "absent"
    [] state = "pss_allocated"   -> "unrouted"
    [] state = "pss_ping"        -> "idle"
    [] state \in {"pss_wait_ping_resp", "pss_version_negotiation"} ->
         "probing"
    [] state \in {"pss_send_all_msgs", "pss_wait_io",
                  "pss_wait_io_calc_nearest_timeout",
                  "pss_server_restart"} -> "working"
    [] OTHER -> "down"

Reached == {Key[f].server : f \in {g \in Flows : asked[g] # {}}}

Link == INSTANCE PcpLink WITH
  Peers      <- Servers,
  MaxVersion <- PCP_MAX_SUPPORTED_VERSION,
  Start      <- [s \in Servers |-> IF s \in Unrouted THEN "unrouted"
                                   ELSE "idle"],
  outside    <- (pulse.at = "app"),
  link       <- [s \in Servers |-> LinkOf(server[s].state)],
  version    <- [s \in Servers |-> server[s].pcp_version],
  reached    <- Reached

(* The client keeps the promises of PcpLink: a server counts as working     *)
(* only after an answer to a request that was sent to it, it is given up    *)
(* only for a probe without an answer or for an answer, and the version     *)
(* only goes down, after a refusal, until a fresh start (server_sm,         *)
(* handle_version_negotiation, handle_server_reping).                       *)
ImplementsLink == Link!LSpec
=============================================================================
