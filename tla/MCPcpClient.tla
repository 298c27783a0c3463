---------------------------- MODULE MCPcpClient ----------------------------
(***************************************************************************)
(* Instances of PcpClient for TLC: flow tables and servers to choose from  *)
(* in the configurations.                                                  *)
(***************************************************************************)
EXTENDS PcpClientLink

K(s, r, op) == [server |-> s, req |-> r, op |-> op]

(* One server and one request. *)
OneFlow == <<K(1, 1, "map")>>
(* One server, one request and announce flows for falls back to NAT-PMP. *)
FlowAndAnnounce == <<K(1, 1, "peer"), K(1, 0, "announce")>>

Speak2 == <<2>>
Speak0 == <<0>>
=============================================================================
