------------------------- MODULE MCPcpExpectations -------------------------
(***************************************************************************)
(* Instances of PcpExpectations for TLC.                                   *)
(***************************************************************************)
EXTENDS PcpExpectations

K(s, r, op) == [server |-> s, req |-> r, op |-> op]

TwoFlows  == <<K(1, 1, "map"), K(1, 2, "map")>>
FlowAndAnnounce == <<K(1, 1, "map"), K(1, 0, "announce")>>

Speak1 == <<1>>
Speak2 == <<2>>
=============================================================================
