----------------------------- MODULE MCPcpWait -----------------------------
(***************************************************************************)
(* Instances of PcpWait for TLC.                                           *)
(***************************************************************************)
EXTENDS PcpWait

K(s, r, op) == [server |-> s, req |-> r, op |-> op]

(* One request to two servers; the head of its chain is visited first, or   *)
(* last.                                                                    *)
Chain      == <<K(1, 1, "map"), K(2, 1, "map")>>
ChildFirst == <<K(2, 1, "map"), K(1, 1, "map")>>

Speak22 == <<2, 2>>
=============================================================================
