---------------------------- MODULE MCPcpClosing ----------------------------
(***************************************************************************)
(* The instance of PcpClosing for TLC: two requests to one server.         *)
(***************************************************************************)
EXTENDS PcpClosing

TwoFlows ==
  <<[server |-> 1, req |-> 1, op |-> "map"],
    [server |-> 1, req |-> 2, op |-> "map"]>>
Speak2 == <<2>>
=============================================================================
