--------------------------- MODULE MCPcpExchange ---------------------------
(***************************************************************************)
(* An instance of PcpExchange for TLC: flows of every opcode, with no      *)
(* options and with all of them.                                           *)
(***************************************************************************)
EXTENDS PcpExchange

MCKey(op, proto, port, dst, src) ==
  [operation |-> op, protocol |-> proto, src_port |-> port, dst |-> dst,
   src_ip |-> src, nonce |-> Nonce, pcp_server_ip |-> ServerIp]

MCFlow(kd, options, md, name) ==
  [kd |-> kd, options |-> options, md |-> md, app_name_length |-> name]

(* Fifteen values, among them an empty one, one that is cut off, one that   *)
(* replaces another, odd lengths, and more than fit behind all the options. *)
MCMetadata ==
  FoldLeft(LAMBDA md, v : pcp_db_add_md(md, v[1], v[2]), <<>>,
           <<<<1, 3>>, <<2, 0>>, <<3, 400>>, <<4, 24>>, <<5, 24>>, <<6, 24>>,
             <<7, 24>>, <<8, 24>>, <<9, 24>>, <<10, 24>>, <<11, 24>>,
             <<12, 24>>, <<13, 24>>, <<65539, 22>>, <<14, 21>>, <<15, 24>>>>)

AllOptions == {OptionOrder[i] : i \in 1 .. Len(OptionOrder)}

MCFlows ==
  {MCFlow(MCKey(MAP, "udp", "p1", Zero, SrcIp), AllOptions, MCMetadata, 0),
   MCFlow(MCKey(MAP, "tcp", "p1", Zero, "other"), {"filter"}, <<>>, 0),
   MCFlow(MCKey(PEER, "udp", "p1", "d1", SrcIp), {}, <<>>, 0),
   MCFlow(MCKey(SADSCP, Zero, Zero, Zero, SrcIp),
          {"prefer_failure", "third_party"}, <<>>, 255),
   MCFlow(MCKey(ANNOUNCE, Zero, Zero, Zero, SrcIp), {}, <<>>, 0)}

MCServers ==
  {[server_version |-> v, default_result_code |-> "none"] : v \in 0 .. 2}
    \cup {[server_version |-> 2, default_result_code |-> r] :
             r \in {"address_mismatch", "unsupp_version"}}
=============================================================================
