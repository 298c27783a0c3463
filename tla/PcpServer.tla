----------------------------- MODULE PcpServer -----------------------------
(***************************************************************************)
(* The servers a client may talk to: pcp_server.c, which speaks version 1  *)
(* or versions 1 and 2 of PCP, and, from how libpcp uses it, a NAT-PMP     *)
(* gateway. Both answer each request at once, with a datagram that is made *)
(* from the request, and keep nothing but the time of their start.         *)
(***************************************************************************)
EXTENDS PcpMsg

(* recvfrom leaves the last byte of the buffer free. *)
Received(req) == IF req.len > PCP_MAX_LEN - 1 THEN PCP_MAX_LEN - 1 ELSE req.len

(* One option is looked at: w is how far the walk over the options has got. *)
(* The result is that of this option, whatever the ones before it gave.     *)
print_PCP_options(w, o) ==
  [remain |-> w.remain - o.size,
   seen   |-> w.seen \cup {o.code},
   opcode |-> w.opcode,
   result |-> CASE o.code \in {"third_party", "prefer_failure"} /\ o.code \in w.seen
                     -> "malformed_option"
                [] o.code \in {"prefer_failure", "filter"} /\ w.opcode # MAP
                     -> "malformed_request"
                [] OTHER -> "success"]

Walk(req, remain) ==
  FoldLeft(print_PCP_options,
           [remain |-> remain, seen |-> {}, opcode |-> req.opcode,
            result |-> "success"],
           req.options)

(* What is taken off the remaining size for the structure of an opcode: for *)
(* PEER of version 1 it is the size of a MAP.                               *)
TakenOff(req) ==
  IF req.layout = "peer_v1" THEN BodySize.map_v1 ELSE req.body

(* The results printPCPreq can give. If a part of the remaining size is     *)
(* left after the last option, it goes on with the bytes behind the         *)
(* request, which an earlier request has left in the buffer.                *)
printPCPreq(req, version) ==
  LET size   == Received(req)
      remain == size - HeaderSize - TakenOff(req)
      walk   == Walk(req, remain)
  IN IF size < 4 \/ size % 4 # 0 THEN {"malformed_request"}
     ELSE IF req.ver > version \/ req.ver = 0 THEN {"unsupp_version"}
     ELSE IF remain < 0 THEN {"malformed_option"}
     ELSE IF walk.remain > 0
     THEN {"success", "malformed_request", "malformed_option"}
     ELSE {walk.result}

(* The request, turned into an answer of the same length. *)
create_response(req, result, info, epoch) ==
  [ver    |-> IF result = "unsupp_version" THEN info.server_version ELSE req.ver,
   opcode |-> req.opcode, r_bit |-> TRUE, result |-> result, epoch |-> epoch,
   len    |-> Received(req), layout |-> req.layout, fields |-> req.fields]

(* execPCPServer: one turn of its loop, as set up by the options of its     *)
(* command line.                                                            *)
execPCPServer(req, info, epoch) ==
  {create_response(req, r, info, epoch) :
     r \in IF info.default_result_code = "none"
           THEN printPCPreq(req, info.server_version)
           ELSE {info.default_result_code}}

(* A NAT-PMP gateway (RFC 6886): refuses other versions in eight bytes. *)
NatPmpResponse(req, epoch) ==
  LET answer(result, len) ==
        [ver |-> 0, opcode |-> req.opcode, r_bit |-> TRUE, result |-> result,
         epoch |-> epoch, len |-> len, layout |-> req.layout,
         fields |-> req.fields]
  IN IF req.ver # 0
     THEN answer("unsupp_version", NatPmpSize.inv_version_resp)
     ELSE answer("success", IF req.opcode = ANNOUNCE
                            THEN NatPmpSize.announce_resp
                            ELSE NatPmpSize.map_resp)
=============================================================================
