------------------------------- MODULE PcpMsg -------------------------------
(***************************************************************************)
(* pcp_msg.c: how the request of a flow is laid out for a protocol version *)
(* and what is read back from an answer.                                   *)
(*                                                                         *)
(* A datagram is its length, the header fields, the name of the structure  *)
(* that follows the header with the key fields it carries, and the list of *)
(* options. Fields that only travel (external address, lifetime, contents  *)
(* of options) are left out, except for the room they take. All options of *)
(* the build (flow priority, SADSCP, experimental) are there.              *)
(***************************************************************************)
EXTENDS Integers, Sequences, SequencesExt

CONSTANTS
  PCP_MAX_LEN,                \* 1100
  PCP_MAX_SUPPORTED_VERSION   \* 2

(* The buffer holds every request without metadata: a SADSCP with a name of *)
(* 254 bytes and all options has 936.                                       *)
ASSUME MsgAssumption ==
  /\ PCP_MAX_LEN \in Nat /\ PCP_MAX_LEN >= 936
  /\ PCP_MAX_SUPPORTED_VERSION \in 0 .. 2

(* PCP_OPCODE_...; NAT-PMP uses 1 for a UDP and 2 for a TCP mapping. *)
ANNOUNCE == 0
MAP      == 1
PEER     == 2
SADSCP   == 3
NATPMP_MAP == [udp |-> 1, tcp |-> 2]

(* Sizes of the structures of pcp_msg_structs.h. *)
HeaderSize == 24                                \* pcp_request, pcp_response
BodySize   == [none |-> 0, map_v1 |-> 24, map_v2 |-> 36, peer_v1 |-> 44,
               peer_v2 |-> 56, sadscp |-> 14]   \* of a request
RespSize   == [BodySize EXCEPT !.sadscp = 16]   \* pcp_sadscp_resp
NatPmpSize == [announce_req |-> 2, announce_resp |-> 12, map_req |-> 12,
               map_resp |-> 16, inv_version_resp |-> 8]
OptionSize == [flow_priority |-> 8, filter |-> 24, prefer_failure |-> 4,
               third_party |-> 20, deviceid |-> 36, userid |-> 516,
               location |-> 36, metadata |-> 8]  \* metadata: before its value
MD_VAL_MAX_LEN == 24

(* The structure behind the header, by version and opcode. *)
Layouts ==
  << [op \in ANNOUNCE .. PEER   |-> <<"none", "map_v1", "peer_v1">>[op + 1]],
     [op \in ANNOUNCE .. SADSCP |-> <<"none", "map_v2", "peer_v2", "sadscp">>[op + 1]] >>

(* The fields of a flow key (struct flow_key_data) that each of them holds. *)
(* An address stands for itself and its scope id, dst for address and port. *)
KeyFields == {"src_ip", "pcp_server_ip", "nonce", "protocol", "src_port", "dst"}
Carried ==
  [none       |-> {},
   map_v1     |-> {"protocol", "src_port"},
   map_v2     |-> {"protocol", "src_port", "nonce"},
   peer_v1    |-> {"protocol", "src_port", "dst"},
   peer_v2    |-> {"protocol", "src_port", "dst", "nonce"},
   sadscp     |-> {"nonce"},
   natpmp_map |-> {"src_port"}]

Zero    == "0"          \* a field that memset left at 0
Garbage == "garbage"    \* a field read from bytes that hold something else

-----------------------------------------------------------------------------
(* Building a request for flow f: f.kd is its key, f.options the options    *)
(* set, f.md its metadata, f.app_name_length (uint8_t) the name for SADSCP. *)

Padding(n) == (4 - (n % 4)) % 4

(* Metadata of a flow: one value for an id, 16 bits of the id, cut off at   *)
(* MD_VAL_MAX_LEN.                                                          *)
pcp_db_add_md(md, md_id, val_len) ==
  LET id  == md_id % 65536
      val == [id |-> id, len |-> IF val_len > MD_VAL_MAX_LEN
                                 THEN MD_VAL_MAX_LEN ELSE val_len]
      i   == SelectInSeq(md, LAMBDA v : v.id = id)
  IN IF i = 0 THEN Append(md, val) ELSE [md EXCEPT ![i] = val]

AddOption(m, code, size) ==
  [m EXCEPT !.len = @ + size,
            !.options = Append(@, [code |-> code, size |-> size])]

(* A value that is empty or no longer fits is left out. *)
add_md_option_Unbounded(m, v) ==   \* mutant: the room left is not checked
  IF v.len = 0 THEN m
  ELSE AddOption(m, "metadata", OptionSize.metadata + v.len + Padding(v.len))

add_md_option(m, v) ==
  LET size == OptionSize.metadata + v.len + Padding(v.len)
  IN IF v.len = 0 \/ m.len + size > PCP_MAX_LEN
     THEN m
     ELSE AddOption(m, "metadata", size)

OptionOrder == <<"flow_priority", "filter", "prefer_failure", "third_party",
                 "deviceid", "userid", "location">>

build_pcp_options(f, m) ==
  FoldLeft(add_md_option,
           FoldLeft(LAMBDA n, o : IF o \in f.options
                                  THEN AddOption(n, o, OptionSize[o]) ELSE n,
                    m, OptionOrder),
           f.md)

(* The application name and its filling, as counted by the uint8_t on the wire. *)
build_pcp_sadscp(f) ==
  LET fill_len == Padding(f.app_name_length + 2)
  IN BodySize.sadscp + ((f.app_name_length + fill_len) % 256)

(* header and body are the bytes of the header and of what follows it. *)
Request(ver, opcode, layout, kd, header, body) ==
  [ver |-> ver, opcode |-> opcode, layout |-> layout, body |-> body,
   fields |-> [x \in Carried[layout] |-> kd[x]], options |-> <<>>,
   len |-> header + body]

(* What is sent for a flow that has no request in this version. *)
NoRequest == [len |-> 0]

build_natpmp_msg(f) ==
  CASE f.kd.operation = ANNOUNCE ->
         Request(0, ANNOUNCE, "none", f.kd, NatPmpSize.announce_req, 0)
    [] f.kd.operation = MAP /\ f.kd.protocol \in DOMAIN NATPMP_MAP ->
         Request(0, NATPMP_MAP[f.kd.protocol], "natpmp_map", f.kd,
                 NatPmpSize.map_req, 0)
    [] OTHER -> NoRequest

build_pcp_msg(f, ver) ==
  IF ver = 0 THEN build_natpmp_msg(f)
  ELSE IF f.kd.operation \notin DOMAIN Layouts[ver] THEN NoRequest
  ELSE LET layout == Layouts[ver][f.kd.operation]
           body   == IF layout = "sadscp" THEN build_pcp_sadscp(f)
                                          ELSE BodySize[layout]
           plain  == Request(ver, f.kd.operation, layout, f.kd, HeaderSize, body)
       IN IF f.kd.operation = ANNOUNCE THEN plain ELSE build_pcp_options(f, plain)

-----------------------------------------------------------------------------
(* Reading an answer.                                                       *)

validate_pcp_msg(a) ==
  /\ a.len % 4 = 0 /\ a.len >= 4 /\ a.len <= PCP_MAX_LEN
  /\ a.ver # 0 => a.r_bit
  /\ a.ver <= PCP_MAX_SUPPORTED_VERSION

IsNatPmpMap(a) ==
  a.opcode \in {NATPMP_MAP.udp, NATPMP_MAP.tcp} /\ a.len = NatPmpSize.map_resp

parse_v0_resp(a) ==
  \/ a.opcode = ANNOUNCE /\ a.len = NatPmpSize.announce_resp
  \/ IsNatPmpMap(a)
  \/ a.len = NatPmpSize.inv_version_resp

(* Room for the structure of a version and an opcode. *)
parse_body_Peer2(a, layout) ==   \* mutant: sizeof of version 2 for version 1
  a.len - HeaderSize >= RespSize[IF layout = "peer_v1" THEN "peer_v2" ELSE layout]

parse_body(a, layout) == a.len - HeaderSize >= RespSize[layout]

parse_resp(a) ==
  /\ a.len >= HeaderSize
  /\ a.opcode \in DOMAIN Layouts[a.ver]
  /\ parse_body(a, Layouts[a.ver][a.opcode])

(* pcp_pulse goes on with an answer, or drops it. *)
Understood(a) ==
  /\ validate_pcp_msg(a)
  /\ IF a.ver = 0 THEN parse_v0_resp(a) ELSE parse_resp(a)

ReadField(a, layout, x) ==
  CASE x \notin Carried[layout] -> Zero
    [] a.layout # layout        -> Garbage
    [] OTHER                    -> a.fields[x]

Key(operation, fields) ==
  [x \in KeyFields \cup {"operation"} |->
     IF x = "operation" THEN operation ELSE fields[x]]

(* The flow key parse_response finds in an answer that is understood. *)
parse_response(a) ==
  IF a.ver = 0
  THEN IF IsNatPmpMap(a)
       THEN Key(MAP, [x \in KeyFields |->
                  IF x = "protocol"
                  THEN IF a.opcode = NATPMP_MAP.tcp THEN "tcp" ELSE "udp"
                  ELSE ReadField(a, "natpmp_map", x)])
       ELSE Key(a.opcode, [x \in KeyFields |-> Zero])
  ELSE Key(a.opcode, [x \in KeyFields |->
                        ReadField(a, Layouts[a.ver][a.opcode], x)])

=============================================================================
