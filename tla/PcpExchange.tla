---------------------------- MODULE PcpExchange ----------------------------
(***************************************************************************)
(* One client and one server over UDP: what is on the wire, what the       *)
(* client understands of it, which version it talks and when it takes the  *)
(* server for restarted.                                                   *)
(*                                                                         *)
(* When flows send is the subject of PcpClient; here a flow may send at    *)
(* any time, which covers the sends of all handlers. Datagrams are lost,   *)
(* duplicated and reordered at will and are delivered within MaxDelay      *)
(* seconds or not at all.                                                  *)
(***************************************************************************)
EXTENDS FiniteSets, PcpServer, PcpEpoch

CONSTANTS
  Flows,           \* the flows of the server: [kd, options, md, app_name_length]
  Servers,         \* the servers to choose from: records of ServerInfo
  SrcIp,           \* the address towards the server (s->src_ip)
  Nonce, ServerIp, \* s->nonce and s->pcp_ip
  PktInfo,         \* recvmsg tells the address a datagram was sent to
  Times,           \* readings of the clock, in seconds
  MaxDelay,        \* the longest way of an answer
  MaxRequests, MaxAnswers  \* bounds on the datagrams on the wire

VARIABLES
  server_info, \* the server and its command line
  start,     \* when the server was started (epoch_time_start)
  now,       \* the clock, the same for client and server
  version,   \* pcp_version of the server's record in the client
  working,   \* the record is not in pss_not_working
  ref,       \* epoch and cepoch of the record
  ref_start, \* history: the start of the server that ref is from
  requests,  \* on their way to the server
  answers    \* on their way to the client, with their origin and birth

wire == <<requests, answers>>
client == <<version, working, ref, ref_start>>
vars == <<server_info, start, now, client, wire>>

Versions == 0 .. PCP_MAX_SUPPORTED_VERSION

(* server_version 0 is a NAT-PMP gateway, 1 and 2 are pcp_server -v; the    *)
(* default result code is that of its option -r, or "none".                 *)
ServerInfo == [server_version : Versions, default_result_code : STRING]

(* The flows that pcp_new_flow, pcp_learn_dscp and the ping of the server   *)
(* make: the key is zeroed before its fields are set, and names the server  *)
(* and its nonce; an unset source address is replaced by the server's.      *)
(* pcp_db_add_md cuts off metadata, app_name_length is a uint8_t.           *)
IsFlow(f) ==
  /\ f.kd = [x \in KeyFields \cup {"operation"} |-> f.kd[x]]
  /\ f.kd.operation \in {ANNOUNCE, MAP, PEER, SADSCP}
  /\ f.kd.pcp_server_ip = ServerIp /\ f.kd.nonce = Nonce
  /\ f.kd.src_ip = Zero => SrcIp = Zero
  /\ f.kd.operation # PEER => f.kd.dst = Zero
  /\ f.kd.operation \in {ANNOUNCE, SADSCP} => f.kd.protocol = Zero /\ f.kd.src_port = Zero
  /\ f.md \in Seq([id : Nat, len : 0 .. MD_VAL_MAX_LEN])
  /\ f.app_name_length \in 0 .. 255

ASSUME FlowAssumption == \A f \in Flows : IsFlow(f)

ASSUME ExchangeAssumption ==
  /\ Servers \subseteq ServerInfo /\ Servers # {}
  /\ Times \subseteq 0 .. (EpochMod \div 4) /\ 0 \in Times
  /\ MaxDelay \in Nat
  /\ MaxRequests \in Nat /\ MaxAnswers \in Nat
  /\ PktInfo \in BOOLEAN

Init ==
  /\ server_info \in Servers
  /\ start = 0 /\ now = 0
  /\ version = PCP_MAX_SUPPORTED_VERSION
  /\ working = TRUE
  /\ ref = [epoch |-> NoEpoch, cepoch |-> 0] /\ ref_start = 0
  /\ requests = {} /\ answers = {}

-----------------------------------------------------------------------------
(* The client sends, the server answers, the network and the clock.         *)

(* pcp_flow_send_msg: a message of no bytes is not sent. *)
Send(f) ==
  LET req == build_pcp_msg(f, version)
  IN /\ req.len > 0
     /\ Cardinality(requests) < MaxRequests
     /\ requests' = requests \cup {[msg |-> req, flow |-> f]}
     /\ UNCHANGED <<server_info, start, now, client, answers>>

(* A datagram that is delivered may be delivered again. *)
Delivered(datagrams, m) == {datagrams, datagrams \ {m}}

Responses(req, epoch) ==
  IF server_info.server_version = 0
  THEN {NatPmpResponse(req, epoch)}
  ELSE execPCPServer(req, server_info, epoch)

(* The server reads a request and sends its answer to where it came from. *)
Serve(q) ==
  /\ Cardinality(answers) < MaxAnswers
  /\ requests' \in Delivered(requests, q)
  /\ \E r \in Responses(q.msg, Minus(now, start)) :
       answers' = answers \cup
         {[msg |-> r, request |-> q.msg, flow |-> q.flow, at |-> now, from |-> start]}
  /\ UNCHANGED <<server_info, start, now, client>>

(* The server ends (end_after_recv, a crash) and is started again. *)
Restart ==
  /\ start # now
  /\ start' = now
  /\ UNCHANGED <<server_info, now, client, wire>>

Lose ==
  /\ \/ \E q \in requests : requests' = requests \ {q} /\ UNCHANGED answers
     \/ \E a \in answers : answers' = answers \ {a} /\ UNCHANGED requests
  /\ UNCHANGED <<server_info, start, now, client>>

Tick ==
  /\ \E t \in Times : t > now /\ now' = t
  /\ answers' = {a \in answers : now' - a.at <= MaxDelay}
  /\ UNCHANGED <<server_info, start, client, requests>>

-----------------------------------------------------------------------------
(* pcp_pulse reads an answer. One that is not understood is dropped.        *)

(* The address an answer was sent to, the source address of the request, if *)
(* the system tells it (pcp_socket_recvfrom).                               *)
RcvdTo(a) == IF PktInfo THEN a.flow.kd.src_ip ELSE Zero

(* The parsed key, completed with what the datagram itself does not tell. *)
CompletedKey_OwnVersion(a) ==   \* mutant: the version in use decides
  [parse_response(a.msg) EXCEPT
     !.pcp_server_ip = ServerIp,
     !.src_ip = IF RcvdTo(a) = Zero THEN SrcIp ELSE RcvdTo(a),
     !.nonce  = IF version < 2 THEN Nonce ELSE @]

CompletedKey(a) ==
  [parse_response(a.msg) EXCEPT
     !.pcp_server_ip = ServerIp,
     !.src_ip = IF RcvdTo(a) = Zero THEN SrcIp ELSE RcvdTo(a),
     !.nonce  = IF a.msg.ver < 2 THEN Nonce ELSE @]

pcp_get_flow(kd) == {f \in Flows : f.kd = kd}

Read(a) ==
  /\ Understood(a.msg)
  /\ answers' \in Delivered(answers, a)
  /\ UNCHANGED <<server_info, start, now, requests>>

Drop(a) ==
  /\ ~ Understood(a.msg)
  /\ answers' = answers \ {a}
  /\ UNCHANGED <<server_info, start, now, client, requests>>

(* handle_wait_io_receive_msg and handle_version_negotiation: an answer     *)
(* that names the version in use makes the client try the one below it.     *)
NothingLower_Never == FALSE   \* mutant: version 0 is not the last one

NothingLower == version = 0

Negotiate(a) ==
  LET next_version == IF a.msg.ver = version THEN (version + 255) % 256 ELSE a.msg.ver
  IN /\ working /\ a.msg.result = "unsupp_version" /\ Read(a)
     /\ IF NothingLower
        THEN working' = FALSE /\ UNCHANGED version
        ELSE version' = next_version /\ UNCHANGED working
     /\ UNCHANGED <<ref, ref_start>>

GiveUp(a) ==
  /\ working /\ a.msg.result = "address_mismatch" /\ Read(a)
  /\ working' = FALSE
  /\ UNCHANGED <<version, ref, ref_start>>

Answered(a) == a.msg.result \notin {"unsupp_version", "address_mismatch"}

Restarted(a) == compare_epochs(ref, a.msg.epoch, now)

(* The reference after an answer: a new one with the first answer and with  *)
(* an answer that shows a restart.                                          *)
NextReference_OldTime(a) ==   \* mutant: cepoch is not moved with epoch
  IF Restarted(a) THEN [ref EXCEPT !.epoch = a.msg.epoch]
  ELSE Reference(ref, a.msg.epoch, now)

NextReference(a) ==
  IF Restarted(a) THEN [epoch |-> a.msg.epoch, cepoch |-> now]
  ELSE Reference(ref, a.msg.epoch, now)

Process(a) ==
  /\ working /\ Answered(a) /\ Read(a)
  /\ ref' = NextReference(a)
  /\ ref_start' = IF ref' = ref THEN ref_start ELSE a.from
  /\ UNCHANGED <<version, working>>

(* handle_server_not_working: any real answer brings the server back. *)
Return(a) ==
  /\ ~ working /\ Answered(a) /\ Read(a)
  /\ working' = TRUE
  /\ ref' = [epoch |-> a.msg.epoch, cepoch |-> now] /\ ref_start' = a.from
  /\ UNCHANGED version

Ignore(a) ==
  /\ ~ working /\ ~ Answered(a) /\ Read(a)
  /\ UNCHANGED client

(* No answer to the pings: handle_wait_ping_resp_timeout gives up. *)
PingTimeout ==
  /\ working
  /\ working' = FALSE
  /\ UNCHANGED <<server_info, start, now, version, ref, ref_start, wire>>

(* handle_server_reping, when the delay is over. *)
Reping ==
  /\ ~ working
  /\ working' = TRUE
  /\ version' = PCP_MAX_SUPPORTED_VERSION
  /\ UNCHANGED <<server_info, start, now, ref, ref_start, wire>>

Next ==
  \/ \E f \in Flows : Send(f)
  \/ \E q \in requests : Serve(q)
  \/ \E a \in answers : \/ Drop(a) \/ Negotiate(a) \/ GiveUp(a) \/ Process(a)
                        \/ Return(a) \/ Ignore(a)
  \/ Restart \/ Lose \/ Tick \/ PingTimeout \/ Reping

Spec == Init /\ [][Next]_vars

-----------------------------------------------------------------------------
(* Properties.                                                              *)

(* Every variable has its type; the version in use is one of the library's  *)
(* whatever refusals arrive, in whatever order (handle_version_negotiation).*)
TypeOK ==
  /\ server_info \in Servers /\ version \in Versions
  /\ now \in Times /\ start \in Times /\ start <= now
  /\ working \in BOOLEAN
  /\ ref \in [epoch : Epoch, cepoch : Times] /\ ref_start \in Times
  /\ \A q \in requests : q.flow \in Flows
  /\ \A a \in answers : a.at \in Times /\ a.from \in Times /\ a.msg.epoch \in Epoch

(* A request of build_pcp_msg fits into the buffer of PCP_MAX_LEN bytes,    *)
(* with whatever options and metadata, and is a multiple of four bytes      *)
(* long, as both ends demand; the ANNOUNCE of NAT-PMP alone is not.         *)
RequestFits ==
  \A q \in requests :
    /\ q.msg.len <= PCP_MAX_LEN
    /\ q.msg.len % 4 = 0 \/ (q.msg.ver = 0 /\ q.msg.opcode = ANNOUNCE)

(* Requests whose answers the client cannot read: NAT-PMP sent to a PCP     *)
(* server (after a duplicate refusal), a request that fills the buffer to   *)
(* the last byte, which pcp_server cuts off, SADSCP refused by a server of  *)
(* version 1, for which parse_v1_resp has no case, and a request of version *)
(* 1 that is refused in version 2, whose structures are longer, by a server *)
(* told to refuse everything (-r 1).                                        *)
Unreadable(a) ==
  /\ server_info.server_version > 0
  /\ \/ a.request.ver = 0
     \/ a.request.len = PCP_MAX_LEN
     \/ a.request.opcode = SADSCP /\ a.msg.ver = 1
     \/ a.request.ver < a.msg.ver

(* Whatever version the client has changed to since it sent the request,    *)
(* the answer passes validate_pcp_msg and parse_response: no answer of a    *)
(* server to the client's own request is taken for a broken one.            *)
AnswerUnderstood == \A a \in answers : Understood(a.msg) \/ Unreadable(a)

(* The key that pcp_pulse puts together from an answer, whatever version it *)
(* was made for and whatever version is in use now, is the key of the flow  *)
(* that asked. Two cases have none: an ANNOUNCE, which carries no key, and, *)
(* where the system does not tell the address a datagram was sent to, a     *)
(* flow with a source address of its own.                                   *)
AnswerFindsFlow ==
  \A a \in answers :
    (/\ Understood(a.msg) /\ a.msg.result # "unsupp_version"
     /\ a.flow.kd.operation # ANNOUNCE
     /\ PktInfo \/ a.flow.kd.src_ip = SrcIp)
      => a.flow \in pcp_get_flow(CompletedKey(a))

Compared(a) == Understood(a.msg) /\ ref.epoch # NoEpoch

(* compare_epochs never takes a server for restarted that is not, as long   *)
(* as answers take no more than two seconds and the answer was not          *)
(* overtaken by the reference answer.                                       *)
NoFalseRestart ==
  MaxDelay <= 2 =>
    \A a \in answers :
      (Compared(a) /\ a.from = ref_start /\ a.msg.epoch >= ref.epoch)
        => ~ Restarted(a)

(* compare_epochs notices every restart that cost the server more uptime    *)
(* than the tolerance: two seconds, the delay of the answers and a          *)
(* sixteenth of the time since the reference answer.                        *)
RestartNoticed ==
  \A a \in answers :
    (/\ Compared(a)
     /\ a.from - ref_start > MaxDelay + 2 + ((now - ref.cepoch) \div 16))
      => Restarted(a)
=============================================================================
