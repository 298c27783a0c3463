-------------------------- MODULE PcpEventHandler --------------------------
(***************************************************************************)
(* The server state machine of pcp_event_handler.c: one operator for each  *)
(* handler of server_sm, run for server s by run_server_state_machine.     *)
(*                                                                         *)
(* The flow table is a fixed set of slots 1..NFlows in the order in which  *)
(* pcp_db_foreach_flow visits them. A slot is a flow key: Key[f] gives the *)
(* server the key names, the request (chain) it belongs to and its opcode. *)
(* The key of a slot never changes, so a late response to a flow that was  *)
(* deleted and created again still matches it, as in pcp_get_flow: the     *)
(* nonce in the key is the server's, not the flow's.                       *)
(***************************************************************************)
EXTENDS PcpFlow

CONSTANTS
  NServers, NFlows,
  Key,                                \* [1..NFlows -> FlowKey]
  PCP_MAX_PING_COUNT,
  PCP_SERVER_DISCOVERY_RETRY_DELAY,   \* in ticks
  PCP_MAX_SUPPORTED_VERSION,
  ServerVersion,                      \* highest version each server speaks
  SendOutcomes                        \* {TRUE}, or BOOLEAN if sendto may fail

Servers  == 1 .. NServers
Flows    == 1 .. NFlows
Versions == 0 .. PCP_MAX_SUPPORTED_VERSION
FlowKey  == [server : Servers, req : Nat, op : {"map", "peer", "announce"}]

ASSUME ClientAssumption ==
  /\ NServers \in Nat \ {0}
  /\ NFlows \in Nat
  /\ Key \in [Flows -> FlowKey]
  /\ PCP_MAX_PING_COUNT \in Nat \ {0}
  /\ PCP_SERVER_DISCOVERY_RETRY_DELAY \in Nat \ {0}
  /\ PCP_MAX_SUPPORTED_VERSION \in 0 .. 254
  /\ ServerVersion \in [Servers -> Versions]
  /\ SendOutcomes \subseteq BOOLEAN /\ SendOutcomes # {}

VARIABLES
  flow,     \* [Flows -> FlowRec]
  server,   \* [Servers -> ServerRec]
  asked,    \* kinds of request each flow has had on the wire
  refused   \* servers that saw a request of a version above theirs

wire == <<asked, refused>>

NoFlow == 0

(* pcp_server_state_e, and the states that another handler leaves at once. *)
ServerStates ==
  {"pss_unitialized", "pss_allocated", "pss_ping", "pss_wait_ping_resp",
   "pss_version_negotiation", "pss_send_all_msgs", "pss_wait_io",
   "pss_wait_io_calc_nearest_timeout", "pss_server_restart",
   "pss_server_reping", "pss_set_not_working", "pss_not_working"}
TransientStates ==
  {"pss_version_negotiation", "pss_send_all_msgs",
   "pss_wait_io_calc_nearest_timeout", "pss_server_restart",
   "pss_server_reping", "pss_set_not_working"}

ServerRec ==
  [state        : ServerStates,
   next_timeout : Timer,
   pcp_version  : 0 .. 255,               \* uint8_t
   next_version : 0 .. 255,
   ping_count   : 0 .. PCP_MAX_PING_COUNT, \* saturates: only >= is tested
   ping_flow    : Flows \cup {NoFlow},    \* ping_flow_msg
   restart_flow : Flows \cup {NoFlow},    \* restart_flow_msg
   epoch_known  : BOOLEAN]                \* epoch # ~0u

InDb(f)    == flow[f].state # "free"
FlowsOf(s) == {f \in Flows : InDb(f) /\ Key[f].server = s}
First(S)   == CHOOSE f \in S : \A g \in S : f <= g

-----------------------------------------------------------------------------
(* Messages, sends and the bookkeeping shared by all handlers.              *)

(* A received message by what the handlers use of it: the slot of the flow  *)
(* whose key it carries, its result code, its lifetime, for an              *)
(* unsupp_version answer the version offered, and whether its epoch is out  *)
(* of step with the client's clock (compare_epochs): the server restarted,  *)
(* or the message was delayed.                                              *)
Message ==
  [flow : Flows, result : ResultCodes, lifetime : Nat,
   version : Versions, jump : BOOLEAN]

NoMsg == [result |-> NoResult, lifetime |-> 0]

(* Outcomes of the sends of a step: a flow sends at most once in a send or  *)
(* resend handler and at most once in a renew handler.                      *)
IoChoices == [Flows -> [send : SendOutcomes, renew : SendOutcomes]]

(* What an event of flow f sees; srv is the record of the flow's server. *)
Env(srv, f, io, m) ==
  [exists   |-> srv.state # "pss_unitialized",
   restart  |-> srv.restart_flow = f,
   send     |-> io[f].send,
   renew    |-> io[f].renew,
   quiet    |-> Key[f].op = "peer" /\ srv.pcp_version = 0,
   result   |-> m.result,
   lifetime |-> m.lifetime]

EnvNow(f, io, m) == Env(server[Key[f].server], f, io, m)

Keep(f) == Out(flow[f], "fev_none", FALSE)

(* A request asks for a mapping, or with lifetime 0 for its removal. *)
Kind(r) == IF r.lifetime = 0 THEN "remove" ELSE "map"

(* The end of a step of server s: its record becomes r, flow f becomes      *)
(* out[f].f, and what was sent is on the wire. A server answers a request   *)
(* of a version above its own with unsupp_version and never otherwise.      *)
Commit(s, r, out) ==
  LET sentTo(f) == Key[f].server
      spoken(f) == server'[sentTo(f)].pcp_version <= ServerVersion[sentTo(f)]
  IN  /\ server' = [server EXCEPT ![s] = r]
      /\ flow' = [f \in Flows |-> out[f].f]
      /\ asked' = [f \in Flows |->
                     IF out[f].sent /\ spoken(f)
                     THEN asked[f] \cup {Kind(out[f].f)} ELSE asked[f]]
      /\ refused' = refused \cup
                      {sentTo(f) : f \in {g \in Flows : /\ out[g].sent
                                                        /\ ~spoken(g)}}

(* pcp_db_foreach_flow(flow_send_event_iter): event ev, then a check of the *)
(* timer, for every flow of the server. The nearest timeout it collects is  *)
(* overwritten by each of its three callers.                                *)
EventIter(s, ev, io) ==
  [f \in Flows |->
     IF f \in FlowsOf(s)
     THEN LET e == EnvNow(f, io, NoMsg)
              h == handle_flow_event(flow[f], ev, e)
              t == check_flow_timeout(h.f, e)
          IN  Out(t.f, "fev_none", h.sent \/ t.sent)
     ELSE Keep(f)]

(* get_first_flow_iter *)
Pingable(s) ==
  {f \in FlowsOf(s) :
     flow[f].state \in {"pfs_idle", "pfs_wait_for_server_init", "pfs_send"}}

-----------------------------------------------------------------------------
(* Handlers of server_sm.                                                   *)

(* Flows are tried in table order until one can be sent; those before it    *)
(* have failed.                                                             *)
handle_server_ping(s) ==
  \E io \in IoChoices :
    LET r(f) == handle_flow_event([flow[f] EXCEPT !.retry_count = 0],
                                  "fev_send", EnvNow(f, io, NoMsg))
        sent == {f \in Pingable(s) : r(f).f.state # "pfs_failed"}
        p    == First(sent)
    IN  \/ /\ sent # {}
           /\ Commit(s, [server[s] EXCEPT !.ping_count = 0,
                                          !.ping_flow = p,
                                          !.next_timeout = r(p).f.timeout,
                                          !.state = "pss_wait_ping_resp"],
                     [f \in Flows |-> IF f \in Pingable(s) /\ f <= p
                                      THEN r(f) ELSE Keep(f)])
        \/ /\ sent = {}
           /\ Commit(s, [server[s] EXCEPT !.ping_count = 0,
                                          !.ping_flow = NoFlow,
                                          !.next_timeout = NoTime,
                                          !.state = "pss_ping"],
                     [f \in Flows |-> IF f \in Pingable(s)
                                      THEN r(f) ELSE Keep(f)])

(* A ping was sent again, with the outcome r: unless that was the last try, *)
(* the server waits for the flow's new timer.                               *)
Repinged_Unchecked(s, count, r) ==   \* mutant: the flow's failure is not seen
  [server[s] EXCEPT !.ping_count = count,
                    !.next_timeout = r.f.timeout]

Repinged(s, count, r) ==
  LET dead == r.f.state = "pfs_failed"
  IN  [server[s] EXCEPT !.ping_count = count,
                        !.next_timeout = IF dead THEN 0 ELSE r.f.timeout,
                        !.state = IF dead THEN "pss_set_not_working"
                                  ELSE "pss_wait_ping_resp"]

handle_wait_ping_resp_timeout(s) ==
  LET p     == server[s].ping_flow
      count == IF server[s].ping_count < PCP_MAX_PING_COUNT
               THEN server[s].ping_count + 1 ELSE PCP_MAX_PING_COUNT
  IN  \/ /\ count >= PCP_MAX_PING_COUNT
         /\ Commit(s, [server[s] EXCEPT !.ping_count = count,
                                        !.next_timeout = 0,
                                        !.state = "pss_set_not_working"],
                   [f \in Flows |-> Keep(f)])
      \/ /\ count < PCP_MAX_PING_COUNT
         /\ p = NoFlow
         /\ Commit(s, [server[s] EXCEPT !.ping_count = count,
                                        !.next_timeout = 0,
                                        !.state = "pss_ping"],
                   [f \in Flows |-> Keep(f)])
      \/ /\ count < PCP_MAX_PING_COUNT
         /\ p # NoFlow
         /\ \E io \in IoChoices :
              LET r == handle_flow_event(flow[p], "fev_flow_timedout",
                                         EnvNow(p, io, NoMsg))
              IN  Commit(s, Repinged(s, count, r),
                         [f \in Flows |-> IF f = p THEN r ELSE Keep(f)])

(* server_process_rcvd_pcp_msg: the flow a message belongs to. An announce  *)
(* answer of version 0 belongs to the ping flow while that is one. In       *)
(* version 1 the key is that of any announce flow of the server, in version *)
(* 2, where the nonce is not filled in, that of none.                       *)
AnnounceFlows(s) ==
  {f \in Flows : InDb(f) /\ Key[f].server = s /\ Key[f].op = "announce"}

MatchingFlow(s, m) ==
  LET p == server[s].ping_flow
  IN  IF Key[m.flow].op # "announce"
      THEN IF InDb(m.flow) THEN m.flow ELSE NoFlow
      ELSE IF m.version = 0
      THEN IF /\ server[s].pcp_version = 0
              /\ p # NoFlow
              /\ Key[p].op = "announce"
           THEN p ELSE NoFlow
      ELSE IF m.version = 1 /\ AnnounceFlows(s) # {}
           THEN First(AnnounceFlows(s)) ELSE NoFlow

Processed(s, m, io) ==
  [f \in Flows |->
     IF f = MatchingFlow(s, m)
     THEN handle_flow_event(flow[f], m.result, EnvNow(f, io, m))
     ELSE Keep(f)]

(* handle_wait_io_receive_msg; handle_wait_ping_resp_recv is the same with  *)
(* another state to go on to.                                               *)
ReceiveMsg(s, m, goOn) ==
  \/ /\ m.result = "unsupp_version"
     /\ Commit(s, [server[s] EXCEPT !.next_timeout = 0,
                                    !.next_version = m.version,
                                    !.state = "pss_version_negotiation"],
               [f \in Flows |-> Keep(f)])
  \/ /\ m.result = "address_mismatch"
     /\ Commit(s, [server[s] EXCEPT !.next_timeout = 0,
                                    !.state = "pss_set_not_working"],
               [f \in Flows |-> Keep(f)])
  \/ /\ m.result \notin {"unsupp_version", "address_mismatch"}
     /\ \E io \in IoChoices :
          IF server[s].epoch_known /\ m.jump
          THEN Commit(s, [server[s] EXCEPT
                            !.next_timeout = 0,
                            !.restart_flow = MatchingFlow(s, m),
                            !.state = "pss_server_restart"],
                      Processed(s, m, io))
          ELSE Commit(s, [server[s] EXCEPT
                            !.epoch_known = TRUE,
                            !.next_timeout = 0,
                            !.state = goOn],
                      Processed(s, m, io))

handle_wait_io_receive_msg(s, m) ==
  ReceiveMsg(s, m, "pss_wait_io_calc_nearest_timeout")

handle_wait_ping_resp_recv_Skips(s, m) ==   \* mutant: as in pss_wait_io
  ReceiveMsg(s, m, "pss_wait_io_calc_nearest_timeout")

handle_wait_ping_resp_recv(s, m) ==
  ReceiveMsg(s, m, "pss_send_all_msgs")

(* create_natpmp_ann_msg makes the first free announce slot a flow. *)
FreeAnnounce(s) ==
  {f \in Flows : ~InDb(f) /\ Key[f].server = s /\ Key[f].op = "announce"}

(* pcp_create_flow: a calloc'ed record with the given lifetime. *)
NewFlow(state, lifetime, timeout) ==
  [state |-> state, lifetime |-> lifetime, timeout |-> timeout,
   resend_timeout |-> 0, retry_count |-> 0, recv_lifetime |-> NoTime,
   recv_result |-> "success"]

(* Pings with flow p, whose record before the ping is g, over version v; q  *)
(* is a flow that gives way to p (NoFlow if there is none).                 *)
PingAgain(s, v, p, g, q) ==
  \E io \in IoChoices :
    LET srv  == [server[s] EXCEPT !.next_version = v,
                                  !.pcp_version = v,
                                  !.ping_flow = p]
        r    == handle_flow_event([g EXCEPT !.retry_count = 0,
                                            !.resend_timeout = 0],
                                  "fev_send", Env(srv, p, io, NoMsg))
        dead == r.f.state = "pfs_failed"
    IN  Commit(s, [srv EXCEPT
                     !.next_timeout = IF dead THEN @ ELSE r.f.timeout,
                     !.state = IF dead THEN "pss_set_not_working"
                               ELSE "pss_wait_ping_resp"],
               [f \in Flows |->
                  IF f = p THEN r
                  ELSE IF f = q
                  THEN Out([flow[f] EXCEPT
                              !.state = "pfs_wait_for_server_init",
                              !.timeout = NoTime], "fev_none", FALSE)
                  ELSE Keep(f)])

(* NAT-PMP, version 0, was refused: there is nothing to fall back to. *)
NothingLower_Unchecked(s) == FALSE   \* mutant: no such check

NothingLower(s) == server[s].pcp_version = 0

handle_version_negotiation(s) ==
  LET v  == server[s].pcp_version
      nv == IF server[s].next_version = v
            THEN (server[s].next_version + 255) % 256
            ELSE server[s].next_version
      p  == server[s].ping_flow
  IN  \/ /\ NothingLower(s)
         /\ Commit(s, [server[s] EXCEPT !.next_version = nv,
                                        !.state = "pss_set_not_working"],
                   [f \in Flows |-> Keep(f)])
      \/ /\ ~NothingLower(s) /\ nv = 0
         /\ FreeAnnounce(s) # {}
         /\ PingAgain(s, nv, First(FreeAnnounce(s)),
                      NewFlow("pfs_idle", 0, NoTime), p)
      \/ /\ ~NothingLower(s) /\ nv # 0
         /\ p # NoFlow
         /\ PingAgain(s, nv, p, flow[p], NoFlow)
      \/ /\ ~NothingLower(s) /\ nv # 0
         /\ p = NoFlow /\ Pingable(s) # {}
         /\ PingAgain(s, nv, First(Pingable(s)),
                      flow[First(Pingable(s))], NoFlow)
      \/ /\ ~NothingLower(s) /\ nv # 0
         /\ p = NoFlow /\ Pingable(s) = {}
         /\ Commit(s, [server[s] EXCEPT !.next_version = nv,
                                        !.pcp_version = nv,
                                        !.next_timeout = NoTime,
                                        !.state = "pss_ping"],
                   [f \in Flows |-> Keep(f)])

handle_send_all_msgs(s) ==
  \E io \in IoChoices :
    Commit(s, [server[s] EXCEPT !.next_timeout = 0,
                                !.state = "pss_wait_io_calc_nearest_timeout"],
           EventIter(s, "fev_server_initialized", io))

handle_server_restart_KeepsMark(s) ==   \* mutant: restart_flow_msg stays
  \E io \in IoChoices :
    Commit(s, [server[s] EXCEPT !.next_timeout = 0,
                                !.state = "pss_wait_io_calc_nearest_timeout"],
           EventIter(s, "fev_server_restarted", io))

handle_server_restart(s) ==
  \E io \in IoChoices :
    Commit(s, [server[s] EXCEPT !.next_timeout = 0,
                                !.restart_flow = NoFlow,
                                !.state = "pss_wait_io_calc_nearest_timeout"],
           EventIter(s, "fev_server_restarted", io))

Soonest(out, F) ==
  LET least == CHOOSE f \in F :
                 \A g \in F : out[f].f.timeout <= out[g].f.timeout
  IN  out[least].f.timeout

(* What check_flow_timeout leaves in *timeout after all flows: it takes a   *)
(* remaining time of 0 for "nothing yet", so a flow whose timer is still    *)
(* due wipes out the minimum of the flows before it.                        *)
NearestTimeout_ZeroIfNone(out) ==   \* mutant: no timer counts as due
  LET armed == {f \in Flows : /\ out[f].f.state # "free"
                              /\ out[f].f.timeout # NoTime}
  IN  IF armed = {} THEN 0 ELSE Soonest(out, armed)

NearestTimeout(out) ==
  LET armed == {f \in Flows : /\ out[f].f.state # "free"
                              /\ out[f].f.timeout # NoTime}
      after == {f \in armed : \A g \in armed : g >= f => out[g].f.timeout # 0}
  IN  IF after = {} THEN NoTime ELSE Soonest(out, after)

(* All flows are checked, those of other servers too. *)
handle_wait_io_timeout(s) ==
  \E io \in IoChoices :
    LET out == [f \in Flows |->
                  IF InDb(f)
                  THEN check_flow_timeout(flow[f], EnvNow(f, io, NoMsg))
                  ELSE Keep(f)]
    IN  Commit(s, [server[s] EXCEPT !.next_timeout = NearestTimeout(out),
                                    !.state = "pss_wait_io"],
               out)

handle_server_set_not_working(s) ==
  \E io \in IoChoices :
    Commit(s, [server[s] EXCEPT
                 !.next_timeout = PCP_SERVER_DISCOVERY_RETRY_DELAY,
                 !.state = "pss_not_working"],
           EventIter(s, "fev_failed", io))

(* The clock, not the event, tells handle_server_not_working whether there  *)
(* is a message: these are its two halves.                                  *)
handle_server_not_working_msg_Delayed(s, m) ==   \* mutant: timeout not reset
  /\ m.result \notin {"unsupp_version", "address_mismatch"}
  /\ \E io \in IoChoices :
       Commit(s, [server[s] EXCEPT !.epoch_known = TRUE,
                                   !.restart_flow = MatchingFlow(s, m),
                                   !.state = "pss_server_restart"],
              Processed(s, m, io))

handle_server_not_working_msg(s, m) ==
  \/ /\ m.result \in {"unsupp_version", "address_mismatch"}
     /\ Commit(s, server[s], [f \in Flows |-> Keep(f)])
  \/ /\ m.result \notin {"unsupp_version", "address_mismatch"}
     /\ \E io \in IoChoices :
          Commit(s, [server[s] EXCEPT !.epoch_known = TRUE,
                                      !.next_timeout = 0,
                                      !.restart_flow = MatchingFlow(s, m),
                                      !.state = "pss_server_restart"],
                 Processed(s, m, io))

handle_server_not_working(s) ==
  Commit(s, [server[s] EXCEPT !.next_timeout = 0,
                              !.state = "pss_server_reping"],
         [f \in Flows |-> Keep(f)])

handle_server_reping_KeepsVersion(s) ==   \* mutant: no fresh start
  Commit(s, [server[s] EXCEPT !.next_timeout = 0, !.state = "pss_ping"],
         [f \in Flows |-> Keep(f)])

handle_server_reping(s) ==
  Commit(s, [server[s] EXCEPT !.pcp_version = PCP_MAX_SUPPORTED_VERSION,
                              !.next_timeout = 0,
                              !.state = "pss_ping"],
         [f \in Flows |-> Keep(f)])

ignore_events(s) ==
  Commit(s, [server[s] EXCEPT !.next_timeout = NoTime],
         [f \in Flows |-> Keep(f)])

-----------------------------------------------------------------------------
(* server_sm and run_server_state_machine. No reachable state is without a  *)
(* row, so log_unexepected_state_event never runs.                          *)

OnTimeout(s) ==
  \/ server[s].state = "pss_ping" /\ handle_server_ping(s)
  \/ /\ server[s].state = "pss_wait_ping_resp"
     /\ handle_wait_ping_resp_timeout(s)
  \/ /\ server[s].state = "pss_version_negotiation"
     /\ handle_version_negotiation(s)
  \/ server[s].state = "pss_send_all_msgs" /\ handle_send_all_msgs(s)
  \/ /\ server[s].state \in {"pss_wait_io", "pss_wait_io_calc_nearest_timeout"}
     /\ handle_wait_io_timeout(s)
  \/ server[s].state = "pss_server_restart" /\ handle_server_restart(s)
  \/ server[s].state = "pss_server_reping" /\ handle_server_reping(s)
  \/ /\ server[s].state = "pss_set_not_working"
     /\ handle_server_set_not_working(s)
  \/ server[s].state = "pss_not_working" /\ handle_server_not_working(s)
  \/ server[s].state = "pss_allocated" /\ ignore_events(s)

(* An io event in pss_ping, or in pss_not_working once the retry delay is   *)
(* over, runs the handler of the timeout and drops the message. A server in *)
(* pss_allocated was never sent anything it could answer.                   *)
OnMessage(s, m) ==
  \/ server[s].state = "pss_ping" /\ handle_server_ping(s)
  \/ /\ server[s].state = "pss_wait_ping_resp"
     /\ handle_wait_ping_resp_recv(s, m)
  \/ server[s].state = "pss_wait_io" /\ handle_wait_io_receive_msg(s, m)
  \/ /\ server[s].state = "pss_not_working" /\ server[s].next_timeout > 0
     /\ handle_server_not_working_msg(s, m)
  \/ /\ server[s].state = "pss_not_working" /\ server[s].next_timeout <= 0
     /\ handle_server_not_working(s)
=============================================================================
