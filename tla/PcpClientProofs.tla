-------------------------- MODULE PcpClientProofs --------------------------
(***************************************************************************)
(* The safety invariants of PcpClient, for any number of servers and flows *)
(* and every value of the other constants.                                 *)
(***************************************************************************)
EXTENDS PcpClient, PcpFlowProofs, WellFoundedInduction

(* RequestHasTimer for one flow, with its type. *)
FlowOk(g) ==
  /\ g \in FlowRec
  /\ g.state \notin {"pfs_idle", "pfs_send_renew"}
  /\ g.state = "pfs_send" => g.timeout = 0
  /\ g.state \in {"pfs_wait_resp", "pfs_wait_after_short_life_error"}
       => g.timeout # NoTime

(* A flow that is resent or given up when its timer expires. *)
Trying == {"pfs_send", "pfs_wait_resp", "pfs_failed"}

(* The invariants of one server, with its record r and flow table fl. *)
ServerOk(s, r, fl) ==
  /\ r \in ServerRec
  /\ r.restart_flow # NoFlow => r.state = "pss_server_restart"
  /\ /\ r.state \notin {"pss_unitialized", "pss_allocated", "pss_ping"}
     /\ r.ping_flow # NoFlow
     => fl[r.ping_flow].state # "free" /\ Key[r.ping_flow].server = s
  /\ r.state = "pss_wait_ping_resp" =>
       /\ r.next_timeout # NoTime
       /\ r.ping_flow # NoFlow => fl[r.ping_flow].state \in Trying
  /\ r.state \in {"pss_wait_io", "pss_wait_io_calc_nearest_timeout"} =>
       \A f \in Flows : Key[f].server = s =>
                          fl[f].state # "pfs_wait_for_server_init"
  /\ r.state = "pss_wait_io" /\ r.next_timeout # 0 =>
       \A f \in Flows : Key[f].server = s => fl[f].state # "pfs_send"
  /\ r.pcp_version <= PCP_MAX_SUPPORTED_VERSION
  /\ r.state = "pss_version_negotiation" =>
       r.next_version <= PCP_MAX_SUPPORTED_VERSION

(* The inductive invariant. *)
IndInv ==
  /\ TypeOK
  /\ \A f \in Flows : FlowOk(flow[f])
  /\ \A s \in Servers : ServerOk(s, server[s], flow)
  /\ TransientIsDriven

-----------------------------------------------------------------------------
(* What an event does to one flow.                                          *)

LEMMA SendEvent ==
  ASSUME NEW g \in FlowRec, g.state # "free", NEW e \in FlowEnv
  PROVE  LET h == handle_flow_event(g, "fev_send", e).f
         IN  /\ FlowOk(h)
             /\ h.state \in {"pfs_wait_resp", "pfs_failed",
                             "pfs_wait_for_lifetime_renew"}
             /\ ~e.restart => h.state \in {"pfs_wait_resp", "pfs_failed"}
<1>1. g.state \in FlowStates
  BY DEF FlowRec
<1>2. NextState(g.state, "fev_send") = "pfs_send"
  BY DEF NextState, ShortLifeErrors, LongLifeErrors
<1>3. "fev_send" \in CallerEvents /\ "fev_send" \notin ResultCodes
  BY DEF CallerEvents, ResultCodes, ShortLifeErrors, LongLifeErrors
<1> QED
  BY <1>1, <1>2, <1>3, HandleFlowEvent DEF AtRest, FlowOk

(* A flow changes to h in a way that the invariants of its server allow at  *)
(* any time.                                                                *)
Mild(h, g) ==
  /\ h.state = "free" <=> g.state = "free"
  /\ g.state \in Trying => h.state \in Trying
  /\ h.state = "pfs_wait_for_server_init" =>
       g.state = "pfs_wait_for_server_init"
  /\ h.state = "pfs_send" => g.state = "pfs_send"

LEMMA EventOk ==
  ASSUME NEW g, FlowOk(g), g.state # "free",
         NEW ev \in CallerEvents \ {"fev_send"}, NEW e \in FlowEnv,
         ev \in ResultCodes => e.result = ev
  PROVE  LET h == handle_flow_event(g, ev, e).f
         IN  /\ FlowOk(h)
             /\ h.state # "free"
             /\ h.state = "pfs_send" => g.state = "pfs_send"
             /\ h.state = "pfs_wait_for_server_init" =>
                  \/ g.state = "pfs_wait_for_server_init"
                  \/ ev = "unsupp_version"
             /\ ev \in {"fev_server_initialized", "fev_server_restarted",
                        "fev_failed"}
                  => h.state # "pfs_wait_for_server_init"
             /\ ev = "fev_flow_timedout" => h.state # "pfs_send"
             /\ ev = "fev_flow_timedout" /\ g.state \in Trying /\ ~e.restart
                  => h.state \in {"pfs_wait_resp", "pfs_failed"}
<1> DEFINE h  == handle_flow_event(g, ev, e).f
           to == NextState(g.state, ev)
<1>1. g \in FlowRec /\ g.state \in FlowStates /\ ev \in CallerEvents
  BY DEF FlowOk, FlowRec
<1>2. /\ to = "none" => h = g
      /\ to # "none" => AtRest(h)
      /\ to = "pfs_send" =>
           /\ h.state \in {"pfs_wait_resp", "pfs_failed",
                           "pfs_wait_for_lifetime_renew"}
           /\ ~e.restart => h.state \in {"pfs_wait_resp", "pfs_failed"}
      /\ to = "pfs_send_renew" =>
           h.state \in {"pfs_wait_resp", "pfs_failed",
                        "pfs_wait_for_lifetime_renew"}
      /\ to \notin {"none", "pfs_send", "pfs_send_renew"} => h.state = to
  BY <1>1, HandleFlowEvent
<1>3. ev \in ResultCodes =>
        ev \notin {"fev_server_initialized", "fev_server_restarted",
                   "fev_failed", "fev_flow_timedout"}
  BY DEF ResultCodes, ShortLifeErrors, LongLifeErrors
<1>4. /\ to = "pfs_wait_for_server_init" => ev = "unsupp_version"
      /\ ev \in {"fev_failed", "fev_server_restarted"} =>
           to \in {"pfs_send", "pfs_failed"}
      /\ ev = "fev_server_initialized" =>
           \/ to = "pfs_send"
           \/ to = "none" /\ g.state # "pfs_wait_for_server_init"
      /\ ev = "fev_flow_timedout" =>
           to \in {"pfs_send", "pfs_send_renew", "none"}
      /\ ev = "fev_flow_timedout" /\ to = "none" => g.state # "pfs_send"
      /\ ev = "fev_flow_timedout" /\ g.state \in Trying =>
           to = "pfs_send" \/ (to = "none" /\ g.state = "pfs_failed")
  BY <1>1, <1>3 DEF NextState, ShortLifeErrors, LongLifeErrors, Trying,
     FlowStates
<1> HIDE DEF h, to
<1>5. FlowOk(h) /\ h.state # "free"
  BY <1>2 DEF AtRest, FlowOk
<1> QED
  BY <1>2, <1>3, <1>4, <1>5 DEF AtRest, h

(* check_flow_timeout in a state in which no restart is being handled. *)
LEMMA CheckTimeout ==
  ASSUME NEW g, FlowOk(g), g.state # "free", NEW e \in FlowEnv
  PROVE  LET h == check_flow_timeout(g, e).f
         IN  /\ FlowOk(h)
             /\ h.state \notin {"free", "pfs_send"}
             /\ h.state = "pfs_wait_for_server_init" =>
                  g.state = "pfs_wait_for_server_init"
             /\ ~e.restart => Mild(h, g)
<1> DEFINE h == handle_flow_event(g, "fev_flow_timedout", e).f
<1>1. /\ "fev_flow_timedout" \in CallerEvents \ {"fev_send"}
      /\ "fev_flow_timedout" \notin ResultCodes \cup {"unsupp_version"}
  BY DEF CallerEvents, ResultCodes, ShortLifeErrors, LongLifeErrors
<1>2. CASE g.timeout = 0
  <2>1. check_flow_timeout(g, e).f = h
    BY <1>2 DEF check_flow_timeout
  <2>2. /\ FlowOk(h)
        /\ h.state \notin {"free", "pfs_send"}
        /\ h.state = "pfs_wait_for_server_init" =>
             g.state = "pfs_wait_for_server_init"
        /\ g.state \in Trying /\ ~e.restart => h.state \in Trying
    BY <1>1, EventOk DEF Trying
  <2> HIDE DEF h
  <2> QED BY <2>1, <2>2 DEF Mild
<1>3. CASE g.timeout # 0
  <2>1. check_flow_timeout(g, e).f = g
    BY <1>3 DEF check_flow_timeout, Out
  <2>2. g.state # "pfs_send"
    BY <1>3 DEF FlowOk
  <2> QED BY <2>1, <2>2 DEF Mild
<1> QED
  BY <1>2, <1>3

LEMMA EnvType ==
  ASSUME NEW r \in ServerRec, NEW f \in Flows, NEW io \in IoChoices, NEW m,
         m.result \in ResultCodes \cup {NoResult}, m.lifetime \in Nat
  PROVE  /\ Env(r, f, io, m) \in FlowEnv
         /\ Env(r, f, io, m).result = m.result
         /\ Env(r, f, io, m).restart <=> r.restart_flow = f
<1>1. io[f].send \in BOOLEAN /\ io[f].renew \in BOOLEAN
  BY ClientAssumption DEF IoChoices
<1> QED
  BY <1>1 DEF Env, FlowEnv

-----------------------------------------------------------------------------
(* A step of server s.                                                      *)

(* pcp_pulse runs server s, and no other server is in a transient state. *)
Running(s) ==
  /\ pulse' \in PulseRec
  /\ pulse'.at \in {"io", "sweep"} /\ pulse'.s = s
  /\ \A t \in Servers \ {s} : server[t].state \notin TransientStates

(* What a handler of server s has to see to, and what follows from it: its  *)
(* own server is left in order, flows of other servers change mildly.       *)
StepOk(s, r, out) ==
  /\ \A f \in Flows : FlowOk(out[f].f)
  /\ \A f \in Flows : Key[f].server # s => Mild(out[f].f, flow[f])
  /\ ServerOk(s, r, [f \in Flows |-> out[f].f])
  /\ r.state \in TransientStates => r.next_timeout = 0

LEMMA OtherServer ==
  ASSUME NEW s \in Servers, NEW r, NEW fl, NEW fm,
         ServerOk(s, r, fl), r.state \in ServerStates,
         \A f \in Flows : Key[f].server = s => Mild(fm[f], fl[f])
  PROVE  ServerOk(s, r, fm)
<1>1. r.ping_flow # NoFlow => r.ping_flow \in Flows
  BY DEF ServerOk, ServerRec
<1>2. r.state = "pss_wait_ping_resp" =>
        r.state \notin {"pss_unitialized", "pss_allocated", "pss_ping"}
  OBVIOUS
<1> QED
  BY <1>1, <1>2 DEF ServerOk, Mild

LEMMA CommitPreserves ==
  ASSUME IndInv, NEW s \in Servers, Running(s), NEW r, NEW out,
         StepOk(s, r, out), Commit(s, r, out)
  PROVE  IndInv'
<1> DEFINE fl == [f \in Flows |-> out[f].f]
<1>1. server' = [server EXCEPT ![s] = r] /\ flow' = fl
  BY DEF Commit
<1>2. r \in ServerRec /\ ServerOk(s, r, fl)
  BY DEF StepOk, ServerOk
<1>3. \A f \in Flows : FlowOk(fl[f])
  BY DEF StepOk
<1>4. server \in [Servers -> ServerRec]
  BY DEF IndInv, TypeOK
<1>5. flow' \in [Flows -> FlowRec]
  BY <1>1, <1>3 DEF FlowOk
<1>6. server' \in [Servers -> ServerRec]
  BY <1>1, <1>2, <1>4
<1>7. asked' \in [Flows -> SUBSET {"map", "remove"}]
  <2>1. asked \in [Flows -> SUBSET {"map", "remove"}]
    BY DEF IndInv, TypeOK
  <2>2. \A x : Kind(x) \in {"map", "remove"}
    BY DEF Kind
  <2>3. PICK c : asked' = [f \in Flows |-> IF c[f] = TRUE
                                 THEN asked[f] \cup {Kind(out[f].f)}
                                 ELSE asked[f]]
    <3> DEFINE b == [f \in Flows |->
                       out[f].sent /\ server'[Key[f].server].pcp_version
                                        <= ServerVersion[Key[f].server]]
    <3>1. asked' = [f \in Flows |-> IF b[f] = TRUE
                                    THEN asked[f] \cup {Kind(out[f].f)}
                                    ELSE asked[f]]
      BY Zenon DEF Commit
    <3> QED BY <3>1
  <2> QED BY <2>1, <2>2, <2>3
<1>8. refused' \in SUBSET Servers
  <2>1. refused \in SUBSET Servers
    BY DEF IndInv, TypeOK
  <2>2. \A f \in Flows : Key[f].server \in Servers
    BY ClientAssumption DEF FlowKey
  <2>3. \A x \in refused' : x \in refused \/ \E f \in Flows : x = Key[f].server
    BY Zenon DEF Commit
  <2> QED BY <2>1, <2>2, <2>3
<1>9. TypeOK'
  BY <1>5, <1>6, <1>7, <1>8 DEF TypeOK, Running
<1>10. \A t \in Servers : ServerOk(t, server[t], flow)'
  <2>1. ServerOk(s, server'[s], flow')
    BY <1>1, <1>2, <1>4
  <2>2. ASSUME NEW t \in Servers, t # s
        PROVE  ServerOk(t, server'[t], flow')
    <3>1. server'[t] = server[t]
      BY <1>1, <1>4, <2>2
    <3>2. ServerOk(t, server[t], flow) /\ server[t].state \in ServerStates
      BY <1>4 DEF IndInv, ServerRec
    <3>3. \A f \in Flows : Key[f].server = t => Mild(fl[f], flow[f])
      BY <2>2 DEF StepOk
    <3> QED BY <1>1, <3>1, <3>2, <3>3, OtherServer
  <2> QED BY <2>1, <2>2
<1>11. TransientIsDriven'
  <2>1. \A t \in Servers : server'[t] = IF t = s THEN r ELSE server[t]
    BY <1>1, <1>4
  <2> QED BY <2>1 DEF TransientIsDriven, Running, StepOk
<1> QED
  BY <1>1, <1>3, <1>9, <1>10, <1>11 DEF IndInv

(* Facts that the handlers' proofs begin with. *)
LEMMA Known ==
  ASSUME IndInv, NEW s \in Servers
  PROVE  /\ flow \in [Flows -> FlowRec]
         /\ server[s] \in ServerRec
         /\ ServerOk(s, server[s], flow)
         /\ server[s].state \in TransientStates => server[s].next_timeout = 0
         /\ server[s].state # "pss_server_restart" =>
              \A f \in Flows : server[s].restart_flow # f
<1>1. \A f \in Flows : f # NoFlow
  BY ClientAssumption DEF Flows, NoFlow
<1> QED
  BY <1>1 DEF IndInv, TypeOK, ServerOk, TransientIsDriven

LEMMA EnvNowType ==
  ASSUME IndInv, NEW f \in Flows, NEW io \in IoChoices, NEW m,
         m.result \in ResultCodes \cup {NoResult}, m.lifetime \in Nat
  PROVE  /\ Key[f].server \in Servers
         /\ EnvNow(f, io, m) \in FlowEnv
         /\ EnvNow(f, io, m).result = m.result
         /\ server[Key[f].server].state # "pss_server_restart" =>
              ~EnvNow(f, io, m).restart
<1>1. Key[f].server \in Servers
  BY ClientAssumption DEF FlowKey
<1> QED
  BY <1>1, Known, EnvType DEF EnvNow

LEMMA NoMsgType ==
  NoMsg.result \in ResultCodes \cup {NoResult} /\ NoMsg.lifetime \in Nat
BY DEF NoMsg

(* The timers and states the handlers set. *)
LEMMA TimerValues == 0 \in Timer /\ NoTime \in Timer
  BY DEF Timer, NoTime

(* The states by name, so that a record update need not expand the set.     *)
LEMMA StateNames ==
  /\ "pss_unitialized" \in ServerStates /\ "pss_allocated" \in ServerStates
  /\ "pss_ping" \in ServerStates /\ "pss_wait_ping_resp" \in ServerStates
  /\ "pss_version_negotiation" \in ServerStates
  /\ "pss_send_all_msgs" \in ServerStates /\ "pss_wait_io" \in ServerStates
  /\ "pss_wait_io_calc_nearest_timeout" \in ServerStates
  /\ "pss_server_restart" \in ServerStates
  /\ "pss_server_reping" \in ServerStates
  /\ "pss_set_not_working" \in ServerStates
  /\ "pss_not_working" \in ServerStates
  BY DEF ServerStates

(* A handler that changes no flow. *)
LEMMA KeepPreserves ==
  ASSUME IndInv, NEW s \in Servers, Running(s), NEW r,
         ServerOk(s, r, flow),
         r.state \in TransientStates => r.next_timeout = 0,
         Commit(s, r, [f \in Flows |-> Keep(f)])
  PROVE  IndInv'
<1> DEFINE out == [f \in Flows |-> Keep(f)]
<1>1. \A f \in Flows : out[f].f = flow[f]
  BY DEF Keep, Out
<1> HIDE DEF out
<1>2. [f \in Flows |-> out[f].f] = flow
  BY <1>1, Known
<1>3. StepOk(s, r, out)
  BY <1>1, <1>2 DEF StepOk, IndInv, Mild
<1> QED
  BY <1>3, CommitPreserves DEF out

LEMMA NotWorking ==
  ASSUME IndInv, NEW s \in Servers, Running(s), handle_server_not_working(s),
         server[s].state = "pss_not_working"
  PROVE  IndInv'
<1> DEFINE q == server[s]
           r == [q EXCEPT !.next_timeout = 0, !.state = "pss_server_reping"]
<1>1. /\ q \in ServerRec /\ ServerOk(s, q, flow)
      /\ q.state = "pss_not_working"
  BY Known
<1>2. Commit(s, r, [f \in Flows |-> Keep(f)])
  BY DEF handle_server_not_working
<1> HIDE DEF q
<1>3. /\ r \in ServerRec
      /\ r.state = "pss_server_reping" /\ r.next_timeout = 0
      /\ r.ping_flow = q.ping_flow /\ r.restart_flow = q.restart_flow
      /\ r.pcp_version = q.pcp_version
  BY ZenonT(60), <1>1, TimerValues, StateNames DEF ServerRec
<1> HIDE DEF r
<1>4. ServerOk(s, r, flow)
  BY <1>1, <1>3 DEF ServerOk
<1> QED
  BY <1>2, <1>3, <1>4, KeepPreserves

LEMMA Reping ==
  ASSUME IndInv, NEW s \in Servers, Running(s), handle_server_reping(s),
         server[s].state = "pss_server_reping"
  PROVE  IndInv'
<1> DEFINE q == server[s]
           r == [q EXCEPT !.pcp_version = PCP_MAX_SUPPORTED_VERSION,
                          !.next_timeout = 0,
                          !.state = "pss_ping"]
<1>1. /\ q \in ServerRec /\ ServerOk(s, q, flow)
      /\ q.state = "pss_server_reping"
  BY Known
<1>2. Commit(s, r, [f \in Flows |-> Keep(f)])
  BY DEF handle_server_reping
<1> HIDE DEF q
<1>3. /\ PCP_MAX_SUPPORTED_VERSION \in 0 .. 255
      /\ PCP_MAX_SUPPORTED_VERSION <= PCP_MAX_SUPPORTED_VERSION
  BY ClientAssumption
<1>4. /\ r \in ServerRec
      /\ r.state = "pss_ping" /\ r.next_timeout = 0
      /\ r.restart_flow = q.restart_flow
      /\ r.pcp_version = PCP_MAX_SUPPORTED_VERSION
  BY ZenonT(60), <1>1, <1>3, TimerValues, StateNames DEF ServerRec
<1> HIDE DEF r
<1>5. ServerOk(s, r, flow)
  BY <1>1, <1>3, <1>4 DEF ServerOk
<1> QED
  BY <1>2, <1>4, <1>5, KeepPreserves DEF TransientStates

LEMMA Ignore ==
  ASSUME IndInv, NEW s \in Servers, Running(s), ignore_events(s),
         server[s].state = "pss_allocated"
  PROVE  IndInv'
<1> DEFINE q == server[s]
           r == [q EXCEPT !.next_timeout = NoTime]
<1>1. /\ q \in ServerRec /\ ServerOk(s, q, flow)
      /\ q.state = "pss_allocated"
  BY Known
<1>2. Commit(s, r, [f \in Flows |-> Keep(f)])
  BY DEF ignore_events
<1> HIDE DEF q
<1>3. /\ r \in ServerRec
      /\ r.state = "pss_allocated"
      /\ r.restart_flow = q.restart_flow
      /\ r.pcp_version = q.pcp_version
  BY <1>1 DEF ServerRec, Timer
<1> HIDE DEF r
<1>4. ServerOk(s, r, flow)
  BY <1>1, <1>3 DEF ServerOk
<1> QED
  BY <1>2, <1>3, <1>4, KeepPreserves DEF TransientStates

-----------------------------------------------------------------------------
(* Handlers that tell all flows of the server.                              *)

(* A handler that changes only flows of its own server. *)
LEMMA OwnFlows ==
  ASSUME IndInv, NEW s \in Servers, Running(s), NEW r, NEW out,
         \A f \in Flows : FlowOk(out[f].f),
         \A f \in Flows : Key[f].server # s => out[f].f = flow[f],
         ServerOk(s, r, [f \in Flows |-> out[f].f]),
         r.state \in TransientStates => r.next_timeout = 0,
         Commit(s, r, out)
  PROVE  IndInv'
<1>1. StepOk(s, r, out)
  BY DEF StepOk, Mild
<1> QED
  BY <1>1, CommitPreserves

LEMMA EventIterOk ==
  ASSUME IndInv, NEW s \in Servers, NEW io \in IoChoices,
         NEW ev \in {"fev_server_initialized", "fev_server_restarted",
                     "fev_failed"}
  PROVE  \A f \in Flows :
           /\ FlowOk(EventIter(s, ev, io)[f].f)
           /\ Key[f].server # s => EventIter(s, ev, io)[f].f = flow[f]
           /\ flow[f].state # "free" =>
                EventIter(s, ev, io)[f].f.state # "free"
           /\ Key[f].server = s =>
                EventIter(s, ev, io)[f].f.state # "pfs_wait_for_server_init"
<1> SUFFICES ASSUME NEW f \in Flows
             PROVE  LET x == EventIter(s, ev, io)[f].f
                    IN  /\ FlowOk(x)
                        /\ Key[f].server # s => x = flow[f]
                        /\ flow[f].state # "free" => x.state # "free"
                        /\ Key[f].server = s =>
                             x.state # "pfs_wait_for_server_init"
  OBVIOUS
<1> DEFINE e == EnvNow(f, io, NoMsg)
           h == handle_flow_event(flow[f], ev, e)
           t == check_flow_timeout(h.f, e)
<1>1. FlowOk(flow[f])
  BY DEF IndInv
<1>2. CASE f \in FlowsOf(s)
  <2>1. e \in FlowEnv
    BY EnvNowType, NoMsgType
  <2> HIDE DEF e
  <2>2. EventIter(s, ev, io)[f] = Out(t.f, "fev_none", h.sent \/ t.sent)
    BY <1>2 DEF EventIter, e
  <2>3. EventIter(s, ev, io)[f].f = t.f
    BY <2>2 DEF Out
  <2>4. /\ ev \in CallerEvents \ {"fev_send"}
        /\ ev \notin ResultCodes /\ ev # "unsupp_version"
    BY DEF CallerEvents, ResultCodes, ShortLifeErrors, LongLifeErrors
  <2>5. /\ FlowOk(h.f)
        /\ h.f.state \notin {"free", "pfs_wait_for_server_init"}
    BY <1>1, <1>2, <2>1, <2>4, EventOk DEF FlowsOf, InDb
  <2> HIDE DEF h
  <2>6. /\ FlowOk(t.f)
        /\ t.f.state \notin {"free", "pfs_wait_for_server_init"}
    BY <2>1, <2>5, CheckTimeout
  <2> HIDE DEF t
  <2> QED BY <1>2, <2>3, <2>6 DEF FlowsOf
<1>3. CASE f \notin FlowsOf(s)
  <2>1. EventIter(s, ev, io)[f].f = flow[f]
    BY <1>3 DEF EventIter, Keep, Out
  <2> QED BY <1>1, <1>3, <2>1 DEF FlowsOf, InDb
<1> QED
  BY <1>2, <1>3

LEMMA SendAll ==
  ASSUME IndInv, NEW s \in Servers, Running(s), handle_send_all_msgs(s),
         server[s].state = "pss_send_all_msgs"
  PROVE  IndInv'
<1> DEFINE q == server[s]
           r == [q EXCEPT !.next_timeout = 0,
                          !.state = "pss_wait_io_calc_nearest_timeout"]
<1>1. /\ q \in ServerRec /\ ServerOk(s, q, flow)
      /\ q.state = "pss_send_all_msgs"
  BY Known
<1>2. PICK io \in IoChoices :
        Commit(s, r, EventIter(s, "fev_server_initialized", io))
  BY DEF handle_send_all_msgs
<1> HIDE DEF q
<1>3. /\ r \in ServerRec
      /\ r.state = "pss_wait_io_calc_nearest_timeout" /\ r.next_timeout = 0
      /\ r.restart_flow = q.restart_flow
      /\ r.ping_flow = q.ping_flow
      /\ r.pcp_version = q.pcp_version
  BY ZenonT(60), <1>1, TimerValues, StateNames DEF ServerRec
<1> HIDE DEF r
<1> DEFINE out == EventIter(s, "fev_server_initialized", io)
<1>4. \A f \in Flows :
        /\ FlowOk(out[f].f)
        /\ Key[f].server # s => out[f].f = flow[f]
        /\ flow[f].state # "free" => out[f].f.state # "free"
        /\ Key[f].server = s => out[f].f.state # "pfs_wait_for_server_init"
  BY EventIterOk
<1> HIDE DEF out
<1>5. r.ping_flow # NoFlow => r.ping_flow \in Flows
  BY <1>3 DEF ServerRec
<1>6. ServerOk(s, r, [f \in Flows |-> out[f].f])
  BY <1>1, <1>3, <1>4, <1>5 DEF ServerOk
<1> QED
  BY <1>2, <1>3, <1>4, <1>6, OwnFlows DEF out

LEMMA Restart ==
  ASSUME IndInv, NEW s \in Servers, Running(s), handle_server_restart(s),
         server[s].state = "pss_server_restart"
  PROVE  IndInv'
<1> DEFINE q == server[s]
           r == [q EXCEPT !.next_timeout = 0,
                          !.restart_flow = NoFlow,
                          !.state = "pss_wait_io_calc_nearest_timeout"]
<1>1. /\ q \in ServerRec /\ ServerOk(s, q, flow)
      /\ q.state = "pss_server_restart"
  BY Known
<1>2. PICK io \in IoChoices :
        Commit(s, r, EventIter(s, "fev_server_restarted", io))
  BY DEF handle_server_restart
<1> HIDE DEF q
<1>3. /\ r \in ServerRec
      /\ r.state = "pss_wait_io_calc_nearest_timeout" /\ r.next_timeout = 0
      /\ r.restart_flow = NoFlow
      /\ r.ping_flow = q.ping_flow
      /\ r.pcp_version = q.pcp_version
  BY ZenonT(60), <1>1, TimerValues, StateNames DEF ServerRec
<1> HIDE DEF r
<1> DEFINE out == EventIter(s, "fev_server_restarted", io)
<1>4. \A f \in Flows :
        /\ FlowOk(out[f].f)
        /\ Key[f].server # s => out[f].f = flow[f]
        /\ flow[f].state # "free" => out[f].f.state # "free"
        /\ Key[f].server = s => out[f].f.state # "pfs_wait_for_server_init"
  BY EventIterOk
<1> HIDE DEF out
<1>5. r.ping_flow # NoFlow => r.ping_flow \in Flows
  BY <1>3 DEF ServerRec
<1>6. ServerOk(s, r, [f \in Flows |-> out[f].f])
  BY <1>1, <1>3, <1>4, <1>5 DEF ServerOk
<1> QED
  BY <1>2, <1>3, <1>4, <1>6, OwnFlows DEF out

LEMMA SetNotWorking ==
  ASSUME IndInv, NEW s \in Servers, Running(s),
         handle_server_set_not_working(s),
         server[s].state = "pss_set_not_working"
  PROVE  IndInv'
<1> DEFINE q == server[s]
           r == [q EXCEPT !.next_timeout = PCP_SERVER_DISCOVERY_RETRY_DELAY,
                          !.state = "pss_not_working"]
<1>1. /\ q \in ServerRec /\ ServerOk(s, q, flow)
      /\ q.state = "pss_set_not_working"
  BY Known
<1>2. PICK io \in IoChoices : Commit(s, r, EventIter(s, "fev_failed", io))
  BY DEF handle_server_set_not_working
<1>3. PCP_SERVER_DISCOVERY_RETRY_DELAY \in Timer
  BY ClientAssumption DEF Timer
<1> HIDE DEF q
<1>4. /\ r \in ServerRec
      /\ r.state = "pss_not_working"
      /\ r.restart_flow = q.restart_flow
      /\ r.ping_flow = q.ping_flow
      /\ r.pcp_version = q.pcp_version
  BY ZenonT(60), <1>1, <1>3, TimerValues, StateNames DEF ServerRec
<1> HIDE DEF r
<1> DEFINE out == EventIter(s, "fev_failed", io)
<1>5. \A f \in Flows :
        /\ FlowOk(out[f].f)
        /\ Key[f].server # s => out[f].f = flow[f]
        /\ flow[f].state # "free" => out[f].f.state # "free"
  BY EventIterOk
<1> HIDE DEF out
<1>6. r.ping_flow # NoFlow => r.ping_flow \in Flows
  BY <1>4 DEF ServerRec
<1>7. ServerOk(s, r, [f \in Flows |-> out[f].f])
  BY <1>1, <1>4, <1>5, <1>6 DEF ServerOk
<1> QED
  BY <1>2, <1>4, <1>5, <1>7, OwnFlows DEF out, TransientStates

-----------------------------------------------------------------------------
(* The check of all timers.                                                 *)

LEMMA NatMin ==
  ASSUME NEW T, T \subseteq Nat, T # {}
  PROVE  \E x \in T : \A y \in T : x <= y
<1> DEFINE R == {p \in Nat \X Nat : p[1] < p[2]}
<1>1. IsWellFoundedOn(R, Nat)
  BY NatLessThanWellFounded, Zenon DEF OpToRel
<1>2. ASSUME NEW x \in T, NEW y \in T, <<y, x>> \notin R
      PROVE  x <= y
  <2>1. x \in Nat /\ y \in Nat
    OBVIOUS
  <2>2. ~(y < x)
    BY <1>2, <2>1
  <2> QED BY <2>1, <2>2
<1> HIDE DEF R
<1>3. \E x \in T : \A y \in T : <<y, x>> \notin R
  BY <1>1, WFMin, Zenon
<1> QED
  BY <1>2, <1>3, Zenon

LEMMA FirstIsMember ==
  ASSUME NEW S, S \subseteq Flows, S # {}
  PROVE  First(S) \in S /\ \A g \in S : First(S) <= g
<1>1. S \subseteq Nat
  BY ClientAssumption DEF Flows
<1>2. \E f \in S : \A g \in S : f <= g
  BY <1>1, NatMin
<1> QED
  BY <1>2 DEF First

LEMMA NearestTimeoutType ==
  ASSUME NEW out, \A f \in Flows : out[f].f \in FlowRec
  PROVE  NearestTimeout(out) \in Timer
<1> DEFINE armed == {f \in Flows : /\ out[f].f.state # "free"
                                   /\ out[f].f.timeout # NoTime}
           after == {f \in armed :
                       \A g \in armed : g >= f => out[g].f.timeout # 0}
           T     == {out[f].f.timeout : f \in after}
<1>1. NearestTimeout(out) = IF after = {} THEN NoTime ELSE Soonest(out, after)
  BY DEF NearestTimeout
<1>2. \A f \in armed : out[f].f.timeout \in Nat
  BY DEF FlowRec, Timer
<1>3. after \subseteq armed
  OBVIOUS
<1> HIDE DEF armed, after
<1>4. CASE after # {}
  <2>1. T \subseteq Nat /\ T # {}
    BY <1>2, <1>3, <1>4
  <2>2. \E x \in T : \A y \in T : x <= y
    BY <2>1, NatMin
  <2>3. \E f \in after : \A g \in after : out[f].f.timeout <= out[g].f.timeout
    BY <2>2
  <2>4. Soonest(out, after) \in T
    BY <2>3 DEF Soonest
  <2> QED BY <1>1, <1>4, <2>1, <2>4 DEF Timer
<1> QED
  BY <1>1, <1>4 DEF Timer

LEMMA WaitIoTimeout ==
  ASSUME IndInv, NEW s \in Servers, Running(s), handle_wait_io_timeout(s),
         server[s].state \in {"pss_wait_io",
                              "pss_wait_io_calc_nearest_timeout"}
  PROVE  IndInv'
<1>1. PICK io \in IoChoices :
        LET out == [f \in Flows |->
                      IF InDb(f)
                      THEN check_flow_timeout(flow[f], EnvNow(f, io, NoMsg))
                      ELSE Keep(f)]
        IN  Commit(s, [server[s] EXCEPT !.next_timeout = NearestTimeout(out),
                                        !.state = "pss_wait_io"],
                   out)
  BY DEF handle_wait_io_timeout
<1> DEFINE out == [f \in Flows |->
                     IF InDb(f)
                     THEN check_flow_timeout(flow[f], EnvNow(f, io, NoMsg))
                     ELSE Keep(f)]
           q == server[s]
           n == NearestTimeout(out)
           r == [q EXCEPT !.next_timeout = n, !.state = "pss_wait_io"]
<1>2. Commit(s, r, out)
  BY <1>1
<1>3. ASSUME NEW f \in Flows
      PROVE  /\ FlowOk(out[f].f)
             /\ out[f].f.state # "pfs_send"
             /\ Mild(out[f].f, flow[f])
  <2>1. FlowOk(flow[f])
    BY DEF IndInv
  <2>2. CASE InDb(f)
    <3> DEFINE e == EnvNow(f, io, NoMsg)
    <3>1. Key[f].server \in Servers
      BY EnvNowType, NoMsgType
    <3>2. server[Key[f].server].state # "pss_server_restart"
      BY <3>1 DEF Running, TransientStates
    <3>3. e \in FlowEnv /\ ~e.restart
      BY <3>2, EnvNowType, NoMsgType
    <3> HIDE DEF e
    <3>4. out[f] = check_flow_timeout(flow[f], e)
      BY <2>2 DEF e
    <3> QED BY <2>1, <2>2, <3>3, <3>4, CheckTimeout DEF InDb
  <2>3. CASE ~InDb(f)
    <3>1. out[f].f = flow[f]
      BY <2>3 DEF Keep, Out
    <3> QED BY <2>1, <2>3, <3>1 DEF InDb, Mild
  <2> QED BY <2>2, <2>3
<1> HIDE DEF out
<1>4. n \in Timer
  BY <1>3, NearestTimeoutType DEF FlowOk
<1>5. /\ q \in ServerRec /\ ServerOk(s, q, flow)
      /\ q.state \in {"pss_wait_io", "pss_wait_io_calc_nearest_timeout"}
  BY Known
<1> HIDE DEF n, q
<1>6. /\ r \in ServerRec
      /\ r.state = "pss_wait_io"
      /\ r.restart_flow = q.restart_flow
      /\ r.ping_flow = q.ping_flow
      /\ r.pcp_version = q.pcp_version
  BY ZenonT(60), <1>4, <1>5, TimerValues, StateNames DEF ServerRec
<1> HIDE DEF r
<1>7. r.ping_flow # NoFlow => r.ping_flow \in Flows
  BY <1>6 DEF ServerRec
<1>8. ServerOk(s, r, [f \in Flows |-> out[f].f])
  BY <1>3, <1>5, <1>6, <1>7 DEF ServerOk, Mild
<1>9. StepOk(s, r, out)
  BY <1>3, <1>6, <1>8 DEF StepOk, TransientStates
<1> QED
  BY <1>2, <1>9, CommitPreserves

-----------------------------------------------------------------------------
(* Pings.                                                                   *)

LEMMA Ping ==
  ASSUME IndInv, NEW s \in Servers, Running(s), handle_server_ping(s),
         server[s].state = "pss_ping"
  PROVE  IndInv'
<1> DEFINE res(f, io) ==
             handle_flow_event([flow[f] EXCEPT !.retry_count = 0],
                               "fev_send", EnvNow(f, io, NoMsg))
           sent(io) == {f \in Pingable(s) :
                          res(f, io).f.state # "pfs_failed"}
           found(io) ==
             Commit(s, [server[s] EXCEPT
                          !.ping_count = 0,
                          !.ping_flow = First(sent(io)),
                          !.next_timeout = res(First(sent(io)), io).f.timeout,
                          !.state = "pss_wait_ping_resp"],
                    [f \in Flows |->
                       IF f \in Pingable(s) /\ f <= First(sent(io))
                       THEN res(f, io) ELSE Keep(f)])
           none(io) ==
             Commit(s, [server[s] EXCEPT !.ping_count = 0,
                                         !.ping_flow = NoFlow,
                                         !.next_timeout = NoTime,
                                         !.state = "pss_ping"],
                    [f \in Flows |-> IF f \in Pingable(s)
                                     THEN res(f, io) ELSE Keep(f)])
<1>1. PICK io \in IoChoices : \/ sent(io) # {} /\ found(io)
                              \/ sent(io) = {} /\ none(io)
  BY DEF handle_server_ping
<1> DEFINE q == server[s]
           R(f) == res(f, io)
           p == First(sent(io))
<1>2. /\ q \in ServerRec /\ ServerOk(s, q, flow)
      /\ q.state = "pss_ping" /\ 0 \in 0 .. PCP_MAX_PING_COUNT
  BY Known, ClientAssumption
<1>3. \A f \in Pingable(s) :
        f \in Flows /\ Key[f].server = s /\ flow[f].state # "free"
  BY DEF Pingable, FlowsOf, InDb
<1>4. ASSUME NEW f \in Pingable(s)
      PROVE  FlowOk(R(f).f) /\ R(f).f.state \in {"pfs_wait_resp", "pfs_failed"}
  <2> DEFINE b == flow[f]
             g == [b EXCEPT !.retry_count = 0]
             e == EnvNow(f, io, NoMsg)
  <2>1. b \in FlowRec /\ b.state # "free" /\ 0 \in 0 .. PCP_RETX_MRC
    BY <1>3, Known, RetxAssumption
  <2>2. e \in FlowEnv /\ ~e.restart
    BY <1>3, EnvNowType, NoMsgType
  <2> HIDE DEF b, e
  <2>3. g \in FlowRec /\ g.state # "free"
    BY <2>1 DEF FlowRec
  <2> HIDE DEF g
  <2>4. R(f) = handle_flow_event(g, "fev_send", e)
    BY DEF g, e, b
  <2> HIDE DEF R
  <2> QED BY <2>2, <2>3, <2>4, SendEvent
<1>5. \A f \in Flows : FlowOk(flow[f])
  BY DEF IndInv
<1>6. CASE sent(io) # {} /\ found(io)
  <2>1. p \in Flows /\ p \in Pingable(s) /\ R(p).f.state = "pfs_wait_resp"
    <3> DEFINE S == sent(io)
    <3>1. S \subseteq Flows /\ S # {}
      BY <1>3, <1>6
    <3>2. \A f \in S : f \in Pingable(s) /\ R(f).f.state # "pfs_failed"
      OBVIOUS
    <3> HIDE DEF S, R
    <3>3. First(S) \in S
      BY <3>1, FirstIsMember
    <3>4. First(S) \in Flows /\ First(S) \in Pingable(s)
          /\ R(First(S)).f.state = "pfs_wait_resp"
      BY <3>1, <3>2, <3>3, <1>4
    <3> QED BY <3>4 DEF S
  <2> DEFINE t == R(p).f.timeout
             r == [q EXCEPT !.ping_count = 0,
                            !.ping_flow = p,
                            !.next_timeout = t,
                            !.state = "pss_wait_ping_resp"]
             out == [f \in Flows |-> IF f \in Pingable(s) /\ f <= p
                                     THEN R(f) ELSE Keep(f)]
  <2>2. Commit(s, r, out)
    BY <1>6
  <2> HIDE DEF q, R, p
  <2>3. t \in Timer /\ t # NoTime
    BY <1>4, <2>1 DEF FlowOk, FlowRec
  <2>4. \A f \in Flows : out[f].f = IF f \in Pingable(s) /\ f <= p
                                    THEN R(f).f ELSE flow[f]
    BY DEF Keep, Out
  <2>5. p <= p
    BY <2>1, ClientAssumption DEF Flows
  <2> HIDE DEF t, out
  <2>6. /\ r \in ServerRec
        /\ r.state = "pss_wait_ping_resp" /\ r.next_timeout = t
        /\ r.ping_flow = p /\ r.restart_flow = q.restart_flow
        /\ r.pcp_version = q.pcp_version
    BY ZenonT(60), <1>2, <2>1, <2>3, TimerValues, StateNames DEF ServerRec
  <2> HIDE DEF r
  <2>7. \A f \in Flows : /\ FlowOk(out[f].f)
                         /\ Key[f].server # s => out[f].f = flow[f]
    BY <1>3, <1>4, <1>5, <2>4
  <2>8. out[p].f.state = "pfs_wait_resp" /\ Key[p].server = s
    BY <1>3, <2>1, <2>4, <2>5
  <2>9. ServerOk(s, r, [f \in Flows |-> out[f].f])
    BY <1>2, <2>1, <2>3, <2>6, <2>8 DEF ServerOk, Trying
  <2> QED BY <2>2, <2>6, <2>7, <2>9, OwnFlows DEF TransientStates
<1>7. CASE sent(io) = {} /\ none(io)
  <2> DEFINE r == [q EXCEPT !.ping_count = 0,
                            !.ping_flow = NoFlow,
                            !.next_timeout = NoTime,
                            !.state = "pss_ping"]
             out == [f \in Flows |-> IF f \in Pingable(s)
                                     THEN R(f) ELSE Keep(f)]
  <2>1. Commit(s, r, out)
    BY <1>7
  <2> HIDE DEF q, R, p
  <2>2. \A f \in Flows : out[f].f = IF f \in Pingable(s)
                                    THEN R(f).f ELSE flow[f]
    BY DEF Keep, Out
  <2> HIDE DEF out
  <2>3. /\ r \in ServerRec
        /\ r.state = "pss_ping" /\ r.restart_flow = q.restart_flow
        /\ r.pcp_version = q.pcp_version
    BY ZenonT(60), <1>2, TimerValues, StateNames DEF ServerRec
  <2> HIDE DEF r
  <2>4. \A f \in Flows : /\ FlowOk(out[f].f)
                         /\ Key[f].server # s => out[f].f = flow[f]
    BY <1>3, <1>4, <1>5, <2>2
  <2>5. ServerOk(s, r, [f \in Flows |-> out[f].f])
    BY <1>2, <2>3 DEF ServerOk
  <2> QED BY <2>1, <2>3, <2>4, <2>5, OwnFlows DEF TransientStates
<1> QED
  BY <1>1, <1>6, <1>7

LEMMA PingTimeout ==
  ASSUME IndInv, NEW s \in Servers, Running(s),
         handle_wait_ping_resp_timeout(s),
         server[s].state = "pss_wait_ping_resp"
  PROVE  IndInv'
<1> DEFINE q == server[s]
           p == q.ping_flow
           count == IF q.ping_count < PCP_MAX_PING_COUNT
                    THEN q.ping_count + 1 ELSE PCP_MAX_PING_COUNT
           keep == [f \in Flows |-> Keep(f)]
           r1 == [q EXCEPT !.ping_count = count, !.next_timeout = 0,
                           !.state = "pss_set_not_working"]
           r2 == [q EXCEPT !.ping_count = count, !.next_timeout = 0,
                           !.state = "pss_ping"]
           res(io) == handle_flow_event(flow[p], "fev_flow_timedout",
                                        EnvNow(p, io, NoMsg))
<1>1. \/ Commit(s, r1, keep)
      \/ Commit(s, r2, keep)
      \/ /\ p # NoFlow
         /\ \E io \in IoChoices :
              Commit(s, Repinged(s, count, res(io)),
                     [f \in Flows |-> IF f = p THEN res(io) ELSE Keep(f)])
  BY DEF handle_wait_ping_resp_timeout
<1>2. /\ q \in ServerRec /\ ServerOk(s, q, flow)
      /\ q.state = "pss_wait_ping_resp"
  BY Known
<1>3. count \in 0 .. PCP_MAX_PING_COUNT
  <2>1. q.ping_count \in 0 .. PCP_MAX_PING_COUNT
    BY <1>2 DEF ServerRec
  <2> QED BY <2>1, ClientAssumption
<1>4. CASE Commit(s, r1, keep)
  <2> HIDE DEF q, count
  <2>1. /\ r1 \in ServerRec
        /\ r1.state = "pss_set_not_working" /\ r1.next_timeout = 0
        /\ r1.ping_flow = q.ping_flow /\ r1.restart_flow = q.restart_flow
        /\ r1.pcp_version = q.pcp_version
    BY ZenonT(60), <1>2, <1>3, TimerValues, StateNames DEF ServerRec
  <2> HIDE DEF r1
  <2>2. ServerOk(s, r1, flow)
    BY <1>2, <2>1 DEF ServerOk
  <2> QED BY <1>4, <2>1, <2>2, KeepPreserves
<1>5. CASE Commit(s, r2, keep)
  <2> HIDE DEF q, count
  <2>1. /\ r2 \in ServerRec
        /\ r2.state = "pss_ping" /\ r2.restart_flow = q.restart_flow
        /\ r2.pcp_version = q.pcp_version
    BY ZenonT(60), <1>2, <1>3, TimerValues, StateNames DEF ServerRec
  <2> HIDE DEF r2
  <2>2. ServerOk(s, r2, flow)
    BY <1>2, <2>1 DEF ServerOk
  <2> QED BY <1>5, <2>1, <2>2, KeepPreserves DEF TransientStates
<1>6. ASSUME p # NoFlow, NEW io \in IoChoices,
             Commit(s, Repinged(s, count, res(io)),
                    [f \in Flows |-> IF f = p THEN res(io) ELSE Keep(f)])
      PROVE  IndInv'
  <2> DEFINE R == res(io)
             h == R.f
             r == Repinged(s, count, R)
             out == [f \in Flows |-> IF f = p THEN R ELSE Keep(f)]
             e == EnvNow(p, io, NoMsg)
  <2>1. Commit(s, r, out)
    BY <1>6
  <2>2. /\ p \in Flows /\ Key[p].server = s
        /\ flow[p].state \in Trying
    BY <1>2, <1>6 DEF ServerOk, ServerRec
  <2>3. e \in FlowEnv /\ ~e.restart
    BY <2>2, EnvNowType, NoMsgType
  <2>4. R = handle_flow_event(flow[p], "fev_flow_timedout", e)
    OBVIOUS
  <2>5. \A f \in Flows : FlowOk(flow[f])
    BY DEF IndInv
  <2> HIDE DEF R, e
  <2>6. FlowOk(h) /\ h.state \in {"pfs_wait_resp", "pfs_failed"}
    <3>1. /\ "fev_flow_timedout" \in CallerEvents \ {"fev_send"}
          /\ "fev_flow_timedout" \notin ResultCodes
      BY DEF CallerEvents, ResultCodes, ShortLifeErrors, LongLifeErrors
    <3>2. FlowOk(flow[p]) /\ flow[p].state # "free"
      BY <2>2, <2>5 DEF Trying
    <3> QED BY <2>2, <2>3, <2>4, <3>1, <3>2, EventOk
  <2>7. \A f \in Flows : out[f].f = IF f = p THEN h ELSE flow[f]
    BY DEF Keep, Out
  <2>8. h.timeout \in Timer /\ (h.state # "pfs_failed" => h.timeout # NoTime)
    BY <2>6 DEF FlowOk, FlowRec
  <2> DEFINE dead == h.state = "pfs_failed"
             t  == IF dead THEN 0 ELSE h.timeout
             st == IF dead THEN "pss_set_not_working"
                   ELSE "pss_wait_ping_resp"
  <2>9. r = [q EXCEPT !.ping_count = count, !.next_timeout = t, !.state = st]
    BY DEF Repinged
  <2>10. /\ t \in Timer /\ st \in ServerStates
         /\ \/ st = "pss_set_not_working" /\ t = 0
            \/ /\ st = "pss_wait_ping_resp" /\ t # NoTime
               /\ h.state = "pfs_wait_resp"
    BY <2>6, <2>8 DEF Timer, ServerStates
  <2> HIDE DEF q, count, t, st, out, h, r
  <2>11. /\ r \in ServerRec
         /\ r.state = st /\ r.next_timeout = t
         /\ r.ping_flow = q.ping_flow /\ r.restart_flow = q.restart_flow
         /\ r.pcp_version = q.pcp_version
    BY ZenonT(60), <1>2, <1>3, <2>9, <2>10 DEF ServerRec
  <2>12. h.state # "free"
    BY <2>6
  <2> HIDE DEF p
  <2>13. r.ping_flow = p
    BY <2>11 DEF p
  <2>14. ServerOk(s, r, [f \in Flows |-> out[f].f])
    BY <1>2, <2>2, <2>7, <2>10, <2>11, <2>12, <2>13 DEF ServerOk, Trying
  <2>15. \A f \in Flows : /\ FlowOk(out[f].f)
                          /\ Key[f].server # s => out[f].f = flow[f]
    BY <2>2, <2>5, <2>6, <2>7
  <2> QED BY <2>1, <2>10, <2>11, <2>14, <2>15, OwnFlows DEF TransientStates
<1> QED
  BY <1>1, <1>4, <1>5, <1>6

-----------------------------------------------------------------------------
(* Messages.                                                                *)

(* A message that server s can have sent. *)
MessageOf(s, m) ==
  /\ m.flow \in Flows /\ Key[m.flow].server = s
  /\ m.result \in ResultCodes
  /\ m.lifetime \in Nat
  /\ m.version \in Versions

LEMMA AnswersType ==
  ASSUME NEW s \in Servers, NEW m \in Answers(s)
  PROVE  MessageOf(s, m)
<1>2. /\ m.flow \in Flows /\ Key[m.flow].server = s
      /\ m.result \in Results /\ m.lifetime \in Granted \cup {0}
      /\ m.version \in Versions
  BY DEF Answers
<1>3. m.result \in ResultCodes
  BY <1>2, EnvironmentAssumption
<1>4. m.lifetime \in Nat
  <2>1. Granted \cup {0} \subseteq Nat
    BY EnvironmentAssumption
  <2> QED BY <1>2, <2>1
<1> QED
  BY <1>2, <1>3, <1>4 DEF MessageOf

LEMMA ProcessedOk ==
  ASSUME IndInv, NEW s \in Servers, NEW m, MessageOf(s, m),
         m.result # "unsupp_version", NEW io \in IoChoices,
         server[s].state \notin {"pss_unitialized", "pss_allocated",
                                 "pss_ping"}
  PROVE  /\ MatchingFlow(s, m) \in Flows \cup {NoFlow}
         /\ \A f \in Flows :
              /\ FlowOk(Processed(s, m, io)[f].f)
              /\ Key[f].server # s => Processed(s, m, io)[f].f = flow[f]
              /\ flow[f].state # "free" =>
                   Processed(s, m, io)[f].f.state # "free"
              /\ Processed(s, m, io)[f].f.state = "pfs_wait_for_server_init"
                   => flow[f].state = "pfs_wait_for_server_init"
<1> DEFINE mf == MatchingFlow(s, m)
<1>1. mf = NoFlow \/ (mf \in Flows /\ Key[mf].server = s
                      /\ flow[mf].state # "free")
  <2>1. ServerOk(s, server[s], flow) /\ server[s] \in ServerRec
    BY Known
  <2>2. server[s].ping_flow # NoFlow =>
          /\ server[s].ping_flow \in Flows
          /\ Key[server[s].ping_flow].server = s
          /\ flow[server[s].ping_flow].state # "free"
    BY <2>1 DEF ServerOk, ServerRec
  <2>3. AnnounceFlows(s) # {} =>
          /\ First(AnnounceFlows(s)) \in Flows
          /\ Key[First(AnnounceFlows(s))].server = s
          /\ flow[First(AnnounceFlows(s))].state # "free"
    <3>1. AnnounceFlows(s) # {} => First(AnnounceFlows(s)) \in AnnounceFlows(s)
      BY FirstIsMember DEF AnnounceFlows
    <3> QED BY <3>1 DEF AnnounceFlows, InDb
  <2> QED BY <2>2, <2>3 DEF MatchingFlow, MessageOf, InDb
<1>2. ASSUME NEW f \in Flows
      PROVE  LET x == Processed(s, m, io)[f].f
             IN  /\ FlowOk(x)
                 /\ Key[f].server # s => x = flow[f]
                 /\ flow[f].state # "free" => x.state # "free"
                 /\ x.state = "pfs_wait_for_server_init" =>
                      flow[f].state = "pfs_wait_for_server_init"
  <2>1. FlowOk(flow[f])
    BY DEF IndInv
  <2>2. CASE f = mf
    <3> DEFINE e == EnvNow(f, io, m)
    <3>1. e \in FlowEnv /\ e.result = m.result
      BY EnvNowType DEF MessageOf
    <3>2. Processed(s, m, io)[f] = handle_flow_event(flow[f], m.result, e)
      BY <2>2 DEF Processed
    <3>3. /\ flow[f].state # "free" /\ Key[f].server = s
      BY <1>1, <2>2, ClientAssumption DEF Flows, NoFlow
    <3>4. m.result \in CallerEvents \ {"fev_send"}
      BY DEF MessageOf, CallerEvents, ResultCodes, ShortLifeErrors,
         LongLifeErrors
    <3> HIDE DEF e, mf
    <3> QED BY <2>1, <3>1, <3>2, <3>3, <3>4, EventOk
  <2>3. CASE f # mf
    <3>1. Processed(s, m, io)[f].f = flow[f]
      BY <2>3 DEF Processed, Keep, Out
    <3> QED BY <2>1, <3>1
  <2> QED BY <2>2, <2>3
<1> QED
  BY <1>1, <1>2

LEMMA Receive ==
  ASSUME IndInv, NEW s \in Servers, Running(s), NEW m, MessageOf(s, m),
         NEW goOn, ReceiveMsg(s, m, goOn),
         \/ /\ server[s].state = "pss_wait_io"
            /\ goOn = "pss_wait_io_calc_nearest_timeout"
         \/ /\ server[s].state = "pss_wait_ping_resp"
            /\ goOn = "pss_send_all_msgs"
  PROVE  IndInv'
<1> DEFINE q == server[s]
           mf == MatchingFlow(s, m)
           keep == [f \in Flows |-> Keep(f)]
           r1 == [q EXCEPT !.next_timeout = 0, !.next_version = m.version,
                           !.state = "pss_version_negotiation"]
           r2 == [q EXCEPT !.next_timeout = 0, !.state = "pss_set_not_working"]
           r3 == [q EXCEPT !.next_timeout = 0, !.restart_flow = mf,
                           !.state = "pss_server_restart"]
           r4 == [q EXCEPT !.epoch_known = TRUE, !.next_timeout = 0,
                           !.state = goOn]
<1>1. \/ Commit(s, r1, keep)
      \/ Commit(s, r2, keep)
      \/ /\ m.result # "unsupp_version"
         /\ \E io \in IoChoices : \/ Commit(s, r3, Processed(s, m, io))
                                  \/ Commit(s, r4, Processed(s, m, io))
  BY DEF ReceiveMsg
<1>2. /\ q \in ServerRec /\ ServerOk(s, q, flow)
      /\ \/ q.state = "pss_wait_io"
            /\ goOn = "pss_wait_io_calc_nearest_timeout"
         \/ q.state = "pss_wait_ping_resp" /\ goOn = "pss_send_all_msgs"
  BY Known
<1>3. m.version \in 0 .. 255 /\ m.version <= PCP_MAX_SUPPORTED_VERSION
  BY ClientAssumption DEF MessageOf, Versions
<1>4. CASE Commit(s, r1, keep)
  <2> HIDE DEF q
  <2>1. /\ r1 \in ServerRec
        /\ r1.state = "pss_version_negotiation" /\ r1.next_timeout = 0
        /\ r1.ping_flow = q.ping_flow /\ r1.restart_flow = q.restart_flow
        /\ r1.pcp_version = q.pcp_version /\ r1.next_version = m.version
    BY ZenonT(60), <1>2, <1>3, TimerValues, StateNames DEF ServerRec
  <2> HIDE DEF r1
  <2>2. ServerOk(s, r1, flow)
    BY <1>2, <1>3, <2>1 DEF ServerOk
  <2> QED BY <1>4, <2>1, <2>2, KeepPreserves
<1>5. CASE Commit(s, r2, keep)
  <2> HIDE DEF q
  <2>1. /\ r2 \in ServerRec
        /\ r2.state = "pss_set_not_working" /\ r2.next_timeout = 0
        /\ r2.ping_flow = q.ping_flow /\ r2.restart_flow = q.restart_flow
        /\ r2.pcp_version = q.pcp_version
    BY ZenonT(60), <1>2, TimerValues, StateNames DEF ServerRec
  <2> HIDE DEF r2
  <2>2. ServerOk(s, r2, flow)
    BY <1>2, <2>1 DEF ServerOk
  <2> QED BY <1>5, <2>1, <2>2, KeepPreserves
<1>6. ASSUME m.result # "unsupp_version", NEW io \in IoChoices,
             Commit(s, r3, Processed(s, m, io))
             \/ Commit(s, r4, Processed(s, m, io))
      PROVE  IndInv'
  <2> DEFINE out == Processed(s, m, io)
  <2>1. /\ mf \in Flows \cup {NoFlow}
        /\ \A f \in Flows :
             /\ FlowOk(out[f].f)
             /\ Key[f].server # s => out[f].f = flow[f]
             /\ flow[f].state # "free" => out[f].f.state # "free"
             /\ out[f].f.state = "pfs_wait_for_server_init"
                  => flow[f].state = "pfs_wait_for_server_init"
    BY <1>2, <1>6, ProcessedOk
  <2>2. Commit(s, r3, out) \/ Commit(s, r4, out)
    BY <1>6
  <2>3. q \in ServerRec /\ mf \in Flows \cup {NoFlow}
    BY <1>2, <2>1
  <2>4. goOn \in ServerStates
    BY <1>2 DEF ServerStates
  <2> HIDE DEF out, q, mf
  <2>5. /\ r3 \in ServerRec
        /\ r3.state = "pss_server_restart" /\ r3.next_timeout = 0
        /\ r3.ping_flow = q.ping_flow
        /\ r3.pcp_version = q.pcp_version
    <3>1. 0 \in Timer /\ "pss_server_restart" \in ServerStates
      BY DEF Timer, ServerStates
    <3> QED BY ZenonT(60), <2>3, <3>1 DEF ServerRec
  <2>6. /\ r4 \in ServerRec
        /\ r4.state = goOn /\ r4.next_timeout = 0
        /\ r4.ping_flow = q.ping_flow /\ r4.restart_flow = q.restart_flow
        /\ r4.pcp_version = q.pcp_version
    <3>1. 0 \in Timer
      BY DEF Timer
    <3> QED BY <2>3, <2>4, <3>1 DEF ServerRec
  <2> HIDE DEF r3, r4
  <2>7. q.ping_flow # NoFlow => q.ping_flow \in Flows
    BY <2>3 DEF ServerRec
  <2>8. ServerOk(s, r3, [f \in Flows |-> out[f].f])
    BY <1>2, <2>1, <2>5, <2>7 DEF ServerOk
  <2>9. ServerOk(s, r4, [f \in Flows |-> out[f].f])
    BY <1>2, <2>1, <2>6, <2>7 DEF ServerOk
  <2> QED
    BY <2>1, <2>2, <2>5, <2>6, <2>8, <2>9, OwnFlows
<1> QED
  BY <1>1, <1>4, <1>5, <1>6

LEMMA NotWorkingMsg ==
  ASSUME IndInv, NEW s \in Servers, Running(s), NEW m, MessageOf(s, m),
         handle_server_not_working_msg(s, m),
         server[s].state = "pss_not_working"
  PROVE  IndInv'
<1> DEFINE q == server[s]
           mf == MatchingFlow(s, m)
           r == [q EXCEPT !.epoch_known = TRUE, !.next_timeout = 0,
                          !.restart_flow = mf,
                          !.state = "pss_server_restart"]
<1>1. \/ Commit(s, q, [f \in Flows |-> Keep(f)])
      \/ /\ m.result # "unsupp_version"
         /\ \E io \in IoChoices : Commit(s, r, Processed(s, m, io))
  BY DEF handle_server_not_working_msg
<1>2. /\ q \in ServerRec /\ ServerOk(s, q, flow)
      /\ q.state = "pss_not_working"
  BY Known
<1>3. CASE Commit(s, q, [f \in Flows |-> Keep(f)])
  BY <1>2, <1>3, KeepPreserves DEF TransientStates
<1>4. ASSUME m.result # "unsupp_version", NEW io \in IoChoices,
             Commit(s, r, Processed(s, m, io))
      PROVE  IndInv'
  <2> DEFINE out == Processed(s, m, io)
  <2>1. /\ mf \in Flows \cup {NoFlow}
        /\ \A f \in Flows :
             /\ FlowOk(out[f].f)
             /\ Key[f].server # s => out[f].f = flow[f]
             /\ flow[f].state # "free" => out[f].f.state # "free"
    BY <1>2, <1>4, ProcessedOk
  <2>2. Commit(s, r, out)
    BY <1>4
  <2> HIDE DEF out, q, mf
  <2>3. /\ r \in ServerRec
        /\ r.state = "pss_server_restart" /\ r.next_timeout = 0
        /\ r.ping_flow = q.ping_flow
        /\ r.pcp_version = q.pcp_version
    BY ZenonT(60), <1>2, <2>1, TimerValues, StateNames DEF ServerRec
  <2> HIDE DEF r
  <2>4. q.ping_flow # NoFlow => q.ping_flow \in Flows
    BY <1>2 DEF ServerRec
  <2>5. ServerOk(s, r, [f \in Flows |-> out[f].f])
    BY <1>2, <2>1, <2>3, <2>4 DEF ServerOk
  <2> QED
    BY <2>1, <2>2, <2>3, <2>5, OwnFlows
<1> QED
  BY <1>1, <1>3, <1>4

-----------------------------------------------------------------------------
(* Version negotiation.                                                     *)

LEMMA PingAgainOk ==
  ASSUME IndInv, NEW s \in Servers, Running(s),
         server[s].state = "pss_version_negotiation",
         NEW v \in Versions, NEW p \in Flows, Key[p].server = s,
         NEW g \in FlowRec, g.state # "free",
         NEW w, w # NoFlow => w \in Flows /\ Key[w].server = s,
         PingAgain(s, v, p, g, w)
  PROVE  IndInv'
<1> DEFINE q == server[s]
           srv == [q EXCEPT !.next_version = v, !.pcp_version = v,
                            !.ping_flow = p]
           b == [g EXCEPT !.retry_count = 0, !.resend_timeout = 0]
           res(io) == handle_flow_event(b, "fev_send", Env(srv, p, io, NoMsg))
           off(f) == [flow[f] EXCEPT !.state = "pfs_wait_for_server_init",
                                     !.timeout = NoTime]
<1>1. PICK io \in IoChoices :
        Commit(s, [srv EXCEPT
                     !.next_timeout = IF res(io).f.state = "pfs_failed"
                                      THEN srv.next_timeout
                                      ELSE res(io).f.timeout,
                     !.state = IF res(io).f.state = "pfs_failed"
                               THEN "pss_set_not_working"
                               ELSE "pss_wait_ping_resp"],
               [f \in Flows |-> IF f = p THEN res(io)
                                ELSE IF f = w
                                THEN Out(off(f), "fev_none", FALSE)
                                ELSE Keep(f)])
  BY DEF PingAgain
<1> DEFINE e == Env(srv, p, io, NoMsg)
           R == res(io)
           h == R.f
<1>2. /\ q \in ServerRec /\ ServerOk(s, q, flow)
      /\ q.state = "pss_version_negotiation" /\ q.next_timeout = 0
      /\ q.restart_flow # p
  BY Known DEF TransientStates
<1>3. v \in 0 .. 255 /\ v <= PCP_MAX_SUPPORTED_VERSION
  BY ClientAssumption DEF Versions
<1>4. \A f \in Flows : FlowOk(flow[f])
  BY DEF IndInv
<1> DEFINE dead == h.state = "pfs_failed"
           t  == IF dead THEN srv.next_timeout ELSE h.timeout
           st == IF dead THEN "pss_set_not_working"
                 ELSE "pss_wait_ping_resp"
           r == [srv EXCEPT !.next_timeout = t, !.state = st]
           out == [f \in Flows |-> IF f = p THEN R
                                   ELSE IF f = w
                                   THEN Out(off(f), "fev_none", FALSE)
                                   ELSE Keep(f)]
<1>5. Commit(s, r, out)
  BY <1>1
<1> HIDE DEF q
<1>6. /\ srv \in ServerRec
      /\ srv.pcp_version = v /\ srv.ping_flow = p
      /\ srv.restart_flow = q.restart_flow
      /\ srv.next_timeout = q.next_timeout
  <2>1. q \in ServerRec
    BY <1>2
  <2>2. v \in 0 .. 255
    BY <1>3
  <2> QED BY ZenonT(60), <2>1, <2>2 DEF ServerRec
<1> HIDE DEF srv
<1>7. b \in FlowRec /\ b.state # "free"
  <2>1. 0 \in 0 .. PCP_RETX_MRC
    BY RetxAssumption
  <2> QED BY <2>1 DEF FlowRec
<1> HIDE DEF b
<1>8. e \in FlowEnv /\ ~e.restart
  BY <1>2, <1>6, EnvType, NoMsgType
<1> HIDE DEF e
<1>9. FlowOk(h) /\ h.state \in {"pfs_wait_resp", "pfs_failed"}
  <2>1. R = handle_flow_event(b, "fev_send", e)
    BY DEF e
  <2> HIDE DEF R
  <2> QED BY <1>7, <1>8, <2>1, SendEvent
<1>10. ASSUME NEW f \in Flows
       PROVE  FlowOk(off(f))
  <2> DEFINE c == flow[f]
             o == [c EXCEPT !.state = "pfs_wait_for_server_init",
                            !.timeout = NoTime]
  <2>1. c \in FlowRec
    BY <1>4 DEF FlowOk
  <2> HIDE DEF c
  <2>2. o \in FlowRec /\ o.state = "pfs_wait_for_server_init"
    BY <2>1 DEF FlowRec, FlowStates, Timer
  <2> HIDE DEF o
  <2>3. FlowOk(o)
    BY <2>2 DEF FlowOk
  <2> QED BY <2>3 DEF o, c
<1> HIDE DEF R, h, off
<1>11. \A f \in Flows : out[f].f = IF f = p THEN h
                                   ELSE IF f = w THEN off(f) ELSE flow[f]
  BY DEF Keep, Out, h
<1>12. /\ t \in Timer /\ st \in ServerStates
       /\ \/ st = "pss_set_not_working" /\ t = 0
          \/ /\ st = "pss_wait_ping_resp" /\ t # NoTime
             /\ h.state = "pfs_wait_resp"
  <2>1. h.timeout \in Timer /\ (h.state # "pfs_failed" => h.timeout # NoTime)
    BY <1>9 DEF FlowOk, FlowRec
  <2> QED BY <1>2, <1>6, <1>9, <2>1 DEF Timer, ServerStates
<1> HIDE DEF t, st, out
<1>13. /\ r \in ServerRec
       /\ r.state = st /\ r.next_timeout = t
       /\ r.ping_flow = p /\ r.restart_flow = q.restart_flow
       /\ r.pcp_version = v
  BY <1>6, <1>12 DEF ServerRec
<1> HIDE DEF r
<1>14. h.state # "free"
  BY <1>9
<1>15. ServerOk(s, r, [f \in Flows |-> out[f].f])
  BY <1>2, <1>3, <1>11, <1>12, <1>13, <1>14 DEF ServerOk, Trying
<1>16. \A f \in Flows : /\ FlowOk(out[f].f)
                        /\ Key[f].server # s => out[f].f = flow[f]
  <2>1. \A f \in Flows : f # NoFlow
    BY ClientAssumption DEF Flows, NoFlow
  <2> QED BY <1>4, <1>9, <1>10, <1>11, <2>1
<1> QED
  BY <1>5, <1>12, <1>13, <1>15, <1>16, OwnFlows DEF TransientStates

LEMMA Negotiate ==
  ASSUME IndInv, NEW s \in Servers, Running(s),
         handle_version_negotiation(s),
         server[s].state = "pss_version_negotiation"
  PROVE  IndInv'
<1> DEFINE q == server[s]
           v == q.pcp_version
           nv == IF q.next_version = v THEN (q.next_version + 255) % 256
                 ELSE q.next_version
           p == q.ping_flow
           F == FreeAnnounce(s)
           P == Pingable(s)
           keep == [f \in Flows |-> Keep(f)]
           r1 == [q EXCEPT !.next_version = nv,
                           !.state = "pss_set_not_working"]
           r2 == [q EXCEPT !.next_version = nv, !.pcp_version = nv,
                           !.next_timeout = NoTime, !.state = "pss_ping"]
<1>1. \/ Commit(s, r1, keep)
      \/ v # 0 /\ F # {}
         /\ PingAgain(s, nv, First(F), NewFlow("pfs_idle", 0, NoTime), p)
      \/ v # 0 /\ p # NoFlow /\ PingAgain(s, nv, p, flow[p], NoFlow)
      \/ v # 0 /\ P # {}
         /\ PingAgain(s, nv, First(P), flow[First(P)], NoFlow)
      \/ v # 0 /\ Commit(s, r2, keep)
  BY DEF handle_version_negotiation, NothingLower
<1>2. /\ q \in ServerRec /\ ServerOk(s, q, flow)
      /\ q.state = "pss_version_negotiation" /\ q.next_timeout = 0
      /\ flow \in [Flows -> FlowRec]
  BY Known DEF TransientStates
<1>3. /\ p # NoFlow => /\ p \in Flows /\ Key[p].server = s
                       /\ flow[p] \in FlowRec /\ flow[p].state # "free"
      /\ v \in 0 .. 255 /\ q.next_version \in 0 .. 255
      /\ v <= PCP_MAX_SUPPORTED_VERSION
      /\ q.next_version <= PCP_MAX_SUPPORTED_VERSION
  BY <1>2 DEF ServerOk, ServerRec
<1>4. nv \in 0 .. 255 /\ (v # 0 => nv \in Versions)
  <2> HIDE DEF q, v
  <2>1. CASE q.next_version = v
    BY <1>3, <2>1, ClientAssumption DEF Versions
  <2>2. CASE q.next_version # v
    BY <1>3, <2>2, ClientAssumption DEF Versions
  <2> QED BY <2>1, <2>2
<1> HIDE DEF nv
<1>5. CASE Commit(s, r1, keep)
  <2> HIDE DEF q
  <2>1. /\ r1 \in ServerRec
        /\ r1.state = "pss_set_not_working"
        /\ r1.next_timeout = q.next_timeout
        /\ r1.ping_flow = q.ping_flow /\ r1.restart_flow = q.restart_flow
        /\ r1.pcp_version = q.pcp_version
    <3>1. q \in ServerRec /\ "pss_set_not_working" \in ServerStates
      BY <1>2 DEF ServerStates
    <3>2. nv \in 0 .. 255
      BY <1>4
    <3> QED BY <3>1, <3>2 DEF ServerRec
  <2> HIDE DEF r1
  <2>2. ServerOk(s, r1, flow)
    BY <1>2, <2>1 DEF ServerOk
  <2> QED BY <1>2, <1>5, <2>1, <2>2, KeepPreserves
<1>6. CASE v # 0 /\ F # {}
           /\ PingAgain(s, nv, First(F), NewFlow("pfs_idle", 0, NoTime), p)
  <2>1. F \subseteq Flows /\ \A f \in F : Key[f].server = s
    BY DEF FreeAnnounce
  <2>2. First(F) \in F
    BY <1>6, <2>1, FirstIsMember
  <2>3. /\ NewFlow("pfs_idle", 0, NoTime) \in FlowRec
        /\ NewFlow("pfs_idle", 0, NoTime).state # "free"
    <3>1. 0 \in 0 .. PCP_RETX_MRC
      BY RetxAssumption
    <3> QED BY <3>1 DEF NewFlow, FlowRec, FlowStates, Timer, ResultCodes
  <2> HIDE DEF F, p
  <2> QED BY <1>2, <1>3, <1>4, <1>6, <2>1, <2>2, <2>3, PingAgainOk
<1>7. CASE v # 0 /\ p # NoFlow /\ PingAgain(s, nv, p, flow[p], NoFlow)
  BY <1>2, <1>3, <1>4, <1>7, PingAgainOk
<1>8. CASE v # 0 /\ P # {}
           /\ PingAgain(s, nv, First(P), flow[First(P)], NoFlow)
  <2>1. P \subseteq Flows
        /\ \A f \in P : Key[f].server = s /\ flow[f].state # "free"
    BY DEF Pingable, FlowsOf, InDb
  <2>2. First(P) \in P
    BY <1>8, <2>1, FirstIsMember
  <2> HIDE DEF P
  <2> QED BY <1>2, <1>4, <1>8, <2>1, <2>2, PingAgainOk
<1>9. CASE v # 0 /\ Commit(s, r2, keep)
  <2>1. nv \in 0 .. 255 /\ nv <= PCP_MAX_SUPPORTED_VERSION
    BY <1>4, <1>9, ClientAssumption DEF Versions
  <2> HIDE DEF q
  <2>2. /\ r2 \in ServerRec
        /\ r2.state = "pss_ping" /\ r2.restart_flow = q.restart_flow
        /\ r2.pcp_version = nv
    <3>1. /\ q \in ServerRec /\ "pss_ping" \in ServerStates
          /\ NoTime \in Timer
      BY <1>2 DEF ServerStates, Timer
    <3>2. nv \in 0 .. 255
      BY <1>4
    <3> QED BY ZenonT(60), <3>1, <3>2 DEF ServerRec
  <2> HIDE DEF r2
  <2>3. ServerOk(s, r2, flow)
    BY <1>2, <2>1, <2>2 DEF ServerOk
  <2> QED BY <1>9, <2>2, <2>3, KeepPreserves DEF TransientStates
<1> QED
  BY <1>1, <1>5, <1>6, <1>7, <1>8, <1>9

-----------------------------------------------------------------------------
(* Every handler of server_sm.                                              *)

LEMMA TimeoutStep ==
  ASSUME IndInv, NEW s \in Servers, Running(s), OnTimeout(s)
  PROVE  IndInv'
BY Ping, PingTimeout, Negotiate, SendAll, WaitIoTimeout, Restart, Reping,
   SetNotWorking, NotWorking, Ignore DEF OnTimeout

LEMMA MessageStep ==
  ASSUME IndInv, NEW s \in Servers, Running(s), NEW m \in Answers(s),
         OnMessage(s, m)
  PROVE  IndInv'
<1>1. MessageOf(s, m)
  BY AnswersType
<1> QED
  BY <1>1, Ping, Receive, NotWorkingMsg, NotWorking
     DEF OnMessage, handle_wait_ping_resp_recv, handle_wait_io_receive_msg

-----------------------------------------------------------------------------
(* The calls of the application.                                            *)

(* Between two calls, no server is in a transient state. *)
LEMMA AtRestServers ==
  ASSUME IndInv, pulse.at \notin {"io", "sweep"}, NEW s \in Servers
  PROVE  server[s].state \notin TransientStates
BY DEF IndInv, TransientIsDriven

LEMMA QuietPreserves ==
  ASSUME IndInv, pulse' \in PulseRec,
         pulse'.at \in {"io", "sweep"} => pulse'.s \in Servers,
         UNCHANGED <<asked, refused>>, NEW fl, NEW sv,
         flow' = [f \in Flows |-> fl[f]], \A f \in Flows : FlowOk(fl[f]),
         server' = [s \in Servers |-> sv[s]],
         \A s \in Servers : /\ ServerOk(s, sv[s], flow')
                            /\ sv[s].state \notin TransientStates
  PROVE  IndInv'
<1>1. \A s \in Servers : server'[s] = sv[s]
  OBVIOUS
<1>2. \A f \in Flows : flow'[f] = fl[f]
  OBVIOUS
<1>3. TypeOK'
  BY DEF IndInv, TypeOK, FlowOk, ServerOk
<1>4. \A s \in Servers : ServerOk(s, server'[s], flow')
  BY <1>1
<1>5. TransientIsDriven'
  BY <1>1 DEF TransientIsDriven
<1> QED
  BY <1>2, <1>3, <1>4, <1>5 DEF IndInv

LEMMA WakeFields ==
  ASSUME IndInv, NEW S, NEW s \in Servers
  PROVE  LET q == server[s]
             r == Wake(S)[s]
         IN  /\ r \in ServerRec
             /\ r.state = q.state
             /\ r.ping_flow = q.ping_flow /\ r.restart_flow = q.restart_flow
             /\ r.pcp_version = q.pcp_version
             /\ r.next_version = q.next_version
             /\ r.next_timeout \in {0, q.next_timeout}
             /\ s \in S /\ q.state # "pss_unitialized" => r.next_timeout = 0
<1> DEFINE q == server[s]
           z == [q EXCEPT !.next_timeout = 0]
           r == Wake(S)[s]
<1>1. q \in ServerRec
  BY Known
<1>2. r = IF s \in S /\ q.state # "pss_unitialized" THEN z ELSE q
  BY DEF Wake
<1> HIDE DEF q, r
<1>3. /\ z \in ServerRec
      /\ z.state = q.state /\ z.next_timeout = 0
      /\ z.ping_flow = q.ping_flow /\ z.restart_flow = q.restart_flow
      /\ z.pcp_version = q.pcp_version
      /\ z.next_version = q.next_version
  BY <1>1 DEF ServerRec, Timer
<1> HIDE DEF z
<1>4. /\ r \in ServerRec
      /\ r.state = q.state
      /\ r.ping_flow = q.ping_flow /\ r.restart_flow = q.restart_flow
      /\ r.pcp_version = q.pcp_version
      /\ r.next_version = q.next_version
      /\ r.next_timeout \in {0, q.next_timeout}
      /\ s \in S /\ q.state # "pss_unitialized" => r.next_timeout = 0
  BY <1>1, <1>2, <1>3
<1> QED
  BY <1>4 DEF q, r

(* A call that changes flows and wakes the servers of those to send. *)
LEMMA WakeOk ==
  ASSUME IndInv, NEW s \in Servers, server[s].state \notin TransientStates,
         NEW S, NEW fl,
         \A f \in Flows : flow[f].state # "free" => fl[f].state # "free",
         \A f \in Flows : flow[f].state \in Trying => fl[f].state \in Trying,
         \A f \in Flows :
           Key[f].server = s /\ server[s].state = "pss_wait_io" =>
             /\ fl[f].state = "pfs_wait_for_server_init" =>
                  flow[f].state = "pfs_wait_for_server_init"
             /\ fl[f].state = "pfs_send" =>
                  s \in S \/ flow[f].state = "pfs_send"
  PROVE  ServerOk(s, Wake(S)[s], fl) /\ Wake(S)[s].state \notin TransientStates
<1> DEFINE q == server[s]
           r == Wake(S)[s]
<1>1. /\ r \in ServerRec
      /\ r.state = q.state
      /\ r.ping_flow = q.ping_flow /\ r.restart_flow = q.restart_flow
      /\ r.pcp_version = q.pcp_version
      /\ r.next_version = q.next_version
      /\ r.next_timeout \in {0, q.next_timeout}
      /\ s \in S /\ q.state # "pss_unitialized" => r.next_timeout = 0
  BY WakeFields
<1>2. /\ ServerOk(s, q, flow)
      /\ q.ping_flow # NoFlow => q.ping_flow \in Flows
  BY Known DEF ServerRec
<1>3. q.state \notin TransientStates
  OBVIOUS
<1>4. 0 # NoTime
  BY DEF NoTime
<1>5. \A f \in Flows :
        Key[f].server = s /\ q.state = "pss_wait_io" =>
          /\ fl[f].state = "pfs_wait_for_server_init" =>
               flow[f].state = "pfs_wait_for_server_init"
          /\ fl[f].state = "pfs_send" =>
               s \in S \/ flow[f].state = "pfs_send"
  OBVIOUS
<1> HIDE DEF q, r
<1>6. ServerOk(s, r, fl)
  BY <1>1, <1>2, <1>3, <1>4, <1>5 DEF ServerOk, TransientStates
<1> QED
  BY <1>1, <1>3, <1>6 DEF r

LEMMA NewFlowFields ==
  ASSUME NEW st \in FlowStates \cup {"free"}, NEW l \in Nat, NEW t \in Timer
  PROVE  /\ NewFlow(st, l, t) \in FlowRec
         /\ NewFlow(st, l, t).state = st
         /\ NewFlow(st, l, t).timeout = t
<1>1. 0 \in 0 .. PCP_RETX_MRC
  BY RetxAssumption
<1> QED
  BY <1>1 DEF NewFlow, FlowRec, ResultCodes

LEMMA NewFlowStep ==
  ASSUME IndInv, pulse.at = "app", NEW n, NEW l \in Lifetimes,
         pcp_new_flow(n, l)
  PROVE  IndInv'
<1> DEFINE mine == {f \in Flows : Key[f].req = n /\ Key[f].op # "announce"}
           made == {f \in mine : server[Key[f].server].state
                                   \notin {"pss_unitialized",
                                           "pss_not_working"}}
           st(f) == IF server[Key[f].server].state = "pss_wait_io"
                    THEN "pfs_send" ELSE "pfs_wait_for_server_init"
           fl == [f \in Flows |-> IF f \in made THEN NewFlow(st(f), l, 0)
                                  ELSE flow[f]]
           S  == ServersOf(made)
<1>1. /\ flow' = fl /\ server' = Wake(S)
      /\ UNCHANGED <<asked, refused, pulse>>
      /\ \A f \in made : flow[f].state = "free"
  BY DEF pcp_new_flow, InDb
<1>2. \A f \in made : Key[f].server \in S
  BY DEF ServersOf
<1> HIDE DEF mine, made, S
<1>3. l \in Nat /\ 0 \in Timer
  BY EnvironmentAssumption DEF Timer
<1>4. ASSUME NEW f \in Flows
      PROVE  /\ FlowOk(fl[f])
             /\ f \notin made => fl[f] = flow[f]
             /\ f \in made => fl[f].state = st(f)
  <2>1. CASE f \in made
    <3> DEFINE g == NewFlow(st(f), l, 0)
    <3>1. fl[f] = g
      BY <2>1
    <3>2. st(f) \in {"pfs_send", "pfs_wait_for_server_init"}
      OBVIOUS
    <3>3. st(f) \in FlowStates \cup {"free"}
      BY <3>2 DEF FlowStates
    <3> HIDE DEF st
    <3>4. g \in FlowRec /\ g.state = st(f) /\ g.timeout = 0
      BY <1>3, <3>3, NewFlowFields
    <3> HIDE DEF g
    <3>5. FlowOk(g)
      BY <3>2, <3>4 DEF FlowOk
    <3> HIDE DEF fl
    <3> QED BY <2>1, <3>1, <3>4, <3>5
  <2>2. CASE f \notin made
    BY <2>2 DEF IndInv
  <2> QED BY <2>1, <2>2
<1>5. ASSUME NEW s \in Servers
      PROVE  /\ ServerOk(s, Wake(S)[s], fl)
             /\ Wake(S)[s].state \notin TransientStates
  <2>1. server[s].state \notin TransientStates
    BY AtRestServers
  <2>2. \A f \in Flows :
          Key[f].server = s /\ server[s].state = "pss_wait_io" =>
            /\ fl[f].state = "pfs_wait_for_server_init" =>
                 flow[f].state = "pfs_wait_for_server_init"
            /\ fl[f].state = "pfs_send" =>
                 s \in S \/ flow[f].state = "pfs_send"
    <3> HIDE DEF fl
    <3> QED BY <1>2, <1>4
  <2>3. \A f \in Flows : flow[f].state # "free" => fl[f].state # "free"
    <3> HIDE DEF fl
    <3> QED BY <1>1, <1>4
  <2>4. \A f \in Flows : flow[f].state \in Trying => fl[f].state \in Trying
    <3> HIDE DEF fl
    <3> QED BY <1>1, <1>4 DEF Trying
  <2> HIDE DEF fl
  <2> QED BY <2>1, <2>2, <2>3, <2>4, WakeOk
<1>6. flow' = [f \in Flows |-> fl[f]]
  BY <1>1
<1>7. server' = [s \in Servers |-> Wake(S)[s]]
  BY <1>1 DEF Wake
<1>8. /\ pulse' \in PulseRec
      /\ pulse'.at \in {"io", "sweep"} => pulse'.s \in Servers
  BY <1>1 DEF IndInv, TypeOK
<1> HIDE DEF fl
<1> QED
  BY <1>1, <1>4, <1>5, <1>6, <1>7, <1>8, QuietPreserves

LEMMA UpdatedFields ==
  ASSUME NEW b \in FlowRec, NEW l \in Nat
  PROVE  LET u == Updated([b EXCEPT !.lifetime = l])
         IN  /\ u \in FlowRec
             /\ u.timeout = 0
             /\ u.state = IF b.state \in {"pfs_wait_for_server_init",
                                          "pfs_idle", "pfs_failed"}
                          THEN b.state ELSE "pfs_send"
<1> DEFINE g  == [b EXCEPT !.lifetime = l]
           st == IF b.state \in {"pfs_wait_for_server_init", "pfs_idle",
                                 "pfs_failed"}
                 THEN b.state ELSE "pfs_send"
           u  == [g EXCEPT !.timeout = 0, !.state = st]
<1>1. g \in FlowRec /\ g.state = b.state
  BY DEF FlowRec
<1>2. Updated(g) = u
  <2> HIDE DEF g
  <2> QED BY <1>1 DEF Updated
<1>3. st \in FlowStates \cup {"free"} /\ 0 \in Timer
  BY DEF FlowStates, FlowRec, Timer
<1> HIDE DEF g, st
<1>4. u \in FlowRec /\ u.timeout = 0 /\ u.state = st
  BY <1>1, <1>3 DEF FlowRec
<1> HIDE DEF u
<1> QED
  BY <1>2, <1>4 DEF g, st

(* What pcp_flow_updated does to a flow in the table. *)
LEMMA UpdatedOk ==
  ASSUME NEW b, FlowOk(b), b.state # "free", NEW l \in Nat
  PROVE  LET u == Updated([b EXCEPT !.lifetime = l])
         IN  /\ FlowOk(u)
             /\ u.state # "free"
             /\ b.state \in Trying => u.state \in Trying
             /\ u.state = "pfs_wait_for_server_init" =>
                  b.state = "pfs_wait_for_server_init"
<1> DEFINE u == Updated([b EXCEPT !.lifetime = l])
<1>1. /\ u \in FlowRec
      /\ u.timeout = 0
      /\ u.state = IF b.state \in {"pfs_wait_for_server_init", "pfs_idle",
                                   "pfs_failed"}
                   THEN b.state ELSE "pfs_send"
  BY UpdatedFields DEF FlowOk
<1> HIDE DEF u
<1>2. FlowOk(u)
  BY <1>1 DEF FlowOk, NoTime
<1> QED
  BY <1>1, <1>2 DEF Trying, u

LEMMA SetLifetimeStep ==
  ASSUME IndInv, pulse.at = "app", NEW k \in Flows, NEW l \in Lifetimes,
         pcp_flow_set_lifetime(k, l)
  PROVE  IndInv'
<1> DEFINE C == ChainFrom(k)
           up(g) == Updated([flow[g] EXCEPT !.lifetime = l])
           fl == [g \in Flows |-> IF g \in C THEN up(g) ELSE flow[g]]
           S  == ServersOf(C)
<1>1. /\ flow' = fl /\ server' = Wake(S)
      /\ UNCHANGED <<asked, refused, pulse>>
  BY DEF pcp_flow_set_lifetime
<1>2. \A f \in C : Key[f].server \in S /\ flow[f].state # "free"
  BY DEF ServersOf, ChainFrom, InDb
<1>3. l \in Nat
  BY EnvironmentAssumption
<1>4. \A f \in Flows : FlowOk(flow[f])
  BY DEF IndInv
<1> HIDE DEF C, S
<1>5. ASSUME NEW f \in Flows
      PROVE  /\ FlowOk(fl[f])
             /\ flow[f].state # "free" => fl[f].state # "free"
             /\ flow[f].state \in Trying => fl[f].state \in Trying
             /\ fl[f].state = "pfs_wait_for_server_init" =>
                  flow[f].state = "pfs_wait_for_server_init"
             /\ f \notin C => fl[f] = flow[f]
  <2>1. CASE f \in C
    <3>1. fl[f] = up(f)
      BY <2>1
    <3>2. /\ FlowOk(up(f))
          /\ up(f).state # "free"
          /\ flow[f].state \in Trying => up(f).state \in Trying
          /\ up(f).state = "pfs_wait_for_server_init" =>
               flow[f].state = "pfs_wait_for_server_init"
      BY <1>2, <1>3, <1>4, <2>1, UpdatedOk
    <3> HIDE DEF fl, up
    <3> QED BY <2>1, <3>1, <3>2
  <2>2. CASE f \notin C
    BY <1>4, <2>2
  <2> QED BY <2>1, <2>2
<1>6. flow' = [f \in Flows |-> fl[f]]
  BY <1>1
<1> HIDE DEF fl
<1>7. ASSUME NEW s \in Servers
      PROVE  /\ ServerOk(s, Wake(S)[s], fl)
             /\ Wake(S)[s].state \notin TransientStates
  <2>1. server[s].state \notin TransientStates
    BY AtRestServers
  <2> QED BY <1>2, <1>5, <2>1, WakeOk
<1>8. server' = [s \in Servers |-> Wake(S)[s]]
  BY <1>1 DEF Wake
<1>9. /\ pulse' \in PulseRec
      /\ pulse'.at \in {"io", "sweep"} => pulse'.s \in Servers
  BY <1>1 DEF IndInv, TypeOK
<1> QED
  BY <1>1, <1>5, <1>6, <1>7, <1>8, <1>9, QuietPreserves

(* Any flows of the table are closed, and pcp_pulse is called. *)
LEMMA ClosedFlows ==
  ASSUME IndInv, pulse.at = "app", NEW C \in SUBSET Flows,
         \A f \in C : InDb(f),
         flow' = [g \in Flows |-> IF g \in C THEN Closed(flow[g])
                                  ELSE flow[g]],
         server' = Wake(ServersOf({g \in C : ~OnlyMarked(flow[g])})),
         pulse' = At("read", 0), UNCHANGED <<asked, refused>>
  PROVE  IndInv'
<1> DEFINE fl == [g \in Flows |-> IF g \in C THEN Closed(flow[g])
                                  ELSE flow[g]]
           S  == ServersOf({g \in C : ~OnlyMarked(flow[g])})
<1>1. /\ flow' = fl /\ server' = Wake(S)
      /\ UNCHANGED <<asked, refused>>
      /\ pulse' = At("read", 0)
  OBVIOUS
<1>2. \A f \in C : /\ flow[f].state # "free"
                   /\ ~OnlyMarked(flow[f]) => Key[f].server \in S
  BY DEF ServersOf, InDb
<1>3. \A f \in Flows : FlowOk(flow[f])
  BY DEF IndInv
<1> HIDE DEF S
<1>4. ASSUME NEW f \in Flows
      PROVE  /\ FlowOk(fl[f])
             /\ flow[f].state # "free" => fl[f].state # "free"
             /\ flow[f].state \in Trying => fl[f].state \in Trying
             /\ fl[f].state = "pfs_wait_for_server_init" =>
                  flow[f].state = "pfs_wait_for_server_init"
             /\ fl[f].state = "pfs_send" =>
                  Key[f].server \in S \/ flow[f].state = "pfs_send"
  <2>1. CASE f \in C /\ ~OnlyMarked(flow[f])
    <3> DEFINE u == Updated([flow[f] EXCEPT !.lifetime = 0])
    <3>1. fl[f] = u
      BY <2>1 DEF Closed
    <3>2. /\ FlowOk(u)
          /\ u.state # "free"
          /\ flow[f].state \in Trying => u.state \in Trying
          /\ u.state = "pfs_wait_for_server_init" =>
               flow[f].state = "pfs_wait_for_server_init"
      BY <1>2, <1>3, <2>1, UpdatedOk
    <3> HIDE DEF fl, u
    <3> QED BY <1>2, <2>1, <3>1, <3>2
  <2>2. CASE f \in C /\ OnlyMarked(flow[f])
    <3> DEFINE b == flow[f]
               g == [b EXCEPT !.state = "pfs_failed"]
    <3>1. fl[f] = g
      BY <2>2 DEF Closed
    <3>2. b \in FlowRec
      BY <1>3 DEF FlowOk
    <3> HIDE DEF b
    <3>3. g \in FlowRec /\ g.state = "pfs_failed"
      BY <3>2 DEF FlowRec, FlowStates
    <3> HIDE DEF fl, g
    <3> QED BY <3>1, <3>3 DEF FlowOk, Trying
  <2>3. CASE f \notin C
    <3>1. fl[f] = flow[f]
      BY <2>3
    <3> HIDE DEF fl
    <3> QED BY <1>3, <3>1
  <2> QED BY <2>1, <2>2, <2>3
<1>5. flow' = [f \in Flows |-> fl[f]]
  BY <1>1
<1> HIDE DEF fl
<1>6. ASSUME NEW s \in Servers
      PROVE  /\ ServerOk(s, Wake(S)[s], fl)
             /\ Wake(S)[s].state \notin TransientStates
  <2>1. server[s].state \notin TransientStates
    BY AtRestServers
  <2> QED BY <1>4, <2>1, WakeOk
<1>7. server' = [s \in Servers |-> Wake(S)[s]]
  BY <1>1 DEF Wake
<1>8. /\ pulse' \in PulseRec
      /\ pulse'.at \in {"io", "sweep"} => pulse'.s \in Servers
  BY <1>1, ClientAssumption DEF At, PulseRec
<1> QED
  BY <1>1, <1>4, <1>5, <1>6, <1>7, <1>8, QuietPreserves

LEMMA CloseStep ==
  ASSUME IndInv, pulse.at = "app", NEW k \in Flows, pcp_close_flow(k)
  PROVE  IndInv'
<1>1. ChainFrom(k) \in SUBSET Flows /\ \A f \in ChainFrom(k) : InDb(f)
  BY DEF ChainFrom
<1> QED
  BY <1>1, ClosedFlows DEF pcp_close_flow, wire

(* Any flows are deleted. *)
LEMMA FreedFlows ==
  ASSUME IndInv, pulse.at = "app", NEW C \in SUBSET Flows,
         flow' = [g \in Flows |-> IF g \in C THEN NewFlow("free", 0, NoTime)
                                  ELSE flow[g]],
         server' = [s \in Servers |->
                      IF /\ server[s].state # "pss_unitialized"
                         /\ server[s].ping_flow \in C
                      THEN [server[s] EXCEPT !.ping_flow = NoFlow]
                      ELSE server[s]],
         UNCHANGED <<asked, refused, pulse>>
  PROVE  IndInv'
<1> DEFINE z == NewFlow("free", 0, NoTime)
           cut(s) == /\ server[s].state # "pss_unitialized"
                     /\ server[s].ping_flow \in C
           fl == [g \in Flows |-> IF g \in C THEN z ELSE flow[g]]
           sv == [s \in Servers |->
                    IF cut(s) THEN [server[s] EXCEPT !.ping_flow = NoFlow]
                    ELSE server[s]]
<1>1. /\ flow' = fl /\ server' = sv
      /\ UNCHANGED <<asked, refused, pulse>>
  OBVIOUS
<1>2. z \in FlowRec /\ z.state = "free"
  <2>1. /\ "free" \in FlowStates \cup {"free"}
        /\ 0 \in Nat /\ NoTime \in Timer
    BY DEF Timer
  <2> QED BY <2>1, NewFlowFields
<1> HIDE DEF z
<1>3. FlowOk(z)
  BY <1>2 DEF FlowOk
<1>4. ASSUME NEW f \in Flows
      PROVE  /\ FlowOk(fl[f])
             /\ f \notin C => fl[f] = flow[f]
             /\ f \in C => fl[f].state = "free"
  BY <1>2, <1>3 DEF IndInv
<1>5. flow' = [f \in Flows |-> fl[f]] /\ server' = [s \in Servers |-> sv[s]]
  BY <1>1
<1> HIDE DEF fl
<1>6. ASSUME NEW s \in Servers
      PROVE  ServerOk(s, sv[s], fl) /\ sv[s].state \notin TransientStates
  <2> DEFINE q == server[s]
             r == [q EXCEPT !.ping_flow = NoFlow]
  <2>1. /\ q \in ServerRec /\ ServerOk(s, q, flow)
        /\ q.state \notin TransientStates
    BY Known, AtRestServers
  <2>2. sv[s] = IF q.state # "pss_unitialized" /\ q.ping_flow \in C
                THEN r ELSE q
    OBVIOUS
  <2> HIDE DEF q, sv
  <2>3. /\ r \in ServerRec
        /\ r.state = q.state /\ r.next_timeout = q.next_timeout
        /\ r.ping_flow = NoFlow /\ r.restart_flow = q.restart_flow
        /\ r.pcp_version = q.pcp_version
        /\ r.next_version = q.next_version
    BY <2>1 DEF ServerRec
  <2> HIDE DEF r
  <2>4. q.ping_flow # NoFlow => q.ping_flow \in Flows
    BY <2>1 DEF ServerRec
  <2>5. CASE q.state # "pss_unitialized" /\ q.ping_flow \in C
    <3>1. ServerOk(s, r, fl)
      BY <1>4, <2>1, <2>3 DEF ServerOk
    <3> QED BY <2>1, <2>2, <2>3, <2>5, <3>1
  <2>6. CASE ~(q.state # "pss_unitialized" /\ q.ping_flow \in C)
    <3>1. ServerOk(s, q, fl)
      BY <1>4, <2>1, <2>4, <2>6 DEF ServerOk
    <3> QED BY <2>1, <2>2, <2>6, <3>1
  <2> QED BY <2>5, <2>6
<1>7. /\ pulse' \in PulseRec
      /\ pulse'.at \in {"io", "sweep"} => pulse'.s \in Servers
  BY <1>1 DEF IndInv, TypeOK
<1> HIDE DEF sv
<1> QED
  BY <1>1, <1>4, <1>5, <1>6, <1>7, QuietPreserves

LEMMA DeleteStep ==
  ASSUME IndInv, pulse.at = "app", NEW k \in Flows, pcp_delete_flow(k)
  PROVE  IndInv'
<1>1. ChainFrom(k) \in SUBSET Flows
  BY DEF ChainFrom
<1> QED
  BY <1>1, FreedFlows DEF pcp_delete_flow

LEMMA AddServerStep ==
  ASSUME IndInv, pulse.at = "app", NEW s \in Servers, NEW v \in Versions,
         NEW routed \in BOOLEAN, pcp_add_server(s, v, routed)
  PROVE  IndInv'
<1> DEFINE q == server[s]
           t == IF routed THEN NoTime ELSE q.next_timeout
           st == IF routed THEN "pss_ping" ELSE "pss_unitialized"
           r == [q EXCEPT !.pcp_version = v, !.next_timeout = t, !.state = st]
           sv == [server EXCEPT ![s] = r]
<1>1. q \in ServerRec /\ ServerOk(s, q, flow) /\ q.state \notin TransientStates
  BY Known, AtRestServers
<1>2. server \in [Servers -> ServerRec] /\ flow \in [Flows -> FlowRec]
  BY DEF IndInv, TypeOK
<1>3. /\ server' = sv
      /\ UNCHANGED <<flow, asked, refused, pulse>>
  BY <1>1, <1>2 DEF pcp_add_server
<1>4. v \in 0 .. 255 /\ v <= PCP_MAX_SUPPORTED_VERSION
  BY ClientAssumption DEF Versions
<1>5. t \in Timer /\ st \in {"pss_ping", "pss_unitialized"}
  BY <1>1 DEF ServerRec, Timer
<1>6. st \in ServerStates
  BY <1>5 DEF ServerStates
<1> HIDE DEF q, t, st
<1>7. r \in ServerRec /\ r.state = st /\ r.pcp_version = v
      /\ r.restart_flow = q.restart_flow
  <2>1. q \in ServerRec
    BY <1>1
  <2>2. v \in 0 .. 255
    BY <1>4
  <2>3. t \in Timer
    BY <1>5
  <2> QED BY ZenonT(60), <1>6, <2>1, <2>2, <2>3 DEF ServerRec
<1> HIDE DEF r
<1>8. ServerOk(s, r, flow) /\ r.state \notin TransientStates
  <2>1. q.restart_flow = NoFlow
    BY <1>1 DEF ServerOk, TransientStates
  <2> QED BY <1>4, <1>5, <1>7, <2>1 DEF ServerOk, TransientStates
<1>9. ASSUME NEW x \in Servers
      PROVE  ServerOk(x, sv[x], flow') /\ sv[x].state \notin TransientStates
  BY <1>2, <1>3, <1>8, AtRestServers DEF IndInv
<1>10. /\ flow' = [f \in Flows |-> flow[f]]
       /\ server' = [x \in Servers |-> sv[x]]
  BY <1>2, <1>3
<1>11. /\ pulse' \in PulseRec
       /\ pulse'.at \in {"io", "sweep"} => pulse'.s \in Servers
  BY <1>3 DEF IndInv, TypeOK
<1>12. \A f \in Flows : FlowOk(flow[f])
  BY DEF IndInv
<1> HIDE DEF sv
<1> QED
  BY <1>3, <1>9, <1>10, <1>11, <1>12, QuietPreserves

-----------------------------------------------------------------------------
(* The clock and pcp_pulse.                                                 *)

LEMMA SoonerTimer ==
  ASSUME NEW t \in Timer
  PROVE  /\ Sooner(t) \in Timer
         /\ t = 0 => Sooner(t) = 0
         /\ t # NoTime => Sooner(t) # NoTime
BY DEF Sooner, Timer, NoTime

LEMMA TickStep ==
  ASSUME IndInv, Tick
  PROVE  IndInv'
<1> DEFINE fl == [f \in Flows |->
                    [flow[f] EXCEPT
                       !.timeout = Sooner(@),
                       !.recv_lifetime = IF @ = 0 THEN NoTime ELSE Sooner(@)]]
           sv == [s \in Servers |->
                    [server[s] EXCEPT !.next_timeout = Sooner(@)]]
<1>1. /\ flow' = fl /\ server' = sv /\ pulse.at = "app"
      /\ UNCHANGED <<asked, refused, pulse>>
  BY DEF Tick
<1>2. ASSUME NEW f \in Flows
      PROVE  FlowOk(fl[f]) /\ fl[f].state = flow[f].state
  <2> DEFINE b == flow[f]
             t == Sooner(b.timeout)
             l == IF b.recv_lifetime = 0 THEN NoTime
                  ELSE Sooner(b.recv_lifetime)
             g == [b EXCEPT !.timeout = t, !.recv_lifetime = l]
  <2>1. FlowOk(b) /\ b \in FlowRec
    BY DEF IndInv, FlowOk
  <2>2. fl[f] = g
    OBVIOUS
  <2> HIDE DEF b
  <2>3. b.timeout \in Timer /\ b.recv_lifetime \in Nat \cup {NoTime}
    BY <2>1 DEF FlowRec
  <2>4. /\ t \in Timer /\ (b.timeout = 0 => t = 0)
        /\ b.timeout # NoTime => t # NoTime
    BY <2>3, SoonerTimer
  <2>5. l \in Nat \cup {NoTime}
    BY <2>3, SoonerTimer DEF Timer
  <2> HIDE DEF t, l
  <2>6. g \in FlowRec /\ g.state = b.state /\ g.timeout = t
    BY <2>1, <2>4, <2>5 DEF FlowRec
  <2> HIDE DEF g
  <2>7. FlowOk(g)
    BY <2>1, <2>4, <2>6 DEF FlowOk
  <2> HIDE DEF fl
  <2> QED BY <2>2, <2>6, <2>7 DEF b
<1>3. ASSUME NEW s \in Servers
      PROVE  ServerOk(s, sv[s], fl) /\ sv[s].state \notin TransientStates
  <2> DEFINE q == server[s]
             t == Sooner(q.next_timeout)
             r == [q EXCEPT !.next_timeout = t]
  <2>1. /\ q \in ServerRec /\ ServerOk(s, q, flow)
        /\ q.state \notin TransientStates
    BY <1>1, Known, AtRestServers
  <2>2. sv[s] = r
    OBVIOUS
  <2> HIDE DEF q, fl
  <2>3. /\ t \in Timer /\ (q.next_timeout = 0 => t = 0)
        /\ q.next_timeout # NoTime => t # NoTime
    <3>1. q.next_timeout \in Timer
      BY <2>1 DEF ServerRec
    <3> QED BY <3>1, SoonerTimer
  <2> HIDE DEF t
  <2>4. /\ r \in ServerRec
        /\ r.state = q.state /\ r.next_timeout = t
        /\ r.ping_flow = q.ping_flow /\ r.restart_flow = q.restart_flow
        /\ r.pcp_version = q.pcp_version
        /\ r.next_version = q.next_version
    BY <2>1, <2>3 DEF ServerRec
  <2> HIDE DEF r, sv
  <2>5. q.ping_flow # NoFlow => q.ping_flow \in Flows
    BY <2>1 DEF ServerRec
  <2>6. ServerOk(s, r, fl)
    BY <1>2, <2>1, <2>3, <2>4, <2>5 DEF ServerOk
  <2> QED BY <2>1, <2>2, <2>4, <2>6
<1>4. flow' = [f \in Flows |-> fl[f]] /\ server' = [s \in Servers |-> sv[s]]
  BY <1>1
<1>5. /\ pulse' \in PulseRec
      /\ pulse'.at \in {"io", "sweep"} => pulse'.s \in Servers
  BY <1>1 DEF IndInv, TypeOK
<1> HIDE DEF fl, sv
<1> QED
  BY <1>1, <1>2, <1>3, <1>4, <1>5, QuietPreserves

(* A step of pcp_pulse that only moves on, with no server in between. *)
LEMMA MoveOn ==
  ASSUME IndInv, UNCHANGED <<flow, server, asked, refused>>,
         \A s \in Servers : server[s].state \notin TransientStates,
         pulse' \in PulseRec,
         pulse'.at \in {"io", "sweep"} => pulse'.s \in Servers
  PROVE  IndInv'
<1>1. TypeOK'
  BY DEF IndInv, TypeOK
<1>2. TransientIsDriven'
  BY DEF TransientIsDriven
<1> QED
  BY <1>1, <1>2 DEF IndInv

LEMMA ReadNothingStep ==
  ASSUME IndInv, PulseReadNothing
  PROVE  IndInv'
<1>1. 1 \in Servers /\ 1 \in 0 .. NServers
  BY ClientAssumption DEF Servers
<1>2. /\ pulse' \in PulseRec
      /\ pulse'.at \in {"io", "sweep"} => pulse'.s \in Servers
  BY <1>1 DEF PulseReadNothing, At, PulseRec
<1> QED
  BY <1>2, MoveOn, AtRestServers DEF PulseReadNothing

LEMMA PulseNextStep ==
  ASSUME IndInv, PulseNext
  PROVE  IndInv'
<1>1. pulse \in PulseRec /\ pulse.s \in Servers
  BY DEF IndInv, TypeOK, PulseNext
<1>2. \A s \in Servers : server[s].state \notin TransientStates
  BY <1>1 DEF IndInv, TransientIsDriven, PulseNext, Due, TransientStates
<1>3. /\ pulse' \in PulseRec
      /\ pulse'.at \in {"io", "sweep"} => pulse'.s \in Servers
  <2> DEFINE to == pulse.s + 1
  <2>1. 1 \in Servers /\ 1 \in 0 .. NServers /\ 0 \in 0 .. NServers
    BY ClientAssumption DEF Servers
  <2>2. pulse.s < NServers => to \in Servers /\ to \in 0 .. NServers
    BY <1>1, ClientAssumption DEF Servers
  <2>3. \/ pulse' = At("sweep", 1)
        \/ pulse.s < NServers /\ pulse' = At("sweep", to)
        \/ pulse' = At("app", 0)
    BY DEF PulseNext, App
  <2> HIDE DEF to
  <2>4. ASSUME NEW n \in Servers, n \in 0 .. NServers,
               pulse' = At("sweep", n)
        PROVE  pulse' \in PulseRec /\ pulse'.s \in Servers
    BY <2>4 DEF At, PulseRec
  <2>5. CASE pulse' = At("app", 0)
    BY <2>1, <2>5 DEF At, PulseRec
  <2> QED BY <2>1, <2>2, <2>3, <2>4, <2>5
<1> QED
  BY <1>2, <1>3, MoveOn DEF PulseNext

LEMMA ReadMsgStep ==
  ASSUME IndInv, NEW s \in Servers, NEW m \in Answers(s), PulseReadMsg(s, m)
  PROVE  IndInv'
<1>1. pulse' = At("io", s) /\ s \in 0 .. NServers
  BY ClientAssumption DEF PulseReadMsg, Servers
<1>2. pulse' \in PulseRec /\ pulse'.at = "io" /\ pulse'.s = s
  BY <1>1 DEF At, PulseRec
<1>3. \A t \in Servers : server[t].state \notin TransientStates
  BY AtRestServers DEF PulseReadMsg
<1>4. Running(s)
  BY <1>2, <1>3 DEF Running
<1> QED
  BY <1>4, MessageStep DEF PulseReadMsg

LEMMA RunStep ==
  ASSUME IndInv, NEW s \in Servers, PulseRun(s)
  PROVE  IndInv'
<1>1. pulse \in PulseRec /\ pulse.at \in {"io", "sweep"} /\ pulse.s = s
  BY DEF IndInv, TypeOK, PulseRun
<1>2. pulse' \in PulseRec /\ pulse'.at = pulse.at /\ pulse'.s = pulse.s
  BY <1>1 DEF PulseRun, PulseRec
<1>3. \A t \in Servers \ {s} : server[t].state \notin TransientStates
  BY <1>1 DEF IndInv, TransientIsDriven
<1>4. Running(s)
  BY <1>1, <1>2, <1>3 DEF Running
<1> QED
  BY <1>4, TimeoutStep DEF PulseRun

-----------------------------------------------------------------------------
(* The theorems.                                                            *)

LEMMA InitInv ==
  ASSUME Init
  PROVE  IndInv
<1> DEFINE z == NewFlow("free", 0, NoTime)
<1>1. z \in FlowRec /\ z.state = "free"
  <2>1. /\ "free" \in FlowStates \cup {"free"}
        /\ 0 \in Nat /\ NoTime \in Timer
    BY DEF Timer
  <2> QED BY <2>1, NewFlowFields
<1>2. flow = [f \in Flows |-> z]
  BY DEF Init
<1> HIDE DEF z
<1>3. FlowOk(z)
  BY <1>1 DEF FlowOk
<1>4. \A f \in Flows : flow[f] = z
  BY <1>2
<1>5. ASSUME NEW s \in Servers
      PROVE  /\ ServerOk(s, NewServer(s), flow)
             /\ NewServer(s).state \notin TransientStates
  <2> DEFINE r == NewServer(s)
             st == IF s \in Unrouted THEN "pss_allocated" ELSE "pss_ping"
             v == PCP_MAX_SUPPORTED_VERSION
  <2>1. v \in 0 .. 255 /\ v <= v /\ 0 \in 0 .. PCP_MAX_PING_COUNT
    BY ClientAssumption
  <2>2. st \in {"pss_allocated", "pss_ping"} /\ st \in ServerStates
    BY DEF ServerStates
  <2> HIDE DEF st, v
  <2>3. /\ r \in ServerRec
        /\ r.state = st /\ r.restart_flow = NoFlow /\ r.pcp_version = v
    <3>1. r = [state |-> st, next_timeout |-> NoTime, pcp_version |-> v,
               next_version |-> 0, ping_count |-> 0, ping_flow |-> NoFlow,
               restart_flow |-> NoFlow, epoch_known |-> FALSE]
      BY DEF NewServer, st, v
    <3>2. NoTime \in Timer /\ 0 \in 0 .. 255 /\ NoFlow \in Flows \cup {NoFlow}
      BY DEF Timer
    <3>3. v \in 0 .. 255 /\ 0 \in 0 .. PCP_MAX_PING_COUNT
      BY <2>1
    <3> HIDE DEF r
    <3> QED BY <2>2, <3>1, <3>2, <3>3 DEF ServerRec
  <2> HIDE DEF r
  <2>4. r.pcp_version <= PCP_MAX_SUPPORTED_VERSION
    BY <2>1, <2>3 DEF v
  <2>5. ServerOk(s, r, flow)
    BY <2>2, <2>3, <2>4 DEF ServerOk
  <2> QED BY <2>2, <2>3, <2>5 DEF r, TransientStates
<1>6. \A s \in Servers : server[s] = NewServer(s)
  BY DEF Init
<1>7. TypeOK
  <2>1. flow \in [Flows -> FlowRec]
    BY <1>1, <1>2
  <2>2. server \in [Servers -> ServerRec]
    BY <1>5 DEF Init, ServerOk
  <2>3. asked \in [Flows -> SUBSET {"map", "remove"}]
        /\ refused \in SUBSET Servers
    BY DEF Init
  <2>4. pulse \in PulseRec /\ pulse.at = "app"
    BY ClientAssumption DEF Init, App, At, PulseRec
  <2> QED BY <2>1, <2>2, <2>3, <2>4 DEF TypeOK
<1>8. TransientIsDriven
  BY <1>5, <1>6 DEF TransientIsDriven
<1> QED
  BY <1>3, <1>4, <1>5, <1>6, <1>7, <1>8 DEF IndInv

LEMMA ApiStepInv ==
  ASSUME IndInv, ApiStep
  PROVE  IndInv'
BY NewFlowStep, SetLifetimeStep, CloseStep, DeleteStep, AddServerStep
   DEF ApiStep

LEMMA NextInv ==
  ASSUME IndInv, [Next]_vars
  PROVE  IndInv'
<1>1. CASE ApiStep
  BY <1>1, ApiStepInv
<1>2. CASE PulseStart
  BY <1>2, ReadNothingStep, ReadMsgStep DEF PulseStart
<1>3. CASE PulseStep
  BY <1>3, RunStep, PulseNextStep DEF PulseStep
<1>4. CASE Tick
  BY <1>4, TickStep
<1>5. CASE UNCHANGED vars
  BY <1>5 DEF vars, IndInv, TypeOK, TransientIsDriven
<1> QED
  BY <1>1, <1>2, <1>3, <1>4, <1>5 DEF Next

(* The inductive invariant holds whatever the application, the network and  *)
(* the servers do.                                                          *)
THEOREM Inductive == Spec => []IndInv
<1>1. Init => IndInv
  BY InitInv
<1>2. IndInv /\ [Next]_vars => IndInv'
  BY NextInv
<1> QED
  BY <1>1, <1>2, PTL DEF Spec

(* pcp_event_handler.c and pcp_api.c keep every variable in its type. *)
THEOREM TypeCorrect == Spec => []TypeOK
<1>1. IndInv => TypeOK
  BY DEF IndInv
<1> QED
  BY <1>1, Inductive, PTL

(* A server is never left in a state that hserver_iter does not leave at    *)
(* once: every handler that enters one makes next_timeout due.              *)
THEOREM TransientDriven == Spec => []TransientIsDriven
<1>1. IndInv => TransientIsDriven
  BY DEF IndInv
<1> QED
  BY <1>1, Inductive, PTL

(* restart_flow_msg outlives the handling of a restart in no behaviour.     *)
THEOREM RestartMarkMomentary == Spec => []RestartMarkIsMomentary
<1>1. IndInv => RestartMarkIsMomentary
  BY DEF IndInv, ServerOk, RestartMarkIsMomentary
<1> QED
  BY <1>1, Inductive, PTL

(* ping_flow_msg never dangles where a handler dereferences it, for any     *)
(* order of deletions, pings and fallbacks to NAT-PMP.                      *)
THEOREM PingFlowIsValid == Spec => []PingFlowValid
<1>1. IndInv => PingFlowValid
  <2> SUFFICES ASSUME IndInv, NEW s \in Servers,
                      server[s].state \notin {"pss_unitialized",
                                              "pss_allocated", "pss_ping"},
                      server[s].ping_flow # NoFlow
               PROVE  server[s].ping_flow \in FlowsOf(s)
    BY DEF PingFlowValid
  <2>1. ServerOk(s, server[s], flow)
    BY DEF IndInv
  <2> QED BY <2>1 DEF ServerOk, ServerRec, FlowsOf, InDb
<1> QED
  BY <1>1, Inductive, PTL

(* A server that waits for the answer to a ping always has a timeout, and   *)
(* its ping flow can be resent, for any number of servers whose handlers    *)
(* touch that flow.                                                         *)
THEOREM PingDeadline == Spec => []PingHasDeadline
<1>1. IndInv => PingHasDeadline
  BY DEF IndInv, ServerOk, PingHasDeadline, Trying
<1> QED
  BY <1>1, Inductive, PTL

(* No flow waits for an answer or for its turn without a timer, for every   *)
(* retransmission time and count.                                           *)
THEOREM RequestTimer == Spec => []RequestHasTimer
<1>1. IndInv => RequestHasTimer
  BY DEF IndInv, FlowOk, RequestHasTimer
<1> QED
  BY <1>1, Inductive, PTL

(* All flows of a server that has answered were told of it. *)
THEOREM NoOrphan == Spec => []NoOrphanFlow
<1>1. IndInv => NoOrphanFlow
  BY DEF IndInv, ServerOk, NoOrphanFlow, FlowsOf
<1> QED
  BY <1>1, Inductive, PTL

(* An unsent flow of a working server is due at the next pcp_pulse. *)
THEOREM UnsentScheduled == Spec => []UnsentIsScheduled
<1>1. IndInv => UnsentIsScheduled
  BY DEF IndInv, ServerOk, UnsentIsScheduled, FlowsOf
<1> QED
  BY <1>1, Inductive, PTL

(* The negotiated version never leaves the range of the library, for any    *)
(* PCP_MAX_SUPPORTED_VERSION below 255 and whatever versions are offered.   *)
THEOREM VersionInRange == Spec => []VersionSupported
<1>1. IndInv => VersionSupported
  BY DEF IndInv, ServerOk, VersionSupported
<1> QED
  BY <1>1, Inductive, PTL
=============================================================================
