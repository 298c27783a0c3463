--------------------------- MODULE PcpWaitProofs ---------------------------
(***************************************************************************)
(* pcp_wait and pcp_terminate, for any number of servers and flows: the    *)
(* invariants of PcpClient hold inside these calls too, pcp_wait never     *)
(* sleeps once every flow has a result, and it never spins.                *)
(***************************************************************************)
EXTENDS PcpWait, PcpClientProofs, FiniteSetTheorems

(* Where a call stands, and who has control there. *)
CallOk ==
  /\ \/ call.op \in {"none", "terminated"} /\ call.at = ""
     \/ call.op = "wait" /\ call.at \in {"check", "pulse", "eval", "select"}
     \/ call.op = "terminate" /\ call.at \in {"visit", "close", "delete"}
  /\ \/ call.op = "terminated"
     \/ call.at \in {"check", "pulse", "select", "visit"}
     => pulse.at = "app"
  /\ call.at \in {"close", "delete"} => call.flow \in Flows

(* A wait began with a flow of the chain not in an exit state, or counts    *)
(* none as seen; and time is left when it evaluates the flows.              *)
WaitOk ==
  call.op = "wait" =>
    /\ call.flow \in Flows
    /\ call.seen \subseteq ChainFrom(call.flow)
    /\ call.seen # ChainFrom(call.flow)
    /\ call.at \in {"pulse", "eval"} => call.left > 0
    /\ call.at = "select" => call.tout <= call.left

(* The servers that hserver_iter has visited are not due any more. *)
SweepOk ==
  /\ pulse.at = "sweep" => \A t \in Servers : t < pulse.s => ~Due(t)
  /\ pulse.at = "app" => pulse = App

(* When pcp_wait goes on after pcp_pulse, none is. *)
SweptOk ==
  call.at = "eval" /\ pulse.at = "app" => \A t \in Servers : ~Due(t)

(* The inductive invariant. *)
WInv ==
  /\ IndInv
  /\ call \in CallRec
  /\ CallOk /\ WaitOk /\ SweepOk /\ SweptOk
  /\ DoneIsNotWaitedFor

-----------------------------------------------------------------------------
(* The flow table inside pcp_pulse: only announce flows come, none goes.    *)

KeepsTable ==
  \A f \in Flows : Key[f].op # "announce" =>
                     (flow'[f].state = "free" <=> flow[f].state = "free")

(* A handler changes flow f only if it is, or now becomes, part of the      *)
(* table.                                                                   *)
Touches(f, x) ==
  \/ x = flow[f]
  \/ x.state # "free" /\ (InDb(f) \/ Key[f].op = "announce")

LEMMA CommitKeeps ==
  ASSUME NEW s, NEW r, NEW out, Commit(s, r, out),
         \A f \in Flows : Touches(f, out[f].f)
  PROVE  KeepsTable
<1>1. \A f \in Flows : flow'[f] = out[f].f
  BY DEF Commit
<1> QED
  BY <1>1 DEF KeepsTable, Touches, InDb

LEMMA NothingTouched ==
  ASSUME NEW s, NEW r, Commit(s, r, [f \in Flows |-> Keep(f)])
  PROVE  KeepsTable
<1> DEFINE out == [f \in Flows |-> Keep(f)]
<1>1. \A f \in Flows : out[f].f = flow[f]
  BY DEF Keep, Out
<1> HIDE DEF out
<1>2. \A f \in Flows : Touches(f, out[f].f)
  BY <1>1 DEF Touches
<1> QED
  BY <1>2, CommitKeeps DEF out

LEMMA PingKeeps ==
  ASSUME IndInv, NEW s \in Servers, handle_server_ping(s)
  PROVE  KeepsTable
<1> DEFINE res(f, io) ==
             handle_flow_event([flow[f] EXCEPT !.retry_count = 0],
                               "fev_send", EnvNow(f, io, NoMsg))
<1>1. PICK io, F, r :
        /\ io \in IoChoices /\ F \in SUBSET Flows
        /\ F \subseteq Pingable(s)
        /\ Commit(s, r, [f \in Flows |-> IF f \in F THEN res(f, io)
                                         ELSE Keep(f)])
  <2>1. PICK io, r, p :
          /\ io \in IoChoices
          /\ \/ Commit(s, r, [f \in Flows |->
                                IF f \in Pingable(s) /\ f <= p
                                THEN res(f, io) ELSE Keep(f)])
             \/ Commit(s, r, [f \in Flows |-> IF f \in Pingable(s)
                                              THEN res(f, io) ELSE Keep(f)])
    BY Zenon DEF handle_server_ping
  <2> DEFINE F == {f \in Pingable(s) : f <= p}
  <2>2. /\ F \in SUBSET Flows /\ F \subseteq Pingable(s)
        /\ Pingable(s) \in SUBSET Flows
    BY DEF Pingable, FlowsOf
  <2>3. [f \in Flows |-> IF f \in Pingable(s) /\ f <= p
                         THEN res(f, io) ELSE Keep(f)]
          = [f \in Flows |-> IF f \in F THEN res(f, io) ELSE Keep(f)]
    <3> HIDE DEF res
    <3> QED BY DEF Pingable, FlowsOf
  <2> HIDE DEF F, res
  <2> QED BY <2>1, <2>2, <2>3
<1> DEFINE out == [f \in Flows |-> IF f \in F THEN res(f, io) ELSE Keep(f)]
<1>2. ASSUME NEW f \in F
      PROVE  Touches(f, res(f, io).f)
  <2> DEFINE b == flow[f]
             g == [b EXCEPT !.retry_count = 0]
  <2>1. /\ b \in FlowRec /\ b.state # "free" /\ InDb(f) /\ f \in Flows
        /\ PCP_RETX_MRC \in Nat
    BY <1>1, Known, RetxAssumption DEF Pingable, FlowsOf, InDb
  <2> HIDE DEF b
  <2>2. g \in FlowRec /\ g.state # "free"
    BY <2>1 DEF FlowRec
  <2>3. EnvNow(f, io, NoMsg) \in FlowEnv
    BY <1>1, <2>1, EnvNowType, NoMsgType
  <2> HIDE DEF g
  <2>4. handle_flow_event(g, "fev_send", EnvNow(f, io, NoMsg)).f.state
          # "free"
    BY <2>2, <2>3, SendEvent
  <2>5. res(f, io).f.state # "free"
    BY <2>4 DEF g, b
  <2> HIDE DEF res
  <2> QED BY <2>1, <2>5 DEF Touches
<1> HIDE DEF res
<1>3. \A f \in Flows : Touches(f, out[f].f)
  BY <1>2 DEF Keep, Out, Touches
<1> QED
  BY <1>1, <1>3, CommitKeeps

(* An event of a flow of the table leaves it there. *)
LEMMA EventTouches ==
  ASSUME IndInv, NEW f \in Flows, InDb(f), NEW ev \in CallerEvents,
         ev # "fev_send", NEW io \in IoChoices, NEW m,
         m.result \in ResultCodes \cup {NoResult}, m.lifetime \in Nat,
         ev \in ResultCodes => m.result = ev
  PROVE  Touches(f, handle_flow_event(flow[f], ev, EnvNow(f, io, m)).f)
<1>1. FlowOk(flow[f]) /\ flow[f].state # "free"
  BY DEF IndInv, InDb
<1>2. EnvNow(f, io, m) \in FlowEnv /\ EnvNow(f, io, m).result = m.result
  BY EnvNowType
<1>3. handle_flow_event(flow[f], ev, EnvNow(f, io, m)).f.state # "free"
  BY <1>1, <1>2, EventOk
<1> QED
  BY <1>3 DEF Touches

LEMMA PingTimeoutKeeps ==
  ASSUME IndInv, NEW s \in Servers, server[s].state = "pss_wait_ping_resp",
         handle_wait_ping_resp_timeout(s)
  PROVE  KeepsTable
<1> DEFINE p == server[s].ping_flow
           res(io) == handle_flow_event(flow[p], "fev_flow_timedout",
                                        EnvNow(p, io, NoMsg))
<1>1. \/ \E r : Commit(s, r, [f \in Flows |-> Keep(f)])
      \/ /\ p # NoFlow
         /\ \E io \in IoChoices : \E r :
              Commit(s, r, [f \in Flows |-> IF f = p THEN res(io)
                                            ELSE Keep(f)])
  BY Zenon DEF handle_wait_ping_resp_timeout
<1>2. ASSUME p # NoFlow, NEW io \in IoChoices, NEW r,
             Commit(s, r, [f \in Flows |-> IF f = p THEN res(io)
                                           ELSE Keep(f)])
      PROVE  KeepsTable
  <2>1. p \in Flows /\ InDb(p)
    BY <1>2, Known DEF ServerRec, ServerOk, InDb
  <2>2. "fev_flow_timedout" \in CallerEvents \ ResultCodes
    BY DEF CallerEvents, ResultCodes, ShortLifeErrors, LongLifeErrors
  <2>3. Touches(p, res(io).f)
    BY <2>1, <2>2, EventTouches, NoMsgType
  <2> HIDE DEF res
  <2> DEFINE out == [f \in Flows |-> IF f = p THEN res(io) ELSE Keep(f)]
  <2>4. \A f \in Flows : Touches(f, out[f].f)
    BY <2>3 DEF Keep, Out, Touches
  <2> QED BY <1>2, <2>4, CommitKeeps
<1> QED
  BY <1>1, <1>2, NothingTouched

LEMMA EventIterKeeps ==
  ASSUME IndInv, NEW s \in Servers, NEW io \in IoChoices, NEW r,
         NEW ev \in {"fev_server_initialized", "fev_server_restarted",
                     "fev_failed"},
         Commit(s, r, EventIter(s, ev, io))
  PROVE  KeepsTable
<1>1. ASSUME NEW f \in Flows
      PROVE  Touches(f, EventIter(s, ev, io)[f].f)
  <2>1. CASE InDb(f)
    BY <2>1, EventIterOk DEF Touches, InDb
  <2>2. CASE ~InDb(f)
    <3>1. EventIter(s, ev, io)[f].f = flow[f]
      BY <2>2 DEF EventIter, FlowsOf, Keep, Out
    <3> QED BY <3>1 DEF Touches
  <2> QED BY <2>1, <2>2
<1> QED
  BY <1>1, CommitKeeps

LEMMA WaitIoTimeoutKeeps ==
  ASSUME IndInv, NEW s \in Servers, handle_wait_io_timeout(s)
  PROVE  KeepsTable
<1>1. PICK io, r :
        /\ io \in IoChoices
        /\ Commit(s, r, [f \in Flows |->
                           IF InDb(f)
                           THEN check_flow_timeout(flow[f],
                                                   EnvNow(f, io, NoMsg))
                           ELSE Keep(f)])
  BY Zenon DEF handle_wait_io_timeout
<1> DEFINE out == [f \in Flows |->
                     IF InDb(f)
                     THEN check_flow_timeout(flow[f], EnvNow(f, io, NoMsg))
                     ELSE Keep(f)]
<1>2. ASSUME NEW f \in Flows, InDb(f)
      PROVE  Touches(f, out[f].f)
  <2>1. FlowOk(flow[f]) /\ EnvNow(f, io, NoMsg) \in FlowEnv
    BY <1>1, EnvNowType, NoMsgType DEF IndInv
  <2>2. check_flow_timeout(flow[f], EnvNow(f, io, NoMsg)).f.state # "free"
    BY <1>2, <2>1, CheckTimeout DEF InDb
  <2>3. out[f] = check_flow_timeout(flow[f], EnvNow(f, io, NoMsg))
    BY <1>2
  <2> HIDE DEF out
  <2> QED BY <1>2, <2>2, <2>3 DEF Touches
<1>3. ASSUME NEW f \in Flows, ~InDb(f)
      PROVE  Touches(f, out[f].f)
  <2>1. out[f].f = flow[f]
    BY <1>3 DEF Keep, Out
  <2> QED BY <2>1 DEF Touches
<1> HIDE DEF out
<1>4. \A f \in Flows : Touches(f, out[f].f)
  BY <1>2, <1>3
<1> QED
  BY <1>1, <1>4, CommitKeeps DEF out

LEMMA ProcessedKeeps ==
  ASSUME IndInv, NEW s \in Servers, NEW m, MessageOf(s, m),
         m.result # "unsupp_version", NEW io \in IoChoices, NEW r,
         server[s].state \notin {"pss_unitialized", "pss_allocated",
                                 "pss_ping"},
         Commit(s, r, Processed(s, m, io))
  PROVE  KeepsTable
<1> DEFINE mf == MatchingFlow(s, m)
<1>1. mf # NoFlow => mf \in Flows /\ InDb(mf)
  <2>1. /\ server[s] \in ServerRec /\ ServerOk(s, server[s], flow)
    BY Known
  <2>2. server[s].ping_flow # NoFlow =>
          server[s].ping_flow \in Flows /\ InDb(server[s].ping_flow)
    BY <2>1 DEF ServerRec, ServerOk, InDb
  <2>3. AnnounceFlows(s) # {} => First(AnnounceFlows(s)) \in AnnounceFlows(s)
    BY FirstIsMember DEF AnnounceFlows
  <2> QED BY <2>2, <2>3 DEF MatchingFlow, MessageOf, AnnounceFlows
<1>2. \A f \in Flows : f # NoFlow
  BY ClientAssumption DEF Flows, NoFlow
<1>3. /\ m.result \in CallerEvents /\ m.result # "fev_send"
      /\ m.result \in ResultCodes /\ m.lifetime \in Nat
  BY DEF MessageOf, CallerEvents, ResultCodes, ShortLifeErrors,
     LongLifeErrors
<1>4. ASSUME NEW f \in Flows
      PROVE  Touches(f, Processed(s, m, io)[f].f)
  <2>1. CASE f = mf
    <3>1. Processed(s, m, io)[f]
            = handle_flow_event(flow[f], m.result, EnvNow(f, io, m))
      BY <2>1 DEF Processed
    <3> QED BY <1>1, <1>2, <1>3, <2>1, <3>1, EventTouches
  <2>2. CASE f # mf
    <3>1. Processed(s, m, io)[f].f = flow[f]
      BY <2>2 DEF Processed, Keep, Out
    <3> QED BY <3>1 DEF Touches
  <2> QED BY <2>1, <2>2
<1> QED
  BY <1>4, CommitKeeps

LEMMA ReceiveKeeps ==
  ASSUME IndInv, NEW s \in Servers, NEW m, MessageOf(s, m), NEW goOn,
         server[s].state \in {"pss_wait_ping_resp", "pss_wait_io"},
         ReceiveMsg(s, m, goOn)
  PROVE  KeepsTable
<1>1. \/ \E r : Commit(s, r, [f \in Flows |-> Keep(f)])
      \/ /\ m.result # "unsupp_version"
         /\ \E io \in IoChoices : \E r : Commit(s, r, Processed(s, m, io))
  <2>1. CASE m.result \in {"unsupp_version", "address_mismatch"}
    BY <2>1, Zenon DEF ReceiveMsg
  <2>2. CASE m.result \notin {"unsupp_version", "address_mismatch"}
    BY <2>2, Zenon DEF ReceiveMsg
  <2> QED BY <2>1, <2>2
<1> QED
  BY <1>1, NothingTouched, ProcessedKeeps

LEMMA NotWorkingMsgKeeps ==
  ASSUME IndInv, NEW s \in Servers, NEW m, MessageOf(s, m),
         server[s].state = "pss_not_working",
         handle_server_not_working_msg(s, m)
  PROVE  KeepsTable
<1>1. \/ \E r : Commit(s, r, [f \in Flows |-> Keep(f)])
      \/ /\ m.result # "unsupp_version"
         /\ \E io \in IoChoices : \E r : Commit(s, r, Processed(s, m, io))
  <2>1. CASE m.result \in {"unsupp_version", "address_mismatch"}
    BY <2>1, Zenon DEF handle_server_not_working_msg
  <2>2. CASE m.result \notin {"unsupp_version", "address_mismatch"}
    BY <2>2, Zenon DEF handle_server_not_working_msg
  <2> QED BY <2>1, <2>2
<1> QED
  BY <1>1, NothingTouched, ProcessedKeeps

LEMMA PingAgainKeeps ==
  ASSUME IndInv, NEW s \in Servers, NEW v \in 0 .. 255, NEW p \in Flows,
         InDb(p) \/ Key[p].op = "announce",
         NEW g \in FlowRec, g.state # "free",
         NEW w, w # NoFlow => w \in Flows /\ InDb(w),
         PingAgain(s, v, p, g, w)
  PROVE  KeepsTable
<1> DEFINE q == server[s]
           srv == [q EXCEPT !.next_version = v, !.pcp_version = v,
                            !.ping_flow = p]
           b == [g EXCEPT !.retry_count = 0, !.resend_timeout = 0]
           res(io) == handle_flow_event(b, "fev_send", Env(srv, p, io, NoMsg))
           off(f) == [flow[f] EXCEPT !.state = "pfs_wait_for_server_init",
                                     !.timeout = NoTime]
<1>1. PICK io, r :
        /\ io \in IoChoices
        /\ Commit(s, r, [f \in Flows |-> IF f = p THEN res(io)
                                         ELSE IF f = w
                                         THEN Out(off(f), "fev_none", FALSE)
                                         ELSE Keep(f)])
  BY Zenon DEF PingAgain
<1>2. q \in ServerRec
  BY Known
<1> HIDE DEF q
<1>3. srv \in ServerRec
  BY ZenonT(60), <1>2 DEF ServerRec
<1> HIDE DEF srv
<1>4. b \in FlowRec /\ b.state # "free"
  <2>1. 0 \in 0 .. PCP_RETX_MRC
    BY RetxAssumption
  <2> QED BY <2>1 DEF FlowRec
<1>5. Env(srv, p, io, NoMsg) \in FlowEnv
  BY <1>1, <1>3, EnvType, NoMsgType
<1> HIDE DEF b
<1>6. res(io).f.state # "free"
  BY <1>4, <1>5, SendEvent
<1> HIDE DEF res
<1>7. \A f \in Flows : off(f).state = "pfs_wait_for_server_init"
  BY Known DEF FlowRec
<1> HIDE DEF off
<1> DEFINE out == [f \in Flows |-> IF f = p THEN res(io)
                                   ELSE IF f = w
                                   THEN Out(off(f), "fev_none", FALSE)
                                   ELSE Keep(f)]
<1>8. \A f \in Flows : out[f].f = IF f = p THEN res(io).f
                                  ELSE IF f = w THEN off(f) ELSE flow[f]
  BY DEF Keep, Out
<1> HIDE DEF out
<1>9. \A f \in Flows : f # NoFlow
  BY ClientAssumption DEF Flows, NoFlow
<1>10. \A f \in Flows : Touches(f, out[f].f)
  BY <1>6, <1>7, <1>8, <1>9 DEF Touches
<1> QED
  BY <1>1, <1>10, CommitKeeps DEF out

LEMMA NegotiateKeeps ==
  ASSUME IndInv, NEW s \in Servers,
         server[s].state = "pss_version_negotiation",
         handle_version_negotiation(s)
  PROVE  KeepsTable
<1> DEFINE q == server[s]
           nv == IF q.next_version = q.pcp_version
                 THEN (q.next_version + 255) % 256 ELSE q.next_version
           p == q.ping_flow
           F == FreeAnnounce(s)
           P == Pingable(s)
<1>1. \/ \E r : Commit(s, r, [f \in Flows |-> Keep(f)])
      \/ F # {}
         /\ PingAgain(s, nv, First(F), NewFlow("pfs_idle", 0, NoTime), p)
      \/ p # NoFlow /\ PingAgain(s, nv, p, flow[p], NoFlow)
      \/ P # {} /\ PingAgain(s, nv, First(P), flow[First(P)], NoFlow)
  BY ZenonT(40) DEF handle_version_negotiation
<1>2. nv \in 0 .. 255
  <2>1. q.next_version \in 0 .. 255
    BY Known DEF ServerRec
  <2> QED BY <2>1
<1>3. p # NoFlow => p \in Flows /\ InDb(p)
  BY Known DEF ServerRec, ServerOk, InDb
<1>4. \A f \in Flows : InDb(f) => flow[f] \in FlowRec /\ flow[f].state # "free"
  BY Known DEF InDb
<1>5. F # {} => First(F) \in Flows /\ Key[First(F)].op = "announce"
  <2>1. F \subseteq Flows
    BY DEF FreeAnnounce
  <2> QED BY <2>1, FirstIsMember DEF FreeAnnounce
<1>6. P # {} => First(P) \in Flows /\ InDb(First(P))
  <2>1. P \subseteq Flows
    BY DEF Pingable, FlowsOf
  <2> QED BY <2>1, FirstIsMember DEF Pingable, FlowsOf
<1>7. /\ NewFlow("pfs_idle", 0, NoTime) \in FlowRec
      /\ NewFlow("pfs_idle", 0, NoTime).state # "free"
  BY NewFlowFields DEF FlowStates, Timer
<1> HIDE DEF nv, p, F, P
<1> QED
  BY <1>1, <1>2, <1>3, <1>4, <1>5, <1>6, <1>7, NothingTouched,
     PingAgainKeeps

LEMMA TimeoutKeeps ==
  ASSUME IndInv, NEW s \in Servers, OnTimeout(s)
  PROVE  KeepsTable
<1>1. ASSUME handle_send_all_msgs(s) \/ handle_server_restart(s)
               \/ handle_server_set_not_working(s)
      PROVE  KeepsTable
  <2>1. CASE handle_send_all_msgs(s)
    <3>1. PICK io, r :
            /\ io \in IoChoices
            /\ Commit(s, r, EventIter(s, "fev_server_initialized", io))
      BY <2>1, Zenon DEF handle_send_all_msgs
    <3> QED BY <3>1, EventIterKeeps
  <2>2. CASE handle_server_restart(s)
    <3>1. PICK io, r :
            /\ io \in IoChoices
            /\ Commit(s, r, EventIter(s, "fev_server_restarted", io))
      BY <2>2, Zenon DEF handle_server_restart
    <3> QED BY <3>1, EventIterKeeps
  <2>3. CASE handle_server_set_not_working(s)
    <3>1. PICK io, r :
            /\ io \in IoChoices
            /\ Commit(s, r, EventIter(s, "fev_failed", io))
      BY <2>3, Zenon DEF handle_server_set_not_working
    <3> QED BY <3>1, EventIterKeeps
  <2> QED BY <1>1, <2>1, <2>2, <2>3
<1>2. ASSUME handle_server_reping(s) \/ handle_server_not_working(s)
               \/ ignore_events(s)
      PROVE  KeepsTable
  BY <1>2, NothingTouched DEF handle_server_reping,
     handle_server_not_working, ignore_events
<1> QED
  BY <1>1, <1>2, PingKeeps, PingTimeoutKeeps, NegotiateKeeps,
     WaitIoTimeoutKeeps DEF OnTimeout

LEMMA MessageKeeps ==
  ASSUME IndInv, NEW s \in Servers, NEW m \in Answers(s), OnMessage(s, m)
  PROVE  KeepsTable
<1>1. MessageOf(s, m)
  BY AnswersType
<1>2. ASSUME server[s].state = "pss_wait_ping_resp",
             handle_wait_ping_resp_recv(s, m)
      PROVE  KeepsTable
  BY <1>1, <1>2, ReceiveKeeps DEF handle_wait_ping_resp_recv
<1>3. ASSUME server[s].state = "pss_wait_io",
             handle_wait_io_receive_msg(s, m)
      PROVE  KeepsTable
  BY <1>1, <1>3, ReceiveKeeps DEF handle_wait_io_receive_msg
<1>4. ASSUME handle_server_not_working(s)
      PROVE  KeepsTable
  BY <1>4, NothingTouched DEF handle_server_not_working
<1> QED
  BY <1>1, <1>2, <1>3, <1>4, PingKeeps, NotWorkingMsgKeeps DEF OnMessage

(* A step of server s leaves the records of the other servers alone. *)
LEMMA OnlyOneServer ==
  ASSUME IndInv, NEW s \in Servers,
         OnTimeout(s) \/ \E m : OnMessage(s, m)
  PROVE  \A t \in Servers : t # s => server'[t] = server[t]
<1>1. \E r, out : Commit(s, r, out)
  <2> DEFINE commits == \E r, out : Commit(s, r, out)
  <2>1. CASE OnTimeout(s)
    <3>1. handle_server_ping(s) => commits
      BY Zenon DEF handle_server_ping
    <3>2. handle_wait_ping_resp_timeout(s) => commits
      BY Zenon DEF handle_wait_ping_resp_timeout
    <3>3. handle_version_negotiation(s) => commits
      <4>1. ASSUME NEW v, NEW p, NEW g, NEW q, PingAgain(s, v, p, g, q)
            PROVE  commits
        BY <4>1, Zenon DEF PingAgain
      <4> HIDE DEF commits
      <4>2. handle_version_negotiation(s) =>
              \/ \E r, out : Commit(s, r, out)
              \/ \E v, p, g, q : PingAgain(s, v, p, g, q)
        BY ZenonT(40) DEF handle_version_negotiation
      <4> QED BY <4>1, <4>2 DEF commits
    <3>4. /\ handle_send_all_msgs(s) => commits
          /\ handle_wait_io_timeout(s) => commits
          /\ handle_server_restart(s) => commits
      BY Zenon DEF handle_send_all_msgs, handle_wait_io_timeout,
         handle_server_restart
    <3>5. /\ handle_server_reping(s) => commits
          /\ handle_server_set_not_working(s) => commits
          /\ handle_server_not_working(s) => commits
          /\ ignore_events(s) => commits
      BY Zenon DEF handle_server_reping, handle_server_set_not_working,
         handle_server_not_working, ignore_events
    <3> HIDE DEF commits
    <3>6. commits
      BY <2>1, <3>1, <3>2, <3>3, <3>4, <3>5 DEF OnTimeout
    <3> QED BY <3>6 DEF commits
  <2>2. ASSUME NEW m, OnMessage(s, m)
        PROVE  \E r, out : Commit(s, r, out)
    BY <2>2, Zenon DEF OnMessage, handle_server_ping,
       handle_wait_ping_resp_recv, handle_wait_io_receive_msg, ReceiveMsg,
       handle_server_not_working_msg, handle_server_not_working
  <2> QED BY <2>1, <2>2
<1>2. server \in [Servers -> ServerRec]
  BY DEF IndInv, TypeOK
<1> QED
  BY <1>1, <1>2 DEF Commit

-----------------------------------------------------------------------------
(* The steps of pcp_pulse, in any call.                                     *)

LEMMA ChainStays ==
  ASSUME KeepsTable, call'.flow = call.flow
  PROVE  ChainFrom(call.flow)' = ChainFrom(call.flow)
BY DEF KeepsTable, ChainFrom, InDb

LEMMA StartFacts ==
  ASSUME IndInv, SweepOk, PulseStart
  PROVE  /\ IndInv' /\ SweepOk' /\ KeepsTable
         /\ pulse'.at \in {"io", "sweep"}
<1>1. CASE PulseReadNothing
  <2>1. /\ pulse' = At("sweep", 1)
        /\ UNCHANGED <<flow, server, asked, refused>>
    BY <1>1 DEF PulseReadNothing
  <2>2. pulse'.at = "sweep" /\ pulse'.s = 1
    BY <2>1 DEF At
  <2>3. \A t \in Servers : ~(t < 1)
    BY ClientAssumption DEF Servers
  <2> QED
    BY <1>1, <2>1, <2>2, <2>3, ReadNothingStep DEF SweepOk, KeepsTable
<1>2. ASSUME NEW s \in Servers, NEW m \in Answers(s), PulseReadMsg(s, m)
      PROVE  /\ IndInv' /\ SweepOk' /\ KeepsTable
             /\ pulse'.at \in {"io", "sweep"}
  <2>1. pulse' = At("io", s) /\ OnMessage(s, m)
    BY <1>2 DEF PulseReadMsg
  <2>2. pulse'.at = "io"
    BY <2>1 DEF At
  <2> QED BY <1>2, <2>1, <2>2, ReadMsgStep, MessageKeeps DEF SweepOk
<1> QED
  BY <1>1, <1>2 DEF PulseStart

LEMMA StepFacts ==
  ASSUME IndInv, SweepOk, PulseStep
  PROVE  /\ IndInv' /\ SweepOk' /\ KeepsTable
         /\ pulse'.at = "app" => \A t \in Servers : ~Due(t)'
<1>1. pulse \in PulseRec
  BY DEF IndInv, TypeOK
<1>2. ASSUME NEW s \in Servers, PulseRun(s)
      PROVE  /\ IndInv' /\ SweepOk' /\ KeepsTable
             /\ pulse'.at = "app" => \A t \in Servers : ~Due(t)'
  <2>1. /\ pulse.at \in {"io", "sweep"} /\ pulse.s = s /\ OnTimeout(s)
        /\ pulse' = [pulse EXCEPT !.odd = ~@]
    BY <1>2 DEF PulseRun
  <2>2. pulse'.at = pulse.at /\ pulse'.s = s
    BY <1>1, <2>1 DEF PulseRec
  <2>3. \A t \in Servers : t # s => server'[t] = server[t]
    BY <2>1, OnlyOneServer
  <2>4. \A t \in Servers : t < s => t # s
    BY ClientAssumption DEF Servers
  <2>5. SweepOk'
    BY <2>1, <2>2, <2>3, <2>4 DEF SweepOk, Due
  <2> QED BY <1>2, <2>1, <2>2, <2>5, RunStep, TimeoutKeeps
<1>3. CASE PulseNext
  <2>1. /\ pulse.at \in {"io", "sweep"} /\ ~Due(pulse.s)
        /\ UNCHANGED <<flow, server, asked, refused>>
        /\ pulse' = IF pulse.at = "io" THEN At("sweep", 1)
                    ELSE IF pulse.s < NServers THEN At("sweep", pulse.s + 1)
                    ELSE App
    BY <1>3 DEF PulseNext
  <2>2. pulse.s \in Servers /\ NServers \in Nat
    BY <2>1, ClientAssumption DEF IndInv, TypeOK
  <2>3. \A t \in Servers : Due(t)' <=> Due(t)
    BY <2>1 DEF Due
  <2>4. \A t \in Servers : t \in Nat /\ t >= 1 /\ t <= NServers
    BY <2>2 DEF Servers
  <2>5. CASE pulse.at = "io"
    <3>1. pulse'.at = "sweep" /\ pulse'.s = 1
      BY <2>1, <2>5 DEF At
    <3> QED
      BY <1>3, <2>1, <2>4, <3>1, PulseNextStep DEF SweepOk, KeepsTable
  <2>6. CASE pulse.at # "io" /\ pulse.s < NServers
    <3>1. pulse'.at = "sweep" /\ pulse'.s = pulse.s + 1
      BY <2>1, <2>6 DEF At
    <3>2. \A t \in Servers : t < pulse.s + 1 => t < pulse.s \/ t = pulse.s
      BY <2>2, <2>4
    <3>3. SweepOk'
      BY <2>1, <2>3, <2>6, <3>1, <3>2 DEF SweepOk
    <3> QED
      BY <1>3, <2>1, <3>1, <3>3, PulseNextStep DEF KeepsTable
  <2>7. CASE pulse.at # "io" /\ ~(pulse.s < NServers)
    <3>1. pulse' = App /\ pulse'.at = "app"
      BY <2>1, <2>7 DEF App, At
    <3>2. \A t \in Servers : t < pulse.s \/ t = pulse.s
      BY <2>2, <2>4, <2>7
    <3>3. \A t \in Servers : ~Due(t)
      BY <2>1, <2>7, <3>2 DEF SweepOk
    <3> QED
      BY <1>3, <2>1, <2>3, <3>1, <3>3, PulseNextStep DEF SweepOk, KeepsTable
  <2> QED BY <2>5, <2>6, <2>7
<1> QED
  BY <1>2, <1>3 DEF PulseStep

-----------------------------------------------------------------------------
(* The steps of the calls, one by one.                                      *)

(* A step that changes only call, or only the clock. *)
LEMMA OnlyCall ==
  ASSUME WInv, UNCHANGED vars
  PROVE  IndInv' /\ SweepOk' /\ UNCHANGED pulse /\ KeepsTable
BY DEF WInv, IndInv, TypeOK, TransientIsDriven, vars, SweepOk, Due, KeepsTable

LEMMA IdleStep ==
  ASSUME WInv, Idle, Next, UNCHANGED call
  PROVE  WInv'
<1>1. IndInv'
  BY NextInv DEF WInv
<1>2. call.op = "none" /\ call.at = ""
  BY DEF WInv, CallOk, Idle
<1>3. SweepOk'
  <2>1. CASE ApiStep
    <3>1. UNCHANGED pulse \/ pulse' = At("read", 0)
      BY <2>1 DEF ApiStep, pcp_new_flow, pcp_flow_set_lifetime,
         pcp_close_flow, pcp_delete_flow, pcp_add_server
    <3>2. pulse.at = "app" /\ pulse = App
      BY <2>1 DEF ApiStep, WInv, SweepOk
    <3> QED BY <3>1, <3>2 DEF SweepOk, At
  <2>2. CASE Tick
    BY <2>2 DEF Tick, WInv, SweepOk
  <2> QED
    BY <2>1, <2>2, StartFacts, StepFacts DEF Next, WInv
<1> QED
  BY <1>1, <1>2, <1>3
     DEF WInv, CallOk, WaitOk, SweptOk, DoneIsNotWaitedFor

LEMMA NoCallFields ==
  /\ NoCall \in CallRec
  /\ NoCall.op = "none" /\ NoCall.at = ""
BY DEF NoCall, CallRec, NoFlow

(* The end of a call. *)
LEMMA CallEnds ==
  ASSUME WInv, IndInv', SweepOk', call' = NoCall
  PROVE  WInv'
BY NoCallFields DEF WInv, CallOk, WaitOk, SweptOk, DoneIsNotWaitedFor

LEMMA WaitStart ==
  ASSUME WInv, pulse.at = "app", NEW f \in Flows, NEW t \in WaitTimes,
         NEW p \in BOOLEAN, pcp_wait(f, t, p)
  PROVE  WInv'
<1> DEFINE c == [NoCall EXCEPT !.op = "wait", !.at = "check", !.flow = f,
                               !.left = t, !.seen = SeenAtStart(f), !.now = p]
<1>1. call' = c /\ UNCHANGED vars
  BY DEF pcp_wait
<1>2. /\ SeenAtStart(f) \subseteq ChainFrom(f)
      /\ SeenAtStart(f) # ChainFrom(f)
      /\ ChainFrom(f) \subseteq Flows
  <2>1. f \in ChainFrom(f)
    <3>1. Key[f].server \in Nat
      BY ClientAssumption DEF FlowKey, Servers
    <3> QED BY <3>1 DEF pcp_wait, UserFlow, ChainFrom
  <2> QED BY <2>1 DEF SeenAtStart, Exited, ChainFrom
<1>3. t \in Nat /\ SeenAtStart(f) \in SUBSET Flows
  BY <1>2, WaitAssumption
<1>4. /\ c \in CallRec
      /\ c.op = "wait" /\ c.at = "check" /\ c.flow = f
      /\ c.seen = SeenAtStart(f)
  BY <1>3 DEF NoCall, CallRec
<1> HIDE DEF c
<1>5. ChainFrom(call.flow)' = ChainFrom(f)
  BY <1>1, <1>4 DEF ChainFrom, InDb, vars
<1>6. WaitOk'
  BY <1>1, <1>2, <1>4, <1>5 DEF WaitOk
<1> QED
  BY <1>1, <1>4, <1>6, OnlyCall
     DEF WInv, CallOk, SweptOk, DoneIsNotWaitedFor

LEMMA TermStart ==
  ASSUME WInv, pulse.at = "app", NEW b \in BOOLEAN, pcp_terminate(b)
  PROVE  WInv'
<1> DEFINE c == [NoCall EXCEPT !.op = "terminate", !.at = "visit", !.now = b]
<1>1. call' = c /\ UNCHANGED vars
  BY DEF pcp_terminate
<1>2. c \in CallRec /\ c.op = "terminate" /\ c.at = "visit"
  BY DEF NoCall, CallRec, NoFlow
<1> HIDE DEF c
<1> QED
  BY <1>1, <1>2, OnlyCall
     DEF WInv, CallOk, WaitOk, SweptOk, DoneIsNotWaitedFor

LEMMA CheckStep ==
  ASSUME WInv, WaitCheck
  PROVE  WInv'
<1> DEFINE c == [call EXCEPT !.at = "pulse"]
<1>1. /\ call' = IF call.left = 0 THEN NoCall ELSE c
      /\ UNCHANGED vars /\ call.at = "check"
  BY DEF WaitCheck
<1>2. call \in CallRec /\ call.op = "wait" /\ pulse.at = "app"
  BY <1>1 DEF WInv, CallOk
<1>3. CASE call.left = 0
  BY <1>1, <1>3, OnlyCall, CallEnds
<1>4. CASE call.left # 0
  <2>1. /\ c \in CallRec /\ c.op = "wait" /\ c.at = "pulse"
        /\ c.flow = call.flow /\ c.seen = call.seen /\ c.left = call.left
        /\ call.left \in Nat
    BY <1>2 DEF CallRec
  <2> HIDE DEF c
  <2>2. ChainFrom(call.flow)' = ChainFrom(call.flow)
    BY <1>1, <1>4, <2>1, OnlyCall, ChainStays
  <2>3. WaitOk'
    BY <1>1, <1>2, <1>4, <2>1, <2>2 DEF WaitOk, WInv
  <2> QED
    BY <1>1, <1>2, <1>4, <2>1, <2>3, OnlyCall
       DEF WInv, CallOk, SweptOk, DoneIsNotWaitedFor
<1> QED
  BY <1>3, <1>4

(* tout_select is within the rest of the wait, and not 0 unless that is or  *)
(* some server is due.                                                      *)
LEMMA ToutSelectOk ==
  ASSUME IndInv, call \in CallRec
  PROVE  /\ ToutSelect \in Nat /\ ToutSelect <= call.left
         /\ call.left # 0 /\ (\A s \in Servers : ~Due(s)) => ToutSelect > 0
<1> DEFINE live == {t \in Servers : /\ server[t].state # "pss_unitialized"
                                    /\ server[t].next_timeout # NoTime}
           due == {call.left} \cup {server[s].next_timeout : s \in live}
<1>1. ToutSelect = CHOOSE t \in due : \A u \in due : t <= u
  BY DEF ToutSelect
<1>2. call.left \in Nat
  BY DEF CallRec
<1>3. ASSUME NEW s \in live
      PROVE  /\ server[s].next_timeout \in Nat
             /\ ~Due(s) => server[s].next_timeout # 0
  BY Known DEF ServerRec, Timer, Due
<1>4. /\ due \subseteq Nat /\ call.left \in due
      /\ call.left # 0 /\ (\A s \in Servers : ~Due(s)) => 0 \notin due
  BY <1>2, <1>3
<1> HIDE DEF due, live
<1>5. \E t \in due : \A u \in due : t <= u
  BY <1>4, NatMin
<1>6. ToutSelect \in due /\ \A u \in due : ToutSelect <= u
  BY <1>1, <1>5
<1>7. ToutSelect \in Nat /\ ToutSelect <= call.left
  BY <1>4, <1>6
<1>8. ASSUME call.left # 0, \A s \in Servers : ~Due(s)
      PROVE  ToutSelect > 0
  <2>1. 0 \notin due
    BY <1>4, <1>8
  <2>2. ToutSelect # 0
    BY <1>6, <2>1
  <2> QED BY <1>7, <2>2
<1> QED
  BY <1>7, <1>8

(* More flows are in an exit state than were, if all are: the wait ends.    *)
LEMMA AllExited ==
  ASSUME WaitOk, call.op = "wait",
         Exited(call.flow) = ChainFrom(call.flow)
  PROVE  Cardinality(Exited(call.flow)) > Cardinality(call.seen)
<1>1. IsFiniteSet(Flows)
  BY ClientAssumption, FS_Interval DEF Flows
<1>2. ChainFrom(call.flow) \subseteq Flows
  BY DEF ChainFrom
<1>3. IsFiniteSet(ChainFrom(call.flow))
  BY <1>1, <1>2, FS_Subset
<1>4. /\ call.seen \subseteq ChainFrom(call.flow)
      /\ call.seen # ChainFrom(call.flow)
  BY DEF WaitOk
<1>5. /\ IsFiniteSet(call.seen)
      /\ Cardinality(call.seen) <= Cardinality(ChainFrom(call.flow))
      /\ Cardinality(call.seen) # Cardinality(ChainFrom(call.flow))
  BY <1>3, <1>4, FS_Subset
<1>6. /\ Cardinality(call.seen) \in Nat
      /\ Cardinality(ChainFrom(call.flow)) \in Nat
  BY <1>3, <1>5, FS_CardinalityType
<1> QED
  BY <1>5, <1>6

LEMMA EvalStep ==
  ASSUME WInv, WaitEval
  PROVE  WInv' /\ (call'.at = "select" => call'.tout > 0)
<1> DEFINE f == call.flow
           done == /\ Cardinality(Exited(f)) > Cardinality(call.seen)
                   /\ call.now \/ ~Partial(f)
           c == [call EXCEPT !.at = "select", !.tout = ToutSelect]
<1>1. /\ call' = IF done THEN NoCall ELSE c
      /\ UNCHANGED vars /\ call.at = "eval" /\ pulse.at = "app"
  BY DEF WaitEval
<1>2. call \in CallRec /\ call.op = "wait" /\ IndInv
  BY <1>1 DEF WInv, CallOk
<1>3. CASE done
  BY <1>1, <1>3, OnlyCall, CallEnds, NoCallFields
<1>4. CASE ~done
  <2>1. /\ ToutSelect \in Nat /\ ToutSelect <= call.left
        /\ ToutSelect > 0
    <3>1. \A s \in Servers : ~Due(s)
      BY <1>1 DEF WInv, SweptOk
    <3>2. call.left # 0
      <4>1. call.left \in Nat
        BY <1>2 DEF CallRec
      <4>2. call.left > 0
        BY <1>1, <1>2 DEF WInv, WaitOk
      <4> QED BY <4>1, <4>2
    <3> QED BY <1>2, <3>1, <3>2, ToutSelectOk
  <2>2. /\ c \in CallRec /\ c.op = "wait" /\ c.at = "select"
        /\ c.flow = call.flow /\ c.seen = call.seen /\ c.left = call.left
        /\ c.tout = ToutSelect
    BY <1>2, <2>1 DEF CallRec
  <2>3. Exited(f) # ChainFrom(f)
    <3>1. SUFFICES ASSUME Exited(f) = ChainFrom(f) PROVE FALSE
      OBVIOUS
    <3>2. Cardinality(Exited(f)) > Cardinality(call.seen)
      BY <1>2, <3>1, AllExited DEF WInv
    <3>3. ~Partial(f)
      BY <3>1 DEF Partial
    <3> QED BY <1>4, <3>2, <3>3
  <2>4. call' = c
    BY <1>1, <1>4
  <2> HIDE DEF c, done
  <2>5. ChainFrom(call.flow)' = ChainFrom(call.flow)
    BY <2>2, <2>4, <1>1, OnlyCall, ChainStays
  <2>6. Exited(call.flow)' = Exited(call.flow)
    BY <1>1, <2>5 DEF Exited, vars
  <2>7. WaitOk'
    BY <1>1, <1>2, <2>1, <2>2, <2>4, <2>5 DEF WaitOk, WInv
  <2>8. DoneIsNotWaitedFor'
    BY <2>3, <2>5, <2>6 DEF DoneIsNotWaitedFor
  <2> QED
    BY <1>1, <2>1, <2>2, <2>4, <2>7, <2>8, OnlyCall
       DEF WInv, CallOk, SweptOk
<1> QED
  BY <1>3, <1>4

LEMMA ReturnStep ==
  ASSUME WInv, SelectReturn
  PROVE  WInv'
<1> DEFINE c == [call EXCEPT !.at = "check", !.tout = 0]
<1>1. call' = c /\ UNCHANGED vars /\ call.at = "select"
  BY DEF SelectReturn
<1>2. call \in CallRec /\ call.op = "wait" /\ pulse.at = "app"
  BY <1>1 DEF WInv, CallOk
<1>3. /\ c \in CallRec /\ c.op = "wait" /\ c.at = "check"
      /\ c.flow = call.flow /\ c.seen = call.seen
  BY <1>2 DEF CallRec
<1> HIDE DEF c
<1>4. ChainFrom(call.flow)' = ChainFrom(call.flow)
  BY <1>1, <1>3, OnlyCall, ChainStays
<1>5. WaitOk'
  BY <1>1, <1>2, <1>3, <1>4 DEF WaitOk, WInv
<1> QED
  BY <1>1, <1>2, <1>3, <1>5, OnlyCall
     DEF WInv, CallOk, SweptOk, DoneIsNotWaitedFor

LEMMA TickStates ==
  ASSUME IndInv, Tick
  PROVE  \A f \in Flows : flow'[f].state = flow[f].state
<1>1. ASSUME NEW f \in Flows
      PROVE  flow'[f].state = flow[f].state
  <2> DEFINE b == flow[f]
             g == [b EXCEPT !.timeout = Sooner(@),
                            !.recv_lifetime = IF @ = 0 THEN NoTime
                                              ELSE Sooner(@)]
  <2>1. flow'[f] = g
    BY Zenon DEF Tick
  <2>2. b \in FlowRec
    BY DEF IndInv, TypeOK
  <2> HIDE DEF b
  <2>3. g.state = b.state
    BY <2>2 DEF FlowRec
  <2> QED BY <2>1, <2>3 DEF b
<1> QED
  BY <1>1

LEMMA SelectTickStep ==
  ASSUME WInv, SelectTick
  PROVE  WInv'
<1> DEFINE c == [call EXCEPT !.left = @ - 1, !.tout = @ - 1]
<1>1. call' = c /\ Tick /\ call.at = "select" /\ call.tout > 0
  BY DEF SelectTick
<1>2. call \in CallRec /\ call.op = "wait" /\ pulse.at = "app" /\ IndInv
  BY <1>1 DEF WInv, CallOk
<1>3. /\ call.tout \in Nat /\ call.left \in Nat /\ call.tout <= call.left
  BY <1>1, <1>2 DEF WInv, WaitOk, CallRec
<1>4. call.tout - 1 \in Nat /\ call.left - 1 \in Nat
      /\ call.tout - 1 <= call.left - 1
  BY <1>1, <1>3
<1>5. /\ c \in CallRec /\ c.op = "wait" /\ c.at = "select"
      /\ c.flow = call.flow /\ c.seen = call.seen
      /\ c.left = call.left - 1 /\ c.tout = call.tout - 1
  BY <1>1, <1>2, <1>4 DEF CallRec
<1> HIDE DEF c
<1>6. \A f \in Flows : flow'[f].state = flow[f].state
  BY <1>1, <1>2, TickStates
<1>7. KeepsTable
  BY <1>6 DEF KeepsTable
<1>8. ChainFrom(call.flow)' = ChainFrom(call.flow)
  BY <1>1, <1>5, <1>7, ChainStays
<1>9. Exited(call.flow)' = Exited(call.flow)
  BY <1>6, <1>8 DEF Exited, ChainFrom
<1>10. WaitOk'
  BY <1>1, <1>2, <1>4, <1>5, <1>8 DEF WaitOk, WInv
<1>11. DoneIsNotWaitedFor'
  BY <1>1, <1>8, <1>9 DEF DoneIsNotWaitedFor, WInv
<1>12. IndInv' /\ UNCHANGED pulse
  BY <1>1, <1>2, TickStep DEF Tick
<1> QED
  BY <1>1, <1>2, <1>5, <1>10, <1>11, <1>12
     DEF WInv, CallOk, SweptOk, SweepOk

LEMMA VisitStep ==
  ASSUME WInv, TermVisit
  PROVE  WInv'
<1>1. PICK f \in Flows :
        /\ InDb(f) /\ call.at = "visit"
        /\ IF call.now
           THEN /\ flow' = [flow EXCEPT ![f] = Closed(@)]
                /\ server' = IF OnlyMarked(flow[f]) THEN server
                             ELSE Wake({Key[f].server})
                /\ pulse' = At("read", 0)
                /\ call' = [call EXCEPT !.at = "close", !.flow = f]
           ELSE /\ call' = [call EXCEPT !.at = "delete", !.flow = f]
                /\ UNCHANGED <<flow, server, pulse>>
        /\ UNCHANGED <<asked, refused>>
  BY DEF TermVisit, wire
<1>2. call \in CallRec /\ call.op = "terminate" /\ pulse.at = "app" /\ IndInv
  BY <1>1 DEF WInv, CallOk
<1>3. flow \in [Flows -> FlowRec] /\ server \in [Servers -> ServerRec]
  BY <1>2 DEF IndInv, TypeOK
<1>4. /\ call' \in CallRec /\ call'.op = "terminate"
      /\ call'.at \in {"close", "delete"} /\ call'.flow = f
  <2>1. PICK a \in {"close", "delete"} : call' = [call EXCEPT !.at = a, !.flow = f]
    BY <1>1, Zenon
  <2> QED BY <1>2, <2>1, ZenonT(60) DEF CallRec
<1>5. CASE call.now
  <2>1. flow' = [g \in Flows |-> IF g \in {f} THEN Closed(flow[g])
                                 ELSE flow[g]]
    BY <1>1, <1>3, <1>5
  <2>2. server' = Wake(ServersOf({g \in {f} : ~OnlyMarked(flow[g])}))
    <3>1. CASE OnlyMarked(flow[f])
      <4>1. {g \in {f} : ~OnlyMarked(flow[g])} = {}
        BY <3>1
      <4>2. Wake(ServersOf({})) = server
        BY <1>3 DEF Wake, ServersOf
      <4> QED BY <1>1, <1>5, <3>1, <4>1, <4>2
    <3>2. CASE ~OnlyMarked(flow[f])
      <4>1. {g \in {f} : ~OnlyMarked(flow[g])} = {f}
        BY <3>2
      <4>2. ServersOf({f}) = {Key[f].server}
        BY DEF ServersOf
      <4> QED BY <1>1, <1>5, <3>2, <4>1, <4>2
    <3> QED BY <3>1, <3>2
  <2>3. IndInv'
    <3>1. {f} \in SUBSET Flows /\ \A g \in {f} : InDb(g)
      BY <1>1
    <3> QED
      BY <1>1, <1>2, <1>5, <2>1, <2>2, <3>1, ClosedFlows
  <2>4. SweepOk'
    BY <1>1, <1>5 DEF SweepOk, At
  <2> QED
    BY <1>4, <2>3, <2>4
       DEF WInv, CallOk, WaitOk, SweptOk, DoneIsNotWaitedFor
<1>6. CASE ~call.now
  <2>1. UNCHANGED vars
    BY <1>1, <1>6 DEF vars
  <2> QED
    BY <1>4, <2>1, OnlyCall
       DEF WInv, CallOk, WaitOk, SweptOk, DoneIsNotWaitedFor
<1> QED
  BY <1>5, <1>6

LEMMA TermDeleteStep ==
  ASSUME WInv, TermDelete
  PROVE  WInv'
<1> DEFINE c == [call EXCEPT !.at = "visit", !.seen = @ \cup {call.flow}]
           z == NewFlow("free", 0, NoTime)
<1>1. /\ call.at = "delete" /\ pulse.at = "app"
      /\ flow' = [flow EXCEPT ![call.flow] = z]
      /\ server' = [s \in Servers |->
                      IF /\ server[s].state # "pss_unitialized"
                         /\ server[s].ping_flow = call.flow
                      THEN [server[s] EXCEPT !.ping_flow = NoFlow]
                      ELSE server[s]]
      /\ call' = c
      /\ UNCHANGED <<asked, refused, pulse>>
  BY DEF TermDelete
<1>2. call \in CallRec /\ call.op = "terminate" /\ IndInv
      /\ call.flow \in Flows /\ pulse = App
  BY <1>1 DEF WInv, CallOk, SweepOk
<1>3. c \in CallRec /\ c.op = "terminate" /\ c.at = "visit"
  BY <1>2 DEF CallRec
<1> HIDE DEF c, z
<1>4. PICK f \in Flows : f = call.flow
  BY <1>2
<1>5. flow' = [g \in Flows |-> IF g \in {f} THEN z ELSE flow[g]]
  <2>1. flow \in [Flows -> FlowRec]
    BY <1>2 DEF IndInv, TypeOK
  <2> QED BY <1>1, <1>4, <2>1
<1>6. server' = [s \in Servers |->
                   IF /\ server[s].state # "pss_unitialized"
                      /\ server[s].ping_flow \in {f}
                   THEN [server[s] EXCEPT !.ping_flow = NoFlow]
                   ELSE server[s]]
  BY <1>1, <1>4
<1>7. IndInv'
  BY <1>1, <1>2, <1>5, <1>6, FreedFlows DEF z
<1> QED
  BY <1>1, <1>2, <1>3, <1>7
     DEF WInv, CallOk, WaitOk, SweptOk, SweepOk, DoneIsNotWaitedFor

LEMMA TermServersStep ==
  ASSUME WInv, TermServers
  PROVE  WInv'
<1> DEFINE c == [NoCall EXCEPT !.op = "terminated"]
           out(s) == [server[s] EXCEPT !.state = "pss_allocated",
                                       !.next_timeout = NoTime]
           sv == [s \in Servers |->
                    IF server[s].state \in {"pss_unitialized",
                                            "pss_allocated"}
                    THEN server[s] ELSE out(s)]
<1>1. /\ call.at = "visit" /\ server' = sv /\ call' = c
      /\ UNCHANGED <<flow, asked, refused, pulse>>
  BY DEF TermServers
<1>2. IndInv /\ pulse.at = "app"
  BY <1>1 DEF WInv, CallOk
<1>3. c \in CallRec /\ c.op = "terminated" /\ c.at = ""
  BY DEF NoCall, CallRec, NoFlow
<1> HIDE DEF c
<1>4. ASSUME NEW s \in Servers
      PROVE  ServerOk(s, sv[s], flow) /\ sv[s].state \notin TransientStates
  <2> DEFINE q == server[s]
             r == [q EXCEPT !.state = "pss_allocated", !.next_timeout = NoTime]
  <2>1. /\ q \in ServerRec /\ ServerOk(s, q, flow)
        /\ q.state \notin TransientStates
    BY <1>2, Known, AtRestServers
  <2>2. sv[s] = IF q.state \in {"pss_unitialized", "pss_allocated"}
                THEN q ELSE r
    OBVIOUS
  <2> HIDE DEF q, sv
  <2>3. /\ r \in ServerRec
        /\ r.state = "pss_allocated" /\ r.restart_flow = q.restart_flow
        /\ r.pcp_version = q.pcp_version
    BY ZenonT(60), <2>1, TimerValues, StateNames DEF ServerRec
  <2> HIDE DEF r
  <2>4. ServerOk(s, r, flow) /\ r.state \notin TransientStates
    <3>1. q.restart_flow = NoFlow
      BY <2>1 DEF ServerOk, TransientStates
    <3> QED BY <2>1, <2>3, <3>1 DEF ServerOk, TransientStates
  <2> QED BY <2>1, <2>2, <2>4
<1>5. /\ flow' = [f \in Flows |-> flow[f]]
      /\ server' = [s \in Servers |-> sv[s]]
      /\ \A f \in Flows : FlowOk(flow[f])
      /\ pulse' \in PulseRec
      /\ pulse'.at \in {"io", "sweep"} => pulse'.s \in Servers
  BY <1>1, <1>2 DEF IndInv, TypeOK
<1> HIDE DEF sv
<1>6. IndInv'
  BY <1>1, <1>2, <1>4, <1>5, QuietPreserves
<1> QED
  BY <1>1, <1>2, <1>3, <1>6
     DEF WInv, CallOk, WaitOk, SweptOk, SweepOk, DoneIsNotWaitedFor

LEMMA InitNext == (Init => IndInv)'
<1>1. Init => IndInv
  BY InitInv
<1> QED
  BY <1>1, PTL

LEMMA InitStep ==
  ASSUME WInv, pcp_init
  PROVE  WInv'
<1>1. call.op = "terminated" /\ call' = NoCall /\ UNCHANGED pulse
  BY DEF pcp_init
<1>2. pulse = App
  BY <1>1 DEF WInv, CallOk, SweepOk
<1>3. Init'
  BY <1>1, <1>2 DEF pcp_init, Init, NewServer, NewFlow, App, At
<1>4. IndInv'
  BY <1>3, InitNext
<1>5. SweepOk'
  BY <1>1, <1>2 DEF SweepOk, App, At
<1> QED
  BY <1>1, <1>4, <1>5, CallEnds

LEMMA InPulseStep ==
  ASSUME WInv, InPulse
  PROVE  WInv'
<1>1. call \in CallRec /\ IndInv /\ SweepOk
  BY DEF WInv
<1>2. CASE call.at = "pulse" /\ PulseStart /\ call' = [call EXCEPT !.at = "eval"]
  <2>1. call.op = "wait"
    BY <1>2 DEF WInv, CallOk
  <2>2. /\ call' \in CallRec /\ call'.op = "wait" /\ call'.at = "eval"
        /\ call'.flow = call.flow /\ call'.seen = call.seen
        /\ call'.left = call.left
    BY <1>1, <1>2, <2>1 DEF CallRec
  <2>3. /\ IndInv' /\ SweepOk' /\ KeepsTable
        /\ pulse'.at \in {"io", "sweep"}
    BY <1>1, <1>2, StartFacts
  <2>4. ChainFrom(call.flow)' = ChainFrom(call.flow)
    BY <2>2, <2>3, ChainStays
  <2>5. WaitOk'
    BY <1>2, <2>1, <2>2, <2>4 DEF WaitOk, WInv
  <2> QED
    BY <2>2, <2>3, <2>5 DEF WInv, CallOk, SweptOk, DoneIsNotWaitedFor
<1>3. CASE call.at = "close" /\ PulseStart
           /\ call' = [call EXCEPT !.at = "delete"]
  <2>1. call.op = "terminate" /\ call.flow \in Flows
    BY <1>3 DEF WInv, CallOk
  <2>2. /\ call' \in CallRec /\ call'.op = "terminate" /\ call'.at = "delete"
        /\ call'.flow = call.flow
    BY <1>1, <1>3, <2>1 DEF CallRec
  <2>3. IndInv' /\ SweepOk'
    BY <1>1, <1>3, StartFacts
  <2> QED
    BY <2>1, <2>2, <2>3
       DEF WInv, CallOk, WaitOk, SweptOk, DoneIsNotWaitedFor
<1>4. CASE PulseStep /\ UNCHANGED call
  <2>1. /\ IndInv' /\ SweepOk' /\ KeepsTable
        /\ pulse'.at = "app" => \A t \in Servers : ~Due(t)'
    BY <1>1, <1>4, StepFacts
  <2>2. pulse.at # "app"
    BY <1>4 DEF PulseStep, PulseRun, PulseNext
  <2>3. ChainFrom(call.flow)' = ChainFrom(call.flow)
    BY <1>4, <2>1, ChainStays
  <2>4. WaitOk'
    BY <1>4, <2>3 DEF WaitOk, WInv
  <2>5. call.at \notin {"check", "pulse", "select", "visit"}
        /\ call.op # "terminated"
    BY <2>2 DEF WInv, CallOk
  <2> QED
    BY <1>4, <2>1, <2>4, <2>5
       DEF WInv, CallOk, SweptOk, DoneIsNotWaitedFor
<1> QED
  BY <1>2, <1>3, <1>4 DEF InPulse

-----------------------------------------------------------------------------
(* The theorems.                                                            *)

LEMMA WNextInv ==
  ASSUME WInv, [WNext]_wvars
  PROVE  WInv'
<1>1. CASE UNCHANGED wvars
  <2>1. UNCHANGED vars /\ UNCHANGED call
    BY <1>1 DEF wvars, vars
  <2>2. ChainFrom(call.flow)' = ChainFrom(call.flow)
        /\ Exited(call.flow)' = Exited(call.flow)
    BY <2>1 DEF ChainFrom, Exited, InDb, vars
  <2>3. \A t \in Servers : Due(t)' <=> Due(t)
    BY <2>1 DEF Due, vars
  <2> QED
    BY <2>1, <2>2, <2>3, OnlyCall
       DEF WInv, CallOk, WaitOk, SweptOk, DoneIsNotWaitedFor
<1>2. CASE CallStart
  BY <1>2, WaitStart, TermStart, WaitAssumption DEF CallStart
<1> QED
  BY <1>1, <1>2, IdleStep, CheckStep, EvalStep, ReturnStep, SelectTickStep,
     VisitStep, TermDeleteStep, TermServersStep, InPulseStep, InitStep
     DEF WNext, WaitStep, TermStep

(* The inductive invariant holds in every run of the library with pcp_wait  *)
(* and pcp_terminate; with it, every invariant of PcpClient holds inside    *)
(* these calls.                                                             *)
THEOREM WaitInductive == WSpec => []WInv
<1>1. Init /\ call = NoCall => WInv
  <2>1. ASSUME Init, call = NoCall
        PROVE  WInv
    <3>1. IndInv
      BY <2>1, InitInv
    <3>2. pulse = App /\ pulse.at = "app"
      BY <2>1 DEF Init, App, At
    <3> QED
      BY <2>1, <3>1, <3>2, NoCallFields
         DEF WInv, CallOk, WaitOk, SweptOk, SweepOk, DoneIsNotWaitedFor
  <2> QED BY <2>1
<1>2. WInv /\ [WNext]_wvars => WInv'
  BY WNextInv
<1> QED
  BY <1>1, <1>2, PTL DEF WSpec

(* Every variable keeps its type in pcp_wait and pcp_terminate: select is   *)
(* never asked to sleep for a negative time, or beyond the end of the wait. *)
THEOREM WaitTypeCorrect == WSpec => []WTypeOK
<1>1. WInv => WTypeOK
  BY DEF WInv, IndInv, WTypeOK
<1> QED
  BY <1>1, WaitInductive, PTL

(* pcp_wait never goes to select once every flow of the chain is in an exit *)
(* state, whatever order the answers and timeouts came in.                  *)
THEOREM DoneNotWaitedFor == WSpec => []DoneIsNotWaitedFor
<1>1. WInv => DoneIsNotWaitedFor
  BY DEF WInv
<1> QED
  BY <1>1, WaitInductive, PTL

(* pcp_wait never spins: after pcp_pulse no server is due, so the timeout   *)
(* it passes to select is not 0.                                            *)
THEOREM SelectSleeps == WSpec => SelectMaySleep
<1>1. WInv /\ [WNext]_wvars =>
        [call.at = "eval" /\ call'.at = "select" => call'.tout > 0]_wvars
  <2>1. ASSUME WInv, WNext, call.at = "eval", call'.at = "select"
        PROVE  call'.tout > 0
    <3>1. call.op = "wait" /\ call \in CallRec
      BY <2>1 DEF WInv, CallOk
    <3>2. CASE WaitEval
      BY <2>1, <3>2, EvalStep
    <3>3. CASE InPulse
      BY <2>1, <3>3 DEF InPulse
    <3> QED
      BY <2>1, <3>1, <3>2, <3>3
         DEF WNext, Idle, CallStart, WaitStep, WaitCheck, SelectReturn,
             SelectTick, TermStep, TermVisit, TermDelete, TermServers,
             pcp_init
  <2> QED BY <2>1
<1> QED
  BY <1>1, WaitInductive, PTL DEF WSpec, SelectMaySleep
=============================================================================
