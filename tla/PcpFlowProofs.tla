--------------------------- MODULE PcpFlowProofs ---------------------------
(***************************************************************************)
(* Facts about handle_flow_event for every flow, event and outcome of the  *)
(* sends, whatever the retransmission parameters are.                      *)
(***************************************************************************)
EXTENDS PcpFlow, TLAPS

(* The events that the callers of handle_flow_event pass; the others only   *)
(* come from its handlers.                                                  *)
CallerEvents ==
  {"fev_flow_timedout", "fev_server_initialized", "fev_send", "fev_failed",
   "fev_server_restarted"} \cup ResultCodes

(* Where an event leaves a flow that has a row for it. *)
AtRest(g) ==
  /\ g \in FlowRec
  /\ g.state \in {"pfs_wait_for_server_init", "pfs_wait_resp",
                  "pfs_wait_after_short_life_error",
                  "pfs_wait_for_lifetime_renew", "pfs_failed"}
  /\ g.state \in {"pfs_wait_resp", "pfs_wait_after_short_life_error"}
       => g.timeout # NoTime

(* The two stages inside the loop: after a send and after a renewal. *)
Sending(c, e) ==
  /\ c.f \in FlowRec /\ c.f.state = "pfs_send"
  /\ c.ev \in {"fev_failed", "fev_ignored", "fev_msg_sent"}
  /\ c.ev = "fev_msg_sent" => c.f.timeout # NoTime
  /\ c.ev = "fev_ignored" => e.restart

Renewing(c) ==
  /\ c.f \in FlowRec /\ c.f.state = "pfs_send_renew"
  /\ c.ev \in {"fev_failed", "fev_msg_sent"}

Ended(c) ==
  c.ev = "fev_none" /\ AtRest(c.f)

-----------------------------------------------------------------------------
(* The handlers.                                                            *)

LEMMA PCP_RT_Bounds ==
  ASSUME NEW rt \in Nat
  PROVE  PCP_RT(rt) \in PCP_RETX_IRT .. PCP_RETX_MRT
BY RetxAssumption DEF PCP_RT

LEMMA SendOutcome ==
  ASSUME NEW f \in FlowRec, NEW e \in FlowEnv, f.state = "pfs_send"
  PROVE  Sending(fhndl_send(f, e), e)
<1> DEFINE g == [f EXCEPT !.resend_timeout = PCP_RETX_IRT,
                          !.timeout = PCP_RETX_IRT]
<1>1. g \in FlowRec /\ g.state = "pfs_send" /\ g.timeout # NoTime
  <2>1. PCP_RETX_IRT \in Nat
    BY RetxAssumption
  <2>2. g \in FlowRec /\ g.state = "pfs_send" /\ g.timeout = PCP_RETX_IRT
    BY <2>1 DEF FlowRec, Timer
  <2> QED BY <2>1, <2>2 DEF NoTime
<1>2. \/ fhndl_send(f, e) = Out(f, "fev_failed", FALSE)
      \/ fhndl_send(f, e) = Out(f, "fev_ignored", FALSE) /\ e.restart
      \/ fhndl_send(f, e) = Out(g, "fev_msg_sent", ~e.quiet)
  BY DEF fhndl_send
<1> HIDE DEF g
<1> QED
  BY <1>1, <1>2 DEF Out, Sending

LEMMA ResendOutcome ==
  ASSUME NEW f \in FlowRec, NEW e \in FlowEnv, f.state = "pfs_send"
  PROVE  Sending(fhndl_resend(f, e), e)
<1> DEFINE tries == IF f.retry_count < PCP_RETX_MRC
                    THEN f.retry_count + 1 ELSE PCP_RETX_MRC
           rt    == PCP_RT(f.resend_timeout)
<1>1. f.resend_timeout \in Nat /\ f.retry_count \in 0 .. PCP_RETX_MRC
  BY DEF FlowRec
<1>2. tries \in 0 .. PCP_RETX_MRC
  BY <1>1, RetxAssumption
<1>3. rt \in Nat
  BY <1>1, PCP_RT_Bounds, RetxAssumption
<1> HIDE DEF rt, tries
<1> DEFINE g == [f EXCEPT !.retry_count = tries]
           h == [g EXCEPT !.resend_timeout = rt, !.timeout = rt]
<1>4. /\ g \in FlowRec /\ g.state = "pfs_send"
      /\ g.resend_timeout = f.resend_timeout
  BY <1>2 DEF FlowRec
<1>5. h \in FlowRec /\ h.state = "pfs_send" /\ h.timeout # NoTime
  <2>1. h \in FlowRec /\ h.state = "pfs_send" /\ h.timeout = rt
    <3> HIDE DEF g
    <3> QED BY <1>3, <1>4 DEF FlowRec, Timer
  <2> QED BY <1>3, <2>1 DEF NoTime
<1>6. \/ fhndl_resend(f, e) = Out(f, "fev_failed", FALSE)
      \/ fhndl_resend(f, e) = Out(g, "fev_failed", FALSE)
      \/ fhndl_resend(f, e) = Out(h, "fev_msg_sent", ~e.quiet)
  BY <1>4 DEF fhndl_resend, rt, tries
<1> HIDE DEF g, h
<1> QED
  BY <1>4, <1>5, <1>6 DEF Out, Sending

LEMMA RenewOutcome ==
  ASSUME NEW f \in FlowRec, NEW e \in FlowEnv, f.state = "pfs_send_renew"
  PROVE  Renewing(fhndl_send_renew(f, e))
<1> DEFINE half == IF f.recv_lifetime = NoTime THEN NoTime
                   ELSE f.recv_lifetime \div 2
           t    == IF half = NoTime THEN 0 ELSE half
           z    == [f EXCEPT !.timeout = 0]
           g    == [f EXCEPT !.timeout = t]
<1>1. f.recv_lifetime \in Nat \cup {NoTime}
  BY DEF FlowRec
<1>2. t \in Nat
  BY <1>1 DEF NoTime
<1>3. /\ z \in FlowRec /\ z.state = "pfs_send_renew"
      /\ g \in FlowRec /\ g.state = "pfs_send_renew"
  <2> HIDE DEF t
  <2> QED BY <1>2 DEF FlowRec, Timer
<1>4. \/ fhndl_send_renew(f, e) = Out(f, "fev_failed", FALSE)
      \/ fhndl_send_renew(f, e) = Out(z, "fev_failed", ~e.quiet)
      \/ fhndl_send_renew(f, e) = Out(g, "fev_msg_sent", ~e.quiet)
  BY DEF fhndl_send_renew
<1> HIDE DEF z, g
<1> QED
  BY <1>3, <1>4 DEF Out, Renewing

LEMMA ShortLifeErrorOutcome ==
  ASSUME NEW f \in FlowRec, NEW e \in FlowEnv, e.result \in ResultCodes,
         f.state = "pfs_wait_after_short_life_error"
  PROVE  /\ Ended(fhndl_shortlifeerror(f, e))
         /\ fhndl_shortlifeerror(f, e).f.state = f.state
<1> DEFINE g == [f EXCEPT !.recv_result = e.result, !.timeout = e.lifetime]
<1>1. e.lifetime \in Timer /\ e.lifetime # NoTime
  BY DEF FlowEnv, Timer, NoTime
<1>2. g \in FlowRec /\ g.state = f.state /\ g.timeout # NoTime
  BY <1>1 DEF FlowRec
<1>3. fhndl_shortlifeerror(f, e) = Out(g, "fev_none", FALSE)
  BY DEF fhndl_shortlifeerror
<1> HIDE DEF g
<1> QED
  BY <1>2, <1>3 DEF Out, Ended, AtRest

LEMMA SuccessOutcome ==
  ASSUME NEW f \in FlowRec, NEW e \in FlowEnv, e.result \in ResultCodes,
         f.state = "pfs_wait_for_lifetime_renew"
  PROVE  /\ Ended(fhndl_received_success(f, e))
         /\ fhndl_received_success(f, e).f.state = f.state
<1> DEFINE t == IF e.lifetime = 0 THEN NoTime ELSE e.lifetime \div 2
           g == [f EXCEPT !.recv_lifetime = e.lifetime,
                          !.recv_result = e.result, !.timeout = t]
<1>1. e.lifetime \in Nat
  BY DEF FlowEnv
<1>2. t \in Timer
  BY <1>1 DEF Timer
<1>3. g \in FlowRec /\ g.state = f.state
  <2> HIDE DEF t
  <2> QED BY <1>1, <1>2 DEF FlowRec
<1>4. fhndl_received_success(f, e) = Out(g, "fev_none", FALSE)
  BY DEF fhndl_received_success
<1> HIDE DEF g
<1> QED
  BY <1>3, <1>4 DEF Out, Ended, AtRest

LEMMA ClearOutcome ==
  ASSUME NEW f \in FlowRec, NEW e \in FlowEnv,
         f.state \in {"pfs_wait_for_server_init", "pfs_failed"}
  PROVE  /\ Ended(fhndl_clear_timeouts(f, e))
         /\ fhndl_clear_timeouts(f, e).f.state = f.state
<1> DEFINE r == IF e.result = NoResult THEN f.recv_result ELSE e.result
           g == [f EXCEPT !.timeout = NoTime, !.recv_result = r]
<1>1. r \in ResultCodes
  BY DEF FlowRec, FlowEnv
<1>2. g \in FlowRec /\ g.state = f.state
  <2> HIDE DEF r
  <2> QED BY <1>1 DEF FlowRec, Timer
<1>3. fhndl_clear_timeouts(f, e) = Out(g, "fev_none", FALSE)
  BY DEF fhndl_clear_timeouts, FlowRec
<1> HIDE DEF g
<1> QED
  BY <1>2, <1>3 DEF Out, Ended, AtRest

LEMMA WaitRespOutcome ==
  ASSUME NEW f \in FlowRec, NEW e \in FlowEnv, f.state = "pfs_wait_resp",
         f.timeout # NoTime
  PROVE  /\ Ended(fhndl_waitresp(f, e))
         /\ fhndl_waitresp(f, e).f.state = f.state
BY DEF fhndl_waitresp, Ended, AtRest, Out
-----------------------------------------------------------------------------
(* The rounds of the loop.                                                  *)

(* flow_events_sm leads to known states only. *)
LEMMA AfterFields ==
  ASSUME NEW c, NEW r
  PROVE  After(c, r).f = r.f /\ After(c, r).ev = r.ev
BY DEF After, Out

(* What a round with a row for the event does, and one without. *)
LEMMA Round ==
  ASSUME NEW c, NEW e, c.ev # "fev_none",
         NextState(c.f.state, c.ev) # "none"
  PROVE  LET to == NextState(c.f.state, c.ev)
             r  == Transition(c.f.state, to, Enter(c.f, to), e)
         IN  FlowStep(c, e).f = r.f /\ FlowStep(c, e).ev = r.ev
<1> DEFINE to == NextState(c.f.state, c.ev)
           r  == Transition(c.f.state, to, Enter(c.f, to), e)
<1>1. FlowStep(c, e) = After(c, r)
  BY DEF FlowStep
<1> HIDE DEF r
<1>2. FlowStep(c, e).f = r.f /\ FlowStep(c, e).ev = r.ev
  BY <1>1, AfterFields
<1> QED BY <1>2 DEF r

LEMMA NoRound ==
  ASSUME NEW c, NEW e,
         c.ev = "fev_none" \/ NextState(c.f.state, c.ev) = "none"
  PROVE  FlowStep(c, e).f = c.f /\ FlowStep(c, e).ev = "fev_none"
<1>1. CASE c.ev = "fev_none"
  BY <1>1 DEF FlowStep
<1>2. CASE c.ev # "fev_none" /\ NextState(c.f.state, c.ev) = "none"
  BY <1>2 DEF FlowStep, Out
<1> QED BY <1>1, <1>2

(* A send is followed by one round, which ends the loop. *)
LEMMA SendingRound ==
  ASSUME NEW c, NEW e \in FlowEnv, Sending(c, e)
  PROVE  /\ Ended(FlowStep(c, e))
         /\ FlowStep(c, e).f.state \in
              {"pfs_wait_resp", "pfs_failed", "pfs_wait_for_lifetime_renew"}
         /\ ~e.restart => FlowStep(c, e).f.state \in
                            {"pfs_wait_resp", "pfs_failed"}
<1> DEFINE to == NextState("pfs_send", c.ev)
           g  == Enter(c.f, to)
           r  == Transition("pfs_send", to, g, e)
<1>1. to \in {"pfs_wait_resp", "pfs_failed", "pfs_wait_for_lifetime_renew"}
  BY DEF Sending, NextState, ShortLifeErrors, LongLifeErrors
<1>2. /\ to = "pfs_wait_resp" => c.ev = "fev_msg_sent"
      /\ to = "pfs_wait_for_lifetime_renew" => e.restart
  BY DEF Sending, NextState, ShortLifeErrors, LongLifeErrors
<1> HIDE DEF to
<1>3. g \in FlowRec /\ g.state = to /\ g.timeout = c.f.timeout
  BY <1>1 DEF Sending, FlowRec, FlowStates, Enter
<1>4. Ended(r) /\ r.f.state = to
  <2> HIDE DEF g
  <2>1. CASE to = "pfs_wait_resp"
    <3>1. Transition("pfs_send", to, g, e) = fhndl_waitresp(g, e)
      BY <2>1 DEF Transition
    <3>2. g.timeout # NoTime
      BY <1>2, <1>3, <2>1 DEF Sending
    <3> QED BY <1>3, <2>1, <3>1, <3>2, WaitRespOutcome
  <2>2. CASE to = "pfs_failed"
    <3>1. Transition("pfs_send", to, g, e) = fhndl_clear_timeouts(g, e)
      BY <2>2 DEF Transition
    <3> QED BY <1>3, <2>2, <3>1, ClearOutcome
  <2>3. CASE to = "pfs_wait_for_lifetime_renew"
    <3>1. Transition("pfs_send", to, g, e) = Out(g, "fev_none", FALSE)
      BY <2>3 DEF Transition
    <3> QED BY <1>3, <2>3, <3>1 DEF Ended, AtRest, Out
  <2> QED BY <1>1, <2>1, <2>2, <2>3
<1>5. FlowStep(c, e).f = r.f /\ FlowStep(c, e).ev = r.ev
  <2>1. c.f.state = "pfs_send" /\ c.ev # "fev_none"
    BY DEF Sending
  <2>2. to # "none" /\ NextState("pfs_send", c.ev) = to
    BY <1>1 DEF to
  <2> QED BY <2>1, <2>2, Round
<1> HIDE DEF r
<1> QED
  BY <1>1, <1>2, <1>4, <1>5 DEF Ended

(* A renewal ends the loop or becomes a send. *)
LEMMA RenewingRound ==
  ASSUME NEW c, NEW e \in FlowEnv, Renewing(c)
  PROVE  \/ /\ Ended(FlowStep(c, e))
            /\ FlowStep(c, e).f.state = "pfs_wait_for_lifetime_renew"
         \/ Sending(FlowStep(c, e), e)
<1> DEFINE to == NextState("pfs_send_renew", c.ev)
           g  == Enter(c.f, to)
           r  == Transition("pfs_send_renew", to, g, e)
<1>1. to \in {"pfs_send", "pfs_wait_for_lifetime_renew"}
  BY DEF Renewing, NextState, ShortLifeErrors, LongLifeErrors
<1> HIDE DEF to
<1>2. g \in FlowRec /\ g.state = to
  BY <1>1 DEF Renewing, FlowRec, FlowStates, Enter
<1>3. FlowStep(c, e).f = r.f /\ FlowStep(c, e).ev = r.ev
  <2>1. c.f.state = "pfs_send_renew" /\ c.ev # "fev_none"
    BY DEF Renewing
  <2>2. to # "none" /\ NextState("pfs_send_renew", c.ev) = to
    BY <1>1 DEF to
  <2> QED BY <2>1, <2>2, Round
<1> HIDE DEF g
<1>4. CASE to = "pfs_send"
  <2>1. r = fhndl_send(g, e)
    BY <1>4 DEF Transition
  <2> QED BY <1>2, <1>3, <1>4, <2>1, SendOutcome DEF Sending
<1>5. CASE to = "pfs_wait_for_lifetime_renew"
  <2>1. r = Out(g, "fev_none", FALSE)
    BY <1>5 DEF Transition
  <2> QED BY <1>2, <1>3, <1>5, <2>1 DEF Ended, AtRest, Out
<1> QED
  BY <1>1, <1>4, <1>5

(* The round of the event that the caller passed. *)
LEMMA FirstRound ==
  ASSUME NEW c, NEW e \in FlowEnv,
         c.f \in FlowRec, c.f.state \in FlowStates, c.ev \in CallerEvents,
         c.ev \in ResultCodes => e.result = c.ev,
         NextState(c.f.state, c.ev) # "none"
  PROVE  LET to == NextState(c.f.state, c.ev)
             d  == FlowStep(c, e)
         IN  \/ to = "pfs_send" /\ Sending(d, e)
             \/ to = "pfs_send_renew" /\ Renewing(d)
             \/ /\ to \notin {"pfs_send", "pfs_send_renew"}
                /\ Ended(d) /\ d.f.state = to
<1> DEFINE from == c.f.state
           to   == NextState(from, c.ev)
           g    == Enter(c.f, to)
           r    == Transition(from, to, g, e)
           d    == FlowStep(c, e)
<1>1. to \in {"pfs_wait_for_server_init", "pfs_send",
             "pfs_wait_after_short_life_error", "pfs_wait_for_lifetime_renew",
             "pfs_send_renew", "pfs_failed"}
  BY ZenonT(60) DEF NextState, CallerEvents, ResultCodes, ShortLifeErrors, LongLifeErrors,
         FlowStates
<1>2. to \in {"pfs_wait_after_short_life_error", "pfs_wait_for_lifetime_renew"}
        => c.ev \in ResultCodes
  BY DEF NextState, CallerEvents, ResultCodes, ShortLifeErrors, LongLifeErrors
<1>3. to = "pfs_wait_for_lifetime_renew"
        => from \in {"pfs_wait_resp", "pfs_wait_for_lifetime_renew"}
  BY DEF NextState, CallerEvents, ResultCodes, ShortLifeErrors, LongLifeErrors
<1>4. c.ev # "fev_none" /\ to # "none"
  BY DEF CallerEvents, ResultCodes, ShortLifeErrors, LongLifeErrors
<1>5. d.f = r.f /\ d.ev = r.ev
  BY <1>4, Round
<1> HIDE DEF d, to
<1>6. g \in FlowRec /\ g.state = to
  BY <1>1 DEF FlowRec, FlowStates, Enter
<1> HIDE DEF g, from
<1>7. CASE to = "pfs_send"
  <2>1. r = fhndl_resend(g, e) \/ r = fhndl_send(g, e)
    BY <1>7 DEF Transition
  <2>2. Sending(r, e)
    BY <1>6, <1>7, <2>1, SendOutcome, ResendOutcome
  <2>3. Sending(d, e)
    BY <1>5, <2>2 DEF Sending
  <2> QED BY <1>7, <2>3 DEF d, to, from
<1>8. CASE to = "pfs_send_renew"
  <2>1. r = fhndl_send_renew(g, e)
    BY <1>8 DEF Transition
  <2>2. Renewing(r)
    BY <1>6, <1>8, <2>1, RenewOutcome
  <2>3. Renewing(d)
    BY <1>5, <2>2 DEF Renewing
  <2> QED BY <1>8, <2>3 DEF d, to, from
<1>9. CASE to \notin {"pfs_send", "pfs_send_renew"}
  <2>1. Ended(r) /\ r.f.state = to
    <3>1. CASE to = "pfs_wait_after_short_life_error"
      <4>1. r = fhndl_shortlifeerror(g, e)
        BY <3>1 DEF Transition
      <4> QED BY <1>2, <1>6, <3>1, <4>1, ShortLifeErrorOutcome
    <3>2. CASE to = "pfs_wait_for_lifetime_renew"
      <4>1. r = fhndl_received_success(g, e)
        BY <1>3, <3>2 DEF Transition
      <4> QED BY <1>2, <1>6, <3>2, <4>1, SuccessOutcome
    <3>3. CASE to \in {"pfs_wait_for_server_init", "pfs_failed"}
      <4>1. r = fhndl_clear_timeouts(g, e)
        BY <3>3 DEF Transition
      <4> QED BY <1>6, <3>3, <4>1, ClearOutcome
    <3> QED BY <1>1, <1>9, <3>1, <3>2, <3>3
  <2>2. Ended(d) /\ d.f.state = to
    BY <1>5, <2>1 DEF Ended
  <2> QED BY <1>9, <2>2 DEF d, to, from
<1> QED
  BY <1>7, <1>8, <1>9

-----------------------------------------------------------------------------
(* What handle_flow_event does with any event of its callers: its loop      *)
(* ends (in the model: within the four rounds), an event without a row      *)
(* changes nothing, and any other leaves the flow at rest: with a timer     *)
(* where it waits for an answer or for the end of an error, and after a     *)
(* send, unless it was skipped for a restart, waiting or failed.            *)
THEOREM HandleFlowEvent ==
  ASSUME NEW f \in FlowRec, NEW ev \in CallerEvents, NEW e \in FlowEnv,
         f.state \in FlowStates, ev \in ResultCodes => e.result = ev
  PROVE  LET to == NextState(f.state, ev)
             r  == handle_flow_event(f, ev, e)
         IN  /\ r.ev = "fev_none"
             /\ to = "none" => r.f = f
             /\ to # "none" => AtRest(r.f)
             /\ to = "pfs_send" =>
                  /\ r.f.state \in {"pfs_wait_resp", "pfs_failed",
                                    "pfs_wait_for_lifetime_renew"}
                  /\ ~e.restart => r.f.state \in {"pfs_wait_resp",
                                                  "pfs_failed"}
             /\ to = "pfs_send_renew" =>
                  r.f.state \in {"pfs_wait_resp", "pfs_failed",
                                "pfs_wait_for_lifetime_renew"}
             /\ to \notin {"none", "pfs_send", "pfs_send_renew"} =>
                  r.f.state = to
<1> DEFINE to == NextState(f.state, ev)
           c  == Out(f, ev, FALSE)
           c1 == FlowStep(c, e)
           c2 == FlowStep(c1, e)
           c3 == FlowStep(c2, e)
           c4 == FlowStep(c3, e)
<1>0. c.f = f /\ c.ev = ev
  BY DEF Out
<1>1. handle_flow_event(f, ev, e) = c4
  BY DEF handle_flow_event
<1>2. ASSUME NEW d, d.ev = "fev_none"
      PROVE  FlowStep(d, e).f = d.f /\ FlowStep(d, e).ev = "fev_none"
  BY <1>2, NoRound
<1>3. to # "none" =>
        \/ to = "pfs_send" /\ Sending(c1, e)
        \/ to = "pfs_send_renew" /\ Renewing(c1)
        \/ /\ to \notin {"pfs_send", "pfs_send_renew"}
           /\ Ended(c1) /\ c1.f.state = to
  <2> HIDE DEF c
  <2> QED BY <1>0, FirstRound
<1>4. to = "none" => c1.f = f /\ c1.ev = "fev_none"
  <2> HIDE DEF c
  <2> QED BY <1>0, NoRound
<1> HIDE DEF c, c1, to
<1>5. CASE to = "none"
  <2>1. c1.f = f /\ c1.ev = "fev_none"
    BY <1>4, <1>5
  <2>2. c2.f = f /\ c2.ev = "fev_none"
    BY <1>2, <2>1
  <2> HIDE DEF c2
  <2>3. c3.f = f /\ c3.ev = "fev_none"
    BY <1>2, <2>2
  <2> HIDE DEF c3
  <2>4. c4.f = f /\ c4.ev = "fev_none"
    BY <1>2, <2>3
  <2> QED BY <1>1, <1>5, <2>4 DEF to
<1>6. CASE to \notin {"none", "pfs_send", "pfs_send_renew"}
  <2>1. Ended(c1) /\ c1.f.state = to
    BY <1>3, <1>6
  <2>2. c2.f = c1.f /\ c2.ev = "fev_none"
    BY <1>2, <2>1 DEF Ended
  <2> HIDE DEF c2
  <2>3. c3.f = c1.f /\ c3.ev = "fev_none"
    BY <1>2, <2>2
  <2> HIDE DEF c3
  <2>4. c4.f = c1.f /\ c4.ev = "fev_none"
    BY <1>2, <2>3
  <2> QED BY <1>1, <1>6, <2>1, <2>4 DEF to, Ended
<1>7. CASE to = "pfs_send"
  <2>1. Sending(c1, e)
    BY <1>3, <1>7
  <2>2. /\ Ended(c2)
        /\ c2.f.state \in {"pfs_wait_resp", "pfs_failed",
                           "pfs_wait_for_lifetime_renew"}
        /\ ~e.restart => c2.f.state \in {"pfs_wait_resp", "pfs_failed"}
    BY <2>1, SendingRound
  <2> HIDE DEF c2
  <2>3. c3.f = c2.f /\ c3.ev = "fev_none"
    BY <1>2, <2>2 DEF Ended
  <2> HIDE DEF c3
  <2>4. c4.f = c2.f /\ c4.ev = "fev_none"
    BY <1>2, <2>3
  <2> QED BY <1>1, <1>7, <2>2, <2>4 DEF to, Ended
<1>8. CASE to = "pfs_send_renew"
  <2>1. Renewing(c1)
    BY <1>3, <1>8
  <2>2. \/ Ended(c2) /\ c2.f.state = "pfs_wait_for_lifetime_renew"
        \/ Sending(c2, e)
    BY <2>1, RenewingRound
  <2> HIDE DEF c2
  <2>3. /\ Ended(c3)
        /\ c3.f.state \in {"pfs_wait_resp", "pfs_failed",
                           "pfs_wait_for_lifetime_renew"}
    <3>1. CASE Ended(c2) /\ c2.f.state = "pfs_wait_for_lifetime_renew"
      <4>1. c3.f = c2.f /\ c3.ev = "fev_none"
        BY <1>2, <3>1 DEF Ended
      <4> QED BY <3>1, <4>1 DEF Ended
    <3>2. CASE Sending(c2, e)
      BY <3>2, SendingRound
    <3> QED BY <2>2, <3>1, <3>2
  <2> HIDE DEF c3
  <2>4. c4.f = c3.f /\ c4.ev = "fev_none"
    BY <1>2, <2>3 DEF Ended
  <2> QED BY <1>1, <1>8, <2>3, <2>4 DEF to, Ended
<1> QED
  BY <1>5, <1>6, <1>7, <1>8

=============================================================================
