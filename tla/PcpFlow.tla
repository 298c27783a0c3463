------------------------------ MODULE PcpFlow ------------------------------
(***************************************************************************)
(* The state machine of one flow (pcp_flow_t), as handle_flow_event of     *)
(* pcp_event_handler.c runs it: the event table flow_events_sm, the        *)
(* transition handlers fhndl_*, and the loop that feeds the event a        *)
(* handler returns back into the table.                                    *)
(*                                                                         *)
(* Time is relative: a timer is the number of ticks until it expires,      *)
(* 0 when it is due or overdue and NoTime when its timeval is {0, 0}.      *)
(* A flow in the table is a record; what a flow shares with the rest of    *)
(* the client during one event is the environment record e:                *)
(*   exists   get_pcp_server finds the flow's server                       *)
(*   restart  the server's restart_flow_msg is this flow                   *)
(*   send     outcome of pcp_flow_send_msg in fhndl_send and fhndl_resend  *)
(*   renew    outcome of pcp_flow_send_msg in fhndl_send_renew             *)
(*   quiet    the message builder yields no bytes, so nothing is on the    *)
(*            wire although sending "succeeds" (PEER over NAT-PMP)         *)
(*   result, lifetime   of the received message, result NoResult if none   *)
(***************************************************************************)
EXTENDS Integers

CONSTANTS
  PCP_RETX_IRT,   \* initial retransmission time, in ticks
  PCP_RETX_MRT,   \* maximum retransmission time, in ticks
  PCP_RETX_MRC    \* maximum retransmission count

ASSUME RetxAssumption ==
  /\ PCP_RETX_IRT \in Nat \ {0}
  /\ PCP_RETX_MRT \in Nat /\ PCP_RETX_MRT >= PCP_RETX_IRT
  /\ PCP_RETX_MRC \in Nat \ {0}

NoTime   == -1
NoResult == "no_result"
Timer    == Nat \cup {NoTime}

(* pcp_flow_state_e; "free" is a flow that is not in the flow table. *)
FlowStates ==
  {"pfs_idle", "pfs_wait_for_server_init", "pfs_send", "pfs_wait_resp",
   "pfs_wait_after_short_life_error", "pfs_wait_for_lifetime_renew",
   "pfs_send_renew", "pfs_failed"}

(* The result codes by what the event table does with them. *)
ShortLifeErrors ==
  {"network_failure", "no_resources", "exc_remote_peers", "user_ex_quota"}
LongLifeErrors ==
  {"not_authorized", "malformed_request", "unsupp_opcode", "unsupp_option",
   "unsupp_protocol", "cant_provide_ext", "address_mismatch"}
ResultCodes ==
  {"success", "unsupp_version", "malformed_option"}
    \cup ShortLifeErrors \cup LongLifeErrors

(* pcp_flow_event_e: a received result code is its own event. *)
FlowEvents ==
  {"fev_flow_timedout", "fev_server_initialized", "fev_send", "fev_msg_sent",
   "fev_failed", "fev_none", "fev_server_restarted", "fev_ignored"}
    \cup ResultCodes

FlowRec ==
  [state          : FlowStates \cup {"free"},
   lifetime       : Nat,                  \* what the application asks for
   timeout        : Timer,
   resend_timeout : Nat,
   retry_count    : 0 .. PCP_RETX_MRC,    \* saturates: only >= MRC is tested
   recv_lifetime  : Nat \cup {NoTime},    \* remaining; NoTime once it is over
   recv_result    : ResultCodes]

FlowEnv ==
  [exists : BOOLEAN, restart : BOOLEAN, send : BOOLEAN, renew : BOOLEAN,
   quiet : BOOLEAN, result : ResultCodes \cup {NoResult}, lifetime : Nat]

(* The outcome of a handler, and the state of handle_flow_event's loop: the *)
(* flow, the event still to be handled, and whether a request has gone out. *)
Out(f, ev, sent) == [f |-> f, ev |-> ev, sent |-> sent]

-----------------------------------------------------------------------------
(* flow_events_sm: the new state of the first row that matches; "none" when *)
(* no row does.                                                             *)
NextState(state, ev) ==
  CASE ev \in {"fev_send", "fev_server_restarted"} -> "pfs_send"
    [] ev = "fev_failed" ->
         IF state \in {"pfs_wait_for_lifetime_renew", "pfs_send_renew"}
         THEN "pfs_send" ELSE "pfs_failed"
    [] state = "pfs_wait_for_server_init" /\ ev = "fev_server_initialized" ->
         "pfs_send"
    [] state = "pfs_wait_resp" /\ ev = "success" ->
         "pfs_wait_for_lifetime_renew"
    [] state = "pfs_wait_resp" /\ ev \in ShortLifeErrors ->
         "pfs_wait_after_short_life_error"
    [] state = "pfs_wait_resp"
         /\ ev \in {"fev_flow_timedout", "fev_server_initialized"} ->
         "pfs_send"
    [] state \in {"pfs_wait_resp", "pfs_wait_for_lifetime_renew"}
         /\ ev = "unsupp_version" ->
         "pfs_wait_for_server_init"
    [] state \in {"pfs_wait_resp", "pfs_wait_for_lifetime_renew"}
         /\ ev \in LongLifeErrors ->
         "pfs_failed"
    [] state = "pfs_send"
         /\ ev \in {"fev_server_initialized", "fev_flow_timedout"} ->
         "pfs_send"
    [] state = "pfs_send" /\ ev = "fev_msg_sent" -> "pfs_wait_resp"
    [] state = "pfs_send" /\ ev = "fev_ignored" ->
         "pfs_wait_for_lifetime_renew"
    [] state = "pfs_wait_after_short_life_error"
         /\ ev = "fev_flow_timedout" ->
         "pfs_send"
    [] state = "pfs_wait_for_lifetime_renew" /\ ev = "success" ->
         "pfs_wait_for_lifetime_renew"
    [] state = "pfs_wait_for_lifetime_renew"
         /\ ev \in {"fev_flow_timedout"} \cup ShortLifeErrors ->
         "pfs_send_renew"
    [] state = "pfs_send_renew" /\ ev = "fev_msg_sent" ->
         "pfs_wait_for_lifetime_renew"
    [] state = "pfs_send_renew" /\ ev = "fev_flow_timedout" ->
         "pfs_send_renew"
    [] OTHER -> "none"

-----------------------------------------------------------------------------
(* The transition handlers. Each gets the flow with its new state.          *)

(* PCP_RT without its jitter, which is below the resolution of a tick. *)
PCP_RT(rt) ==
  LET dbl    == 2 * rt
      atLeast == IF dbl > PCP_RETX_IRT THEN dbl ELSE PCP_RETX_IRT
  IN  IF atLeast < PCP_RETX_MRT THEN atLeast ELSE PCP_RETX_MRT

fhndl_send(f, e) ==
  IF ~e.exists THEN Out(f, "fev_failed", FALSE)
  ELSE IF e.restart THEN Out(f, "fev_ignored", FALSE)
  ELSE IF ~e.send THEN Out(f, "fev_failed", FALSE)
  ELSE Out([f EXCEPT !.resend_timeout = PCP_RETX_IRT,
                     !.timeout = PCP_RETX_IRT],
           "fev_msg_sent", ~e.quiet)

fhndl_resend(f, e) ==
  LET tries == IF f.retry_count < PCP_RETX_MRC
               THEN f.retry_count + 1 ELSE PCP_RETX_MRC
      g     == [f EXCEPT !.retry_count = tries]
  IN  IF ~e.exists THEN Out(f, "fev_failed", FALSE)
      ELSE IF tries >= PCP_RETX_MRC \/ ~e.send
           THEN Out(g, "fev_failed", FALSE)
      ELSE Out([g EXCEPT !.resend_timeout = PCP_RT(g.resend_timeout),
                         !.timeout = PCP_RT(g.resend_timeout)],
               "fev_msg_sent", ~e.quiet)

fhndl_shortlifeerror(f, e) ==
  Out([f EXCEPT !.recv_result = e.result, !.timeout = e.lifetime],
      "fev_none", FALSE)

fhndl_received_success(f, e) ==
  Out([f EXCEPT !.recv_lifetime = e.lifetime,
                !.recv_result = e.result,
                !.timeout = IF e.lifetime = 0 THEN NoTime
                            ELSE e.lifetime \div 2],
      "fev_none", FALSE)

(* Half of the lease that is left: 0 gives up on renewing, and after the    *)
(* lease has run out it is negative and the new timer is overdue at once.   *)
fhndl_send_renew(f, e) ==
  LET half == IF f.recv_lifetime = NoTime THEN NoTime
              ELSE f.recv_lifetime \div 2
  IN  IF ~e.exists \/ ~e.renew THEN Out(f, "fev_failed", FALSE)
      ELSE IF half = 0
           THEN Out([f EXCEPT !.timeout = 0], "fev_failed", ~e.quiet)
      ELSE Out([f EXCEPT !.timeout = IF half = NoTime THEN 0 ELSE half],
               "fev_msg_sent", ~e.quiet)

fhndl_clear_timeouts_Unchecked(f, e) ==   \* mutant: no if (msg)
  Out([f EXCEPT !.timeout = NoTime, !.recv_result = e.result],
      "fev_none", FALSE)

fhndl_clear_timeouts(f, e) ==
  Out([f EXCEPT !.timeout = NoTime,
                !.recv_result = IF e.result = NoResult THEN @ ELSE e.result],
      "fev_none", FALSE)

(* A cleared timer lies in the past; one just set by a send does not. *)
fhndl_waitresp(f, e) ==
  Out(f, IF f.timeout = NoTime THEN "fev_failed" ELSE "fev_none", FALSE)

-----------------------------------------------------------------------------
(* flow_transitions: the handler of the first row for this pair of states;  *)
(* a pair without a row only changes the state and ends the loop.           *)
Transition(from, to, f, e) ==
  CASE to = "pfs_wait_resp" -> fhndl_waitresp(f, e)
    [] to = "pfs_send" -> IF from = "pfs_wait_resp"
                          THEN fhndl_resend(f, e) ELSE fhndl_send(f, e)
    [] to = "pfs_wait_after_short_life_error" -> fhndl_shortlifeerror(f, e)
    [] to = "pfs_send_renew" -> fhndl_send_renew(f, e)
    [] to = "pfs_wait_for_lifetime_renew"
         /\ from \in {"pfs_wait_resp", "pfs_wait_for_lifetime_renew"} ->
         fhndl_received_success(f, e)
    [] to \in {"pfs_wait_for_server_init", "pfs_failed"} ->
         fhndl_clear_timeouts(f, e)
    [] OTHER -> Out(f, "fev_none", FALSE)

(* One round of the loop of handle_flow_event: f->state = next_state, and   *)
(* then the transition handler.                                             *)
Enter(f, to) == [f EXCEPT !.state = to]
After(c, r)  == Out(r.f, r.ev, c.sent \/ r.sent)

FlowStep(c, e) ==
  LET to == NextState(c.f.state, c.ev)
  IN  IF c.ev = "fev_none" THEN c
      ELSE IF to = "none" THEN Out(c.f, "fev_none", c.sent)
      ELSE After(c, Transition(c.f.state, to, Enter(c.f, to), e))

(* handle_flow_event: the loop ends within four rounds. The callback at     *)
(* its end changes nothing of the library.                                  *)
handle_flow_event(f, ev, e) ==
  FlowStep(FlowStep(FlowStep(FlowStep(Out(f, ev, FALSE), e), e), e), e)

(* check_flow_timeout, up to its bookkeeping of the nearest timeout. *)
check_flow_timeout(f, e) ==
  IF f.timeout = 0 THEN handle_flow_event(f, "fev_flow_timedout", e)
  ELSE Out(f, "fev_none", FALSE)
=============================================================================
