------------------------------ MODULE PcpWait ------------------------------
(***************************************************************************)
(* The calls of pcp_api.c that run pcp_pulse from inside the library:      *)
(* pcp_wait, with its select loop, and pcp_terminate, which closes and     *)
(* deletes the flows one by one; and pcp_init for a new context after it.  *)
(*                                                                         *)
(* call says which of them the application is in and how far it has come.  *)
(* While it is in one, the application makes no other call, and time only  *)
(* passes in select.                                                       *)
(***************************************************************************)
EXTENDS PcpClient, FiniteSets

CONSTANTS
  WaitTimes,    \* timeouts of pcp_wait, in ticks
  Terminations  \* values of close_flows; {} if pcp_terminate is not called

ASSUME WaitAssumption == /\ WaitTimes \subseteq Nat
                         /\ Terminations \subseteq BOOLEAN

VARIABLE call

wvars == <<flow, server, asked, refused, pulse, call>>

(* at: where the call is. flow: the handle that is waited for, or the flow  *)
(* that pcp_terminate is at. left: rest of the wait. tout: tout_select.     *)
(* seen: the flows that were in an exit state when the wait began           *)
(* (nflow_exit_states counts them), or those pcp_terminate has freed.       *)
(* now: exit_on_partial_res, or close_flows.                                *)
CallRec ==
  [op : {"none", "wait", "terminate", "terminated"},
   at : {"", "check", "pulse", "eval", "select", "visit", "close", "delete"},
   flow : Flows \cup {NoFlow}, left : Nat, tout : Nat,
   seen : SUBSET Flows, now : BOOLEAN]

NoCall == [op |-> "none", at |-> "", flow |-> NoFlow, left |-> 0, tout |-> 0,
           seen |-> {}, now |-> FALSE]

-----------------------------------------------------------------------------
(* pcp_eval_flow_state *)
ExitStates == {"pfs_wait_for_lifetime_renew", "pfs_failed",
               "pfs_wait_after_short_life_error"}
Exited(f)  == {g \in ChainFrom(f) : flow[g].state \in ExitStates}
AnyGranted(f) == \E g \in ChainFrom(f) :
                 flow[g].state = "pfs_wait_for_lifetime_renew"
Partial(f) == Exited(f) # ChainFrom(f) /\ AnyGranted(f)

(* pcp_wait. The exit states it starts from count only while some flow of   *)
(* the chain is not in one.                                                 *)
SeenAtStart_All(f) == Exited(f)   \* mutant: nflow_exit_states is not reset

SeenAtStart(f) == IF Exited(f) = ChainFrom(f) THEN {} ELSE Exited(f)

pcp_wait(f, t, partial) ==
  /\ UserFlow(f) /\ IsHead(f)
  /\ call' = [NoCall EXCEPT !.op = "wait", !.at = "check", !.flow = f,
                            !.left = t, !.seen = SeenAtStart(f),
                            !.now = partial]
  /\ UNCHANGED vars

WaitCheck_NoDeadline ==   \* mutant: tout_select 0 is taken for some time left
  /\ call.at = "check"
  /\ call' = [call EXCEPT !.at = "pulse"]
  /\ UNCHANGED vars

WaitCheck ==
  /\ call.at = "check"
  /\ call' = IF call.left = 0 THEN NoCall ELSE [call EXCEPT !.at = "pulse"]
  /\ UNCHANGED vars

(* tout_select comes back from pcp_pulse: the rest of the wait, or the      *)
(* nearest timeout of a server (hserver_iter).                              *)
ToutSelect_Unset ==   \* mutant: a cleared next_timeout counts
  LET due == {call.left} \cup {server[s].next_timeout : s \in
                {t \in Servers : server[t].state # "pss_unitialized"}}
  IN  CHOOSE t \in due : \A u \in due : t <= u

ToutSelect ==
  LET due == {call.left} \cup {server[s].next_timeout : s \in
                {t \in Servers : /\ server[t].state # "pss_unitialized"
                                 /\ server[t].next_timeout # NoTime}}
  IN  CHOOSE t \in due : \A u \in due : t <= u

WaitEval ==
  /\ call.at = "eval" /\ pulse.at = "app"
  /\ LET f == call.flow
     IN  call' = IF /\ Cardinality(Exited(f)) > Cardinality(call.seen)
                    /\ call.now \/ ~Partial(f)
                 THEN NoCall
                 ELSE [call EXCEPT !.at = "select", !.tout = ToutSelect]
  /\ UNCHANGED vars

(* select: time passes up to tout_select; it ends then, and earlier when a  *)
(* datagram comes in.                                                       *)
SelectTick ==
  /\ call.at = "select" /\ call.tout > 0
  /\ call' = [call EXCEPT !.left = @ - 1, !.tout = @ - 1]
  /\ Tick

SelectReturn ==
  /\ call.at = "select"
  /\ call' = [call EXCEPT !.at = "check", !.tout = 0]
  /\ UNCHANGED vars

-----------------------------------------------------------------------------
(* pcp_terminate: pcp_db_foreach_flow(delete_flow_iter), then               *)
(* pcp_db_free_pcp_servers and pcp_socket_close.                            *)
pcp_terminate(close) ==
  /\ call' = [NoCall EXCEPT !.op = "terminate", !.at = "visit", !.now = close]
  /\ UNCHANGED vars

TermVisit ==
  /\ call.at = "visit"
  /\ \E f \in Flows :
       /\ InDb(f) /\ f > call.flow
       /\ \A g \in Flows : InDb(g) /\ g > call.flow => f <= g
       /\ IF call.now
          THEN /\ flow' = [flow EXCEPT ![f] = Closed(@)]
               /\ server' = IF OnlyMarked(flow[f]) THEN server
                            ELSE Wake({Key[f].server})
               /\ pulse' = At("read", 0)
               /\ call' = [call EXCEPT !.at = "close", !.flow = f]
          ELSE /\ call' = [call EXCEPT !.at = "delete", !.flow = f]
               /\ UNCHANGED <<flow, server, pulse>>
  /\ UNCHANGED wire

(* pcp_delete_flow_intern *)
TermDelete ==
  /\ call.at = "delete" /\ pulse.at = "app"
  /\ flow' = [flow EXCEPT ![call.flow] = NewFlow("free", 0, NoTime)]
  /\ server' = [s \in Servers |->
                  IF /\ server[s].state # "pss_unitialized"
                     /\ server[s].ping_flow = call.flow
                  THEN [server[s] EXCEPT !.ping_flow = NoFlow]
                  ELSE server[s]]
  /\ call' = [call EXCEPT !.at = "visit", !.seen = @ \cup {call.flow}]
  /\ UNCHANGED <<asked, refused, pulse>>

(* pcp_db_free_pcp_servers, with pcp_terminate_server for each of them.     *)
TermServers ==
  /\ call.at = "visit"
  /\ \A f \in Flows : InDb(f) => f <= call.flow
  /\ server' = [s \in Servers |->
                  IF server[s].state \in {"pss_unitialized", "pss_allocated"}
                  THEN server[s]
                  ELSE [server[s] EXCEPT !.state = "pss_allocated",
                                         !.next_timeout = NoTime]]
  /\ call' = [NoCall EXCEPT !.op = "terminated"]
  /\ UNCHANGED <<flow, asked, refused, pulse>>

(* pcp_init once more: a new context, and what is still on the wire is      *)
(* answered to the socket that was closed.                                  *)
pcp_init ==
  /\ call.op = "terminated"
  /\ flow' = [f \in Flows |-> NewFlow("free", 0, NoTime)]
  /\ server' = [s \in Servers |-> NewServer(s)]
  /\ asked' = [f \in Flows |-> {}]
  /\ refused' = {}
  /\ call' = NoCall
  /\ UNCHANGED pulse

-----------------------------------------------------------------------------
(* pcp_pulse inside a call. *)
InPulse ==
  /\ \/ /\ call.at = "pulse" /\ PulseStart
        /\ call' = [call EXCEPT !.at = "eval"]
     \/ /\ call.at = "close" /\ PulseStart
        /\ call' = [call EXCEPT !.at = "delete"]
     \/ /\ call.op # "none" /\ PulseStep /\ UNCHANGED call

Idle == call.op = "none"

WaitStep == WaitCheck \/ WaitEval \/ SelectReturn
TermStep == TermVisit \/ TermDelete \/ TermServers

CallStart ==
  /\ Idle /\ pulse.at = "app"
  /\ \/ \E f \in Flows, t \in WaitTimes, p \in BOOLEAN : pcp_wait(f, t, p)
     \/ \E c \in Terminations : pcp_terminate(c)

WNext ==
  \/ Idle /\ Next /\ UNCHANGED call
  \/ CallStart \/ WaitStep \/ SelectTick \/ TermStep \/ InPulse \/ pcp_init

WSpec == Init /\ call = NoCall /\ [][WNext]_wvars

(* As in PcpClient, the application calls pcp_pulse or pcp_wait again and   *)
(* again and time passes between the pulses. A call that was made goes on:  *)
(* some step of it other than SelectTick is always possible. And select     *)
(* does not return for ever before any time has passed.                     *)
CallFairness ==
  /\ \/ []<>(call.op \notin {"wait", "terminate"})
     \/ []<><<call.op # "none" /\ ~(call.at = "select" /\ call'.at = "select")
             >>_wvars
  /\ \/ <>[](call.at # "select" \/ call.tout = 0)
     \/ []<><<call.at = "select" /\ call'.at = "select">>_wvars

WFairSpec == WSpec /\ Fairness /\ CallFairness

-----------------------------------------------------------------------------
(* Properties.                                                              *)

(* Every variable has its type; in particular select is never asked to      *)
(* sleep for a negative time or beyond the end of the wait (tout_select and *)
(* tout_end less the time of day in pcp_wait).                              *)
WTypeOK == TypeOK /\ call \in CallRec

(* pcp_wait does not sleep while every flow of the chain is in an exit      *)
(* state, whatever they were in when it was called and went through since:  *)
(* there is nothing left to wait for.                                       *)
DoneIsNotWaitedFor ==
  call.at = "select" => Exited(call.flow) # ChainFrom(call.flow)

(* pcp_wait does not spin: whenever it gets to select, pcp_pulse has left   *)
(* no server with a timer that is due, so that select may sleep.            *)
SelectMaySleep ==
  [][call.at = "eval" /\ call'.at = "select" => call'.tout > 0]_wvars

(* What a flow of a terminated context points to is never read again: in    *)
(* pcp_terminate, handle_flow_event runs for no flow that has a freed one   *)
(* after it in its chain (pcp_eval_flow_state follows next_child).          *)
FreedIsNotRead ==
  [][\A f \in Flows :
       call.op = "terminate" /\ pulse.at # "app" /\ flow'[f] # flow[f] =>
         \A g \in call.seen : Key[g].req = Key[f].req =>
                                Key[g].server < Key[f].server]_wvars

(* Every pcp_wait and every pcp_terminate returns.                          *)
CallReturns == call.op \in {"wait", "terminate"}
                 ~> call.op \in {"none", "terminated"}

(* pcp.h: "Blocking wait for flow reaching one of exit states or time-out   *)
(* expiration", and only exit_on_partial_res makes it "not wait for result  *)
(* of all interfaces or possible PCP servers". A wait without it ends when  *)
(* its time is over or every flow of the chain has a result.                *)
WaitsForAll ==
  [][call.op = "wait" /\ call'.op # "wait" /\ ~call.now =>
       call.left = 0 \/ Exited(call.flow) = ChainFrom(call.flow)]_wvars
=============================================================================
