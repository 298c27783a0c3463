--------------------------- MODULE PcpLinkProofs ---------------------------
(***************************************************************************)
(* PcpClient implements PcpLink, for any number of servers and flows: the  *)
(* initial states map to initial ones, and every step maps to a step of    *)
(* the abstract specification or changes nothing there.                    *)
(***************************************************************************)
EXTENDS PcpClientLink, PcpClientProofs

(* What the negotiation of the version rests on, beyond IndInv: a server    *)
(* that has refused a request speaks less than the highest version, and     *)
(* the version that handle_version_negotiation starts from is the one that  *)
(* the server named when it refused.                                        *)
RefusalOk ==
  /\ \A s \in refused : ServerVersion[s] < PCP_MAX_SUPPORTED_VERSION
  /\ \A s \in Servers : server[s].state = "pss_version_negotiation" =>
       s \in refused /\ server[s].next_version = ServerVersion[s]

(* A handler of server s turns its record into r as PcpLink allows. *)
Moved(s, r) ==
  LET q == server[s]
      l == LinkOf(q.state)
      k == LinkOf(r.state)
  IN  /\ r.state = "pss_version_negotiation" =>
           s \in refused /\ r.next_version = ServerVersion[s]
      /\ \/ /\ r.pcp_version = q.pcp_version
            /\ \/ k = l
               \/ l = "idle" /\ k = "probing"
               \/ l \in {"probing", "down"} /\ k = "working" /\ s \in Reached
               \/ l = "working" /\ k = "probing" /\ s \in refused
               \/ l = "probing" /\ k \in {"idle", "down"}
               \/ l = "working" /\ k = "down" /\ s \in Reached
         \/ /\ l = "probing" /\ k \in {"probing", "idle", "down"}
            /\ s \in refused
            /\ r.pcp_version \in 0 .. q.pcp_version - 1
         \/ /\ l = "down" /\ k = "idle"
            /\ r.pcp_version = PCP_MAX_SUPPORTED_VERSION

-----------------------------------------------------------------------------
(* What the states mean. *)
LEMMA LinkNames ==
  /\ LinkOf("pss_unitialized") = "absent"
  /\ LinkOf("pss_allocated") = "unrouted"
  /\ LinkOf("pss_ping") = "idle"
  /\ LinkOf("pss_wait_ping_resp") = "probing"
  /\ LinkOf("pss_version_negotiation") = "probing"
  /\ LinkOf("pss_send_all_msgs") = "working"
  /\ LinkOf("pss_wait_io") = "working"
  /\ LinkOf("pss_wait_io_calc_nearest_timeout") = "working"
  /\ LinkOf("pss_server_restart") = "working"
  /\ LinkOf("pss_server_reping") = "down"
  /\ LinkOf("pss_set_not_working") = "down"
  /\ LinkOf("pss_not_working") = "down"
BY DEF LinkOf

(* An answer other than a refusal comes from a server that was reached.     *)
LEMMA AnswerMeans ==
  ASSUME NEW s \in Servers, NEW m \in Answers(s)
  PROVE  /\ m.result = "unsupp_version" =>
              s \in refused /\ m.version = ServerVersion[s]
         /\ m.result # "unsupp_version" => s \in Reached
<1>1. /\ m.flow \in Flows /\ Key[m.flow].server = s
      /\ m.result = "unsupp_version" =>
           s \in refused /\ m.version = ServerVersion[s]
      /\ m.result # "unsupp_version" => asked[m.flow] # {}
  BY DEF Answers
<1> QED
  BY <1>1 DEF Reached

-----------------------------------------------------------------------------
(* The handlers, one by one.                                                *)

(* What a handler of server s does to its record. *)
Handles(s) == \E r, out : Commit(s, r, out) /\ Moved(s, r)

(* The two fields that matter here. *)
Sets(r, q, state) == r.state = state /\ r.pcp_version = q.pcp_version

LEMMA HandlesIf ==
  ASSUME NEW s \in Servers, NEW r, NEW out, Commit(s, r, out), Moved(s, r)
  PROVE  Handles(s)
BY DEF Handles

LEMMA PingMoves ==
  ASSUME NEW s \in Servers, server[s] \in ServerRec,
         server[s].state = "pss_ping", handle_server_ping(s)
  PROVE  Handles(s)
<1> DEFINE q == server[s]
           r(p, t, st) == [q EXCEPT !.ping_count = 0, !.ping_flow = p,
                                    !.next_timeout = t, !.state = st]
<1>1. PICK p, t, out : \/ Commit(s, r(p, t, "pss_wait_ping_resp"), out)
                       \/ Commit(s, r(p, t, "pss_ping"), out)
  BY Zenon DEF handle_server_ping
<1> HIDE DEF q
<1>2. \A st \in {"pss_wait_ping_resp", "pss_ping"} :
        Sets(r(p, t, st), q, st)
  BY DEF ServerRec, Sets, q
<1> HIDE DEF r
<1>3. \A st \in {"pss_wait_ping_resp", "pss_ping"} :
        Moved(s, r(p, t, st))
  BY <1>2, LinkNames DEF Moved, Sets, q
<1> QED
  BY <1>1, <1>3, HandlesIf

LEMMA PingTimeoutMoves ==
  ASSUME NEW s \in Servers, server[s] \in ServerRec,
         server[s].state = "pss_wait_ping_resp",
         handle_wait_ping_resp_timeout(s)
  PROVE  Handles(s)
<1> DEFINE q == server[s]
           r(c, t, st) == [q EXCEPT !.ping_count = c, !.next_timeout = t,
                                    !.state = st]
<1>1. PICK c, t, out : \/ Commit(s, r(c, t, "pss_wait_ping_resp"), out)
                       \/ Commit(s, r(c, t, "pss_ping"), out)
                       \/ Commit(s, r(c, t, "pss_set_not_working"), out)
  <2>1. ASSUME NEW c, NEW h, NEW out, Commit(s, Repinged(s, c, h), out)
        PROVE  \E t : \/ Commit(s, r(c, t, "pss_wait_ping_resp"), out)
                      \/ Commit(s, r(c, t, "pss_set_not_working"), out)
    <3>1. CASE h.f.state = "pfs_failed"
      <4>1. Repinged(s, c, h) = r(c, 0, "pss_set_not_working")
        BY <3>1 DEF Repinged
      <4> QED BY <2>1, <4>1
    <3>2. CASE h.f.state # "pfs_failed"
      <4>1. Repinged(s, c, h) = r(c, h.f.timeout, "pss_wait_ping_resp")
        BY <3>2 DEF Repinged
      <4> QED BY <2>1, <4>1
    <3> QED BY <3>1, <3>2
  <2> QED
    BY Zenon, <2>1 DEF handle_wait_ping_resp_timeout
<1> HIDE DEF q
<1>2. \A st \in {"pss_wait_ping_resp", "pss_ping", "pss_set_not_working"} :
        Sets(r(c, t, st), q, st)
  BY DEF ServerRec, Sets, q
<1> HIDE DEF r
<1>3. \A st \in {"pss_wait_ping_resp", "pss_ping", "pss_set_not_working"} :
        Moved(s, r(c, t, st))
  BY <1>2, LinkNames DEF Moved, Sets, q
<1> QED
  BY <1>1, <1>3, HandlesIf

(* Handlers that leave the server what it was for PcpLink. *)
LEMMA SteadyMoves ==
  ASSUME NEW s \in Servers, server[s] \in ServerRec,
         \/ server[s].state = "pss_send_all_msgs" /\ handle_send_all_msgs(s)
         \/ /\ server[s].state \in {"pss_wait_io",
                                    "pss_wait_io_calc_nearest_timeout"}
            /\ handle_wait_io_timeout(s)
         \/ server[s].state = "pss_server_restart" /\ handle_server_restart(s)
         \/ /\ server[s].state = "pss_set_not_working"
            /\ handle_server_set_not_working(s)
         \/ /\ server[s].state = "pss_not_working"
            /\ handle_server_not_working(s)
         \/ server[s].state = "pss_allocated" /\ ignore_events(s)
  PROVE  Handles(s)
<1> DEFINE q == server[s]
<1>1. ASSUME NEW r, NEW out, Commit(s, r, out), NEW st, Sets(r, q, st),
             LinkOf(st) = LinkOf(q.state), st # "pss_version_negotiation"
      PROVE  Handles(s)
  <2>1. Moved(s, r)
    BY <1>1 DEF Moved, Sets
  <2> QED BY <1>1, <2>1, HandlesIf
<1>2. CASE server[s].state = "pss_send_all_msgs" /\ handle_send_all_msgs(s)
  <2> DEFINE r == [q EXCEPT !.next_timeout = 0,
                            !.state = "pss_wait_io_calc_nearest_timeout"]
  <2>1. PICK out : Commit(s, r, out)
    BY <1>2, Zenon DEF handle_send_all_msgs
  <2>2. Sets(r, q, "pss_wait_io_calc_nearest_timeout")
    BY DEF ServerRec, Sets
  <2> HIDE DEF r
  <2> QED BY <1>1, <1>2, <2>1, <2>2, LinkNames
<1>3. CASE /\ server[s].state \in {"pss_wait_io",
                                   "pss_wait_io_calc_nearest_timeout"}
           /\ handle_wait_io_timeout(s)
  <2> DEFINE r(t) == [q EXCEPT !.next_timeout = t, !.state = "pss_wait_io"]
  <2>1. PICK t, out : Commit(s, r(t), out)
    BY <1>3, Zenon DEF handle_wait_io_timeout
  <2>2. Sets(r(t), q, "pss_wait_io")
    BY DEF ServerRec, Sets
  <2> HIDE DEF r
  <2> QED BY <1>1, <1>3, <2>1, <2>2, LinkNames
<1>4. CASE server[s].state = "pss_server_restart" /\ handle_server_restart(s)
  <2> DEFINE r == [q EXCEPT !.next_timeout = 0, !.restart_flow = NoFlow,
                            !.state = "pss_wait_io_calc_nearest_timeout"]
  <2>1. PICK out : Commit(s, r, out)
    BY <1>4, Zenon DEF handle_server_restart
  <2>2. Sets(r, q, "pss_wait_io_calc_nearest_timeout")
    BY DEF ServerRec, Sets
  <2> HIDE DEF r
  <2> QED BY <1>1, <1>4, <2>1, <2>2, LinkNames
<1>5. CASE /\ server[s].state = "pss_set_not_working"
           /\ handle_server_set_not_working(s)
  <2> DEFINE r == [q EXCEPT !.next_timeout = PCP_SERVER_DISCOVERY_RETRY_DELAY,
                            !.state = "pss_not_working"]
  <2>1. PICK out : Commit(s, r, out)
    BY <1>5, Zenon DEF handle_server_set_not_working
  <2>2. Sets(r, q, "pss_not_working")
    BY DEF ServerRec, Sets
  <2> HIDE DEF r
  <2> QED BY <1>1, <1>5, <2>1, <2>2, LinkNames
<1>6. CASE /\ server[s].state = "pss_not_working"
           /\ handle_server_not_working(s)
  <2> DEFINE r == [q EXCEPT !.next_timeout = 0,
                            !.state = "pss_server_reping"]
  <2>1. PICK out : Commit(s, r, out)
    BY <1>6, Zenon DEF handle_server_not_working
  <2>2. Sets(r, q, "pss_server_reping")
    BY DEF ServerRec, Sets
  <2> HIDE DEF r
  <2> QED BY <1>1, <1>6, <2>1, <2>2, LinkNames
<1>7. CASE server[s].state = "pss_allocated" /\ ignore_events(s)
  <2> DEFINE r == [q EXCEPT !.next_timeout = NoTime]
  <2>1. PICK out : Commit(s, r, out)
    BY <1>7, Zenon DEF ignore_events
  <2>2. Sets(r, q, "pss_allocated")
    BY <1>7 DEF ServerRec, Sets
  <2> HIDE DEF r
  <2> QED BY <1>1, <1>7, <2>1, <2>2, LinkNames
<1> QED
  BY <1>2, <1>3, <1>4, <1>5, <1>6, <1>7

LEMMA RepingMoves ==
  ASSUME NEW s \in Servers, server[s] \in ServerRec,
         server[s].state = "pss_server_reping", handle_server_reping(s)
  PROVE  Handles(s)
<1> DEFINE q == server[s]
           r == [q EXCEPT !.pcp_version = PCP_MAX_SUPPORTED_VERSION,
                          !.next_timeout = 0, !.state = "pss_ping"]
<1>1. PICK out : Commit(s, r, out)
  BY Zenon DEF handle_server_reping
<1>2. r.state = "pss_ping" /\ r.pcp_version = PCP_MAX_SUPPORTED_VERSION
  BY DEF ServerRec
<1> HIDE DEF r
<1>3. Moved(s, r)
  BY <1>2, LinkNames DEF Moved
<1> QED
  BY <1>1, <1>3, HandlesIf

(* A message in pss_wait_ping_resp or pss_wait_io. *)
LEMMA ReceiveMoves ==
  ASSUME NEW s \in Servers, server[s] \in ServerRec, NEW m \in Answers(s),
         NEW goOn \in {"pss_send_all_msgs",
                       "pss_wait_io_calc_nearest_timeout"},
         server[s].state \in {"pss_wait_ping_resp", "pss_wait_io"},
         ReceiveMsg(s, m, goOn)
  PROVE  Handles(s)
<1> DEFINE q == server[s]
<1>1. CASE m.result = "unsupp_version"
  <2> DEFINE r == [q EXCEPT !.next_timeout = 0, !.next_version = m.version,
                            !.state = "pss_version_negotiation"]
  <2>1. PICK out : Commit(s, r, out)
    BY <1>1, Zenon DEF ReceiveMsg
  <2>2. /\ Sets(r, q, "pss_version_negotiation")
        /\ r.next_version = m.version
    BY DEF ServerRec, Sets
  <2> HIDE DEF r
  <2>3. Moved(s, r)
    BY <1>1, <2>2, LinkNames, AnswerMeans DEF Moved, Sets
  <2> QED BY <2>1, <2>3, HandlesIf
<1>2. CASE m.result = "address_mismatch"
  <2> DEFINE r == [q EXCEPT !.next_timeout = 0,
                            !.state = "pss_set_not_working"]
  <2>1. PICK out : Commit(s, r, out)
    BY <1>2, Zenon DEF ReceiveMsg
  <2>2. Sets(r, q, "pss_set_not_working")
    BY DEF ServerRec, Sets
  <2> HIDE DEF r
  <2>3. Moved(s, r)
    BY <1>2, <2>2, LinkNames, AnswerMeans DEF Moved, Sets
  <2> QED BY <2>1, <2>3, HandlesIf
<1>3. CASE m.result \notin {"unsupp_version", "address_mismatch"}
  <2> DEFINE r1(x) == [q EXCEPT !.next_timeout = 0, !.restart_flow = x,
                                !.state = "pss_server_restart"]
             r2 == [q EXCEPT !.epoch_known = TRUE, !.next_timeout = 0,
                             !.state = goOn]
  <2>1. PICK x, out : Commit(s, r1(x), out) \/ Commit(s, r2, out)
    BY <1>3, Zenon DEF ReceiveMsg
  <2>2. Sets(r1(x), q, "pss_server_restart") /\ Sets(r2, q, goOn)
    BY DEF ServerRec, Sets
  <2> HIDE DEF r1, r2
  <2>3. Moved(s, r1(x)) /\ Moved(s, r2)
    BY <1>3, <2>2, LinkNames, AnswerMeans DEF Moved, Sets
  <2> QED BY <2>1, <2>3, HandlesIf
<1> QED
  BY <1>1, <1>2, <1>3

LEMMA NotWorkingMsgMoves ==
  ASSUME NEW s \in Servers, server[s] \in ServerRec, NEW m \in Answers(s),
         server[s].state = "pss_not_working",
         handle_server_not_working_msg(s, m)
  PROVE  Handles(s)
<1> DEFINE q == server[s]
           r(x) == [q EXCEPT !.epoch_known = TRUE, !.next_timeout = 0,
                             !.restart_flow = x,
                             !.state = "pss_server_restart"]
<1>1. CASE m.result \in {"unsupp_version", "address_mismatch"}
  <2>1. PICK out : Commit(s, q, out)
    BY <1>1, Zenon DEF handle_server_not_working_msg
  <2>2. Moved(s, q)
    BY DEF Moved
  <2> QED BY <2>1, <2>2, HandlesIf
<1>2. CASE m.result \notin {"unsupp_version", "address_mismatch"}
  <2>1. PICK x, out : Commit(s, r(x), out)
    BY <1>2, Zenon DEF handle_server_not_working_msg
  <2>2. Sets(r(x), q, "pss_server_restart")
    BY DEF ServerRec, Sets
  <2> HIDE DEF r
  <2>3. Moved(s, r(x))
    BY <1>2, <2>2, LinkNames, AnswerMeans DEF Moved, Sets
  <2> QED BY <2>1, <2>3, HandlesIf
<1> QED
  BY <1>1, <1>2

(* The version that is tried next is below the one that was refused. *)
LEMMA NegotiationLowers ==
  ASSUME IndInv, RefusalOk, NEW s \in Servers,
         server[s].state = "pss_version_negotiation", ~NothingLower(s)
  PROVE  LET v  == server[s].pcp_version
             nv == IF server[s].next_version = v
                   THEN (server[s].next_version + 255) % 256
                   ELSE server[s].next_version
         IN  nv \in 0 .. v - 1
<1>1. /\ server[s].next_version = ServerVersion[s]
      /\ ServerVersion[s] < PCP_MAX_SUPPORTED_VERSION
  BY DEF RefusalOk
<1>2. server[s].pcp_version \in 0 .. 255 /\ server[s].pcp_version # 0
  BY Known DEF ServerRec, NothingLower
<1>3. server[s].pcp_version <= PCP_MAX_SUPPORTED_VERSION
  BY Known DEF ServerOk
<1>4. /\ PCP_MAX_SUPPORTED_VERSION \in 0 .. 2
      /\ ServerVersion[s] \in 0 .. PCP_MAX_SUPPORTED_VERSION
  BY ClientAssumption, VersionAssumption DEF Versions
<1>5. ServerVersion[s] \in {0, 1} /\ server[s].pcp_version \in {1, 2}
  BY <1>1, <1>2, <1>3, <1>4
<1>6. (1 + 255) % 256 = 0
  OBVIOUS
<1> QED
  BY <1>1, <1>5, <1>6

LEMMA PingAgainMoves ==
  ASSUME NEW s \in Servers, server[s] \in ServerRec,
         server[s].state = "pss_version_negotiation", s \in refused,
         NEW v \in 0 .. server[s].pcp_version - 1, NEW p, NEW g, NEW x,
         PingAgain(s, v, p, g, x)
  PROVE  Handles(s)
<1> DEFINE q == server[s]
           srv == [q EXCEPT !.next_version = v, !.pcp_version = v,
                            !.ping_flow = p]
           r1 == [srv EXCEPT !.next_timeout = @,
                             !.state = "pss_set_not_working"]
           r2(t) == [srv EXCEPT !.next_timeout = t,
                                !.state = "pss_wait_ping_resp"]
<1>1. PICK t, out : Commit(s, r1, out) \/ Commit(s, r2(t), out)
  <2>1. PICK dead \in BOOLEAN : \E t, out :
          Commit(s, [srv EXCEPT
                       !.next_timeout = IF dead THEN @ ELSE t,
                       !.state = IF dead THEN "pss_set_not_working"
                                 ELSE "pss_wait_ping_resp"], out)
    BY Zenon DEF PingAgain
  <2> HIDE DEF srv
  <2> QED BY <2>1
<1>2. /\ r1.state = "pss_set_not_working" /\ r1.pcp_version = v
      /\ r2(t).state = "pss_wait_ping_resp" /\ r2(t).pcp_version = v
  BY DEF ServerRec
<1> HIDE DEF r1, r2
<1>3. Moved(s, r1) /\ Moved(s, r2(t))
  BY <1>2, LinkNames DEF Moved
<1> QED
  BY <1>1, <1>3, HandlesIf

LEMMA NegotiateMoves ==
  ASSUME IndInv, RefusalOk, NEW s \in Servers,
         server[s].state = "pss_version_negotiation",
         handle_version_negotiation(s)
  PROVE  Handles(s)
<1> DEFINE q == server[s]
           nv == IF q.next_version = q.pcp_version
                 THEN (q.next_version + 255) % 256 ELSE q.next_version
<1>1. q \in ServerRec /\ s \in refused
  BY Known DEF RefusalOk
<1>2. CASE NothingLower(s)
  <2> DEFINE r == [q EXCEPT !.next_version = nv,
                            !.state = "pss_set_not_working"]
  <2>1. PICK out : Commit(s, r, out)
    BY <1>2, Zenon DEF handle_version_negotiation
  <2>2. Sets(r, q, "pss_set_not_working")
    BY <1>1 DEF ServerRec, Sets
  <2> HIDE DEF r
  <2>3. Moved(s, r)
    BY <2>2, LinkNames DEF Moved, Sets
  <2> QED BY <2>1, <2>3, HandlesIf
<1>3. CASE ~NothingLower(s)
  <2>1. nv \in 0 .. q.pcp_version - 1
    BY <1>3, NegotiationLowers
  <2> DEFINE r == [q EXCEPT !.next_version = nv, !.pcp_version = nv,
                            !.next_timeout = NoTime, !.state = "pss_ping"]
  <2>2. \/ \E p, g, x : PingAgain(s, nv, p, g, x)
        \/ \E out : Commit(s, r, out)
    BY <1>3, Zenon DEF handle_version_negotiation
  <2> HIDE DEF nv
  <2>3. CASE \E p, g, x : PingAgain(s, nv, p, g, x)
    BY <1>1, <2>1, <2>3, PingAgainMoves
  <2>4. CASE \E out : Commit(s, r, out)
    <3>1. PICK out : Commit(s, r, out)
      BY <2>4
    <3>2. r.state = "pss_ping" /\ r.pcp_version = nv
      BY <1>1 DEF ServerRec
    <3> HIDE DEF r
    <3>3. Moved(s, r)
      BY <1>1, <2>1, <3>2, LinkNames DEF Moved
    <3> QED BY <3>1, <3>3, HandlesIf
  <2> QED BY <2>2, <2>3, <2>4
<1> QED
  BY <1>2, <1>3

(* server_sm as a whole. *)
LEMMA TimeoutMoves ==
  ASSUME IndInv, RefusalOk, NEW s \in Servers, OnTimeout(s)
  PROVE  Handles(s)
<1>1. server[s] \in ServerRec
  BY Known
<1> QED
  BY <1>1, PingMoves, PingTimeoutMoves, NegotiateMoves, SteadyMoves,
     RepingMoves DEF OnTimeout

LEMMA MessageMoves ==
  ASSUME IndInv, NEW s \in Servers, NEW m \in Answers(s), OnMessage(s, m)
  PROVE  Handles(s)
<1>1. server[s] \in ServerRec
  BY Known
<1>2. ASSUME server[s].state = "pss_wait_ping_resp",
             handle_wait_ping_resp_recv(s, m)
      PROVE  Handles(s)
  BY <1>1, <1>2, ReceiveMoves DEF handle_wait_ping_resp_recv
<1>3. ASSUME server[s].state = "pss_wait_io",
             handle_wait_io_receive_msg(s, m)
      PROVE  Handles(s)
  BY <1>1, <1>3, ReceiveMoves DEF handle_wait_io_receive_msg
<1> QED
  BY <1>1, <1>2, <1>3, PingMoves, NotWorkingMsgMoves, SteadyMoves
     DEF OnMessage

-----------------------------------------------------------------------------
(* Steps.                                                                   *)

(* Nothing that was on the wire is taken back. *)
LEMMA CommitContacts ==
  ASSUME IndInv, NEW s \in Servers, NEW r, NEW out, Commit(s, r, out)
  PROVE  Link!Contact
<1>1. refused \subseteq refused'
  BY Zenon DEF Commit
<1>2. \A f \in Flows : asked[f] \subseteq asked'[f]
  <2> DEFINE b == [f \in Flows |->
                     out[f].sent /\ server'[Key[f].server].pcp_version
                                      <= ServerVersion[Key[f].server]]
  <2>1. asked' = [f \in Flows |-> IF b[f] = TRUE
                                  THEN asked[f] \cup {Kind(out[f].f)}
                                  ELSE asked[f]]
    BY Zenon DEF Commit
  <2> HIDE DEF b
  <2> QED BY <2>1
<1>3. Reached \subseteq Reached'
  BY <1>2 DEF Reached
<1> QED
  BY <1>1, <1>3 DEF Link!Contact

LEMMA HandledRefusals ==
  ASSUME IndInv, IndInv', RefusalOk, NEW s \in Servers, Handles(s)
  PROVE  RefusalOk'
<1>1. PICK r, out : Commit(s, r, out) /\ Moved(s, r)
  BY DEF Handles
<1>2. server' = [server EXCEPT ![s] = r] /\ server \in [Servers -> ServerRec]
  BY <1>1 DEF Commit, IndInv, TypeOK
<1>3. refused \subseteq refused'
  BY <1>1, Zenon DEF Commit
<1>4. ASSUME NEW x \in refused'
      PROVE  ServerVersion[x] < PCP_MAX_SUPPORTED_VERSION
  <2>1. \/ x \in refused
        \/ \E f \in Flows :
             /\ x = Key[f].server
             /\ ~(server'[x].pcp_version <= ServerVersion[x])
    BY <1>1, Zenon DEF Commit
  <2>2. CASE x \in refused
    BY <2>2 DEF RefusalOk
  <2>3. CASE ~(server'[x].pcp_version <= ServerVersion[x])
    <3>1. x \in Servers
      BY DEF IndInv, TypeOK
    <3>2. server'[x] \in ServerRec /\ ServerOk(x, server'[x], flow')
      BY <3>1 DEF IndInv, TypeOK
    <3>3. /\ server'[x].pcp_version \in 0 .. 255
          /\ server'[x].pcp_version <= PCP_MAX_SUPPORTED_VERSION
      BY <3>2 DEF ServerRec, ServerOk
    <3>4. ServerVersion[x] \in 0 .. PCP_MAX_SUPPORTED_VERSION
          /\ PCP_MAX_SUPPORTED_VERSION \in 0 .. 254
      BY <3>1, ClientAssumption DEF Versions
    <3> QED BY <2>3, <3>3, <3>4
  <2> QED BY <2>1, <2>2, <2>3
<1>5. ASSUME NEW t \in Servers,
             server'[t].state = "pss_version_negotiation"
      PROVE  t \in refused' /\ server'[t].next_version = ServerVersion[t]
  <2>1. CASE t = s
    BY <1>1, <1>2, <1>3, <1>5, <2>1 DEF Moved
  <2>2. CASE t # s
    BY <1>2, <1>3, <1>5, <2>2 DEF RefusalOk
  <2> QED BY <2>1, <2>2
<1> QED
  BY <1>4, <1>5 DEF RefusalOk

(* A change of one server's record, seen from PcpLink. *)
LEMMA LinkTo ==
  ASSUME NEW s \in Servers, NEW r, server \in [Servers -> ServerRec],
         server' = [server EXCEPT ![s] = r]
  PROVE  Link!To(s, LinkOf(r.state), r.pcp_version)
<1>1. \A t \in Servers : server'[t] = IF t = s THEN r ELSE server[t]
  OBVIOUS
<1>2. [t \in Servers |-> LinkOf(server'[t].state)]
        = [[t \in Servers |-> LinkOf(server[t].state)]
             EXCEPT ![s] = LinkOf(r.state)]
  BY <1>1
<1>3. [t \in Servers |-> server'[t].pcp_version]
        = [[t \in Servers |-> server[t].pcp_version]
             EXCEPT ![s] = r.pcp_version]
  BY <1>1
<1> QED
  BY <1>2, <1>3 DEF Link!To

(* A handler that ran is a step of PcpLink. *)
LEMMA HandledLinks ==
  ASSUME IndInv, NEW s \in Servers, Handles(s),
         ~(pulse.at = "app" /\ pulse'.at = "app")
  PROVE  Link!LNext
<1>1. PICK r, out : Commit(s, r, out) /\ Moved(s, r)
  BY DEF Handles
<1>2. server' = [server EXCEPT ![s] = r] /\ server \in [Servers -> ServerRec]
  BY <1>1 DEF Commit, IndInv, TypeOK
<1> DEFINE l == LinkOf(server[s].state)
           k == LinkOf(r.state)
           v == server[s].pcp_version
           w == r.pcp_version
<1>3. Link!To(s, k, w) /\ Link!Contact
  BY <1>1, <1>2, LinkTo, CommitContacts
<1>4. [t \in Servers |-> LinkOf(server[t].state)][s] = l
      /\ [t \in Servers |-> server[t].pcp_version][s] = v
  OBVIOUS
<1>5. k = l /\ w = v =>
        /\ [t \in Servers |-> LinkOf(server[t].state)]'
             = [t \in Servers |-> LinkOf(server[t].state)]
        /\ [t \in Servers |-> server[t].pcp_version]'
             = [t \in Servers |-> server[t].pcp_version]
  BY <1>2
<1>6. (k = l /\ w = v) \/ Link!LinkStep(s)
  <2> USE <1>3, <1>4 DEF Link!To
  <2>1. /\ l = "idle" /\ k = "probing" /\ w = v => Link!Probe(s)
        /\ l = "working" /\ k = "probing" /\ w = v /\ s \in refused =>
             Link!Refuse(s)
        /\ l = "probing" /\ k = "idle" /\ w = v => Link!Abandon(s)
    BY DEF Link!Probe, Link!Refuse, Link!Abandon
  <2>2. /\ l \in {"probing", "down"} /\ k = "working" /\ w = v
        /\ s \in Reached
        => Link!Answer(s)
    BY DEF Link!Answer
  <2>3. /\ l = "probing" \/ (l = "working" /\ s \in Reached)
        /\ k = "down" /\ w = v
        => Link!GiveUp(s)
    BY DEF Link!GiveUp
  <2>4. /\ l = "probing" /\ k \in {"probing", "idle", "down"}
        /\ s \in refused /\ w \in 0 .. v - 1
        => Link!Lower(s)
    BY DEF Link!Lower
  <2>5. l = "down" /\ k = "idle" /\ w = PCP_MAX_SUPPORTED_VERSION =>
          Link!Retry(s)
    BY DEF Link!Retry
  <2>6. \/ /\ w = v
           /\ \/ k = l
              \/ l = "idle" /\ k = "probing"
              \/ l \in {"probing", "down"} /\ k = "working" /\ s \in Reached
              \/ l = "working" /\ k = "probing" /\ s \in refused
              \/ l = "probing" /\ k \in {"idle", "down"}
              \/ l = "working" /\ k = "down" /\ s \in Reached
        \/ /\ l = "probing" /\ k \in {"probing", "idle", "down"}
           /\ s \in refused /\ w \in 0 .. v - 1
        \/ l = "down" /\ k = "idle" /\ w = PCP_MAX_SUPPORTED_VERSION
    BY <1>1 DEF Moved
  <2> HIDE DEF l, k, v, w
  <2> QED
    BY <2>1, <2>2, <2>3, <2>4, <2>5, <2>6 DEF Link!LinkStep
<1> QED
  BY <1>3, <1>5, <1>6 DEF Link!LNext

(* A step that neither sends nor changes what a server is taken for. *)
LEMMA QuietLinks ==
  ASSUME UNCHANGED <<asked, refused>>,
         \A t \in Servers : /\ server'[t].state = server[t].state
                            /\ server'[t].pcp_version = server[t].pcp_version
  PROVE  Link!LNext
<1>1. Link!Contact
  BY DEF Link!Contact, Reached
<1>2. /\ [t \in Servers |-> LinkOf(server[t].state)]'
           = [t \in Servers |-> LinkOf(server[t].state)]
      /\ [t \in Servers |-> server[t].pcp_version]'
           = [t \in Servers |-> server[t].pcp_version]
  OBVIOUS
<1> QED
  BY <1>1, <1>2 DEF Link!LNext

(* Such a step keeps RefusalOk if it leaves next_version alone too. *)
LEMMA QuietRefusals ==
  ASSUME RefusalOk, UNCHANGED refused,
         \A t \in Servers :
           \/ server'[t].state # "pss_version_negotiation"
           \/ /\ server'[t].state = server[t].state
              /\ server'[t].next_version = server[t].next_version
  PROVE  RefusalOk'
BY DEF RefusalOk

LEMMA AddServerLinks ==
  ASSUME IndInv, RefusalOk, NEW s \in Servers, NEW v \in Versions,
         NEW routed \in BOOLEAN, pulse.at = "app",
         pcp_add_server(s, v, routed)
  PROVE  Link!LNext /\ RefusalOk'
<1> DEFINE q == server[s]
           r == [q EXCEPT !.pcp_version = v,
                          !.next_timeout = IF routed THEN NoTime ELSE @,
                          !.state = IF routed THEN "pss_ping"
                                    ELSE "pss_unitialized"]
<1>1. server \in [Servers -> ServerRec] /\ q \in ServerRec
  BY DEF IndInv, TypeOK
<1>2. server' = [server EXCEPT ![s] = r] /\ UNCHANGED <<asked, refused, pulse>>
  BY <1>1 DEF pcp_add_server
<1>3. r.state \in {"pss_ping", "pss_unitialized"} /\ r.pcp_version = v
  BY <1>1 DEF ServerRec
<1>4. q.state \in ServerStates /\ q.state # "pss_unitialized"
  BY <1>1 DEF pcp_add_server, ServerRec
<1> HIDE DEF r
<1>5. Link!To(s, LinkOf(r.state), v)
  BY <1>1, <1>2, <1>3, LinkTo
<1>6. LinkOf(r.state) \in {"idle", "absent"} /\ LinkOf(q.state) # "absent"
  BY <1>3, <1>4, LinkNames DEF ServerStates
<1>7. Link!Reset(s, v)
  BY <1>5, <1>6 DEF Link!Reset, Link!To
<1>8. Link!Contact
  BY <1>2 DEF Link!Contact, Reached
<1>9. Link!LNext
  BY <1>2, <1>7, <1>8 DEF Link!LNext, Versions
<1>10. RefusalOk'
  BY <1>1, <1>2, <1>3, QuietRefusals
<1> QED
  BY <1>9, <1>10

(* The records that Wake, a deletion and the clock leave, in the fields     *)
(* that count.                                                              *)
Same(t) ==
  /\ server'[t].state = server[t].state
  /\ server'[t].pcp_version = server[t].pcp_version
  /\ server'[t].next_version = server[t].next_version

LEMMA WakeSame ==
  ASSUME IndInv, NEW S, server' = Wake(S)
  PROVE  \A t \in Servers : Same(t)
<1>1. \A t \in Servers : server[t] \in ServerRec
  BY DEF IndInv, TypeOK
<1> QED
  BY <1>1 DEF Wake, ServerRec, Same

LEMMA ApiLinks ==
  ASSUME IndInv, RefusalOk, ApiStep
  PROVE  Link!LNext /\ RefusalOk'
<1>1. ASSUME UNCHANGED <<asked, refused>>, \A t \in Servers : Same(t)
      PROVE  Link!LNext /\ RefusalOk'
  BY <1>1, QuietLinks, QuietRefusals DEF Same
<1>2. ASSUME NEW r, NEW l, pcp_new_flow(r, l)
      PROVE  Link!LNext /\ RefusalOk'
  BY <1>1, <1>2, WakeSame DEF pcp_new_flow
<1>3. ASSUME NEW f, NEW l, pcp_flow_set_lifetime(f, l)
      PROVE  Link!LNext /\ RefusalOk'
  BY <1>1, <1>3, WakeSame DEF pcp_flow_set_lifetime
<1>4. ASSUME NEW f, pcp_close_flow(f)
      PROVE  Link!LNext /\ RefusalOk'
  BY <1>1, <1>4, WakeSame DEF pcp_close_flow, wire
<1>5. ASSUME NEW f, pcp_delete_flow(f)
      PROVE  Link!LNext /\ RefusalOk'
  <2>1. \A t \in Servers : server[t] \in ServerRec
    BY DEF IndInv, TypeOK
  <2>2. \A t \in Servers : Same(t)
    BY <1>5, <2>1 DEF pcp_delete_flow, Same, ServerRec
  <2> QED BY <1>1, <1>5, <2>2 DEF pcp_delete_flow
<1> QED
  BY <1>2, <1>3, <1>4, <1>5, AddServerLinks DEF ApiStep

LEMMA NextLinks ==
  ASSUME IndInv, IndInv', RefusalOk, [Next]_vars
  PROVE  [Link!LNext]_(Link!lvars) /\ RefusalOk'
<1>1. ASSUME UNCHANGED <<asked, refused>>, \A t \in Servers : Same(t)
      PROVE  Link!LNext /\ RefusalOk'
  BY <1>1, QuietLinks, QuietRefusals DEF Same
<1>2. CASE ApiStep
  BY <1>2, ApiLinks
<1>3. CASE PulseReadNothing \/ PulseNext
  BY <1>1, <1>3 DEF PulseReadNothing, PulseNext, Same
<1>4. ASSUME NEW s \in Servers, NEW m \in Answers(s), PulseReadMsg(s, m)
      PROVE  Link!LNext /\ RefusalOk'
  <2>1. Handles(s) /\ pulse' = At("io", s)
    BY <1>4, MessageMoves DEF PulseReadMsg
  <2>2. pulse'.at # "app"
    BY <2>1 DEF At
  <2> QED BY <2>1, <2>2, HandledLinks, HandledRefusals
<1>5. ASSUME NEW s \in Servers, PulseRun(s)
      PROVE  Link!LNext /\ RefusalOk'
  <2>1. Handles(s) /\ pulse.at # "app"
    BY <1>5, TimeoutMoves DEF PulseRun
  <2> QED BY <2>1, HandledLinks, HandledRefusals
<1>6. CASE Tick
  <2>1. \A t \in Servers : server[t] \in ServerRec
    BY DEF IndInv, TypeOK
  <2>2. ASSUME NEW t \in Servers
        PROVE  Same(t)
    <3> DEFINE q == server[t]
               r == [q EXCEPT !.next_timeout = Sooner(@)]
    <3>1. server'[t] = r
      BY <1>6, Zenon DEF Tick
    <3>2. q \in ServerRec
      BY <2>1
    <3> HIDE DEF q
    <3>3. /\ r.state = q.state /\ r.pcp_version = q.pcp_version
          /\ r.next_version = q.next_version
      BY <3>2 DEF ServerRec
    <3> QED BY <3>1, <3>3 DEF Same, q
  <2> QED BY <1>1, <1>6, <2>2 DEF Tick
<1>7. CASE UNCHANGED vars
  BY <1>1, <1>7 DEF vars, Same
<1> QED
  BY <1>2, <1>3, <1>4, <1>5, <1>6, <1>7 DEF Next, PulseStart, PulseStep

LEMMA InitLinks ==
  ASSUME Init
  PROVE  Link!LInit /\ RefusalOk
<1>1. /\ asked = [f \in Flows |-> {}] /\ refused = {}
      /\ server = [s \in Servers |-> NewServer(s)] /\ pulse.at = "app"
  BY DEF Init, App, At
<1>2. \A s \in Servers :
        /\ LinkOf(server[s].state) = IF s \in Unrouted THEN "unrouted"
                                     ELSE "idle"
        /\ server[s].state # "pss_version_negotiation"
        /\ server[s].pcp_version = PCP_MAX_SUPPORTED_VERSION
  BY <1>1, LinkNames DEF NewServer
<1>3. Reached = {}
  BY <1>1 DEF Reached
<1> QED
  BY <1>1, <1>2, <1>3 DEF Link!LInit, RefusalOk

-----------------------------------------------------------------------------
(* The refinement.                                                          *)

(* A server that refuses speaks less than the client's highest version, and *)
(* a negotiation starts from what the server offered (next_version in       *)
(* handle_wait_io_receive_msg).                                             *)
THEOREM RefusalsAreReal == Spec => []RefusalOk
<1>1. Init => RefusalOk
  BY InitLinks
<1>2. IndInv /\ IndInv' /\ RefusalOk /\ [Next]_vars => RefusalOk'
  BY NextLinks
<1> QED
  BY <1>1, <1>2, Inductive, PTL DEF Spec

(* PcpClient implements PcpLink: every run of the library, with any number  *)
(* of servers and flows, keeps the promises of PcpLink (server_sm and its   *)
(* handlers).                                                               *)
THEOREM LinkRefinement == Spec => ImplementsLink
<1>1. Init => Link!LInit
  BY InitLinks
<1>2. IndInv /\ IndInv' /\ RefusalOk /\ [Next]_vars =>
        [Link!LNext]_(Link!lvars)
  BY NextLinks
<1> QED
  BY <1>1, <1>2, Inductive, RefusalsAreReal, PTL
     DEF Spec, ImplementsLink, Link!LSpec
=============================================================================
