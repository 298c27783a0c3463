------------------------- MODULE PcpExchangeProofs -------------------------
(***************************************************************************)
(* The epoch check is sound and complete up to its tolerance, requests are *)
(* well formed and answers find their flow, for any clock readings,        *)
(* delays, flows, metadata and servers.                                    *)
(***************************************************************************)
EXTENDS PcpExchange, PcpInduction

(* An answer on the wire is at most MaxDelay old and tells the uptime of    *)
(* the server that made it.                                                 *)
AnswerInv(a, t) ==
  /\ a.at \in Times /\ a.from \in Times
  /\ a.from <= a.at /\ a.at <= t /\ t - a.at <= MaxDelay
  /\ a.msg.epoch = a.at - a.from

(* The reference, once there is one, came with an answer that was made at   *)
(* ref_start + ref.epoch, at most MaxDelay before it was read.              *)
RefInv ==
  /\ ref = [epoch |-> ref.epoch, cepoch |-> ref.cepoch]
  /\ ref.epoch \in Epoch /\ ref.cepoch \in Times /\ ref_start \in Times
  /\ ref.cepoch <= now
  /\ ref.epoch # NoEpoch =>
       /\ ref_start + ref.epoch <= ref.cepoch
       /\ ref.cepoch - (ref_start + ref.epoch) <= MaxDelay

ClockInv == now \in Times /\ start \in Times /\ start <= now

EpochInv == ClockInv /\ RefInv /\ \A a \in answers : AnswerInv(a, now)

(* The clock stays far below the width of an epoch. *)
LEMMA ClockRange ==
  /\ EpochMod \in Nat /\ EpochMod > 64 /\ MaxDelay \in Nat
  /\ \A t \in Times : t \in Nat /\ 4 * t <= EpochMod
BY EpochAssumption, ExchangeAssumption

(* Every answer of a server carries the epoch it was asked to carry. *)
LEMMA ResponseEpoch ==
  ASSUME NEW req, NEW e, NEW r \in Responses(req, e)
  PROVE  r.epoch = e
<1>1. CASE server_info.server_version = 0
  <2>1. r = NatPmpResponse(req, e)
    BY <1>1 DEF Responses
  <2> QED BY <2>1 DEF NatPmpResponse
<1>2. CASE server_info.server_version # 0
  <2>1. PICK x : r = create_response(req, x, server_info, e)
    BY <1>2 DEF Responses, execPCPServer
  <2> QED BY <2>1 DEF create_response
<1> QED BY <1>1, <1>2

(* Two answers of one life of the server that come in order and within two  *)
(* seconds are in step.                                                     *)
LEMMA InStep ==
  ASSUME NEW c \in Nat, NEW s \in Nat, c <= s + 2, s <= c + 2,
         c + 2 < EpochMod, s + 2 < EpochMod, EpochMod \in Nat
  PROVE  ~ OutOfStep(c, s)
<1>1. s \div 16 >= 0 /\ c \div 16 >= 0 /\ s \div 16 \in Int /\ c \div 16 \in Int
  OBVIOUS
<1> QED BY <1>1 DEF OutOfStep, Plus, Most

(* A server that lost more uptime than the tolerance is out of step. *)
LEMMA Behind ==
  ASSUME NEW c \in Nat, NEW e \in Nat, NEW r \in Nat, EpochMod \in Nat,
         EpochMod > 64, 4 * c <= EpochMod, 4 * e <= EpochMod, 4 * r <= EpochMod,
         e - r + 2 < c - (c \div 16)
  PROVE  OutOfStep(c, Minus(e, r))
<1>1. c \div 16 \in Int /\ c \div 16 >= 0
  OBVIOUS
<1>2. CASE e >= r
  BY <1>1, <1>2 DEF OutOfStep, Plus, Most, Minus
<1>3. CASE e < r
  <2> DEFINE s == e - r + EpochMod
  <2>1. s \in Nat /\ 4 * s >= 3 * EpochMod
    BY <1>3
  <2>2. s \div 16 \in Int /\ 16 * (s \div 16) <= s
    BY <2>1
  <2>3. c + 2 < s - (s \div 16)
    BY <2>1, <2>2
  <2> HIDE DEF s
  <2>4. Minus(e, r) = s
    BY <1>3 DEF Minus, s
  <2>5. Plus(c, 2) = c + 2
    BY DEF Plus
  <2> QED BY <2>3, <2>4, <2>5 DEF OutOfStep, Most
<1> QED BY <1>2, <1>3

-----------------------------------------------------------------------------
LEMMA InitEpochInv == Init => EpochInv
BY ClockRange, ExchangeAssumption
   DEF Init, EpochInv, ClockInv, RefInv, NoEpoch, Epoch

(* Reading an answer takes nothing new to the wire. *)
LEMMA ReadKeepsAnswers ==
  ASSUME NEW a \in answers, Read(a), EpochInv
  PROVE  ClockInv' /\ (\A b \in answers' : AnswerInv(b, now'))
BY DEF Read, Delivered, EpochInv, ClockInv, AnswerInv

(* An answer that is on the wire makes a reference that satisfies RefInv. *)
LEMMA AnswerAsReference ==
  ASSUME NEW a \in answers, EpochInv, now' = now, ref_start' = a.from,
         ref' = [epoch |-> a.msg.epoch, cepoch |-> now]
  PROVE  RefInv'
<1>1. AnswerInv(a, now) /\ now \in Times
  BY DEF EpochInv, ClockInv
<1>2. a.at \in Nat /\ a.from \in Nat /\ now \in Nat /\ a.from \in Times
      /\ 4 * a.at <= EpochMod
  BY <1>1, ClockRange DEF AnswerInv
<1>3. a.msg.epoch \in Epoch /\ a.from + a.msg.epoch = a.at
  BY <1>1, <1>2, ClockRange DEF AnswerInv, Epoch
<1> QED BY <1>1, <1>2, <1>3 DEF RefInv, AnswerInv

LEMMA NextEpochInv == EpochInv /\ [Next]_vars => EpochInv'
<1> SUFFICES ASSUME EpochInv, [Next]_vars
             PROVE  EpochInv'
  OBVIOUS
<1> USE DEF EpochInv
<1>0. RefInv /\ UNCHANGED <<now, ref, ref_start>> => RefInv'
  BY DEF RefInv
<1>1. CASE \E f \in Flows : Send(f)
  BY <1>0, <1>1 DEF Send, client, ClockInv, AnswerInv
<1>2. CASE \E q \in requests : Serve(q)
  <2>1. PICK q \in requests : Serve(q)
    BY <1>2
  <2>2. PICK r \in Responses(q.msg, Minus(now, start)) :
          answers' = answers \cup
            {[msg |-> r, request |-> q.msg, flow |-> q.flow, at |-> now, from |-> start]}
    BY <2>1 DEF Serve
  <2>3. UNCHANGED <<start, now, ref, ref_start>>
    BY <2>1 DEF Serve, client
  <2>4. r.epoch = now - start
    BY <2>2, ResponseEpoch, ClockRange DEF ClockInv, Minus
  <2>5. \A b \in answers' : AnswerInv(b, now)
    BY <2>2, <2>4, ClockRange DEF ClockInv, AnswerInv
  <2> QED BY <1>0, <2>3, <2>5 DEF ClockInv, AnswerInv
<1>3. ASSUME NEW a \in answers, Drop(a)
      PROVE  EpochInv'
  BY <1>0, <1>3 DEF Drop, client, ClockInv, AnswerInv
<1>4. ASSUME NEW a \in answers, Negotiate(a) \/ GiveUp(a) \/ Ignore(a)
      PROVE  EpochInv'
  <2>1. Read(a) /\ UNCHANGED <<ref, ref_start>>
    BY <1>4 DEF Negotiate, GiveUp, Ignore, client
  <2>2. now' = now
    BY <2>1 DEF Read
  <2> QED BY <1>0, <2>1, <2>2, ReadKeepsAnswers
<1>5. ASSUME NEW a \in answers, Process(a)
      PROVE  EpochInv'
  <2>1. Read(a) /\ now' = now
    BY <1>5 DEF Process, Read
  <2>2. ref' = ref \/ ref' = [epoch |-> a.msg.epoch, cepoch |-> now]
    BY <1>5 DEF Process, NextReference, Reference
  <2>3. ref_start' = IF ref' = ref THEN ref_start ELSE a.from
    BY <1>5 DEF Process
  <2>4. RefInv'
    BY <1>0, <2>1, <2>2, <2>3, AnswerAsReference
  <2> QED BY <2>1, <2>4, ReadKeepsAnswers
<1>6. ASSUME NEW a \in answers, Return(a)
      PROVE  EpochInv'
  <2>1. Read(a) /\ now' = now
    BY <1>6 DEF Return, Read
  <2>2. RefInv'
    BY <1>6, <2>1, AnswerAsReference DEF Return
  <2> QED BY <2>1, <2>2, ReadKeepsAnswers
<1>7. CASE Restart
  BY <1>0, <1>7, ClockRange DEF Restart, client, wire, ClockInv, AnswerInv
<1>8. CASE Lose
  BY <1>0, <1>8 DEF Lose, client, ClockInv, AnswerInv
<1>9. CASE Tick
  <2>1. now' \in Times /\ now' > now
        /\ answers' = {a \in answers : now' - a.at <= MaxDelay}
        /\ UNCHANGED <<start, ref, ref_start>>
    BY <1>9 DEF Tick, client
  <2>2. RefInv'
    BY <2>1, ClockRange DEF RefInv, ClockInv
  <2> QED BY <2>1, <2>2, ClockRange DEF ClockInv, AnswerInv
<1>10. CASE PingTimeout \/ Reping
  BY <1>0, <1>10 DEF PingTimeout, Reping, wire, ClockInv, AnswerInv
<1>11. CASE UNCHANGED vars
  BY <1>0, <1>11 DEF vars, client, wire, ClockInv, AnswerInv
<1> QED
  BY <1>1, <1>2, <1>3, <1>4, <1>5, <1>6, <1>7, <1>8, <1>9, <1>10, <1>11 DEF Next

-----------------------------------------------------------------------------
(* What RefInv and AnswerInv say of an answer that is compared. *)
LEMMA ComparedAnswer ==
  ASSUME EpochInv, NEW a \in answers, Compared(a)
  PROVE  /\ now \in Nat /\ a.at \in Nat /\ a.from \in Nat /\ ref.cepoch \in Nat
         /\ ref.epoch \in Nat /\ ref_start \in Nat /\ a.msg.epoch \in Nat
         /\ ref.cepoch <= now /\ 4 * now <= EpochMod
         /\ ref_start + ref.epoch <= ref.cepoch
         /\ ref.cepoch - (ref_start + ref.epoch) <= MaxDelay
         /\ a.at <= now /\ now - a.at <= MaxDelay
         /\ a.from + a.msg.epoch = a.at
         /\ Restarted(a) <=> OutOfStep(now - ref.cepoch, Minus(a.msg.epoch, ref.epoch))
<1>1. AnswerInv(a, now) /\ RefInv /\ now \in Times /\ ref.epoch # NoEpoch
  BY DEF EpochInv, ClockInv, Compared
<1>2. now \in Nat /\ a.at \in Nat /\ a.from \in Nat /\ ref.cepoch \in Nat
      /\ ref_start \in Nat /\ 4 * now <= EpochMod /\ ref.epoch \in Nat
  BY <1>1, ClockRange DEF AnswerInv, RefInv, Epoch
<1>3. a.msg.epoch \in Nat /\ a.from + a.msg.epoch = a.at
  BY <1>1, <1>2 DEF AnswerInv
<1>4. Minus(now, ref.cepoch) = now - ref.cepoch
  BY <1>1, <1>2 DEF RefInv, Minus
<1>5. Restarted(a) <=> OutOfStep(now - ref.cepoch, Minus(a.msg.epoch, ref.epoch))
  BY <1>1, <1>4 DEF Restarted, compare_epochs, Reference
<1> QED BY <1>1, <1>2, <1>3, <1>5 DEF AnswerInv, RefInv

LEMMA EpochInvNoFalseRestart == EpochInv => NoFalseRestart
<1> SUFFICES ASSUME EpochInv, MaxDelay <= 2, NEW a \in answers, Compared(a),
                    a.from = ref_start, a.msg.epoch >= ref.epoch
             PROVE  ~ Restarted(a)
  BY DEF NoFalseRestart
<1> DEFINE c == now - ref.cepoch
           s == a.msg.epoch - ref.epoch
<1>1. c \in Nat /\ s \in Nat /\ c <= s + 2 /\ s <= c + 2
      /\ c + 2 < EpochMod /\ s + 2 < EpochMod
  BY ComparedAnswer, ClockRange
<1>2. Minus(a.msg.epoch, ref.epoch) = s
  BY ComparedAnswer DEF Minus
<1> HIDE DEF s
<1>3. Restarted(a) <=> OutOfStep(c, s)
  BY <1>2, ComparedAnswer
<1> HIDE DEF c
<1> QED BY <1>1, <1>3, InStep, ClockRange

LEMMA EpochInvRestartNoticed == EpochInv => RestartNoticed
<1> SUFFICES ASSUME EpochInv, NEW a \in answers, Compared(a),
                    a.from - ref_start > MaxDelay + 2 + ((now - ref.cepoch) \div 16)
             PROVE  Restarted(a)
  BY DEF RestartNoticed
<1> DEFINE c == now - ref.cepoch
<1>0. c \in Nat /\ 4 * c <= EpochMod
  BY ComparedAnswer, ClockRange
<1>1. c \div 16 \in Int
  BY <1>0
<1>2. 4 * a.msg.epoch <= EpochMod /\ 4 * ref.epoch <= EpochMod
  BY ComparedAnswer, ClockRange
<1>3. a.msg.epoch - ref.epoch + 2 < c - (c \div 16)
  BY <1>1, ComparedAnswer, ClockRange
<1> HIDE DEF c
<1>4. OutOfStep(c, Minus(a.msg.epoch, ref.epoch))
  BY <1>0, <1>2, <1>3, Behind, ComparedAnswer, ClockRange
<1> QED BY <1>4, ComparedAnswer DEF c

LEMMA AlwaysEpochInv == Spec => []EpochInv
BY InitEpochInv, NextEpochInv, PTL DEF Spec

(* compare_epochs never takes a running server for restarted while answers  *)
(* take at most two seconds and are not overtaken by the reference answer:  *)
(* for every width of the epoch, every clock and any flows and servers.     *)
THEOREM NoFalseRestartHolds == Spec => []NoFalseRestart
BY AlwaysEpochInv, EpochInvNoFalseRestart, PTL

(* compare_epochs notices every restart that cost the server more than two  *)
(* seconds, the longest delay and a sixteenth of the time since the         *)
(* reference answer, for every width of the epoch and every delay.          *)
THEOREM RestartNoticedHolds == Spec => []RestartNoticed
BY AlwaysEpochInv, EpochInvRestartNoticed, PTL
-----------------------------------------------------------------------------
(* The folds of PcpMsg and PcpServer.                                       *)

MdFold(base, md) == FoldLeft(add_md_option, base, md)

MdStep(g, md, base, t) ==
  IF t = {} THEN base ELSE add_md_option(g[t \ {Max(t)}], md[Max(t)])

(* The fold of the metadata stays in a set that no value leads out of. *)
LEMMA MdFoldStays ==
  ASSUME NEW md, NEW n \in Nat, DOMAIN md = 1 .. n, NEW A, NEW base \in A,
         \A m \in A : \A i \in 1 .. n : add_md_option(m, md[i]) \in A
  PROVE  MdFold(base, md) \in A
<1> DEFINE S == 1 .. n
           step == [ia \in S \X A |-> add_md_option(ia[2], md[ia[1]])]
           It(g) == g = [t \in SUBSET S |-> MdStep(g, md, base, t)]
<1>1. MdFold(base, md) = (CHOOSE g : It(g))[S]
  BY Zenon DEF MdFold, FoldLeft, MapThenFoldSet, MdStep
<1>2. step \in [S \X A -> A]
  OBVIOUS
<1>3. PICK g : Folds(g, n, A, base, step)
  <2> HIDE DEF step
  <2> QED BY <1>2, FoldsExists
<1>4. \A t \in SUBSET S : g[t] = MdStep(g, md, base, t)
  <2>1. \A i \in S : \A m \in A : step[<<i, m>>] = add_md_option(m, md[i])
    OBVIOUS
  <2> HIDE DEF step
  <2> QED BY <1>3, <2>1 DEF Folds, MdStep
<1>5. It(g)
  BY <1>3, <1>4 DEF Folds
<1> DEFINE f == CHOOSE h : It(h)
<1>7. It(f)
  BY <1>5, Zenon
<1> HIDE DEF f
<1>8. f[{}] \in A
  BY <1>7 DEF MdStep
<1>9. \A s \in SUBSET S :
        s # {} /\ Max(s) \in S /\ f[s \ {Max(s)}] \in A => f[s] \in A
  BY <1>7 DEF MdStep
<1>10. f[S] \in A
  BY <1>8, <1>9, FoldStays, Zenon
<1> QED BY <1>1, <1>10 DEF f

-----------------------------------------------------------------------------
(* The requests of build_pcp_msg.                                           *)

Codes == {"flow_priority", "filter", "prefer_failure", "third_party", "deviceid",
          "userid", "location", "metadata"}

(* Messages that differ in their options and, within L, in their length. *)
Msgs(ver, opcode, layout, body, fields, L) ==
  [ver : {ver}, opcode : {opcode}, layout : {layout}, body : {body},
   fields : {fields}, options : Seq([code : Codes, size : Nat]), len : L]

LEMMA AddOptionMsgs ==
  ASSUME NEW ver, NEW opcode, NEW layout, NEW body, NEW fields,
         NEW L, NEW M, NEW m \in Msgs(ver, opcode, layout, body, fields, L),
         NEW code \in Codes, NEW size \in Nat, m.len + size \in M
  PROVE  AddOption(m, code, size) \in Msgs(ver, opcode, layout, body, fields, M)
<1>1. [code |-> code, size |-> size] \in [code : Codes, size : Nat]
  OBVIOUS
<1>2. Append(m.options, [code |-> code, size |-> size])
        \in Seq([code : Codes, size : Nat])
  BY <1>1 DEF Msgs
<1> QED BY <1>2 DEF Msgs, AddOption

(* Lengths that are four bytes apart. *)
Lengths(lo, hi) == {l \in lo .. hi : l % 4 = 0}

LEMMA PaddingFills ==
  ASSUME NEW n \in Nat
  PROVE  Padding(n) \in 0 .. 3 /\ (n + Padding(n)) % 4 = 0
<1>1. PICK q \in Nat, r \in 0 .. 3 : n = 4 * q + r
  <2>1. n \div 4 \in Nat /\ n % 4 \in 0 .. 3 /\ n = 4 * (n \div 4) + (n % 4)
    OBVIOUS
  <2> QED BY <2>1
<1>2. n % 4 = r
  BY <1>1
<1> QED BY <1>1, <1>2 DEF Padding

LEMMA MdMsgs ==
  ASSUME NEW ver, NEW opcode, NEW layout, NEW body, NEW fields, NEW lo \in Nat,
         NEW m \in Msgs(ver, opcode, layout, body, fields, Lengths(lo, PCP_MAX_LEN)),
         NEW v, v.len \in 0 .. MD_VAL_MAX_LEN
  PROVE  add_md_option(m, v)
           \in Msgs(ver, opcode, layout, body, fields, Lengths(lo, PCP_MAX_LEN))
<1> DEFINE size == OptionSize.metadata + v.len + Padding(v.len)
<1>0. OptionSize.metadata = 8
  BY DEF OptionSize
<1>1. v.len \in Nat
  BY DEF MD_VAL_MAX_LEN
<1>6. "metadata" \in Codes
  BY DEF Codes
<1>2. size \in Nat /\ size % 4 = 0
  <2> DEFINE p == Padding(v.len)
             w == v.len
  <2>1. w \in Nat /\ p \in 0 .. 3 /\ (w + p) % 4 = 0 /\ size = 8 + w + p
    BY <1>0, <1>1, PaddingFills
  <2> HIDE DEF p, w, size
  <2> QED BY <2>1
<1>3. m.len \in lo .. PCP_MAX_LEN /\ m.len % 4 = 0 /\ PCP_MAX_LEN \in Nat
  BY MsgAssumption DEF Msgs, Lengths
<1> HIDE DEF size
<1>4. m.len + size <= PCP_MAX_LEN => m.len + size \in Lengths(lo, PCP_MAX_LEN)
  BY <1>2, <1>3 DEF Lengths
<1>5. add_md_option(m, v) = m
      \/ /\ m.len + size <= PCP_MAX_LEN
         /\ add_md_option(m, v) = AddOption(m, "metadata", size)
  <2>1. ~ (m.len + size > PCP_MAX_LEN) => m.len + size <= PCP_MAX_LEN
    BY <1>2, <1>3
  <2> QED BY <2>1, Zenon DEF add_md_option, size
<1> QED BY <1>2, <1>4, <1>5, <1>6, AddOptionMsgs

-----------------------------------------------------------------------------
OptionFold(opts, base) ==
  FoldLeft(LAMBDA n, o : IF o \in opts THEN AddOption(n, o, OptionSize[o]) ELSE n,
           base, OptionOrder)

OptStep(g, opts, base, t) ==
  IF t = {} THEN base
  ELSE IF OptionOrder[Max(t)] \in opts
       THEN AddOption(g[t \ {Max(t)}], OptionOrder[Max(t)], OptionSize[OptionOrder[Max(t)]])
       ELSE g[t \ {Max(t)}]

LEMMA OptionSizes ==
  /\ DOMAIN OptionOrder = 1 .. 7
  /\ \A k \in 1 .. 7 : OptionOrder[k] \in Codes
  /\ \A k \in 1 .. 7 : OptionSize[OptionOrder[k]] \in Nat
  /\ OptionSize[OptionOrder[1]] = 8 /\ OptionSize[OptionOrder[2]] = 24
  /\ OptionSize[OptionOrder[3]] = 4 /\ OptionSize[OptionOrder[4]] = 20
  /\ OptionSize[OptionOrder[5]] = 36 /\ OptionSize[OptionOrder[6]] = 516
  /\ OptionSize[OptionOrder[7]] = 36
<1>1. /\ OptionOrder[1] = "flow_priority" /\ OptionOrder[2] = "filter"
      /\ OptionOrder[3] = "prefer_failure" /\ OptionOrder[4] = "third_party"
      /\ OptionOrder[5] = "deviceid" /\ OptionOrder[6] = "userid"
      /\ OptionOrder[7] = "location" /\ DOMAIN OptionOrder = 1 .. 7
  BY DEF OptionOrder
<1>2. /\ OptionSize["flow_priority"] = 8 /\ OptionSize["filter"] = 24
      /\ OptionSize["prefer_failure"] = 4 /\ OptionSize["third_party"] = 20
      /\ OptionSize["deviceid"] = 36 /\ OptionSize["userid"] = 516
      /\ OptionSize["location"] = 36
  BY DEF OptionSize
<1>3. \A k \in 1 .. 7 : k \in {1, 2, 3, 4, 5, 6, 7}
  OBVIOUS
<1> QED BY <1>1, <1>2, <1>3 DEF Codes

LEMMA LastOfPositions ==
  ASSUME NEW k \in Nat, k > 0
  PROVE  Max(1 .. k) = k /\ (1 .. k) \ {k} = 1 .. (k - 1) /\ 1 .. k # {}
<1>1. 1 .. k # {} /\ (1 .. k) \ {k} = 1 .. (k - 1)
  OBVIOUS
<1>2. Max(1 .. k) \in 1 .. k /\ \A y \in 1 .. k : Max(1 .. k) >= y
  BY <1>1, MaxOfPositions
<1> QED BY <1>1, <1>2

(* The options take at most 644 bytes, a multiple of four. *)
LEMMA OptionFoldSize ==
  ASSUME NEW ver, NEW opcode, NEW layout, NEW body, NEW fields, NEW opts,
         NEW l \in Nat, l % 4 = 0,
         NEW base \in Msgs(ver, opcode, layout, body, fields, {l})
  PROVE  OptionFold(opts, base)
           \in Msgs(ver, opcode, layout, body, fields, Lengths(l, l + 644))
<1> DEFINE S == 1 .. 7
           M(L) == Msgs(ver, opcode, layout, body, fields, L)
           opt(m, o) == IF o \in opts THEN AddOption(m, o, OptionSize[o]) ELSE m
           step == [ia \in S \X M(Nat) |-> opt(ia[2], OptionOrder[ia[1]])]
           It(g) == g = [t \in SUBSET S |-> OptStep(g, opts, base, t)]
<1>1. OptionFold(opts, base) = (CHOOSE g : It(g))[S]
  <2>1. DOMAIN OptionOrder = 1 .. 7
    BY OptionSizes
  <2> QED BY <2>1, Zenon DEF OptionFold, FoldLeft, MapThenFoldSet, OptStep
<1>2. base \in M(Nat)
  BY DEF Msgs
<1>3. ASSUME NEW i \in S, NEW m \in M(Nat)
      PROVE  opt(m, OptionOrder[i]) \in M(Nat)
  <2>1. m.len \in Nat
    BY DEF Msgs
  <2> DEFINE code == OptionOrder[i]
             size == OptionSize[code]
  <2>3. code \in Codes /\ size \in Nat
    BY OptionSizes
  <2> HIDE DEF code, size
  <2>4. m.len + size \in Nat
    BY <2>1, <2>3
  <2>2. AddOption(m, code, size) \in M(Nat)
    BY <2>3, <2>4, AddOptionMsgs
  <2> USE DEF code, size
  <2> QED BY <2>2
<1>4. step \in [S \X M(Nat) -> M(Nat)]
  <2> HIDE DEF M, opt
  <2> QED BY <1>3
<1>5. PICK g : Folds(g, 7, M(Nat), base, step)
  <2> HIDE DEF step, M
  <2> QED BY <1>2, <1>4, FoldsExists
<1>6. \A t \in SUBSET S : g[t] = OptStep(g, opts, base, t)
  <2> HIDE DEF M
  <2>1. \A i \in S : \A m \in M(Nat) : step[<<i, m>>] = opt(m, OptionOrder[i])
    OBVIOUS
  <2> HIDE DEF step
  <2> QED BY <1>5, <2>1 DEF Folds, OptStep
<1>7. It(g)
  BY <1>5, <1>6 DEF Folds
<1> DEFINE f == CHOOSE h : It(h)
<1>8. It(f)
  BY <1>7, Zenon
<1> HIDE DEF f
<1>9. f[{}] = base
  BY <1>8 DEF OptStep
<1>10. ASSUME NEW k \in 1 .. 7, NEW L, NEW N, f[1 .. (k - 1)] \in M(L), L \subseteq N,
              \A x \in L : x + OptionSize[OptionOrder[k]] \in N
       PROVE  f[1 .. k] \in M(N)
  <2>1. 1 .. k \in SUBSET S
    OBVIOUS
  <2>2. f[1 .. k] = OptStep(f, opts, base, 1 .. k)
    BY <1>8, <2>1
  <2>3. f[1 .. k] = opt(f[1 .. (k - 1)], OptionOrder[k])
    <3>1. Max(1 .. k) = k /\ (1 .. k) \ {k} = 1 .. (k - 1) /\ 1 .. k # {}
      BY LastOfPositions, SMTT(20)
    <3> QED BY <2>2, <3>1, Zenon DEF OptStep
  <2>4. f[1 .. (k - 1)] \in M(N) /\ f[1 .. (k - 1)].len \in L
    BY <1>10 DEF Msgs
  <2>5. AddOption(f[1 .. (k - 1)], OptionOrder[k], OptionSize[OptionOrder[k]]) \in M(N)
    BY <1>10, <2>4, OptionSizes, AddOptionMsgs
  <2> QED BY <2>3, <2>4, <2>5
<1> DEFINE Q(x) == Lengths(l, l + x)
<1>11. f[1 .. 0] \in M(Q(0))
  <2>1. 1 .. 0 = {}
    OBVIOUS
  <2>2. l \in Q(0)
    BY DEF Lengths
  <2> QED BY <1>9, <2>1, <2>2 DEF Msgs
<1> HIDE DEF M
<1>12. ASSUME NEW a \in Nat, NEW b \in Nat, b % 4 = 0
       PROVE  Q(a) \subseteq Q(a + b) /\ \A x \in Q(a) : x + b \in Q(a + b)
  BY <1>12 DEF Lengths
<1> HIDE DEF Q
<1>13. ASSUME NEW k \in 1 .. 7, NEW a \in Nat, NEW b \in Nat, b % 4 = 0,
              OptionSize[OptionOrder[k]] = b, f[1 .. (k - 1)] \in M(Q(a))
       PROVE  f[1 .. k] \in M(Q(a + b))
  BY <1>10, <1>12, <1>13
<1>14. f[1 .. 1] \in M(Q(8))
  BY <1>11, <1>13, OptionSizes
<1>15. f[1 .. 2] \in M(Q(32))
  BY <1>14, <1>13, OptionSizes
<1>16. f[1 .. 3] \in M(Q(36))
  BY <1>15, <1>13, OptionSizes
<1>17. f[1 .. 4] \in M(Q(56))
  BY <1>16, <1>13, OptionSizes
<1>18. f[1 .. 5] \in M(Q(92))
  BY <1>17, <1>13, OptionSizes
<1>19. f[1 .. 6] \in M(Q(608))
  BY <1>18, <1>13, OptionSizes
<1>20. f[1 .. 7] \in M(Q(644))
  BY <1>19, <1>13, OptionSizes
<1> QED BY <1>1, <1>20 DEF f, M, Q

-----------------------------------------------------------------------------
LEMMA LayoutFacts ==
  /\ DOMAIN Layouts[1] = {0, 1, 2} /\ DOMAIN Layouts[2] = {0, 1, 2, 3}
  /\ Layouts[1][0] = "none" /\ Layouts[1][1] = "map_v1" /\ Layouts[1][2] = "peer_v1"
  /\ Layouts[2][0] = "none" /\ Layouts[2][1] = "map_v2" /\ Layouts[2][2] = "peer_v2"
  /\ Layouts[2][3] = "sadscp"
<1>1. Layouts[1] = [op \in 0 .. 2 |-> <<"none", "map_v1", "peer_v1">>[op + 1]]
  BY DEF Layouts, ANNOUNCE, PEER
<1>2. Layouts[2] = [op \in 0 .. 3 |-> <<"none", "map_v2", "peer_v2", "sadscp">>[op + 1]]
  BY DEF Layouts, ANNOUNCE, SADSCP
<1> QED BY <1>1, <1>2

LEMMA SizeFacts ==
  /\ BodySize["none"] = 0 /\ BodySize["map_v1"] = 24 /\ BodySize["map_v2"] = 36
  /\ BodySize["peer_v1"] = 44 /\ BodySize["peer_v2"] = 56 /\ BodySize["sadscp"] = 14
  /\ RespSize["none"] = 0 /\ RespSize["map_v1"] = 24 /\ RespSize["map_v2"] = 36
  /\ RespSize["peer_v1"] = 44 /\ RespSize["peer_v2"] = 56 /\ RespSize["sadscp"] = 16
BY DEF BodySize, RespSize

(* The name of a SADSCP and its filling: at least two bytes, whatever wraps. *)
LEMMA SadscpSize ==
  ASSUME NEW f, f.app_name_length \in 0 .. 255
  PROVE  /\ build_pcp_sadscp(f) \in 16 .. 268
         /\ (24 + build_pcp_sadscp(f)) % 4 = 0
<1> DEFINE n == f.app_name_length
           p == Padding(n + 2)
<1>1. n \in 0 .. 255 /\ p \in 0 .. 3 /\ (n + 2 + p) % 4 = 0
  BY PaddingFills
<1>2. build_pcp_sadscp(f) = 14 + ((n + p) % 256)
  BY SizeFacts DEF build_pcp_sadscp
<1> HIDE DEF n, p
<1>3. PICK q \in Nat : n + 2 + p = 4 * q
  <2>1. (n + 2 + p) \div 4 \in Nat /\ n + 2 + p = 4 * ((n + 2 + p) \div 4) + ((n + 2 + p) % 4)
    BY <1>1
  <2> QED BY <1>1, <2>1
<1>4. q \in 1 .. 65
  BY <1>1, <1>3
<1>5. n + p = 4 * q - 2
  BY <1>1, <1>3, <1>4
<1>6. (n + p) % 256 = IF q = 65 THEN 2 ELSE 4 * q - 2
  BY <1>4, <1>5
<1> QED BY <1>2, <1>4, <1>6

(* A request of PCP: its structure suits its version, and its length the    *)
(* structure of the answer.                                                 *)
PcpRequest(m, f) ==
  /\ m.ver \in 1 .. 2 /\ m.ver \in Versions /\ m.opcode = f.kd.operation
  /\ m.opcode \in DOMAIN Layouts[m.ver] /\ m.layout = Layouts[m.ver][m.opcode]
  /\ m.fields = [x \in Carried[m.layout] |-> f.kd[x]]
  /\ m.len \in Lengths(HeaderSize + RespSize[m.layout], PCP_MAX_LEN)

(* A request of NAT-PMP. *)
NatPmpRequest(m, f) ==
  /\ m.ver = 0
  /\ \/ f.kd.operation = ANNOUNCE /\ m.opcode = ANNOUNCE /\ m.len = 2
     \/ /\ f.kd.operation = MAP /\ f.kd.protocol \in {"udp", "tcp"} /\ m.len = 12
        /\ m.opcode = IF f.kd.protocol = "tcp" THEN 2 ELSE 1
        /\ m.layout = "natpmp_map"
        /\ m.fields = [x \in Carried["natpmp_map"] |-> f.kd[x]]

LEMMA PcpRequestFacts ==
  ASSUME NEW m, NEW f, PcpRequest(m, f)
  PROVE  /\ m.ver \in 1 .. 2 /\ m.ver \in Versions
         /\ m.opcode \in DOMAIN Layouts[m.ver] /\ m.layout = Layouts[m.ver][m.opcode]
         /\ m.opcode \in 0 .. 3 /\ RespSize[m.layout] \in Nat
         /\ m.len \in Nat /\ m.len <= PCP_MAX_LEN /\ m.len % 4 = 0
         /\ m.len >= 24 + RespSize[m.layout]
<1> DEFINE v == m.ver
           op == m.opcode
           layout == m.layout
           l == m.len
<1>1. /\ v \in 1 .. 2 /\ v \in Versions
      /\ op \in DOMAIN Layouts[v] /\ layout = Layouts[v][op]
      /\ l \in Lengths(24 + RespSize[layout], PCP_MAX_LEN)
  BY DEF PcpRequest, HeaderSize
<1> HIDE DEF v, op, layout, l
<1>2. op \in 0 .. 3 /\ layout \in {"none", "map_v1", "peer_v1", "map_v2", "peer_v2", "sadscp"}
  BY <1>1, LayoutFacts
<1>3. RespSize[layout] \in Nat
  BY <1>2, SizeFacts
<1>4. l \in Nat /\ l <= PCP_MAX_LEN /\ l % 4 = 0 /\ l >= 24 + RespSize[layout]
  BY <1>1, <1>3, MsgAssumption DEF Lengths
<1> QED BY <1>1, <1>2, <1>3, <1>4 DEF v, op, layout, l

LEMMA BuildNatPmp ==
  ASSUME NEW f, build_natpmp_msg(f).len > 0
  PROVE  NatPmpRequest(build_natpmp_msg(f), f)
<1>1. CASE f.kd.operation = ANNOUNCE
  <2>1. build_natpmp_msg(f) = Request(0, ANNOUNCE, "none", f.kd, NatPmpSize.announce_req, 0)
    BY <1>1 DEF build_natpmp_msg, ANNOUNCE, MAP
  <2>2. NatPmpSize.announce_req = 2
    BY DEF NatPmpSize
  <2> QED BY <1>1, <2>1, <2>2 DEF Request, NatPmpRequest
<1>2. CASE f.kd.operation # ANNOUNCE
  <2>1. f.kd.operation = MAP /\ f.kd.protocol \in DOMAIN NATPMP_MAP
    BY <1>2 DEF build_natpmp_msg, NoRequest
  <2>2. build_natpmp_msg(f) = Request(0, NATPMP_MAP[f.kd.protocol], "natpmp_map",
                                      f.kd, NatPmpSize.map_req, 0)
    BY <1>2, <2>1 DEF build_natpmp_msg
  <2>3. f.kd.protocol \in {"udp", "tcp"} /\ NATPMP_MAP["udp"] = 1 /\ NATPMP_MAP["tcp"] = 2
        /\ NatPmpSize.map_req = 12
    BY <2>1 DEF NATPMP_MAP, NatPmpSize
  <2> QED BY <2>1, <2>2, <2>3 DEF NatPmpRequest, Request
<1> QED BY <1>1, <1>2

(* The options and the metadata leave the rest of the message alone and end *)
(* within the buffer.                                                       *)
LEMMA BuildOptions ==
  ASSUME NEW f, f.md \in Seq([id : Nat, len : 0 .. MD_VAL_MAX_LEN]),
         NEW ver, NEW opcode, NEW layout, NEW body, NEW fields,
         NEW l \in Nat, l % 4 = 0, l <= 292,
         NEW m \in Msgs(ver, opcode, layout, body, fields, {l})
  PROVE  build_pcp_options(f, m)
           \in Msgs(ver, opcode, layout, body, fields, Lengths(l, PCP_MAX_LEN))
<1> DEFINE A == Msgs(ver, opcode, layout, body, fields, Lengths(l, PCP_MAX_LEN))
           base == OptionFold(f.options, m)
           Md == [id : Nat, len : 0 .. MD_VAL_MAX_LEN]
<1>1. base \in Msgs(ver, opcode, layout, body, fields, Lengths(l, l + 644))
  BY OptionFoldSize
<1> HIDE DEF base
<1>2. base \in A
  <2>1. Lengths(l, l + 644) \subseteq Lengths(l, PCP_MAX_LEN)
    BY MsgAssumption DEF Lengths
  <2> QED BY <1>1, <2>1 DEF Msgs
<1>3. PICK md \in Seq(Md) : md = f.md
  OBVIOUS
<1>4. DOMAIN md = 1 .. Len(md) /\ Len(md) \in Nat /\ \A i \in 1 .. Len(md) : md[i] \in Md
  <2> HIDE DEF Md
  <2> QED OBVIOUS
<1>5. \A x \in A : \A i \in 1 .. Len(md) : add_md_option(x, md[i]) \in A
  <2> TAKE x \in A
  <2> TAKE i \in 1 .. Len(md)
  <2>1. md[i].len \in 0 .. MD_VAL_MAX_LEN
    BY <1>4
  <2> QED BY <2>1, MdMsgs
<1> HIDE DEF A
<1>6. MdFold(base, md) \in A
  BY <1>2, <1>4, <1>5, MdFoldStays
<1>7. build_pcp_options(f, m) = MdFold(base, f.md)
  BY Zenon DEF build_pcp_options, base, OptionFold, MdFold
<1> QED BY <1>3, <1>6, <1>7 DEF A

(* Every request is one of the two. *)
LEMMA BuildRequest ==
  ASSUME NEW f, IsFlow(f), NEW v \in Versions, build_pcp_msg(f, v).len > 0
  PROVE  LET m == build_pcp_msg(f, v)
         IN  m.ver = v /\ (PcpRequest(m, f) \/ NatPmpRequest(m, f))
<1> DEFINE m == build_pcp_msg(f, v)
<1>0. f.kd.operation \in 0 .. 3 /\ v \in 0 .. 2
  BY MsgAssumption DEF IsFlow, ANNOUNCE, MAP, PEER, SADSCP, Versions
<1>1. CASE v = 0
  BY <1>1, BuildNatPmp DEF build_pcp_msg, NatPmpRequest
<1>2. CASE v # 0
  <2>0. v \in 1 .. 2
    BY <1>0, <1>2
  <2> DEFINE op == f.kd.operation
             layout == Layouts[v][op]
             body == IF layout = "sadscp" THEN build_pcp_sadscp(f) ELSE BodySize[layout]
             fields == [x \in Carried[layout] |-> f.kd[x]]
             plain == Request(v, op, layout, f.kd, HeaderSize, body)
  <2>1. op \in DOMAIN Layouts[v]
    BY <1>2 DEF build_pcp_msg, NoRequest
  <2>2. m = IF op = ANNOUNCE THEN plain ELSE build_pcp_options(f, plain)
    BY <1>2, <2>1 DEF build_pcp_msg
  <2>3. layout \in {"none", "map_v1", "peer_v1", "map_v2", "peer_v2", "sadscp"}
    BY <2>0, <2>1, LayoutFacts
  <2>4. /\ body \in Nat /\ RespSize[layout] \in Nat
        /\ (24 + body) % 4 = 0 /\ RespSize[layout] <= body /\ 24 + body <= 292
    <3>1. CASE layout = "sadscp"
      <4>1. body \in 16 .. 268 /\ (24 + body) % 4 = 0
        BY <3>1, SadscpSize DEF IsFlow
      <4> HIDE DEF body
      <4> QED BY <3>1, <4>1, SizeFacts
    <3>2. CASE layout # "sadscp"
      <4>1. body = BodySize[layout]
        BY <3>2
      <4> HIDE DEF body, layout
      <4> QED BY <2>3, <3>2, <4>1, SizeFacts
    <3> QED BY <3>1, <3>2
  <2>5. plain \in Msgs(v, op, layout, body, fields, {24 + body})
    <3> HIDE DEF body, layout, op
    <3>1. <<>> \in Seq([code : Codes, size : Nat])
      OBVIOUS
    <3> QED BY <2>4, <3>1 DEF Request, Msgs, HeaderSize
  <2> DEFINE L == Lengths(HeaderSize + RespSize[layout], PCP_MAX_LEN)
  <2>6. m \in Msgs(v, op, layout, body, fields, L)
    <3>1. build_pcp_options(f, plain)
            \in Msgs(v, op, layout, body, fields, Lengths(24 + body, PCP_MAX_LEN))
      <4>1. f.md \in Seq([id : Nat, len : 0 .. MD_VAL_MAX_LEN])
        BY DEF IsFlow
      <4> HIDE DEF body, layout, op, plain, fields
      <4>2. PICK l \in Nat : l = 24 + body
        BY <2>4
      <4> QED BY <2>4, <2>5, <4>1, <4>2, BuildOptions
    <3>2. Lengths(24 + body, PCP_MAX_LEN) \subseteq L /\ 24 + body \in L
      <4> HIDE DEF body, layout
      <4> QED BY <2>4, MsgAssumption DEF Lengths, HeaderSize
    <3> HIDE DEF body, layout, op, plain, fields, L, m
    <3> QED BY <2>2, <2>5, <3>1, <3>2 DEF Msgs
  <2>7. m.ver = v /\ m.opcode = op /\ m.layout = layout /\ m.fields = fields
        /\ m.len \in L
    <3> HIDE DEF body, layout, op, fields, L, m
    <3> QED BY <2>6 DEF Msgs
  <2>8. PcpRequest(m, f)
    <3> HIDE DEF m
    <3> QED BY <2>0, <2>1, <2>7 DEF PcpRequest
  <2> QED BY <2>7, <2>8, Zenon
<1> QED BY <1>1, <1>2

-----------------------------------------------------------------------------
(* The answers and what the client reads in them.                           *)

(* A datagram on the wire was made of a flow, and an answer of its request. *)
MadeOf(m, f) == f \in Flows /\ (PcpRequest(m, f) \/ NatPmpRequest(m, f))

AnswerTo(a) == MadeOf(a.request, a.flow) /\ a.msg \in Responses(a.request, a.msg.epoch)

WireInv ==
  /\ server_info \in Servers /\ version \in Versions /\ working \in BOOLEAN
  /\ \A q \in requests : MadeOf(q.msg, q.flow)
  /\ \A a \in answers : AnswerTo(a)

LEMMA ServerVersion ==
  ASSUME server_info \in Servers
  PROVE  server_info.server_version \in 0 .. 2 /\ server_info.server_version \in Versions
BY ExchangeAssumption, MsgAssumption DEF ServerInfo, Versions

(* An answer of pcp_server is the request with a header of its own. *)
LEMMA PcpAnswer ==
  ASSUME NEW a, AnswerTo(a), server_info.server_version # 0
  PROVE  /\ a.msg.opcode = a.request.opcode /\ a.msg.layout = a.request.layout
         /\ a.msg.fields = a.request.fields /\ a.msg.len = Received(a.request)
         /\ a.msg.r_bit = TRUE
         /\ a.msg.ver = IF a.msg.result = "unsupp_version"
                        THEN server_info.server_version ELSE a.request.ver
<1>1. PICK x : a.msg = create_response(a.request, x, server_info, a.msg.epoch)
  BY DEF AnswerTo, Responses, execPCPServer
<1> DEFINE m == create_response(a.request, x, server_info, a.msg.epoch)
<1>2. /\ m.opcode = a.request.opcode /\ m.layout = a.request.layout
      /\ m.fields = a.request.fields /\ m.len = Received(a.request)
      /\ m.r_bit = TRUE /\ m.result = x
      /\ m.ver = IF x = "unsupp_version" THEN server_info.server_version ELSE a.request.ver
  BY DEF create_response
<1> HIDE DEF m
<1>3. a.msg = m
  BY <1>1 DEF m
<1> QED BY <1>2, <1>3, Zenon

(* An answer of a NAT-PMP gateway. *)
LEMMA NatPmpAnswer ==
  ASSUME NEW a, AnswerTo(a), server_info.server_version = 0
  PROVE  /\ a.msg.opcode = a.request.opcode /\ a.msg.layout = a.request.layout
         /\ a.msg.fields = a.request.fields /\ a.msg.ver = 0
         /\ a.request.ver # 0 => a.msg.len = 8 /\ a.msg.result = "unsupp_version"
         /\ a.request.ver = 0 /\ a.request.opcode = ANNOUNCE => a.msg.len = 12
         /\ a.request.ver = 0 /\ a.request.opcode # ANNOUNCE => a.msg.len = 16
<1>1. a.msg = NatPmpResponse(a.request, a.msg.epoch)
  BY DEF AnswerTo, Responses
<1>2. /\ NatPmpSize.inv_version_resp = 8 /\ NatPmpSize.announce_resp = 12
      /\ NatPmpSize.map_resp = 16
  BY DEF NatPmpSize
<1> DEFINE m == NatPmpResponse(a.request, a.msg.epoch)
<1>3. /\ m.opcode = a.request.opcode /\ m.layout = a.request.layout
      /\ m.fields = a.request.fields /\ m.ver = 0
      /\ a.request.ver # 0 => m.len = 8 /\ m.result = "unsupp_version"
      /\ a.request.ver = 0 /\ a.request.opcode = ANNOUNCE => m.len = 12
      /\ a.request.ver = 0 /\ a.request.opcode # ANNOUNCE => m.len = 16
  BY <1>2 DEF NatPmpResponse
<1> HIDE DEF m
<1>4. a.msg = m
  BY <1>1 DEF m
<1> QED BY <1>3, <1>4, Zenon

(* The opcodes of NAT-PMP. *)
LEMMA NatPmpOpcode ==
  ASSUME NEW m, NEW f, NatPmpRequest(m, f)
  PROVE  /\ m.opcode \in {0, 1, 2} /\ m.ver = 0 /\ m.len \in {2, 12}
         /\ m.opcode = 0 <=> m.len = 2
BY DEF NatPmpRequest, ANNOUNCE

LEMMA AnswerVersion ==
  ASSUME NEW a, server_info \in Servers, AnswerTo(a)
  PROVE  a.msg.ver \in 0 .. 2
<1>1. a.request.ver \in 0 .. 2
  BY DEF AnswerTo, MadeOf, PcpRequest, NatPmpRequest
<1> QED BY <1>1, ServerVersion, PcpAnswer, NatPmpAnswer

LEMMA WireUnderstood ==
  ASSUME NEW a, server_info \in Servers, AnswerTo(a)
  PROVE  Understood(a.msg) \/ Unreadable(a)
<1> DEFINE sv == server_info.server_version
           req == a.request
<1>1. CASE sv = 0
  <2>1. a.msg.ver = 0 /\ a.msg.len \in {8, 12, 16}
    BY <1>1, NatPmpAnswer
  <2>2. validate_pcp_msg(a.msg)
    BY <2>1, MsgAssumption DEF validate_pcp_msg
  <2>3. parse_v0_resp(a.msg)
    <3>1. CASE req.ver # 0
      BY <1>1, <3>1, NatPmpAnswer DEF parse_v0_resp, NatPmpSize
    <3>2. CASE req.ver = 0
      <4>1. NatPmpRequest(req, a.flow)
        BY <3>2 DEF AnswerTo, MadeOf, PcpRequest
      <4>2. req.opcode \in {0, 1, 2}
        BY <4>1, NatPmpOpcode
      <4>3. /\ NatPmpSize.announce_resp = 12 /\ NatPmpSize.map_resp = 16
            /\ NATPMP_MAP.udp = 1 /\ NATPMP_MAP.tcp = 2
        BY DEF NatPmpSize, NATPMP_MAP
      <4> QED BY <1>1, <3>2, <4>2, <4>3, NatPmpAnswer
              DEF parse_v0_resp, IsNatPmpMap, ANNOUNCE
    <3> QED BY <3>1, <3>2
  <2> QED BY <2>1, <2>2, <2>3 DEF Understood
<1>2. CASE sv # 0
  <2>0. sv \in 1 .. 2
    BY <1>2, ServerVersion
  <2> SUFFICES ASSUME ~ Unreadable(a)
               PROVE  Understood(a.msg)
    OBVIOUS
  <2>1. req.ver # 0 /\ req.len # PCP_MAX_LEN /\ ~ (req.opcode = SADSCP /\ a.msg.ver = 1)
        /\ ~ (req.ver < a.msg.ver)
    BY <2>0 DEF Unreadable
  <2>2. PcpRequest(req, a.flow)
    BY <2>1 DEF AnswerTo, MadeOf, NatPmpRequest
  <2> DEFINE v == req.ver
             w == a.msg.ver
             op == req.opcode
             l == req.len
             result == a.msg.result
  <2>3. /\ v \in 1 .. 2 /\ v \in Versions /\ op \in DOMAIN Layouts[v] /\ op \in 0 .. 3
        /\ l \in Nat /\ l <= PCP_MAX_LEN /\ l % 4 = 0 /\ l # PCP_MAX_LEN
        /\ l >= 24 + RespSize[Layouts[v][op]]
    <3>1. req.layout = Layouts[v][op]
      BY <2>2, PcpRequestFacts
    <3> QED BY <2>1, <2>2, <3>1, PcpRequestFacts
  <2>4. /\ w = IF result = "unsupp_version" THEN sv ELSE v
        /\ a.msg.len = Received(req) /\ a.msg.opcode = op /\ a.msg.r_bit = TRUE
        /\ ~ (op = SADSCP /\ w = 1) /\ ~ (v < w)
    BY <1>2, <2>1, PcpAnswer
  <2>5. Received(req) = l
    BY <2>3, MsgAssumption DEF Received
  <2>9. sv \in Versions
    BY ServerVersion
  <2> HIDE DEF v, w, op, l, result, sv
  <2>6. w \in 1 .. 2 /\ w <= v /\ w \in Versions
    BY <2>0, <2>3, <2>4, <2>9
  <2>7. /\ op \in DOMAIN Layouts[w] /\ l >= 24 + RespSize[Layouts[w][op]]
        /\ RespSize[Layouts[w][op]] \in Nat
    BY <2>3, <2>4, <2>6, LayoutFacts, SizeFacts DEF SADSCP
  <2>8. parse_resp(a.msg) /\ validate_pcp_msg(a.msg)
    <3>1. a.msg.len = l /\ a.msg.ver = w /\ a.msg.opcode = op
      BY <2>4, <2>5 DEF w
    <3>2. l >= 24 /\ l - 24 >= RespSize[Layouts[w][op]] /\ w # 0
          /\ w <= PCP_MAX_SUPPORTED_VERSION
      BY <2>3, <2>6, <2>7, MsgAssumption DEF Versions
    <3> QED BY <2>3, <2>4, <2>7, <3>1, <3>2
            DEF parse_resp, parse_body, validate_pcp_msg, HeaderSize
  <2> QED BY <2>6, <2>8 DEF Understood, w
<1> QED BY <1>1, <1>2

-----------------------------------------------------------------------------
LEMMA CarriedFacts ==
  /\ Carried["map_v1"] = {"protocol", "src_port"}
  /\ Carried["map_v2"] = {"protocol", "src_port", "nonce"}
  /\ Carried["peer_v1"] = {"protocol", "src_port", "dst"}
  /\ Carried["peer_v2"] = {"protocol", "src_port", "dst", "nonce"}
  /\ Carried["sadscp"] = {"nonce"} /\ Carried["natpmp_map"] = {"src_port"}
BY DEF Carried

(* A key that agrees with that of the flow in what the answer itself tells  *)
(* is completed to the key of the flow.                                     *)
LEMMA KeyCompleted ==
  ASSUME NEW a, a.flow \in Flows, PktInfo \/ a.flow.kd.src_ip = SrcIp,
         NEW fields, parse_response(a.msg) = Key(a.flow.kd.operation, fields),
         fields["protocol"] = a.flow.kd.protocol,
         fields["src_port"] = a.flow.kd.src_port, fields["dst"] = a.flow.kd.dst,
         a.msg.ver < 2 \/ fields["nonce"] = Nonce
  PROVE  a.flow \in pcp_get_flow(CompletedKey(a))
<1> DEFINE kd == a.flow.kd
           src == IF RcvdTo(a) = Zero THEN SrcIp ELSE RcvdTo(a)
           D == KeyFields \cup {"operation"}
           k == Key(kd.operation, fields)
           c == [k EXCEPT !.pcp_server_ip = ServerIp, !.src_ip = src,
                          !.nonce = IF a.msg.ver < 2 THEN Nonce ELSE @]
<1>1. /\ kd = [x \in D |-> kd[x]] /\ kd.pcp_server_ip = ServerIp /\ kd.nonce = Nonce
      /\ kd.src_ip = Zero => SrcIp = Zero
  BY FlowAssumption DEF IsFlow
<1>2. src = kd.src_ip
  BY <1>1 DEF RcvdTo
<1>3. CompletedKey(a) = c
  BY DEF CompletedKey
<1>4. D = {"src_ip", "pcp_server_ip", "nonce", "protocol", "src_port", "dst", "operation"}
  BY DEF KeyFields
<1>5. k = [x \in D |-> IF x = "operation" THEN kd.operation ELSE fields[x]]
  BY DEF Key
<1> HIDE DEF k, src, D, kd
<1>6. c = [x \in D |-> c[x]]
  BY <1>5
<1>7. /\ c["pcp_server_ip"] = ServerIp /\ c["src_ip"] = src
      /\ c["nonce"] = IF a.msg.ver < 2 THEN Nonce ELSE fields["nonce"]
      /\ c["protocol"] = fields["protocol"] /\ c["src_port"] = fields["src_port"]
      /\ c["dst"] = fields["dst"] /\ c["operation"] = kd["operation"]
  BY <1>4, <1>5
<1>8. \A x \in D : c[x] = kd[x]
  <2> HIDE DEF c
  <2> QED BY <1>1, <1>2, <1>4, <1>7 DEF kd
<1>9. c = kd
  <2> HIDE DEF c
  <2> QED BY <1>1, <1>6, <1>8
<1> QED BY <1>3, <1>9 DEF pcp_get_flow, kd

LEMMA WireFindsFlow ==
  ASSUME NEW a, server_info \in Servers, AnswerTo(a), Understood(a.msg),
         a.msg.result # "unsupp_version", a.flow.kd.operation # ANNOUNCE,
         PktInfo \/ a.flow.kd.src_ip = SrcIp
  PROVE  a.flow \in pcp_get_flow(CompletedKey(a))
<1> DEFINE kd == a.flow.kd
           req == a.request
<1>0. a.flow \in Flows /\ IsFlow(a.flow)
  BY FlowAssumption DEF AnswerTo, MadeOf
<1>1. CASE PcpRequest(req, a.flow)
  <2> DEFINE v == req.ver
             op == kd.operation
             layout == Layouts[v][op]
             fields == [x \in KeyFields |-> ReadField(a.msg, layout, x)]
  <2>1. server_info.server_version # 0
    <3>1. req.ver # 0
      BY <1>1, PcpRequestFacts
    <3> QED BY <3>1, NatPmpAnswer
  <2>2. /\ v \in 1 .. 2 /\ req.opcode = op /\ op \in DOMAIN Layouts[v] /\ req.layout = layout
        /\ req.fields = [x \in Carried[layout] |-> kd[x]]
    BY <1>1 DEF PcpRequest
  <2>3. /\ a.msg.ver = v /\ a.msg.opcode = op /\ a.msg.layout = layout
        /\ a.msg.fields = [x \in Carried[layout] |-> kd[x]]
    BY <2>1, <2>2, PcpAnswer
  <2>4. parse_response(a.msg) = Key(op, fields)
    <3>1. a.msg.ver # 0
      <4> HIDE DEF v, op, layout
      <4> QED BY <2>2, <2>3
    <3> QED BY <2>3, <3>1, Zenon DEF parse_response
  <2>5. ASSUME NEW x \in KeyFields
        PROVE  fields[x] = IF x \in Carried[layout] THEN kd[x] ELSE Zero
    <3> HIDE DEF layout, op, v
    <3> QED BY <2>3 DEF ReadField
  <2>6. /\ op # PEER => kd["dst"] = Zero
        /\ op = SADSCP => kd["protocol"] = Zero /\ kd["src_port"] = Zero
        /\ kd["nonce"] = Nonce /\ op # 0 /\ op \in 0 .. 3
    BY <1>0 DEF IsFlow, ANNOUNCE, MAP, PEER, SADSCP
  <2>7. \/ v = 1 /\ op = 1 /\ layout = "map_v1"
        \/ v = 1 /\ op = 2 /\ layout = "peer_v1"
        \/ v = 2 /\ op = 1 /\ layout = "map_v2"
        \/ v = 2 /\ op = 2 /\ layout = "peer_v2"
        \/ v = 2 /\ op = 3 /\ layout = "sadscp"
    <3> HIDE DEF v, op, layout
    <3>1. layout = Layouts[v][op] /\ v \in 1 .. 2 /\ op \in DOMAIN Layouts[v]
      BY <2>2 DEF layout
    <3>2. op \in 1 .. 3
      BY <2>6
    <3>3. CASE v = 1
      BY <3>1, <3>2, <3>3, LayoutFacts
    <3>4. CASE v = 2
      BY <3>1, <3>2, <3>4, LayoutFacts
    <3> QED BY <3>1, <3>3, <3>4
  <2>8. {"protocol", "src_port", "dst", "nonce"} \subseteq KeyFields
    BY DEF KeyFields
  <2>9. /\ fields["protocol"] = kd["protocol"] /\ fields["src_port"] = kd["src_port"]
        /\ fields["dst"] = kd["dst"] /\ (v < 2 \/ fields["nonce"] = Nonce)
    <3> HIDE DEF layout, op, v, fields, kd
    <3> QED BY <2>2, <2>5, <2>6, <2>7, <2>8, CarriedFacts DEF PEER, SADSCP
  <2> HIDE DEF fields
  <2> QED BY <1>0, <2>3, <2>4, <2>9, KeyCompleted
<1>2. CASE NatPmpRequest(req, a.flow)
  <2> DEFINE fields == [x \in KeyFields |->
                 IF x = "protocol"
                 THEN IF a.msg.opcode = NATPMP_MAP.tcp THEN "tcp" ELSE "udp"
                 ELSE ReadField(a.msg, "natpmp_map", x)]
  <2>0. NATPMP_MAP.udp = 1 /\ NATPMP_MAP.tcp = 2 /\ NatPmpSize.map_resp = 16
        /\ NatPmpSize.announce_resp = 12 /\ NatPmpSize.inv_version_resp = 8
    BY DEF NATPMP_MAP, NatPmpSize
  <2>1. /\ kd.operation = MAP /\ kd.protocol \in {"udp", "tcp"} /\ req.ver = 0 /\ req.len = 12
        /\ req.opcode = IF kd.protocol = "tcp" THEN 2 ELSE 1
        /\ req.layout = "natpmp_map"
        /\ req.fields = [x \in Carried["natpmp_map"] |-> kd[x]]
    BY <1>2 DEF NatPmpRequest
  <2>2. server_info.server_version = 0
    <3> SUFFICES ASSUME server_info.server_version # 0
                 PROVE  FALSE
      OBVIOUS
    <3>1. a.msg.ver = 0 /\ a.msg.len = Received(req) /\ a.msg.opcode \in {1, 2}
      BY <2>1, PcpAnswer
    <3>2. a.msg.len = 12
      BY <2>1, <3>1, MsgAssumption DEF Received
    <3> QED BY <2>0, <3>1, <3>2 DEF Understood, parse_v0_resp, IsNatPmpMap, ANNOUNCE
  <2>3. /\ a.msg.ver = 0 /\ a.msg.len = 16
        /\ a.msg.opcode = IF kd.protocol = "tcp" THEN 2 ELSE 1
        /\ a.msg.layout = "natpmp_map"
        /\ a.msg.fields = [x \in Carried["natpmp_map"] |-> kd[x]]
    BY <2>1, <2>2, NatPmpAnswer DEF ANNOUNCE
  <2>4. parse_response(a.msg) = Key(MAP, fields)
    BY <2>0, <2>3, Zenon DEF parse_response, IsNatPmpMap
  <2>5. fields["protocol"] = kd["protocol"] /\ fields["src_port"] = kd["src_port"]
        /\ fields["dst"] = kd["dst"]
    <3>1. fields["protocol"] = kd["protocol"]
      BY <2>0, <2>1, <2>3 DEF KeyFields
    <3>2. fields["src_port"] = ReadField(a.msg, "natpmp_map", "src_port")
          /\ fields["dst"] = ReadField(a.msg, "natpmp_map", "dst")
      BY DEF KeyFields
    <3>3. kd["dst"] = Zero
      BY <1>0, <2>1 DEF IsFlow, MAP, PEER
    <3>4. /\ ReadField(a.msg, "natpmp_map", "src_port") = kd["src_port"]
          /\ ReadField(a.msg, "natpmp_map", "dst") = Zero
      BY <2>3, CarriedFacts DEF ReadField
    <3> QED BY <3>1, <3>2, <3>3, <3>4
  <2> HIDE DEF fields
  <2> QED BY <1>0, <2>1, <2>3, <2>4, <2>5, KeyCompleted
<1> QED BY <1>1, <1>2 DEF AnswerTo, MadeOf

-----------------------------------------------------------------------------
LEMMA InitWireInv == Init => WireInv
BY MsgAssumption DEF Init, WireInv, Versions

(* Reading an answer takes nothing new to the wire. *)
LEMMA ReadKeepsWire ==
  ASSUME WireInv, NEW a \in answers, Read(a)
  PROVE  /\ server_info' = server_info /\ requests' = requests
         /\ \A b \in answers' : b \in answers
BY DEF Read, Delivered

LEMMA AnswerToStays ==
  ASSUME server_info' = server_info, NEW a, AnswerTo(a)
  PROVE  AnswerTo(a)'
BY DEF AnswerTo, Responses

LEMMA WireKept ==
  ASSUME WireInv, server_info' = server_info, requests' \subseteq requests,
         answers' \subseteq answers, version' \in Versions, working' \in BOOLEAN
  PROVE  WireInv'
<1>1. \A a \in answers' : AnswerTo(a)'
  BY AnswerToStays DEF WireInv
<1> QED BY <1>1 DEF WireInv

LEMMA NextWireInv == WireInv /\ [Next]_vars => WireInv'
<1> SUFFICES ASSUME WireInv, [Next]_vars
             PROVE  WireInv'
  OBVIOUS
<1>0. server_info \in Servers /\ version \in Versions /\ working \in BOOLEAN
  BY DEF WireInv
<1>1. CASE \E f \in Flows : Send(f)
  <2>1. PICK f \in Flows : Send(f)
    BY <1>1
  <2> DEFINE req == build_pcp_msg(f, version)
  <2>2. /\ req.len > 0 /\ requests' = requests \cup {[msg |-> req, flow |-> f]}
        /\ UNCHANGED <<server_info, version, working, answers>>
    BY <2>1 DEF Send, client
  <2>3. MadeOf(req, f)
    BY <1>0, <2>2, BuildRequest, FlowAssumption DEF MadeOf
  <2> HIDE DEF req
  <2>4. \A q \in requests' : MadeOf(q.msg, q.flow)
    BY <2>2, <2>3 DEF WireInv
  <2>5. \A a \in answers' : AnswerTo(a)'
    BY <2>2, AnswerToStays DEF WireInv
  <2> QED BY <1>0, <2>2, <2>4, <2>5 DEF WireInv
<1>2. CASE \E q \in requests : Serve(q)
  <2>1. PICK q \in requests : Serve(q)
    BY <1>2
  <2> DEFINE e == Minus(now, start)
  <2>2. PICK r \in Responses(q.msg, e) :
          answers' = answers \cup
            {[msg |-> r, request |-> q.msg, flow |-> q.flow, at |-> now, from |-> start]}
    BY <2>1 DEF Serve
  <2>3. requests' \subseteq requests /\ UNCHANGED <<server_info, version, working>>
    BY <2>1 DEF Serve, Delivered, client
  <2>4. r.epoch = e
    BY <2>2, ResponseEpoch
  <2>5. ASSUME NEW a \in answers'
        PROVE  AnswerTo(a)
    <3>1. CASE a \in answers
      BY <3>1 DEF WireInv
    <3>2. CASE a \notin answers
      <4>1. a.msg = r /\ a.request = q.msg /\ a.flow = q.flow
        BY <2>2, <3>2
      <4>2. MadeOf(q.msg, q.flow)
        BY DEF WireInv
      <4>3. r \in Responses(q.msg, r.epoch)
        BY <2>4
      <4> QED BY <4>1, <4>2, <4>3 DEF AnswerTo
    <3> QED BY <3>1, <3>2
  <2>6. \A a \in answers' : AnswerTo(a)'
    BY <2>3, <2>5, AnswerToStays
  <2> QED BY <1>0, <2>3, <2>6 DEF WireInv
<1>3. ASSUME NEW a \in answers, Drop(a)
      PROVE  WireInv'
  BY <1>0, <1>3, WireKept DEF Drop, client
<1>4. ASSUME NEW a \in answers, Negotiate(a)
      PROVE  WireInv'
  <2>1. Read(a)
    BY <1>4 DEF Negotiate
  <2>2. a.msg.ver \in Versions
    BY <1>0, <2>1, AnswerVersion, MsgAssumption DEF WireInv, Read, Understood, validate_pcp_msg, Versions
  <2>3. version' \in Versions /\ working' \in BOOLEAN
    <3>1. version \in 0 .. 2 /\ PCP_MAX_SUPPORTED_VERSION \in 0 .. 2
      BY <1>0, MsgAssumption DEF Versions
    <3>2. version # 0 => (version + 255) % 256 = version - 1
      BY <3>1
    <3>3. version # 0 => version - 1 \in Versions
      BY <1>0, <3>1 DEF Versions
    <3> QED BY <1>0, <1>4, <2>2, <3>2, <3>3 DEF Negotiate, NothingLower
  <2> QED BY <2>1, <2>3, ReadKeepsWire, WireKept
<1>5. ASSUME NEW a \in answers, GiveUp(a) \/ Process(a) \/ Return(a) \/ Ignore(a)
      PROVE  WireInv'
  <2>1. Read(a) /\ version' = version /\ working' \in BOOLEAN
    BY <1>0, <1>5 DEF GiveUp, Process, Return, Ignore, client
  <2> QED BY <1>0, <2>1, ReadKeepsWire, WireKept
<1>6. CASE Restart \/ Lose \/ Tick \/ PingTimeout \/ UNCHANGED vars
  <2>1. /\ requests' \subseteq requests /\ answers' \subseteq answers
        /\ UNCHANGED <<server_info, version>> /\ working' \in BOOLEAN
    BY <1>0, <1>6 DEF Restart, Lose, Tick, PingTimeout, vars, client, wire
  <2> QED BY <1>0, <2>1, WireKept
<1>7. CASE Reping
  <2>1. PCP_MAX_SUPPORTED_VERSION \in Versions
    BY MsgAssumption DEF Versions
  <2> QED BY <1>7, <2>1, WireKept DEF Reping, wire
<1> QED BY <1>1, <1>2, <1>3, <1>4, <1>5, <1>6, <1>7 DEF Next

LEMMA AlwaysWireInv == Spec => []WireInv
BY InitWireInv, NextWireInv, PTL DEF Spec

(* The variables of the exchange keep their types: whatever refusals        *)
(* arrive, delayed, duplicated and in any order, handle_version_negotiation *)
(* leaves the client with a version that the library speaks.                *)
THEOREM ExchangeTypeCorrect == Spec => []TypeOK
<1>1. EpochInv /\ WireInv => TypeOK
  <2> SUFFICES ASSUME EpochInv, WireInv
               PROVE  TypeOK
    OBVIOUS
  <2>1. ref \in [epoch : Epoch, cepoch : Times]
    BY DEF EpochInv, RefInv
  <2>2. \A a \in answers : a.at \in Times /\ a.from \in Times /\ a.msg.epoch \in Epoch
    BY ClockRange DEF EpochInv, AnswerInv, ClockInv, Epoch
  <2> QED BY <2>1, <2>2 DEF EpochInv, RefInv, ClockInv, WireInv, MadeOf, TypeOK
<1> QED BY <1>1, AlwaysEpochInv, AlwaysWireInv, PTL

(* Whatever options and metadata a flow has, and whatever version is in     *)
(* use, build_pcp_msg stays within the buffer and fills up to four bytes.   *)
THEOREM RequestsFit == Spec => []RequestFits
<1>1. WireInv => RequestFits
  <2> SUFFICES ASSUME WireInv, NEW q \in requests
               PROVE  /\ q.msg.len <= PCP_MAX_LEN
                      /\ q.msg.len % 4 = 0 \/ (q.msg.ver = 0 /\ q.msg.opcode = ANNOUNCE)
    BY DEF RequestFits
  <2>1. CASE PcpRequest(q.msg, q.flow)
    BY <2>1, PcpRequestFacts
  <2>2. CASE NatPmpRequest(q.msg, q.flow)
    <3>1. q.msg.ver = 0 /\ ((q.msg.opcode = ANNOUNCE /\ q.msg.len = 2) \/ q.msg.len = 12)
      BY <2>2 DEF NatPmpRequest
    <3> QED BY <3>1, MsgAssumption
  <2> QED BY <2>1, <2>2 DEF WireInv, MadeOf
<1> QED BY <1>1, AlwaysWireInv, PTL

(* Every answer of a server to a request of the client passes               *)
(* validate_pcp_msg and parse_response, but for the four that Unreadable    *)
(* lists, for any flows, options, metadata and servers.                     *)
THEOREM AnswersUnderstood == Spec => []AnswerUnderstood
<1>1. WireInv => AnswerUnderstood
  BY WireUnderstood DEF WireInv, AnswerUnderstood
<1> QED BY <1>1, AlwaysWireInv, PTL

(* The key that pcp_pulse completes from an answer finds the flow that      *)
(* asked, for any flows and servers, in any order of the answers.           *)
THEOREM AnswersFindFlow == Spec => []AnswerFindsFlow
<1>1. WireInv => AnswerFindsFlow
  BY WireFindsFlow DEF WireInv, AnswerFindsFlow
<1> QED BY <1>1, AlwaysWireInv, PTL
=============================================================================
