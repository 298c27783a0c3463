-------------------------- MODULE PcpContextProofs --------------------------
(***************************************************************************)
(* The context for every hash function, every number of flows, servers and *)
(* buckets and any answers of the kernel: the table is well formed, and    *)
(* the walk over it is complete.                                           *)
(***************************************************************************)
EXTENDS PcpContext, PcpInduction

-----------------------------------------------------------------------------
(* Sequences: their elements, and the order of those. *)

Elems(seq) == {seq[k] : k \in DOMAIN seq}

Injective(seq) == \A i, j \in DOMAIN seq : seq[i] = seq[j] => i = j

Before(seq, x, y) == \E i, j \in DOMAIN seq : i < j /\ seq[i] = x /\ seq[j] = y

LEMMA AppendFacts ==
  ASSUME NEW S, NEW s \in Seq(S), NEW x \in S
  PROVE  /\ Append(s, x) \in Seq(S)
         /\ Elems(Append(s, x)) = Elems(s) \cup {x}
         /\ Injective(s) /\ x \notin Elems(s) => Injective(Append(s, x))
         /\ \A y, z : Before(Append(s, x), y, z) <=>
                        Before(s, y, z) \/ (y \in Elems(s) /\ z = x)
<1> DEFINE t == Append(s, x)
           n == Len(s)
<1>1. /\ n \in Nat /\ DOMAIN s = 1 .. n /\ DOMAIN t = 1 .. (n + 1)
      /\ t[n + 1] = x /\ (\A j \in 1 .. n : t[j] = s[j]) /\ t \in Seq(S)
  OBVIOUS
<1> HIDE DEF t, n
<1>2. \A j \in 1 .. (n + 1) : j \in 1 .. n \/ j = n + 1
  BY <1>1
<1>3. \A j \in 1 .. n : j \in 1 .. (n + 1) /\ j < n + 1
  BY <1>1
<1>4. n + 1 \in 1 .. (n + 1)
  BY <1>1
<1>5. Elems(t) = Elems(s) \cup {x}
  BY <1>1, <1>2, <1>3, <1>4 DEF Elems
<1>6. Injective(s) /\ x \notin Elems(s) => Injective(t)
  BY <1>1, <1>2, <1>3 DEF Elems, Injective
<1>7. ASSUME NEW y, NEW z
      PROVE  Before(t, y, z) <=> Before(s, y, z) \/ (y \in Elems(s) /\ z = x)
  <2>1. ASSUME Before(t, y, z)
        PROVE  Before(s, y, z) \/ (y \in Elems(s) /\ z = x)
    <3>1. PICK i \in 1 .. (n + 1), j \in 1 .. (n + 1) : i < j /\ t[i] = y /\ t[j] = z
      BY <1>1, <2>1 DEF Before
    <3>2. i \in 1 .. n
      BY <1>1, <3>1
    <3> QED BY <1>1, <1>2, <3>1, <3>2 DEF Before, Elems
  <2>2. ASSUME Before(s, y, z)
        PROVE  Before(t, y, z)
    BY <1>1, <1>3, <2>2 DEF Before
  <2>3. ASSUME y \in Elems(s), z = x
        PROVE  Before(t, y, z)
    BY <1>1, <1>3, <1>4, <2>3 DEF Before, Elems
  <2> QED BY <2>1, <2>2, <2>3
<1> QED BY <1>1, <1>5, <1>6, <1>7 DEF t

-----------------------------------------------------------------------------
(* Without. *)

Rest(rest, f, gone) == IF f \in gone THEN rest ELSE Append(rest, f)

RestStep(g, seq, gone, t) ==
  IF t = {} THEN <<>> ELSE Rest(g[t \ {Max(t)}], seq[Max(t)], gone)

LEMMA WithoutSteps ==
  ASSUME NEW S, NEW seq \in Seq(S), NEW gone
  PROVE  \E F : /\ F[0] = <<>> /\ Without(seq, gone) = F[Len(seq)]
                /\ \A i \in 1 .. Len(seq) : F[i] = Rest(F[i - 1], seq[i], gone)
<1> DEFINE n == Len(seq)
           P == 1 .. n
           C == Seq(S)
           step == [ic \in P \X C |-> Rest(ic[2], seq[ic[1]], gone)]
           It(g) == g = [t \in SUBSET P |-> RestStep(g, seq, gone, t)]
<1>0. n \in Nat /\ DOMAIN seq = P /\ \A j \in P : seq[j] \in S
  OBVIOUS
<1>1. Without(seq, gone) = (CHOOSE g : It(g))[P]
  BY <1>0, Zenon DEF Without, FoldLeft, MapThenFoldSet, RestStep, Rest
<1> HIDE DEF n
<1>2. step \in [P \X C -> C]
  <2>1. \A c \in C : \A j \in P : Rest(c, seq[j], gone) \in C
    BY <1>0, AppendFacts DEF Rest
  <2> QED BY <2>1
<1>3. PICK g : Folds(g, n, C, <<>>, step)
  <2>1. <<>> \in C
    OBVIOUS
  <2> HIDE DEF step
  <2> QED BY <1>0, <1>2, <2>1, FoldsExists
<1>4. \A t \in SUBSET P : g[t] = RestStep(g, seq, gone, t)
  <2>1. \A i \in P : \A m \in C : step[<<i, m>>] = Rest(m, seq[i], gone)
    OBVIOUS
  <2> HIDE DEF step
  <2> QED BY <1>3, <2>1 DEF Folds, RestStep
<1>5. It(g)
  BY <1>3, <1>4 DEF Folds
<1> DEFINE f == CHOOSE h : It(h)
<1>6. It(f)
  BY <1>5, Zenon
<1> HIDE DEF f
<1> DEFINE F == [i \in 0 .. n |-> f[1 .. i]]
<1>7. F[0] = <<>>
  <2>1. 1 .. 0 = {} /\ 0 \in 0 .. n
    BY <1>0
  <2> QED BY <1>6, <2>1 DEF RestStep
<1>8. F[n] = Without(seq, gone)
  <2>1. n \in 0 .. n
    BY <1>0
  <2> QED BY <1>1, <2>1 DEF f
<1>9. ASSUME NEW i \in P
      PROVE  F[i] = Rest(F[i - 1], seq[i], gone)
  <2>1. i \in Nat /\ i # 0 /\ i \in 0 .. n /\ i - 1 \in 0 .. n
    BY <1>0
  <2>2. 1 .. i \in SUBSET P /\ 1 .. i # {}
    BY <1>0, <2>1
  <2>3. f[1 .. i] = Rest(f[(1 .. i) \ {Max(1 .. i)}], seq[Max(1 .. i)], gone)
    BY <1>6, <2>2 DEF RestStep
  <2>4. f[1 .. i] = Rest(f[1 .. (i - 1)], seq[i], gone)
    BY <2>1, <2>3, PrefixMax
  <2> QED BY <2>1, <2>4
<1> HIDE DEF F
<1>10. \A i \in 1 .. Len(seq) : F[i] = Rest(F[i - 1], seq[i], gone)
  BY <1>9 DEF n
<1> QED BY <1>7, <1>8, <1>10 DEF n

(* The elements that stay, in their order. *)
Keeps(seq, gone, rest) ==
  /\ Elems(rest) = Elems(seq) \ gone
  /\ Injective(seq) => Injective(rest)
  /\ \A x, y : Before(rest, x, y) <=>
                 Before(seq, x, y) /\ x \notin gone /\ y \notin gone

Upto(seq, i) == {seq[k] : k \in 1 .. i}

BeforeUpto(seq, i, x, y) == \E k, l \in 1 .. i : k < l /\ seq[k] = x /\ seq[l] = y

LEMMA UptoStep ==
  ASSUME NEW seq, NEW i \in Nat, i # 0
  PROVE  /\ Upto(seq, i) = Upto(seq, i - 1) \cup {seq[i]}
         /\ \A x, y : BeforeUpto(seq, i, x, y) <=>
                        \/ BeforeUpto(seq, i - 1, x, y)
                        \/ x \in Upto(seq, i - 1) /\ y = seq[i]
<1>1. \A k \in 1 .. i : k \in 1 .. (i - 1) \/ k = i
  OBVIOUS
<1>2. i \in 1 .. i /\ \A k \in 1 .. (i - 1) : k \in 1 .. i /\ k < i
  OBVIOUS
<1>3. \A k, l \in 1 .. i : k < l => k \in 1 .. (i - 1)
  OBVIOUS
<1>4. Upto(seq, i) = Upto(seq, i - 1) \cup {seq[i]}
  BY <1>1, <1>2 DEF Upto
<1>5. ASSUME NEW x, NEW y
      PROVE  BeforeUpto(seq, i, x, y) <=>
               \/ BeforeUpto(seq, i - 1, x, y)
               \/ x \in Upto(seq, i - 1) /\ y = seq[i]
  <2>1. ASSUME BeforeUpto(seq, i, x, y)
        PROVE  \/ BeforeUpto(seq, i - 1, x, y)
               \/ x \in Upto(seq, i - 1) /\ y = seq[i]
    BY <1>1, <1>3, <2>1 DEF BeforeUpto, Upto
  <2>2. ASSUME BeforeUpto(seq, i - 1, x, y)
        PROVE  BeforeUpto(seq, i, x, y)
    BY <1>2, <2>2 DEF BeforeUpto
  <2>3. ASSUME x \in Upto(seq, i - 1), y = seq[i]
        PROVE  BeforeUpto(seq, i, x, y)
    BY <1>2, <2>3 DEF BeforeUpto, Upto
  <2> QED BY <2>1, <2>2, <2>3
<1> QED BY <1>4, <1>5

LEMMA UptoAll ==
  ASSUME NEW S, NEW seq \in Seq(S)
  PROVE  /\ Elems(seq) = Upto(seq, Len(seq))
         /\ \A x, y : Before(seq, x, y) <=> BeforeUpto(seq, Len(seq), x, y)
<1>1. DOMAIN seq = 1 .. Len(seq)
  OBVIOUS
<1> QED BY <1>1 DEF Elems, Upto, Before, BeforeUpto

LEMMA EmptyFacts ==
  /\ Elems(<<>>) = {} /\ Injective(<<>>) /\ \A x, y : ~Before(<<>>, x, y)
  /\ \A seq : Upto(seq, 0) = {} /\ \A x, y : ~BeforeUpto(seq, 0, x, y)
<1>1. DOMAIN <<>> = {} /\ 1 .. 0 = {}
  OBVIOUS
<1> QED BY <1>1 DEF Elems, Injective, Before, Upto, BeforeUpto

LEMMA WithoutKeeps ==
  ASSUME NEW S, NEW seq \in Seq(S), NEW gone
  PROVE  Without(seq, gone) \in Seq(S) /\ Keeps(seq, gone, Without(seq, gone))
<1>1. PICK F : /\ F[0] = <<>> /\ Without(seq, gone) = F[Len(seq)]
               /\ \A i \in 1 .. Len(seq) : F[i] = Rest(F[i - 1], seq[i], gone)
  BY WithoutSteps
<1> DEFINE n == Len(seq)
           Good(i) == /\ F[i] \in Seq(S)
                      /\ Elems(F[i]) = Upto(seq, i) \ gone
                      /\ Injective(seq) => Injective(F[i])
                      /\ \A x, y : Before(F[i], x, y) <=>
                           BeforeUpto(seq, i, x, y) /\ x \notin gone /\ y \notin gone
           T == {i \in 0 .. n : Good(i)}
<1>2. n \in Nat /\ \A i \in 1 .. n : seq[i] \in S
  OBVIOUS
<1>3. 0 \in T
  <2>1. 0 \in 0 .. n /\ <<>> \in Seq(S)
    BY <1>2
  <2> QED BY <1>1, <2>1, EmptyFacts
<1>4. ASSUME NEW i \in 1 .. n, Good(i - 1)
      PROVE  Good(i)
  <2> DEFINE c == F[i - 1]
             x == seq[i]
  <2>0. i \in Nat /\ i # 0 /\ x \in S
    BY <1>2
  <2>1. CASE x \in gone
    <3>1. F[i] = c
      BY <1>1, <2>1 DEF Rest
    <3> QED BY <1>4, <2>0, <2>1, <3>1, UptoStep
  <2>2. CASE x \notin gone
    <3>1. F[i] = Append(c, x)
      BY <1>1, <2>2 DEF Rest
    <3>2. /\ Append(c, x) \in Seq(S)
          /\ Elems(Append(c, x)) = Elems(c) \cup {x}
          /\ Injective(c) /\ x \notin Elems(c) => Injective(Append(c, x))
          /\ \A y, z : Before(Append(c, x), y, z) <=>
                        Before(c, y, z) \/ (y \in Elems(c) /\ z = x)
      BY <1>4, <2>0, AppendFacts
    <3>3. Injective(seq) => x \notin Upto(seq, i - 1)
      <4>1. DOMAIN seq = 1 .. n
        OBVIOUS
      <4>2. \A k \in 1 .. (i - 1) : k \in 1 .. n /\ k # i
        BY <1>2
      <4> QED BY <4>1, <4>2 DEF Injective, Upto
    <3>4. /\ Upto(seq, i) = Upto(seq, i - 1) \cup {x}
          /\ \A y, z : BeforeUpto(seq, i, y, z) <=>
                        \/ BeforeUpto(seq, i - 1, y, z)
                        \/ y \in Upto(seq, i - 1) /\ z = x
      BY <2>0, UptoStep
    <3> HIDE DEF x, c
    <3>5. F[i] \in Seq(S) /\ Elems(F[i]) = Upto(seq, i) \ gone
      BY <1>4, <2>2, <3>1, <3>2, <3>4 DEF c
    <3>6. Injective(seq) => Injective(F[i])
      BY <1>4, <3>1, <3>2, <3>3 DEF c
    <3>7. \A y, z : Before(F[i], y, z) <=>
                      BeforeUpto(seq, i, y, z) /\ y \notin gone /\ z \notin gone
      BY <1>4, <2>2, <3>1, <3>2, <3>4 DEF c
    <3> QED BY <3>5, <3>6, <3>7
  <2> QED BY <2>1, <2>2
<1>5. \A i \in 1 .. n : i - 1 \in T => i \in T
  <2>1. \A i \in 1 .. n : i \in 0 .. n
    OBVIOUS
  <2> HIDE DEF Good, n
  <2> QED BY <1>4, <2>1
<1>6. Good(n)
  <2>1. n \in 0 .. n
    BY <1>2
  <2> HIDE DEF Good, n
  <2>2. \A i \in 0 .. n : i \in T
    <3> HIDE DEF T
    <3> QED BY <1>2, <1>3, <1>5, PrefixInduction
  <2> QED BY <2>1, <2>2
<1> QED BY <1>1, <1>6, UptoAll DEF Keeps

-----------------------------------------------------------------------------
(* AddAll. *)

LastIndex(ids, t) == [k \in DOMAIN ids |-> k][Max(t)]

AddStep(g, ch, ids, kds, t) ==
  IF t = {} THEN ch
  ELSE pcp_db_add_flow(g[t \ {Max(t)}], ids[LastIndex(ids, t)], kds[LastIndex(ids, t)])

AddFolds(F, ch, ids, kds) ==
  /\ F[0] = ch
  /\ \A i \in 1 .. Len(ids) : F[i] = pcp_db_add_flow(F[i - 1], ids[i], kds[i])

LEMMA AddAllSteps ==
  ASSUME NEW S, chain \in [Buckets -> Seq(S)], NEW ids \in Seq(S), NEW kds,
         \A i \in 1 .. Len(ids) : compute_flow_key(kds[i]) \in Buckets
  PROVE  \E F : AddFolds(F, chain, ids, kds) /\ AddAll(ids, kds) = F[Len(ids)]
<1> DEFINE n == Len(ids)
           P == 1 .. n
           C == [Buckets -> Seq(S)]
           step == [ic \in P \X C |-> pcp_db_add_flow(ic[2], ids[ic[1]], kds[ic[1]])]
           Q == DOMAIN [k \in DOMAIN ids |-> k]
           It(g) == g = [t \in SUBSET Q |-> AddStep(g, chain, ids, kds, t)]
<1>0. n \in Nat /\ DOMAIN ids = P /\ \A j \in P : ids[j] \in S
  OBVIOUS
<1>1. AddAll(ids, kds) = (CHOOSE g : It(g))[Q]
  BY Zenon DEF AddAll, FoldLeftDomain, FoldLeft, MapThenFoldSet, AddStep, LastIndex
<1> HIDE DEF n
<1>a. Q = P /\ \A t \in SUBSET P : Max(t) \in P => LastIndex(ids, t) = Max(t)
  BY <1>0 DEF LastIndex
<1> HIDE DEF Q
<1>2. step \in [P \X C -> C]
  <2>1. ASSUME NEW c \in C, NEW j \in P
        PROVE  pcp_db_add_flow(c, ids[j], kds[j]) \in C
    <3>1. compute_flow_key(kds[j]) \in Buckets
      BY DEF n
    <3>2. Append(c[compute_flow_key(kds[j])], ids[j]) \in Seq(S)
      BY <1>0, <3>1, AppendFacts
    <3> QED BY <3>1, <3>2 DEF pcp_db_add_flow
  <2> QED BY <2>1
<1>3. PICK g : Folds(g, n, C, chain, step)
  <2> HIDE DEF step
  <2> QED BY <1>0, <1>2, FoldsExists
<1>4. \A t \in SUBSET P : g[t] = AddStep(g, chain, ids, kds, t)
  <2>1. \A i \in P : \A m \in C : step[<<i, m>>] = pcp_db_add_flow(m, ids[i], kds[i])
    OBVIOUS
  <2> HIDE DEF step, C
  <2> QED BY <1>3, <1>a, <2>1 DEF Folds, AddStep
<1>5. It(g)
  BY <1>3, <1>4, <1>a DEF Folds
<1> DEFINE f == CHOOSE h : It(h)
<1>6. It(f)
  BY <1>5, Zenon
<1> HIDE DEF f
<1> DEFINE F == [i \in 0 .. n |-> f[1 .. i]]
<1>7. F[0] = chain
  <2>1. 1 .. 0 = {} /\ 0 \in 0 .. n
    BY <1>0
  <2> QED BY <1>6, <2>1 DEF AddStep
<1>8. F[n] = AddAll(ids, kds)
  <2>1. n \in 0 .. n
    BY <1>0
  <2> QED BY <1>1, <1>a, <2>1 DEF f
<1>9. ASSUME NEW i \in P
      PROVE  F[i] = pcp_db_add_flow(F[i - 1], ids[i], kds[i])
  <2>1. i \in Nat /\ i # 0 /\ i \in 0 .. n /\ i - 1 \in 0 .. n
    BY <1>0
  <2>2. 1 .. i \in SUBSET P /\ 1 .. i # {} /\ Max(1 .. i) = i
    <3>1. 1 .. i \in SUBSET P
      BY <1>0, <2>1, SMTT(30)
    <3>2. Max(1 .. i) = i /\ i \in 1 .. i
      BY <2>1, PrefixMax, Zenon
    <3> QED BY <3>1, <3>2, Zenon
  <2>3. f[1 .. i] = AddStep(f, chain, ids, kds, 1 .. i)
    BY <1>6, <1>a, <2>2
  <2>4. f[1 .. i] = pcp_db_add_flow(f[(1 .. i) \ {i}], ids[i], kds[i])
    BY <1>a, <2>2, <2>3 DEF AddStep
  <2>5. f[1 .. i] = pcp_db_add_flow(f[1 .. (i - 1)], ids[i], kds[i])
    BY <2>1, <2>4, PrefixMax
  <2> QED BY <2>1, <2>5
<1> HIDE DEF F
<1>10. AddFolds(F, chain, ids, kds)
  BY <1>7, <1>9 DEF n, AddFolds
<1> QED BY <1>8, <1>10 DEF n

LEMMA ConcatFacts ==
  ASSUME NEW S, NEW s \in Seq(S), NEW t \in Seq(S)
  PROVE  /\ s \o t \in Seq(S) /\ Len(s \o t) = Len(s) + Len(t)
         /\ \A i \in 1 .. Len(t) : (s \o t)[Len(s) + i] = t[i]
         /\ Elems(s \o t) = Elems(s) \cup Elems(t)
         /\ \A x, y : BeforeUpto(s \o t, Len(s), x, y) <=> Before(s, x, y)
         /\ Upto(s \o t, Len(s)) = Elems(s)
         /\ Injective(s) /\ Injective(t) /\ Elems(s) \cap Elems(t) = {}
              => Injective(s \o t)
<1> DEFINE u == s \o t
           m == Len(s)
           n == Len(t)
<1>1. /\ u \in Seq(S) /\ Len(u) = m + n /\ m \in Nat /\ n \in Nat
      /\ DOMAIN s = 1 .. m /\ DOMAIN t = 1 .. n /\ DOMAIN u = 1 .. (m + n)
      /\ (\A i \in 1 .. m : u[i] = s[i])
      /\ \A i \in 1 .. n : u[m + i] = t[i]
  OBVIOUS
<1> HIDE DEF u, m, n
<1>2. \A i \in 1 .. (m + n) : i \in 1 .. m \/ (i - m \in 1 .. n /\ i = m + (i - m))
  BY <1>1
<1>3. /\ \A i \in 1 .. m : i \in 1 .. (m + n)
      /\ \A i \in 1 .. n : m + i \in 1 .. (m + n)
  BY <1>1
<1>4. Elems(u) = Elems(s) \cup Elems(t)
  <2>1. ASSUME NEW x \in Elems(u)
        PROVE  x \in Elems(s) \cup Elems(t)
    <3>1. PICK i \in 1 .. (m + n) : x = u[i]
      BY <1>1 DEF Elems
    <3>2. CASE i \in 1 .. m
      BY <1>1, <3>1, <3>2 DEF Elems
    <3>3. CASE i - m \in 1 .. n /\ i = m + (i - m)
      BY <1>1, <3>1, <3>3 DEF Elems
    <3> QED BY <1>2, <3>2, <3>3
  <2>2. Elems(s) \subseteq Elems(u)
    BY <1>1, <1>3 DEF Elems
  <2>3. Elems(t) \subseteq Elems(u)
    BY <1>1, <1>3 DEF Elems
  <2> QED BY <2>1, <2>2, <2>3
<1>5. \A x, y : BeforeUpto(u, m, x, y) <=> Before(s, x, y)
  BY <1>1 DEF BeforeUpto, Before
<1>6. Upto(u, m) = Elems(s)
  BY <1>1 DEF Upto, Elems
<1>7. ASSUME Injective(s), Injective(t), Elems(s) \cap Elems(t) = {},
             NEW i \in 1 .. (m + n), NEW j \in 1 .. (m + n), u[i] = u[j]
      PROVE  i = j
  <2>1. CASE i \in 1 .. m /\ j \in 1 .. m
    BY <1>1, <1>7, <2>1 DEF Injective
  <2>2. CASE i \in 1 .. m /\ j - m \in 1 .. n /\ j = m + (j - m)
    <3>1. u[i] \in Elems(s) /\ u[j] \in Elems(t)
      BY <1>1, <2>2 DEF Elems
    <3> QED BY <1>7, <3>1
  <2>3. CASE j \in 1 .. m /\ i - m \in 1 .. n /\ i = m + (i - m)
    <3>1. u[j] \in Elems(s) /\ u[i] \in Elems(t)
      BY <1>1, <2>3 DEF Elems
    <3> QED BY <1>7, <3>1
  <2>4. CASE /\ i - m \in 1 .. n /\ i = m + (i - m)
             /\ j - m \in 1 .. n /\ j = m + (j - m)
    <3> DEFINE k == i - m
               l == j - m
    <3>1. k \in 1 .. n /\ l \in 1 .. n /\ i = m + k /\ j = m + l
      BY <2>4
    <3> HIDE DEF k, l
    <3>2. t[k] = t[l]
      BY <1>1, <1>7, <3>1
    <3>3. k = l
      BY <1>1, <1>7, <3>1, <3>2 DEF Injective
    <3> QED BY <3>1, <3>3
  <2> QED BY <1>2, <2>1, <2>2, <2>3, <2>4
<1>8. Injective(s) /\ Injective(t) /\ Elems(s) \cap Elems(t) = {} => Injective(u)
  BY <1>1, <1>7 DEF Injective
<1> QED BY <1>1, <1>4, <1>5, <1>6, <1>8 DEF u, m, n

(* The chain ch of a bucket holds its flows in the order that all have. *)
Ordered(ch, all, i) ==
  /\ Injective(ch)
  /\ \A x, y : Before(ch, x, y) <=>
                 x \in Elems(ch) /\ y \in Elems(ch) /\ BeforeUpto(all, i, x, y)

(* Those of the first i flows that belong into the bucket. *)
Added(ids, kds, i, b) == {ids[k] : k \in {j \in 1 .. i : compute_flow_key(kds[j]) = b}}

LEMMA AddAllFacts ==
  ASSUME NEW S, NEW ch0 \in [Buckets -> Seq(S)], chain = ch0,
         NEW old \in Seq(S), Injective(old),
         NEW ids \in Seq(S), Injective(ids), Elems(old) \cap Elems(ids) = {}, NEW kds,
         \A i \in 1 .. Len(ids) : compute_flow_key(kds[i]) \in Buckets,
         \A b \in Buckets : /\ Ordered(ch0[b], old, Len(old))
                            /\ Elems(ch0[b]) \subseteq Elems(old)
  PROVE  /\ AddAll(ids, kds) \in [Buckets -> Seq(S)]
         /\ \A b \in Buckets :
              /\ Elems(AddAll(ids, kds)[b])
                   = Elems(ch0[b]) \cup Added(ids, kds, Len(ids), b)
              /\ Ordered(AddAll(ids, kds)[b], old \o ids, Len(old) + Len(ids))
<1> DEFINE n == Len(ids)
           m == Len(old)
           all == old \o ids
<1>0. /\ n \in Nat /\ m \in Nat /\ all \in Seq(S) /\ Len(all) = m + n
      /\ (\A i \in 1 .. n : all[m + i] = ids[i] /\ ids[i] \in S)
      /\ (\A x, y : BeforeUpto(all, m, x, y) <=> Before(old, x, y))
      /\ Upto(all, m) = Elems(old) /\ Injective(all)
  BY ConcatFacts
<1>a. PICK F : AddFolds(F, chain, ids, kds) /\ AddAll(ids, kds) = F[Len(ids)]
  <2>1. chain \in [Buckets -> Seq(S)]
    OBVIOUS
  <2> QED BY <2>1, AddAllSteps, Zenon
<1>1. /\ F[0] = chain /\ AddAll(ids, kds) = F[n]
      /\ \A i \in 1 .. n : F[i] = pcp_db_add_flow(F[i - 1], ids[i], kds[i])
  BY <1>a DEF AddFolds
<1> DEFINE Good(i) == /\ F[i] \in [Buckets -> Seq(S)]
                      /\ \A b \in Buckets :
                           /\ Elems(F[i][b]) = Elems(ch0[b]) \cup Added(ids, kds, i, b)
                           /\ Elems(F[i][b]) \subseteq Upto(all, m + i)
                           /\ Ordered(F[i][b], all, m + i)
           T == {i \in 0 .. n : Good(i)}
<1> HIDE DEF n, m, all
<1>2. Good(0)
  <2>1. m + 0 = m
    BY <1>0
  <2>2. \A b \in Buckets : Added(ids, kds, 0, b) = {}
    BY DEF Added
  <2>3. \A x, y : BeforeUpto(old, m, x, y) <=> Before(old, x, y)
    BY UptoAll DEF m
  <2> QED BY <1>0, <1>1, <2>1, <2>2, <2>3 DEF Ordered, m
<1>3. ASSUME NEW i \in 1 .. n, Good(i - 1)
      PROVE  Good(i)
  <2> DEFINE x == ids[i]
             k == compute_flow_key(kds[i])
             c == F[i - 1]
  <2>1. i \in Nat /\ i # 0 /\ x \in S /\ k \in Buckets /\ m + i \in Nat /\ m + i # 0
        /\ m + (i - 1) = (m + i) - 1 /\ x = all[m + i]
    BY <1>0 DEF n
  <2>2. F[i] = [c EXCEPT ![k] = Append(@, x)]
    BY <1>1 DEF pcp_db_add_flow
  <2>3. c \in [Buckets -> Seq(S)]
        /\ \A b \in Buckets :
             /\ Elems(c[b]) = Elems(ch0[b]) \cup Added(ids, kds, i - 1, b)
             /\ Elems(c[b]) \subseteq Upto(all, (m + i) - 1)
             /\ Ordered(c[b], all, (m + i) - 1)
    BY <1>3, <2>1
  <2>4. \A b \in Buckets : Added(ids, kds, i, b) = Added(ids, kds, i - 1, b)
                             \cup (IF b = k THEN {x} ELSE {})
    <3>1. \A j \in 1 .. i : j \in 1 .. (i - 1) \/ j = i
      BY <2>1
    <3>2. i \in 1 .. i /\ \A j \in 1 .. (i - 1) : j \in 1 .. i
      BY <2>1
    <3> QED BY <3>1, <3>2 DEF Added
  <2>5. /\ Upto(all, m + i) = Upto(all, (m + i) - 1) \cup {x}
        /\ \A y, z : BeforeUpto(all, m + i, y, z) <=>
                       \/ BeforeUpto(all, (m + i) - 1, y, z)
                       \/ y \in Upto(all, (m + i) - 1) /\ z = x
    BY <2>1, UptoStep
  <2>6. x \notin Upto(all, (m + i) - 1)
    <3>1. DOMAIN all = 1 .. (m + n) /\ m + i \in 1 .. (m + n)
      BY <1>0
    <3>2. \A j \in 1 .. ((m + i) - 1) : j \in 1 .. (m + n) /\ j # m + i
      BY <1>0
    <3> QED BY <1>0, <2>1, <3>1, <3>2 DEF Injective, Upto
  <2>6a. \A y, z : BeforeUpto(all, (m + i) - 1, y, z) =>
                     y \in Upto(all, (m + i) - 1) /\ z \in Upto(all, (m + i) - 1)
    BY DEF BeforeUpto, Upto
  <2> HIDE DEF x, k, c
  <2>7. F[i] \in [Buckets -> Seq(S)]
    <3>1. Append(c[k], x) \in Seq(S)
      BY <2>1, <2>3, AppendFacts
    <3> QED BY <2>2, <2>3, <3>1
  <2>8. ASSUME NEW b \in Buckets
        PROVE  /\ Elems(F[i][b]) = Elems(ch0[b]) \cup Added(ids, kds, i, b)
               /\ Elems(F[i][b]) \subseteq Upto(all, m + i)
               /\ Ordered(F[i][b], all, m + i)
    <3>1. CASE b # k
      <4>1. F[i][b] = c[b]
        BY <2>2, <2>3, <3>1
      <4>2. Ordered(c[b], all, m + i)
        BY <2>3, <2>5, <2>6 DEF Ordered
      <4> QED BY <2>3, <2>4, <2>5, <3>1, <4>1, <4>2
    <3>2. CASE b = k
      <4> DEFINE d == c[b]
                 e == Append(d, x)
      <4>0. d \in Seq(S)
        BY <2>3
      <4>1. F[i][b] = e
        BY <2>2, <2>3, <3>2
      <4>2. /\ Elems(e) = Elems(d) \cup {x}
            /\ Injective(d) /\ x \notin Elems(d) => Injective(e)
            /\ \A y, z : Before(e, y, z) <=>
                           Before(d, y, z) \/ (y \in Elems(d) /\ z = x)
        BY <2>1, <4>0, AppendFacts
      <4>3. Elems(d) = Elems(ch0[b]) \cup Added(ids, kds, i - 1, b)
            /\ Elems(d) \subseteq Upto(all, (m + i) - 1)
            /\ Ordered(d, all, (m + i) - 1)
        BY <2>3
      <4> HIDE DEF d, e
      <4>4. Injective(e)
        BY <2>6, <4>2, <4>3 DEF Ordered
      <4>5. ASSUME NEW y, NEW z
            PROVE  Before(e, y, z) <=>
                     y \in Elems(e) /\ z \in Elems(e) /\ BeforeUpto(all, m + i, y, z)
        BY <2>5, <2>6, <2>6a, <4>2, <4>3 DEF Ordered
      <4>6. Ordered(e, all, m + i)
        BY <4>4, <4>5 DEF Ordered
      <4> QED BY <2>4, <2>5, <3>2, <4>1, <4>2, <4>3, <4>6
    <3> QED BY <3>1, <3>2
  <2> QED BY <2>7, <2>8
<1>4. Good(n)
  <2> HIDE DEF Good
  <2>1. 0 \in 0 .. n /\ n \in 0 .. n /\ \A i \in 1 .. n : i \in 0 .. n
    BY <1>0
  <2>2. \A i \in 0 .. n : i \in T
    <3>1. 0 \in T
      BY <1>2, <2>1
    <3>2. \A i \in 1 .. n : i - 1 \in T => i \in T
      BY <1>3, <2>1
    <3> HIDE DEF T
    <3> QED BY <1>0, <3>1, <3>2, PrefixInduction
  <2> QED BY <2>1, <2>2
<1> QED BY <1>1, <1>4 DEF n, m, all

-----------------------------------------------------------------------------
(* The order of the elements. *)
LEMMA BeforeFacts ==
  ASSUME NEW S, NEW s \in Seq(S), Injective(s)
  PROVE  /\ \A x, y : Before(s, x, y) => /\ x \in Elems(s) /\ y \in Elems(s)
                                         /\ x # y /\ ~Before(s, y, x)
         /\ \A x, y \in Elems(s) : x # y => Before(s, x, y) \/ Before(s, y, x)
         /\ \A x, y, z : Before(s, x, y) /\ Before(s, y, z) => Before(s, x, z)
<1>1. Len(s) \in Nat /\ DOMAIN s = 1 .. Len(s)
  OBVIOUS
<1>2. ASSUME NEW x, NEW y, Before(s, x, y)
      PROVE  x \in Elems(s) /\ y \in Elems(s) /\ x # y /\ ~Before(s, y, x)
  <2>1. PICK i \in 1 .. Len(s), j \in 1 .. Len(s) : i < j /\ s[i] = x /\ s[j] = y
    BY <1>1, <1>2 DEF Before
  <2>2. x \in Elems(s) /\ y \in Elems(s)
    BY <1>1, <2>1 DEF Elems
  <2>3. x # y
    BY <1>1, <2>1 DEF Injective
  <2>4. ASSUME Before(s, y, x)
        PROVE  FALSE
    <3>1. PICK k \in 1 .. Len(s), l \in 1 .. Len(s) : k < l /\ s[k] = y /\ s[l] = x
      BY <1>1, <2>4 DEF Before
    <3>2. k = j /\ l = i
      BY <1>1, <2>1, <3>1 DEF Injective
    <3> QED BY <2>1, <3>1, <3>2
  <2> QED BY <2>2, <2>3, <2>4
<1>3. ASSUME NEW x \in Elems(s), NEW y \in Elems(s), x # y
      PROVE  Before(s, x, y) \/ Before(s, y, x)
  <2>1. PICK i \in 1 .. Len(s), j \in 1 .. Len(s) : s[i] = x /\ s[j] = y
    BY <1>1 DEF Elems
  <2>2. i < j \/ j < i
    BY <1>3, <2>1
  <2> QED BY <1>1, <2>1, <2>2 DEF Before
<1>4. ASSUME NEW x, NEW y, NEW z, Before(s, x, y), Before(s, y, z)
      PROVE  Before(s, x, z)
  <2>1. PICK i \in 1 .. Len(s), j \in 1 .. Len(s) : i < j /\ s[i] = x /\ s[j] = y
    BY <1>1, <1>4 DEF Before
  <2>2. PICK k \in 1 .. Len(s), l \in 1 .. Len(s) : k < l /\ s[k] = y /\ s[l] = z
    BY <1>1, <1>4 DEF Before
  <2>3. k = j
    BY <1>1, <2>1, <2>2 DEF Injective
  <2>4. i < l
    BY <2>1, <2>2, <2>3
  <2> QED BY <1>1, <2>1, <2>2, <2>4 DEF Before
<1> QED BY <1>2, <1>3, <1>4

(* The flow behind f, or NULL for the last. *)
LEMMA AfterFacts ==
  ASSUME NEW s \in Seq(FlowIds), Injective(s), NEW f \in Elems(s)
  PROVE  \/ After(s, f) = NULL /\ \A y : ~Before(s, f, y)
         \/ /\ After(s, f) \in Elems(s) /\ After(s, f) # NULL
            /\ Before(s, f, After(s, f))
            /\ \A y : Before(s, f, y) => y = After(s, f) \/ Before(s, After(s, f), y)
            /\ \A y : Before(s, y, After(s, f)) => y = f \/ Before(s, y, f)
<1>1. Len(s) \in Nat /\ DOMAIN s = 1 .. Len(s)
  OBVIOUS
<1>2. PICK k \in 1 .. Len(s) : s[k] = f
  BY <1>1 DEF Elems
<1>4. \A i \in 1 .. Len(s) : s[i] = f => i = k
  BY <1>1, <1>2 DEF Injective
<1>3. After(s, f) = IF k < Len(s) THEN s[k + 1] ELSE NULL
  <2> DEFINE behind == {j \in DOMAIN s : j > 1 /\ s[j - 1] = f}
  <2>1. behind = IF k < Len(s) THEN {k + 1} ELSE {}
    BY <1>1, <1>2, <1>4
  <2>2. After(s, f) = IF behind = {} THEN NULL ELSE s[CHOOSE j \in behind : TRUE]
    BY Zenon DEF After
  <2> HIDE DEF behind
  <2> QED BY <2>1, <2>2
<1>5. CASE ~(k < Len(s))
  <2>1. \A y : ~Before(s, f, y)
    BY <1>1, <1>2, <1>4, <1>5 DEF Before
  <2> QED BY <1>3, <1>5, <2>1
<1>6. CASE k < Len(s)
  <2> DEFINE g == s[k + 1]
  <2>0. k + 1 \in 1 .. Len(s) /\ k < k + 1
    BY <1>1, <1>2, <1>6
  <2>1. After(s, f) = g /\ g \in Elems(s) /\ g \in FlowIds /\ Before(s, f, g)
    BY <1>1, <1>2, <1>3, <1>6, <2>0 DEF Before, Elems
  <2>2. g # NULL
    <3>1. g \in 1 .. NFlows
      BY <2>1 DEF FlowIds
    <3> HIDE DEF g
    <3> QED BY <3>1, ContextAssumption DEF NULL
  <2>3. \A i \in 1 .. Len(s) : s[i] = g => i = k + 1
    BY <1>1, <2>0 DEF Injective
  <2>4. ASSUME NEW y, Before(s, f, y)
        PROVE  y = g \/ Before(s, g, y)
    <3>1. PICK i \in 1 .. Len(s), j \in 1 .. Len(s) : i < j /\ s[i] = f /\ s[j] = y
      BY <1>1, <2>4 DEF Before
    <3>2. i = k
      BY <1>4, <3>1
    <3>3. j = k + 1 \/ k + 1 < j
      BY <1>2, <3>1, <3>2
    <3> QED BY <1>1, <2>0, <3>1, <3>3 DEF Before
  <2>5. ASSUME NEW y, Before(s, y, g)
        PROVE  y = f \/ Before(s, y, f)
    <3>1. PICK i \in 1 .. Len(s), j \in 1 .. Len(s) : i < j /\ s[i] = y /\ s[j] = g
      BY <1>1, <2>5 DEF Before
    <3>2. j = k + 1
      BY <2>3, <3>1
    <3>3. i = k \/ i < k
      BY <1>2, <3>1, <3>2
    <3> QED BY <1>1, <1>2, <3>1, <3>3 DEF Before
  <2> HIDE DEF g
  <2> QED BY <2>1, <2>2, <2>4, <2>5
<1> QED BY <1>5, <1>6

LEMMA AfterNull ==
  ASSUME NEW s \in Seq(FlowIds)
  PROVE  After(s, NULL) = NULL
<1> DEFINE behind == {k \in DOMAIN s : k > 1 /\ s[k - 1] = NULL}
<1>1. \A k \in 1 .. Len(s) : s[k] # NULL
  BY ContextAssumption DEF FlowIds, NULL
<1>2. behind = {}
  BY <1>1
<1>3. After(s, NULL) = IF behind = {} THEN NULL ELSE s[CHOOSE k \in behind : TRUE]
  BY Zenon DEF After
<1> HIDE DEF behind
<1> QED BY <1>2, <1>3

(* The same, in the order in which all flows were added. *)
LEMMA BehindFacts ==
  ASSUME NEW s \in Seq(FlowIds), NEW all \in Seq(FlowIds), Injective(s), Injective(all),
         Elems(s) \subseteq Elems(all), NEW f \in Elems(s),
         \A x, y : Before(s, x, y) <=> x \in Elems(s) /\ y \in Elems(s) /\ Before(all, x, y)
  PROVE  /\ After(s, f) # NULL => After(s, f) \in Elems(s) /\ Before(all, f, After(s, f))
         /\ \A y \in Elems(s) : y # f /\ ~Before(all, y, f) =>
              After(s, f) # NULL /\ ~Before(all, y, After(s, f))
<1>1. \/ After(s, f) = NULL /\ \A y : ~Before(s, f, y)
      \/ /\ After(s, f) \in Elems(s) /\ After(s, f) # NULL
         /\ Before(s, f, After(s, f))
         /\ \A y : Before(s, f, y) => y = After(s, f) \/ Before(s, After(s, f), y)
  BY AfterFacts
<1>2. \A x, y \in Elems(all) : x # y => Before(all, x, y) \/ Before(all, y, x)
  BY BeforeFacts
<1>3. \A x, y : Before(all, x, y) => x # y /\ ~Before(all, y, x)
  BY BeforeFacts
<1>4. ASSUME NEW y \in Elems(s), y # f, ~Before(all, y, f)
      PROVE  After(s, f) # NULL /\ ~Before(all, y, After(s, f))
  <2>1. Before(s, f, y)
    BY <1>2, <1>4
  <2>2. y = After(s, f) \/ Before(s, After(s, f), y)
    BY <1>1, <2>1
  <2>3. y = After(s, f) \/ Before(all, After(s, f), y)
    BY <2>2
  <2> QED BY <1>1, <1>3, <2>1, <2>3
<1> QED BY <1>1, <1>4

-----------------------------------------------------------------------------
(* Numbers of flows. *)
LEMMA FlowIdsFinite ==
  /\ IsFiniteSet(FlowIds) /\ Cardinality(FlowIds) = NFlows
  /\ \A s \in SUBSET FlowIds : /\ IsFiniteSet(s) /\ Cardinality(s) \in 0 .. NFlows
<1>1. IsFiniteSet(FlowIds) /\ Cardinality(FlowIds) = NFlows
  <2>1. NFlows \in Nat
    BY ContextAssumption
  <2> QED BY <2>1, FS_Interval DEF FlowIds
<1>2. ASSUME NEW s \in SUBSET FlowIds
      PROVE  IsFiniteSet(s) /\ Cardinality(s) \in 0 .. NFlows
  <2>1. IsFiniteSet(s) /\ Cardinality(s) <= NFlows
    BY <1>1, FS_Subset
  <2>2. Cardinality(s) \in Nat
    BY <2>1, FS_CardinalityType
  <2> QED BY <2>1, <2>2, ContextAssumption
<1> QED BY <1>1, <1>2

LEMMA SetToSeqFacts ==
  ASSUME NEW s, IsFiniteSet(s)
  PROVE  /\ SetToSeq(s) \in [1 .. Cardinality(s) -> s]
         /\ Cardinality(s) \in Nat /\ IsInjective(SetToSeq(s))
<1>1. Cardinality(s) \in Nat /\ ExistsBijection(1 .. Cardinality(s), s)
  BY FS_CardinalityType
<1>2. PICK f \in [1 .. Cardinality(s) -> s] : IsInjective(f)
  BY <1>1 DEF ExistsBijection, Bijection, Injection
<1> QED BY <1>1, <1>2 DEF SetToSeq

LEMMA CountOfSequence ==
  ASSUME NEW S, IsFiniteSet(S), NEW seq \in Seq(S), Injective(seq)
  PROVE  IsFiniteSet(Elems(seq)) /\ Cardinality(Elems(seq)) = Len(seq)
<1>1. Len(seq) \in Nat /\ DOMAIN seq = 1 .. Len(seq)
  OBVIOUS
<1>2. IsFiniteSet(1 .. Len(seq)) /\ Cardinality(1 .. Len(seq)) = Len(seq)
  BY <1>1, FS_Interval
<1>3. seq \in Bijection(1 .. Len(seq), Elems(seq))
  BY <1>1 DEF Bijection, Injection, Surjection, Elems, Injective, IsInjective
<1>4. ExistsBijection(1 .. Len(seq), Elems(seq))
  BY <1>3, Zenon DEF ExistsBijection
<1> QED BY <1>2, <1>4, FS_Bijection

-----------------------------------------------------------------------------
(* The invariant. *)

NlRec == [at : {"idle", "recv", "parse", "found", "failed", "ready"},
          dump : Seq(Seq(NlMsgRec)), unread : Seq(Seq(NlMsgRec) \ {<<>>}),
          len : 0 .. BUFSIZE, buf : Seq(NlMsgRec),
          gws : Seq([ip : Ips, scope : Scopes]), used : Nat]

(* A server is in the array once, under an address and the interface that   *)
(* belongs to it.                                                           *)
ServersInv ==
  /\ nl \in NlRec /\ servers \in Seq(SlotRec) /\ Len(servers) <= MaxServers
  /\ \A i \in DOMAIN servers : InUse(i) =>
       /\ servers[i].scope = ScopeOf(servers[i].ip, servers[i].scope)
       /\ \A j \in DOMAIN servers :
            InUse(j) /\ servers[j].ip = servers[i].ip
              /\ servers[j].scope = servers[i].scope => i = j

(* The flows of a chain of children are there or gone together, and no flow *)
(* has two parents.                                                         *)
Family ==
  /\ Closed(DOMAIN flows)
  /\ \A f, g \in DOMAIN flows :
       flows[f].child = flows[g].child /\ flows[f].child # NULL => f = g

(* The key of a flow on this server. That of an ANNOUNCE has no interface.  *)
Addressed(kd, s) == s.ip = kd.ip /\ (kd.req # Announce => s.scope = kd.scope)

FlowsInv ==
  /\ flows = [f \in DOMAIN flows |-> flows[f]]
  /\ DOMAIN flows \subseteq FlowIds
  /\ \A f \in DOMAIN flows :
       /\ flows[f] \in FlowRec /\ flows[f].indx \in DOMAIN servers
       /\ ~flows[f].moved => /\ InUse(flows[f].indx)
                             /\ Addressed(flows[f].kd, servers[flows[f].indx])
  /\ ~(iter.on /\ iter.all) => Family

(* The chains hold the flows of their bucket, in the order in which they    *)
(* were added.                                                              *)
TableInv ==
  /\ chain \in [Buckets -> Seq(FlowIds)]
  /\ order \in Seq(FlowIds) /\ Injective(order) /\ Elems(order) = DOMAIN flows
  /\ \A b \in Buckets :
       /\ Ordered(chain[b], order, Len(order))
       /\ Elems(chain[b]) = {f \in DOMAIN flows : Bucket(f) = b}
  /\ flow_cnt = Cardinality(DOMAIN flows)

(* What the walk has still to come to is the flow it holds, the one it will *)
(* go on with, or behind that; what it has been at lies before the flow it  *)
(* holds. Without close_flows nothing is added to what delete_flow_iter     *)
(* takes.                                                                   *)
IterInv ==
  /\ iter \in IterRec
  /\ iter.on => nl.at = "ready"
  /\ ~iter.on => iter = NoIter
  /\ iter.fdb # NULL => iter.fdb \in DOMAIN flows /\ Bucket(iter.fdb) = iter.indx
  /\ iter.next # NULL => /\ iter.next \in DOMAIN flows /\ Bucket(iter.next) = iter.indx
                         /\ iter.fdb # NULL /\ Before(order, iter.fdb, iter.next)
  /\ \A f \in iter.left :
       /\ f \in DOMAIN flows /\ Bucket(f) >= iter.indx
       /\ Bucket(f) = iter.indx /\ iter.fdb # NULL /\ f # iter.fdb =>
            iter.next # NULL /\ ~Before(order, f, iter.next)
  /\ \A f \in iter.seen :
       /\ f \in DOMAIN flows
       /\ \/ Bucket(f) < iter.indx
          \/ Bucket(f) = iter.indx /\ iter.fdb # NULL /\ Before(order, f, iter.fdb)
  /\ iter.all => iter.seen = {}
  /\ iter.on /\ iter.all /\ ~iter.close => DOMAIN flows \subseteq iter.left

ContextInv == ServersInv /\ FlowsInv /\ TableInv /\ IterInv

-----------------------------------------------------------------------------
(* The server array. *)

LEMMA FirstIndex ==
  ASSUME NEW n \in Nat, NEW s \in SUBSET (1 .. n), s # {}
  PROVE  (CHOOSE i \in s : \A j \in s : i <= j) \in s
         /\ \A j \in s : (CHOOSE i \in s : \A l \in s : i <= l) <= j
BY LeastPosition

LEMMA ScopeFacts ==
  ASSUME NEW ip \in Ips, NEW scope \in Scopes
  PROVE  ScopeOf(ip, scope) \in Scopes
         /\ ScopeOf(ip, ScopeOf(ip, scope)) = ScopeOf(ip, scope)
BY DiscoveryAssumption DEF ScopeOf

(* servers, or a longer array with it at its beginning. *)
Extension(arr) ==
  /\ arr \in Seq(SlotRec) /\ Len(servers) <= Len(arr) /\ Len(arr) <= MaxServers
  /\ \A i \in DOMAIN servers : arr[i] = servers[i]
  /\ \A i \in DOMAIN arr : i \notin DOMAIN servers => arr[i].state = "pss_unitialized"

LEMMA SlotRecs ==
  /\ Unused \in SlotRec
  /\ \A ip \in Ips, scope \in Scopes :
       \A state \in {"pss_unitialized", "pss_allocated", "pss_ping", "pss_not_working"} :
         Slot(state, ip, scope) \in SlotRec
<1>1. Unused \in SlotRec
  BY DiscoveryAssumption DEF Unused, SlotRec
<1> QED BY <1>1, ScopeFacts DEF Slot, SlotRec

LEMMA ServersExtend == ServersInv => Extension(servers)
BY DEF ServersInv, Extension

LEMMA RoomFacts ==
  ASSUME ServersInv
  PROVE  /\ Extension(Room)
         /\ NewSlot # NULL => /\ NewSlot \in DOMAIN Room
                              /\ Room[NewSlot].state = "pss_unitialized"
                              /\ ~InUse(NewSlot)
<1> DEFINE n == Len(servers)
<1>0. servers \in Seq(SlotRec) /\ n \in Nat /\ DOMAIN servers = 1 .. n /\ n <= MaxServers
      /\ MaxServers \in Nat /\ PCP_INIT_SERVER_COUNT \in Nat
      /\ PCP_INIT_SERVER_COUNT <= MaxServers
  BY DiscoveryAssumption DEF ServersInv
<1>1. Extension(Room)
  <2>1. CASE Room = servers
    BY <2>1, ServersExtend
  <2>2. CASE servers = <<>> /\ Room = [i \in 1 .. PCP_INIT_SERVER_COUNT |-> Unused]
    <3> DEFINE r == [i \in 1 .. PCP_INIT_SERVER_COUNT |-> Unused]
    <3>1. r \in Seq(SlotRec) /\ Len(r) = PCP_INIT_SERVER_COUNT
          /\ DOMAIN r = 1 .. PCP_INIT_SERVER_COUNT
      BY <1>0, SlotRecs
    <3>2. n = 0 /\ DOMAIN servers = {}
      BY <2>2
    <3>3. \A i \in DOMAIN r : r[i].state = "pss_unitialized"
      BY DEF Unused
    <3> HIDE DEF r
    <3>4. Extension(r)
      BY <1>0, <3>1, <3>2, <3>3 DEF Extension
    <3> QED BY <2>2, <3>4 DEF r
  <2>3. CASE Room = Grown(servers) /\ 2 * n <= MaxServers
    <3> DEFINE e == [i \in 1 .. n |-> Unused]
               r == servers \o e
    <3>1. e \in Seq(SlotRec) /\ Len(e) = n
      BY <1>0, SlotRecs
    <3>2. /\ r \in Seq(SlotRec) /\ Len(r) = n + n /\ DOMAIN r = 1 .. (n + n)
          /\ (\A i \in 1 .. n : r[i] = servers[i])
          /\ \A i \in 1 .. (n + n) : i \notin 1 .. n => r[i] = e[i - n]
      BY <1>0, <3>1
    <3>3. \A i \in 1 .. (n + n) : i \notin 1 .. n => i - n \in 1 .. n
      BY <1>0
    <3>4. \A i \in 1 .. n : e[i].state = "pss_unitialized"
      BY DEF Unused
    <3> HIDE DEF e, r, n
    <3>5. \A i \in DOMAIN r : i \notin DOMAIN servers => r[i].state = "pss_unitialized"
      BY <1>0, <3>2, <3>3, <3>4
    <3>6. Len(servers) <= Len(r) /\ Len(r) <= MaxServers
      BY <1>0, <2>3, <3>2 DEF n
    <3>7. Extension(r)
      BY <1>0, <3>2, <3>5, <3>6 DEF Extension
    <3> QED BY <2>3, <3>7 DEF Grown, r, e, n
  <2> QED BY <2>1, <2>2, <2>3 DEF Room
<1>2. ASSUME NewSlot # NULL
      PROVE  NewSlot \in DOMAIN Room /\ Room[NewSlot].state = "pss_unitialized"
  <2> DEFINE free == {i \in DOMAIN Room : Room[i].state = "pss_unitialized"}
  <2>1. NewSlot = CHOOSE i \in free : \A j \in free : i <= j
    BY <1>2, Zenon DEF NewSlot
  <2>2. free # {}
    BY <1>2, Zenon DEF NewSlot
  <2>3. Len(Room) \in Nat /\ DOMAIN Room = 1 .. Len(Room)
    BY <1>1 DEF Extension
  <2>4. (CHOOSE i \in free : \A j \in free : i <= j) \in free
    <3>1. free \in SUBSET (1 .. Len(Room))
      BY <2>3
    <3>2. ASSUME NEW m \in Nat, NEW s \in SUBSET (1 .. m), s # {}
          PROVE  (CHOOSE i \in s : \A j \in s : i <= j) \in s
      BY <3>2, FirstIndex
    <3> HIDE DEF free
    <3> QED BY <2>2, <2>3, <3>1, <3>2, Zenon
  <2>5. NewSlot \in free
    BY <2>1, <2>4, Zenon
  <2> QED BY <2>5
<1>3. NewSlot # NULL => ~InUse(NewSlot)
  BY <1>1, <1>2 DEF Extension, InUse
<1> QED BY <1>1, <1>2, <1>3

LEMMA LookupFacts ==
  ASSUME ServersInv, NEW ip, NEW scope
  PROVE  LET i == get_pcp_server_by_ip(ip, scope)
         IN  /\ i # NULL => /\ i \in DOMAIN servers /\ InUse(i) /\ servers[i].ip = ip
                            /\ servers[i].scope = ScopeOf(ip, scope)
             /\ i = NULL => \A j \in DOMAIN servers :
                              ~(/\ InUse(j) /\ servers[j].ip = ip
                                /\ servers[j].scope = ScopeOf(ip, scope))
<1> DEFINE found == {i \in DOMAIN servers :
                       /\ InUse(i) /\ servers[i].ip = ip
                       /\ servers[i].scope = ScopeOf(ip, scope)}
           i == get_pcp_server_by_ip(ip, scope)
<1>1. i = IF found = {} THEN NULL ELSE CHOOSE k \in found : \A j \in found : k <= j
  BY Zenon DEF get_pcp_server_by_ip
<1>2. Len(servers) \in Nat /\ DOMAIN servers = 1 .. Len(servers)
  BY DEF ServersInv
<1>3. found # {} => (CHOOSE k \in found : \A j \in found : k <= j) \in found
  <2>1. found \in SUBSET (1 .. Len(servers))
    BY <1>2
  <2>2. ASSUME NEW m \in Nat, NEW s \in SUBSET (1 .. m), s # {}
        PROVE  (CHOOSE k \in s : \A j \in s : k <= j) \in s
    BY <2>2, FirstIndex
  <2> HIDE DEF found
  <2> QED BY <1>2, <2>1, <2>2, Zenon
<1>4. found # {} => i \in found
  BY <1>1, <1>3, Zenon
<1>5. found # {} => i # NULL
  BY <1>2, <1>4 DEF NULL
<1>6. found = {} => i = NULL
  BY <1>1, Zenon
<1> HIDE DEF i
<1>7. /\ i # NULL => /\ i \in DOMAIN servers /\ InUse(i) /\ servers[i].ip = ip
                     /\ servers[i].scope = ScopeOf(ip, scope)
      /\ i = NULL => \A j \in DOMAIN servers :
                       ~(/\ InUse(j) /\ servers[j].ip = ip
                         /\ servers[j].scope = ScopeOf(ip, scope))
  BY <1>4, <1>5, <1>6
<1> QED BY <1>7 DEF i

(* A slot may be given to a server that is not there yet. *)
Fits(i, slot) ==
  slot.state # "pss_unitialized" =>
    /\ slot.scope = ScopeOf(slot.ip, slot.scope)
    /\ \A j \in DOMAIN servers :
         InUse(j) /\ servers[j].ip = slot.ip /\ servers[j].scope = slot.scope => j = i

LEMMA SlotSet ==
  ASSUME ServersInv, NEW arr, Extension(arr), NEW i \in DOMAIN arr,
         NEW slot \in SlotRec, Fits(i, slot), nl' \in NlRec,
         servers' = [arr EXCEPT ![i] = slot]
  PROVE  /\ ServersInv' /\ DOMAIN servers \subseteq DOMAIN servers'
         /\ i \in DOMAIN servers' /\ servers'[i] = slot
         /\ \A j \in DOMAIN servers : j # i => servers'[j] = servers[j]
<1>1. /\ arr \in Seq(SlotRec) /\ DOMAIN arr = 1 .. Len(arr) /\ Len(arr) \in Nat
      /\ DOMAIN servers = 1 .. Len(servers) /\ Len(servers) \in Nat
      /\ Len(servers) <= Len(arr) /\ Len(arr) <= MaxServers
  BY DEF ServersInv, Extension
<1>2. /\ servers' \in Seq(SlotRec) /\ Len(servers') = Len(arr)
      /\ DOMAIN servers' = DOMAIN arr /\ servers'[i] = slot
      /\ \A j \in DOMAIN arr : j # i => servers'[j] = arr[j]
  BY <1>1
<1>3. DOMAIN servers \subseteq DOMAIN servers'
  BY <1>1, <1>2
<1>4. \A j \in DOMAIN servers : j # i => servers'[j] = servers[j]
  BY <1>1, <1>2, <1>3 DEF Extension
<1>5. \A j \in DOMAIN servers' :
        j # i /\ servers'[j].state # "pss_unitialized" => j \in DOMAIN servers /\ InUse(j)
  BY <1>2, <1>4 DEF Extension, InUse
<1>6. ASSUME NEW j \in DOMAIN servers', servers'[j].state # "pss_unitialized"
      PROVE  servers'[j].scope = ScopeOf(servers'[j].ip, servers'[j].scope)
  BY <1>2, <1>4, <1>5, <1>6 DEF ServersInv, Fits
<1>7. ASSUME NEW j \in DOMAIN servers', servers'[j].state # "pss_unitialized",
             NEW k \in DOMAIN servers', servers'[k].state # "pss_unitialized",
             servers'[k].ip = servers'[j].ip, servers'[k].scope = servers'[j].scope
      PROVE  j = k
  <2>1. CASE j = i /\ k = i
    BY <2>1
  <2>2. CASE j = i /\ k # i
    BY <1>2, <1>4, <1>5, <1>7, <2>2 DEF Fits
  <2>3. CASE j # i /\ k = i
    BY <1>2, <1>4, <1>5, <1>7, <2>3 DEF Fits
  <2>4. CASE j # i /\ k # i
    BY <1>4, <1>5, <1>7, <2>4 DEF ServersInv
  <2> QED BY <2>1, <2>2, <2>3, <2>4
<1>8. ServersInv'
  BY <1>1, <1>2, <1>6, <1>7 DEF ServersInv, InUse
<1> QED BY <1>2, <1>3, <1>4, <1>8

-----------------------------------------------------------------------------
(* The lookup. *)

GatewayRec == [ip : Ips, scope : Scopes]

SizeStep(g, msgs, t) == IF t = {} THEN 0 ELSE g[t \ {Max(t)}] + msgs[Max(t)].size

LEMMA SizeSteps ==
  ASSUME NEW msgs \in Seq(NlMsgRec)
  PROVE  \E F : /\ F \in [0 .. Len(msgs) -> Nat] /\ F[0] = 0
                /\ SizeOf(msgs) = F[Len(msgs)]
                /\ \A i \in 1 .. Len(msgs) : F[i] = F[i - 1] + msgs[i].size
<1> DEFINE n == Len(msgs)
           P == 1 .. n
           step == [ic \in P \X Nat |-> ic[2] + msgs[ic[1]].size]
           It(g) == g = [t \in SUBSET P |-> SizeStep(g, msgs, t)]
           f == CHOOSE g : It(g)
<1>0. n \in Nat /\ DOMAIN msgs = P /\ \A j \in P : msgs[j].size \in Nat
  <2>1. n \in Nat /\ DOMAIN msgs = P /\ \A j \in P : msgs[j] \in NlMsgRec
    OBVIOUS
  <2>2. \A m \in NlMsgRec : m.size \in Nat
    BY DEF NlMsgRec
  <2> HIDE DEF n
  <2> QED BY <2>1, <2>2
<1>1. SizeOf(msgs) = f[P]
  BY <1>0, Zenon DEF SizeOf, FoldLeft, MapThenFoldSet, SizeStep
<1> HIDE DEF n
<1>2. step \in [P \X Nat -> Nat]
  BY <1>0
<1>3. \A i \in P : \A m \in Nat : step[<<i, m>>] = m + msgs[i].size
  OBVIOUS
<1> HIDE DEF step
<1>4. PICK g : Folds(g, n, Nat, 0, step)
  BY <1>0, <1>2, FoldsExists
<1>5. It(g)
  BY <1>3, <1>4 DEF Folds, SizeStep
<1>6. It(f)
  BY <1>5, Zenon
<1> HIDE DEF f
<1>8. Unfolds(f, n, Nat, 0, step)
  BY <1>3, <1>6 DEF SizeStep, Unfolds
<1>9. PICK F : Steps(F, n, Nat, 0, step) /\ F[n] = f[1 .. n]
  <2>1. 0 \in Nat
    OBVIOUS
  <2>2. PrefixValues(f, n, Nat, 0, step)
    BY <1>0, <1>2, <1>8, <2>1, FoldPrefixes
  <2> QED BY <2>2 DEF PrefixValues
<1>10. \A i \in P : F[i] = F[i - 1] + msgs[i].size
  <2>1. \A i \in P : i - 1 \in 0 .. n
    BY <1>0
  <2> QED BY <1>3, <1>9, <2>1 DEF Steps
<1> QED BY <1>1, <1>9, <1>10 DEF n, Steps

(* Only messages that tell a gateway count. *)
TellsGateway(m) == m.main /\ m.gw # NoGateway

Gather(gws, m) == IF m.main /\ m.gw # NoGateway
                  THEN Append(gws, [ip |-> m.gw, scope |-> m.oif]) ELSE gws

GatherStep(g, msgs, t) ==
  IF t = {} THEN <<>> ELSE Gather(g[t \ {Max(t)}], msgs[Max(t)])

LEMMA GatewaySteps ==
  ASSUME NEW msgs \in Seq(NlMsgRec)
  PROVE  \E F : /\ F \in [0 .. Len(msgs) -> Seq(GatewayRec)] /\ F[0] = <<>>
                /\ Gateways(msgs) = F[Len(msgs)]
                /\ \A i \in 1 .. Len(msgs) : F[i] = Gather(F[i - 1], msgs[i])
<1> DEFINE n == Len(msgs)
           P == 1 .. n
           C == Seq(GatewayRec)
           step == [ic \in P \X C |-> Gather(ic[2], msgs[ic[1]])]
           It(g) == g = [t \in SUBSET P |-> GatherStep(g, msgs, t)]
           f == CHOOSE g : It(g)
<1>0. n \in Nat /\ DOMAIN msgs = P /\ \A j \in P : msgs[j] \in NlMsgRec
  OBVIOUS
<1>1. Gateways(msgs) = f[P]
  BY <1>0, Zenon DEF Gateways, FoldLeft, MapThenFoldSet, GatherStep, Gather
<1> HIDE DEF n
<1>2. step \in [P \X C -> C]
  <2>1. ASSUME NEW c \in C, NEW j \in P
        PROVE  Gather(c, msgs[j]) \in C
    <3>1. CASE TellsGateway(msgs[j])
      <4>1. [ip |-> msgs[j].gw, scope |-> msgs[j].oif] \in GatewayRec
        BY <1>0, <3>1 DEF NlMsgRec, GatewayRec, TellsGateway
      <4> QED BY <3>1, <4>1, AppendFacts DEF Gather, TellsGateway
    <3>2. CASE ~TellsGateway(msgs[j])
      BY <3>2 DEF Gather, TellsGateway
    <3> QED BY <3>1, <3>2
  <2> QED BY <2>1
<1>3. \A i \in P : \A m \in C : step[<<i, m>>] = Gather(m, msgs[i])
  OBVIOUS
<1> HIDE DEF step
<1>4. PICK g : Folds(g, n, C, <<>>, step)
  <2>1. <<>> \in C
    OBVIOUS
  <2> QED BY <1>0, <1>2, <2>1, FoldsExists
<1> HIDE DEF C
<1>5. It(g)
  BY <1>3, <1>4 DEF Folds, GatherStep
<1>6. It(f)
  BY <1>5, Zenon
<1> HIDE DEF f
<1>8. Unfolds(f, n, C, <<>>, step)
  BY <1>3, <1>6 DEF GatherStep, Unfolds
<1>9. PICK F : Steps(F, n, C, <<>>, step) /\ F[n] = f[1 .. n]
  <2>1. <<>> \in C
    BY DEF C
  <2>2. PrefixValues(f, n, C, <<>>, step)
    BY <1>0, <1>2, <1>8, <2>1, FoldPrefixes
  <2> QED BY <2>2 DEF PrefixValues
<1>10. \A i \in P : F[i] = Gather(F[i - 1], msgs[i])
  <2>1. \A i \in P : i - 1 \in 0 .. n
    BY <1>0
  <2> QED BY <1>3, <1>9, <2>1 DEF Steps
<1> QED BY <1>1, <1>9, <1>10 DEF n, Steps, C

LEMMA GatewaysTyped ==
  ASSUME NEW msgs \in Seq(NlMsgRec)
  PROVE  Gateways(msgs) \in Seq(GatewayRec)
<1>1. PICK F : F \in [0 .. Len(msgs) -> Seq(GatewayRec)] /\ Gateways(msgs) = F[Len(msgs)]
  BY GatewaySteps
<1>2. Len(msgs) \in 0 .. Len(msgs)
  OBVIOUS
<1> QED BY <1>1, <1>2

LEMMA SizeTyped ==
  ASSUME NEW msgs \in Seq(NlMsgRec)
  PROVE  /\ SizeOf(msgs) \in Nat
         /\ Len(msgs) = 0 => SizeOf(msgs) = 0
         /\ Len(msgs) = 1 => SizeOf(msgs) = msgs[1].size
<1>1. PICK F : /\ F \in [0 .. Len(msgs) -> Nat] /\ F[0] = 0
               /\ SizeOf(msgs) = F[Len(msgs)]
               /\ \A i \in 1 .. Len(msgs) : F[i] = F[i - 1] + msgs[i].size
  BY SizeSteps
<1>2. Len(msgs) \in 0 .. Len(msgs)
  OBVIOUS
<1>3. Len(msgs) = 1 => F[1] = F[1 - 1] + msgs[1].size /\ 1 - 1 = 0 /\ msgs[1].size \in Nat
  BY <1>1, SMTT(30) DEF NlMsgRec
<1> QED BY <1>1, <1>2, <1>3

(* Whole is a first part, and all of a datagram that is read to its end. *)
LEMMA WholeFacts ==
  ASSUME NEW msgs \in Seq(NlMsgRec), NEW n \in Nat
  PROVE  Whole(msgs, n) \in Seq(NlMsgRec) /\ (SizeOf(msgs) <= n => Whole(msgs, n) = msgs)
<1> DEFINE fit == {k \in 0 .. Len(msgs) : SizeOf(SubSeq(msgs, 1, k)) <= n}
           k == CHOOSE i \in fit : \A j \in fit : j <= i
<1>1. Len(msgs) \in Nat
  OBVIOUS
<1>2. 0 \in fit
  <2>1. SubSeq(msgs, 1, 0) \in Seq(NlMsgRec) /\ Len(SubSeq(msgs, 1, 0)) = 0
    OBVIOUS
  <2>2. SizeOf(SubSeq(msgs, 1, 0)) = 0
    BY <2>1, SizeTyped
  <2> QED BY <1>1, <2>2
<1>3. SizeOf(msgs) <= n => Len(msgs) \in fit
  <2>1. SubSeq(msgs, 1, Len(msgs)) = msgs
    OBVIOUS
  <2>2. SizeOf(SubSeq(msgs, 1, Len(msgs))) = SizeOf(msgs)
    BY <2>1, Zenon
  <2>3. Len(msgs) \in 0 .. Len(msgs)
    OBVIOUS
  <2> QED BY <2>2, <2>3
<1>4. fit \subseteq 0 .. Len(msgs)
  OBVIOUS
<1>5. Whole(msgs, n) = SubSeq(msgs, 1, k)
  BY Zenon DEF Whole
<1> HIDE DEF fit
<1>6. \E i \in fit : \A j \in fit : j <= i
  <2> DEFINE s == fit \ {0}
  <2>1. CASE s = {}
    BY <1>2, <1>4, <2>1
  <2>2. CASE s # {}
    <3>1. s \in SUBSET (1 .. Len(msgs))
      BY <1>4
    <3>2. PICK i \in s : \A j \in s : i >= j
      BY <1>1, <2>2, <3>1, MaxOfPositions
    <3>3. \A j \in fit : j <= i
      BY <1>4, <3>1, <3>2
    <3> QED BY <3>2, <3>3
  <2> QED BY <2>1, <2>2
<1>7. k \in fit /\ \A j \in fit : j <= k
  BY <1>6
<1> HIDE DEF k
<1>8. SizeOf(msgs) <= n => k = Len(msgs)
  BY <1>1, <1>3, <1>4, <1>7
<1>9. SubSeq(msgs, 1, k) \in Seq(NlMsgRec)
  BY <1>4, <1>7
<1>10. SubSeq(msgs, 1, Len(msgs)) = msgs
  OBVIOUS
<1> QED BY <1>5, <1>8, <1>9, <1>10

-----------------------------------------------------------------------------
(* The servers that a flow is sent to are in use. *)
Attach(on, i, src) == IF Suits(i, src) THEN Append(on, i) ELSE on

SuitStep(g, src, t) ==
  IF t = {} THEN <<>> ELSE Attach(g[t \ {Max(t)}], LastIndex(servers, t), src)

LEMMA SuitableTyped ==
  ASSUME NEW S, servers \in Seq(S), NEW src
  PROVE  Suitable(src) \in Seq({i \in DOMAIN servers : InUse(i)})
<1> DEFINE n == Len(servers)
           P == 1 .. n
           D == {i \in DOMAIN servers : InUse(i)}
           C == Seq(D)
           step == [ic \in P \X C |-> Attach(ic[2], ic[1], src)]
           Q == DOMAIN [k \in DOMAIN servers |-> k]
           It(g) == g = [t \in SUBSET Q |-> SuitStep(g, src, t)]
           f == CHOOSE g : It(g)
<1>0. n \in Nat /\ DOMAIN servers = P
  OBVIOUS
<1>1. Suitable(src) = f[Q]
  BY Zenon DEF Suitable, FoldLeftDomain, FoldLeft, MapThenFoldSet, SuitStep, Attach,
               LastIndex
<1> HIDE DEF n
<1>a. Q = P /\ \A t \in SUBSET P : Max(t) \in P => LastIndex(servers, t) = Max(t)
  BY <1>0 DEF LastIndex
<1> HIDE DEF Q
<1>2. step \in [P \X C -> C]
  <2>1. ASSUME NEW c \in C, NEW j \in P
        PROVE  Attach(c, j, src) \in C
    <3>1. CASE Suits(j, src)
      <4>1. j \in D
        BY <1>0, <3>1 DEF Suits
      <4> HIDE DEF D
      <4> QED BY <3>1, <4>1, AppendFacts DEF Attach
    <3>2. CASE ~Suits(j, src)
      BY <3>2 DEF Attach
    <3> QED BY <3>1, <3>2
  <2> QED BY <2>1
<1>3. \A i \in P : \A m \in C : step[<<i, m>>] = Attach(m, i, src)
  OBVIOUS
<1>b. <<>> \in C
  OBVIOUS
<1> HIDE DEF step, C
<1>4. PICK g : Folds(g, n, C, <<>>, step)
  BY <1>0, <1>2, <1>b, FoldsExists
<1>c. \A t \in SUBSET P : g[t] = SuitStep(g, src, t)
  BY <1>3, <1>4, <1>a DEF Folds, SuitStep
<1>5. It(g)
  BY <1>4, <1>a, <1>c DEF Folds
<1>6. It(f)
  BY <1>5, Zenon
<1> HIDE DEF f
<1>7. Unfolds(f, n, C, <<>>, step)
  <2>1. \A t \in SUBSET P : f[t] = SuitStep(f, src, t)
    BY <1>6, <1>a
  <2>2. {} \in SUBSET P
    OBVIOUS
  <2> QED BY <1>3, <1>a, <2>1, <2>2 DEF SuitStep, Unfolds
<1>8. PrefixValues(f, n, C, <<>>, step)
  BY <1>0, <1>2, <1>7, <1>b, FoldPrefixes
<1>9. PICK F : Steps(F, n, C, <<>>, step) /\ F[n] = f[P]
  BY <1>8 DEF PrefixValues
<1>10. F[n] \in C
  BY <1>0, <1>9 DEF Steps
<1> QED BY <1>1, <1>9, <1>10, <1>a DEF C

-----------------------------------------------------------------------------
(* The steps of the lookup and the server array. *)

LEMMA NlFields ==
  ASSUME NEW n \in NlRec
  PROVE  /\ n.dump \in Seq(Seq(NlMsgRec)) /\ n.unread \in Seq(Seq(NlMsgRec) \ {<<>>})
         /\ n.len \in 0 .. BUFSIZE /\ n.buf \in Seq(NlMsgRec)
         /\ n.gws \in Seq(GatewayRec) /\ n.used \in Nat
BY DEF NlRec, GatewayRec

LEMMA NoLookupTyped == NoLookup \in NlRec /\ [NoLookup EXCEPT !.at = "ready"] \in NlRec
<1>1. 0 \in 0 .. BUFSIZE /\ 0 \in Nat
  BY GatewayAssumption
<1>2. /\ <<>> \in Seq(Seq(NlMsgRec)) /\ <<>> \in Seq(Seq(NlMsgRec) \ {<<>>})
      /\ <<>> \in Seq(NlMsgRec) /\ <<>> \in Seq([ip : Ips, scope : Scopes])
  OBVIOUS
<1> QED BY <1>1, <1>2 DEF NoLookup, NlRec

LEMMA LookupTyped ==
  ASSUME nl \in NlRec, Lookup
  PROVE  nl' \in NlRec
<1>1. CASE getgateways
  <2>1. ASSUME NEW d \in Dumps
        PROVE  [NoLookup EXCEPT !.at = "recv", !.dump = d, !.unread = d] \in NlRec
    <3>1. d \in Seq(Seq(NlMsgRec) \ {<<>>}) /\ d \in Seq(Seq(NlMsgRec))
      BY DumpAssumption
    <3> QED BY <3>1, NoLookupTyped DEF NoLookup, NlRec
  <2>2. [nl EXCEPT !.at = "failed"] \in NlRec
    BY DEF NlRec
  <2> QED BY <1>1, <2>1, <2>2 DEF getgateways
<1>2. CASE readNlSock
  <2>1. [nl EXCEPT !.at = "failed"] \in NlRec
    BY DEF NlRec
  <2>2. ASSUME nl.unread # <<>>
        PROVE  LET d    == Head(nl.unread)
                   room == BUFSIZE - nl.len
                   read == IF SizeOf(d) < room THEN SizeOf(d) ELSE room
                   n    == [nl EXCEPT !.unread = Tail(@)]
               IN  /\ n \in NlRec /\ [n EXCEPT !.at = "failed"] \in NlRec
                   /\ [n EXCEPT !.at = "parse"] \in NlRec
                   /\ [n EXCEPT !.buf = @ \o Whole(d, read), !.len = @ + read,
                                !.at = IF d[1].multi THEN "recv" ELSE "parse"]
                        \in NlRec
    <3> DEFINE d    == Head(nl.unread)
               room == BUFSIZE - nl.len
               read == IF SizeOf(d) < room THEN SizeOf(d) ELSE room
               n    == [nl EXCEPT !.unread = Tail(@)]
               w    == Whole(d, read)
               b    == n.buf \o w
               m    == [n EXCEPT !.buf = @ \o w, !.len = @ + read,
                                 !.at = IF d[1].multi THEN "recv" ELSE "parse"]
    <3>1. d \in Seq(NlMsgRec) /\ Tail(nl.unread) \in Seq(Seq(NlMsgRec) \ {<<>>})
      <4>1. nl.unread \in Seq(Seq(NlMsgRec) \ {<<>>})
        BY NlFields
      <4> QED BY <2>2, <4>1
    <3>2. n \in NlRec
      BY <3>1 DEF NlRec
    <3>3. SizeOf(d) \in Nat /\ nl.len \in 0 .. BUFSIZE /\ BUFSIZE \in Nat
      BY <3>1, SizeTyped, NlFields, GatewayAssumption
    <3>4. room \in Nat /\ room + nl.len = BUFSIZE
      BY <3>3
    <3> HIDE DEF d, room
    <3>5. read \in Nat /\ read + nl.len <= BUFSIZE
      BY <3>3, <3>4
    <3>6. n.buf = nl.buf /\ n.len = nl.len
      BY DEF NlRec
    <3> HIDE DEF read, n
    <3>7. w \in Seq(NlMsgRec)
      BY <3>1, <3>5, WholeFacts
    <3> HIDE DEF w
    <3>8. b \in Seq(NlMsgRec)
      BY <3>2, <3>7, NlFields, ConcatFacts
    <3>9. n.len + read \in 0 .. BUFSIZE
      BY <3>3, <3>5, <3>6
    <3> HIDE DEF b
    <3>10. m = [n EXCEPT !.buf = b, !.len = n.len + read,
                         !.at = IF d[1].multi THEN "recv" ELSE "parse"]
      BY <3>2 DEF b, NlRec
    <3>11. m \in NlRec
      BY <3>2, <3>8, <3>9, <3>10 DEF NlRec
    <3>12. [n EXCEPT !.at = "failed"] \in NlRec /\ [n EXCEPT !.at = "parse"] \in NlRec
      BY <3>2 DEF NlRec
    <3> QED BY <3>2, <3>11, <3>12, Zenon DEF m, n, d, read, room, w
  <2> QED BY <1>2, <2>1, <2>2 DEF readNlSock
<1>3. CASE parse_gateways
  <2> DEFINE g == Gateways(nl.buf)
  <2>1. g \in Seq([ip : Ips, scope : Scopes])
    BY NlFields, GatewaysTyped DEF GatewayRec
  <2>2. nl' = [nl EXCEPT !.at = "found", !.gws = g]
    BY <1>3 DEF parse_gateways
  <2> HIDE DEF g
  <2> QED BY <2>1, <2>2 DEF NlRec
<1> QED BY <1>1, <1>2, <1>3 DEF Lookup

(* No server leaves its index; only the slot i may be emptied. *)
StayBut(i) ==
  /\ DOMAIN servers \subseteq DOMAIN servers'
  /\ \A j \in DOMAIN servers : InUse(j) =>
       IF servers'[j].state = "pss_unitialized" THEN j = i
       ELSE servers'[j].ip = servers[j].ip /\ servers'[j].scope = servers[j].scope

LEMMA SlotStates ==
  ASSUME NEW state, NEW ip, NEW scope
  PROVE  /\ Slot(state, ip, scope).state = state
         /\ state # "pss_unitialized" =>
              /\ Slot(state, ip, scope).ip = ip
              /\ Slot(state, ip, scope).scope = ScopeOf(ip, scope)
BY DEF Slot, Unused

(* A new server, in an unused slot. *)
LEMMA NewServer ==
  ASSUME ServersInv, nl' \in NlRec, NEW ip \in Ips, NEW scope \in Scopes, NewSlot # NULL,
         get_pcp_server_by_ip(ip, scope) = NULL,
         NEW state \in {"pss_unitialized", "pss_allocated", "pss_ping"},
         servers' = [Room EXCEPT ![NewSlot] = Slot(state, ip, scope)]
  PROVE  ServersInv' /\ StayBut(NULL)
<1> DEFINE i == NewSlot
           slot == Slot(state, ip, scope)
<1>1. Extension(Room) /\ i \in DOMAIN Room /\ ~InUse(i)
  BY RoomFacts
<1>2. slot \in SlotRec
  BY SlotRecs
<1>3. Fits(i, slot)
  <2>1. \A j \in DOMAIN servers : ~(/\ InUse(j) /\ servers[j].ip = ip
                                    /\ servers[j].scope = ScopeOf(ip, scope))
    BY LookupFacts
  <2>2. ScopeOf(ip, ScopeOf(ip, scope)) = ScopeOf(ip, scope)
    BY ScopeFacts
  <2> QED BY <2>1, <2>2, SlotStates DEF Fits
<1> HIDE DEF i, slot
<1>4. servers' = [Room EXCEPT ![i] = slot]
  BY DEF i, slot
<1>5. /\ ServersInv' /\ DOMAIN servers \subseteq DOMAIN servers'
      /\ \A j \in DOMAIN servers : j # i => servers'[j] = servers[j]
  <2>1. ASSUME NEW arr, Extension(arr), NEW k \in DOMAIN arr, Fits(k, slot),
               servers' = [arr EXCEPT ![k] = slot]
        PROVE  /\ ServersInv' /\ DOMAIN servers \subseteq DOMAIN servers'
               /\ \A j \in DOMAIN servers : j # k => servers'[j] = servers[j]
    BY <1>2, <2>1, SlotSet, ZenonT(30)
  <2> QED BY <1>1, <1>3, <1>4, <2>1, Zenon
<1> QED BY <1>1, <1>5 DEF StayBut, InUse

LEMMA AddGatewayStep ==
  ASSUME ServersInv, psd_add_gw
  PROVE  ServersInv' /\ StayBut(NULL)
<1> DEFINE gw == nl.gws[nl.used + 1]
<1>1. nl' \in NlRec
  <2>1. nl.used + 1 \in Nat
    BY NlFields DEF ServersInv
  <2> QED BY <2>1 DEF psd_add_gw, ServersInv, NlRec
<1>2. gw \in GatewayRec
  <2>1. nl.gws \in Seq(GatewayRec) /\ nl.used \in Nat
    BY NlFields DEF ServersInv
  <2>2. nl.used + 1 \in 1 .. Len(nl.gws)
    BY <2>1 DEF psd_add_gw
  <2> QED BY <2>1, <2>2
<1>3. gw.ip \in Ips /\ gw.scope \in Scopes
  BY <1>2 DEF GatewayRec
<1>4. CASE UNCHANGED servers
  BY <1>1, <1>4 DEF ServersInv, StayBut, InUse
<1>5. CASE /\ NewSlot # NULL /\ get_pcp_server_by_ip(gw.ip, gw.scope) = NULL
           /\ \E routed \in BOOLEAN :
                servers' = [Room EXCEPT ![NewSlot] =
                  Slot(IF routed THEN "pss_ping" ELSE "pss_allocated", gw.ip, gw.scope)]
  <2> DEFINE ip == gw.ip
             scope == gw.scope
  <2>1. PICK state \in {"pss_unitialized", "pss_allocated", "pss_ping"} :
          servers' = [Room EXCEPT ![NewSlot] = Slot(state, ip, scope)]
    BY <1>5
  <2> HIDE DEF gw, ip, scope
  <2>2. NewSlot # NULL /\ get_pcp_server_by_ip(ip, scope) = NULL
        /\ ip \in Ips /\ scope \in Scopes
    BY <1>3, <1>5 DEF ip, scope
  <2> QED BY <1>1, <2>1, <2>2, NewServer
<1>6. \A ip, scope : Routed(ip, scope) \subseteq BOOLEAN
  BY DEF Routed
<1>7. \/ UNCHANGED servers
      \/ /\ NewSlot # NULL /\ get_pcp_server_by_ip(gw.ip, gw.scope) = NULL
         /\ \E routed \in Routed(gw.ip, gw.scope) :
                servers' = [Room EXCEPT ![NewSlot] =
                  Slot(IF routed THEN "pss_ping" ELSE "pss_allocated", gw.ip, gw.scope)]
  BY Zenon DEF psd_add_gw
<1> QED BY <1>4, <1>5, <1>6, <1>7, Zenon

LEMMA AddServerStep ==
  ASSUME ServersInv, NEW ip \in Ips, NEW scope \in Scopes, psd_add_pcp_server(ip, scope)
  PROVE  ServersInv' /\ \E i : StayBut(i)
<1> DEFINE known == get_pcp_server_by_ip(ip, scope)
<1>1. nl' \in NlRec
  BY DEF psd_add_pcp_server, ServersInv
<1>2. \A a, b : Routed(a, b) \subseteq BOOLEAN
  BY DEF Routed
<1>3. CASE known = NULL
  <2>1. NewSlot # NULL /\ \E routed \in Routed(ip, scope) :
          servers' = [Room EXCEPT ![NewSlot] =
            Slot(IF routed THEN "pss_ping" ELSE "pss_unitialized", ip, scope)]
    BY <1>3, Zenon DEF psd_add_pcp_server, Known
  <2>2. PICK state \in {"pss_unitialized", "pss_allocated", "pss_ping"} :
          servers' = [Room EXCEPT ![NewSlot] = Slot(state, ip, scope)]
    BY <2>1
  <2> QED BY <1>1, <1>3, <2>1, <2>2, NewServer
<1>4. CASE known # NULL
  <2>1. \E routed \in Routed(ip, scope) :
          servers' = [servers EXCEPT ![known] =
            Slot(IF routed THEN "pss_ping" ELSE "pss_unitialized", ip, scope)]
    BY <1>4, Zenon DEF psd_add_pcp_server, Known
  <2>2. /\ known \in DOMAIN servers /\ InUse(known) /\ servers[known].ip = ip
        /\ servers[known].scope = ScopeOf(ip, scope)
    BY <1>4, LookupFacts
  <2> HIDE DEF known
  <2>3. PICK state \in {"pss_unitialized", "pss_ping"} :
          servers' = [servers EXCEPT ![known] = Slot(state, ip, scope)]
    BY <2>1
  <2> DEFINE slot == Slot(state, ip, scope)
  <2>4. slot \in SlotRec
    BY SlotRecs
  <2>5. Fits(known, slot)
    <3>1. ScopeOf(ip, ScopeOf(ip, scope)) = ScopeOf(ip, scope)
      BY ScopeFacts
    <3>2. \A j \in DOMAIN servers : InUse(j) /\ servers[j].ip = ip
            /\ servers[j].scope = ScopeOf(ip, scope) => j = known
      BY <2>2 DEF ServersInv
    <3> QED BY <3>1, <3>2, SlotStates DEF Fits
  <2>6. state # "pss_unitialized" =>
          slot.ip = servers[known].ip /\ slot.scope = servers[known].scope
    BY <2>2, SlotStates
  <2> HIDE DEF slot
  <2>7. servers' = [servers EXCEPT ![known] = slot]
    BY <2>3 DEF slot
  <2>8. /\ ServersInv' /\ DOMAIN servers \subseteq DOMAIN servers'
        /\ servers'[known] = slot
        /\ \A j \in DOMAIN servers : j # known => servers'[j] = servers[j]
    BY <1>1, <2>2, <2>4, <2>5, <2>7, ServersExtend, SlotSet
  <2>9. slot.state = state
    BY SlotStates DEF slot
  <2>10. StayBut(known)
    BY <2>6, <2>8, <2>9 DEF StayBut, InUse
  <2> QED BY <2>8, <2>10
<1> QED BY <1>3, <1>4

LEMMA ServerMovesStep ==
  ASSUME ServersInv, ServerMoves
  PROVE  ServersInv' /\ StayBut(NULL)
<1>1. PICK i \in DOMAIN servers :
        /\ servers[i].state \in {"pss_ping", "pss_not_working"}
        /\ servers' = [servers EXCEPT ![i].state =
             IF @ = "pss_ping" THEN "pss_not_working" ELSE "pss_ping"]
  BY DEF ServerMoves
<1> DEFINE st == IF servers[i].state = "pss_ping" THEN "pss_not_working" ELSE "pss_ping"
           slot == [servers[i] EXCEPT !.state = st]
<1>2. servers[i] \in SlotRec
  BY DEF ServersInv
<1>3. slot \in SlotRec /\ slot.ip = servers[i].ip /\ slot.scope = servers[i].scope
      /\ slot.state # "pss_unitialized"
  BY <1>2 DEF SlotRec
<1>4. servers' = [servers EXCEPT ![i] = slot]
  BY <1>1 DEF ServersInv
<1>5. nl' \in NlRec
  BY DEF ServerMoves, ServersInv
<1> HIDE DEF slot, st
<1>6. Fits(i, slot)
  BY <1>1, <1>3 DEF Fits, ServersInv, InUse
<1>7. /\ ServersInv' /\ DOMAIN servers \subseteq DOMAIN servers'
      /\ servers'[i] = slot
      /\ \A j \in DOMAIN servers : j # i => servers'[j] = servers[j]
  BY <1>3, <1>4, <1>5, <1>6, ServersExtend, SlotSet
<1> QED BY <1>3, <1>7 DEF StayBut, InUse

-----------------------------------------------------------------------------
(* The beginning, and steps that leave the flows or the walk alone. *)

LEMMA FlowIdsNotNull == NULL \notin FlowIds /\ \A f \in FlowIds : f \in Nat /\ f # NULL
BY ContextAssumption DEF FlowIds, NULL

LEMMA NoIterTyped == NoIter \in IterRec
<1>1. 0 \in 0 .. NBuckets /\ NULL \in FlowIds \cup {NULL} /\ {} \in SUBSET FlowIds
  BY ContextAssumption
<1> QED BY <1>1 DEF NoIter, IterRec

LEMMA InitContext == Init => ContextInv
<1> SUFFICES ASSUME Init
             PROVE  ContextInv
  OBVIOUS
<1>0. /\ nl = NoLookup /\ servers = <<>> /\ flows = <<>>
      /\ chain = [b \in Buckets |-> <<>>]
      /\ flow_cnt = 0 /\ order = <<>> /\ iter = NoIter
  BY DEF Init
<1>1. DOMAIN servers = {} /\ DOMAIN flows = {} /\ Len(servers) = 0 /\ Len(order) = 0
  BY <1>0
<1>2. ServersInv
  <2>1. servers \in Seq(SlotRec) /\ Len(servers) <= MaxServers
    BY <1>0, <1>1, DiscoveryAssumption
  <2> QED BY <1>0, <1>1, <2>1, NoLookupTyped DEF ServersInv
<1>3. FlowsInv
  <2>1. flows = [f \in DOMAIN flows |-> flows[f]]
    BY <1>0
  <2> QED BY <1>1, <2>1 DEF FlowsInv, Family, Closed
<1>4. TableInv
  <2>1. chain \in [Buckets -> Seq(FlowIds)] /\ order \in Seq(FlowIds)
    BY <1>0
  <2>2. \A b \in Buckets : chain[b] = <<>>
    BY <1>0
  <2>3. Injective(order) /\ Elems(order) = DOMAIN flows
    BY <1>0, <1>1, EmptyFacts
  <2>4. \A b \in Buckets : Ordered(chain[b], order, Len(order)) /\ Elems(chain[b]) = {}
    BY <1>0, <2>2, EmptyFacts DEF Ordered
  <2>5. flow_cnt = Cardinality(DOMAIN flows)
    BY <1>0, <1>1, FS_EmptySet
  <2> QED BY <1>1, <2>1, <2>3, <2>4, <2>5 DEF TableInv
<1>5. IterInv
  BY <1>0, NoIterTyped DEF IterInv, NoIter
<1> QED BY <1>2, <1>3, <1>4, <1>5 DEF ContextInv

(* The same flows under the same keys, and the same walk. *)
SameKeys ==
  /\ DOMAIN flows' = DOMAIN flows
  /\ \A f \in DOMAIN flows : flows'[f].kd = flows[f].kd

LEMMA TableSame ==
  ASSUME TableInv, SameKeys, UNCHANGED <<chain, flow_cnt, order>>
  PROVE  TableInv'
<1>1. \A f \in DOMAIN flows : Bucket(f)' = Bucket(f)
  BY DEF SameKeys, Bucket
<1>2. \A b \in Buckets : {f \in DOMAIN flows' : Bucket(f)' = b}
                           = {f \in DOMAIN flows : Bucket(f) = b}
  BY <1>1 DEF SameKeys
<1> QED BY <1>2 DEF TableInv, SameKeys

LEMMA IterSame ==
  ASSUME IterInv, SameKeys, UNCHANGED <<order, iter>>, iter.on => nl'.at = "ready"
  PROVE  IterInv'
<1>1. \A f \in DOMAIN flows : Bucket(f)' = Bucket(f)
  BY DEF SameKeys, Bucket
<1> QED BY <1>1 DEF IterInv, SameKeys

LEMMA IterOff ==
  ASSUME iter' = NoIter
  PROVE  IterInv'
<1>1. /\ iter'.on = FALSE /\ iter'.fdb = NULL /\ iter'.next = NULL
      /\ iter'.left = {} /\ iter'.seen = {}
  BY DEF NoIter
<1> QED BY <1>1, NoIterTyped DEF IterInv

LEMMA ServersFlows ==
  ASSUME FlowsInv, StayBut(NULL), UNCHANGED <<flows, iter>>, servers \in Seq(SlotRec)
  PROVE  FlowsInv'
<1>1. NULL \notin DOMAIN servers
  BY DEF NULL
<1>2. ASSUME NEW f \in DOMAIN flows
      PROVE  /\ flows[f].indx \in DOMAIN servers'
             /\ ~flows[f].moved => /\ servers'[flows[f].indx].state # "pss_unitialized"
                                   /\ Addressed(flows[f].kd, servers'[flows[f].indx])
  <2> DEFINE i == flows[f].indx
  <2>1. i \in DOMAIN servers /\ i \in DOMAIN servers'
    BY DEF FlowsInv, StayBut
  <2>2. ~flows[f].moved => InUse(i) /\ Addressed(flows[f].kd, servers[i])
    BY DEF FlowsInv
  <2> HIDE DEF i
  <2>3. InUse(i) => /\ servers'[i].state # "pss_unitialized"
                    /\ servers'[i].ip = servers[i].ip
                    /\ servers'[i].scope = servers[i].scope
    BY <1>1, <2>1 DEF StayBut
  <2> QED BY <2>1, <2>2, <2>3 DEF i, Addressed
<1>3. Family => Family'
  BY DEF Family, Closed
<1> QED BY <1>2, <1>3 DEF FlowsInv, InUse

(* A server that is dropped marks its flows. *)
LEMMA AddServerFlows ==
  ASSUME ContextInv, AddServer, UNCHANGED iter, ~iter.on
  PROVE  ContextInv'
<1>1. PICK ip \in Ips, scope \in Scopes : psd_add_pcp_server(ip, scope)
  <2>1. PICK s \in Named : psd_add_pcp_server(s[1], s[2])
    BY DEF AddServer
  <2>2. s[1] \in Ips /\ s[2] \in Scopes
    BY ContextAssumption
  <2> QED BY <2>1, <2>2
<1>2. ServersInv' /\ \E i : StayBut(i)
  BY <1>1, AddServerStep DEF ContextInv
<1>3. PICK i : StayBut(i)
  BY <1>2
<1>4. /\ DOMAIN flows' = DOMAIN flows
      /\ flows' = [f \in DOMAIN flows' |-> flows'[f]]
      /\ \A f \in DOMAIN flows :
           flows'[f] = IF servers'[flows[f].indx].state = "pss_unitialized"
                       THEN [flows[f] EXCEPT !.moved = TRUE] ELSE flows[f]
  BY DEF AddServer
<1>5. \A f \in DOMAIN flows : flows[f] \in FlowRec /\ flows[f].indx \in DOMAIN servers
  BY DEF ContextInv, FlowsInv
<1>6. ASSUME NEW f \in DOMAIN flows
      PROVE  /\ flows'[f] \in FlowRec /\ flows'[f].kd = flows[f].kd
             /\ flows'[f].indx = flows[f].indx /\ flows'[f].child = flows[f].child
             /\ ~flows'[f].moved =>
                  ~flows[f].moved /\ servers'[flows[f].indx].state # "pss_unitialized"
  <2>1. flows[f] \in FlowRec
    BY <1>5
  <2>2. flows'[f] = [flows[f] EXCEPT !.moved = TRUE]
        \/ /\ flows'[f] = flows[f]
           /\ servers'[flows[f].indx].state # "pss_unitialized"
    BY <1>4
  <2>3. LET g == [flows[f] EXCEPT !.moved = TRUE]
        IN  /\ g \in FlowRec /\ g.kd = flows[f].kd /\ g.indx = flows[f].indx
            /\ g.child = flows[f].child /\ g.moved
    BY <2>1 DEF FlowRec
  <2> QED BY <2>1, <2>2, <2>3
<1>7. ASSUME NEW f \in DOMAIN flows
      PROVE  /\ flows[f].indx \in DOMAIN servers'
             /\ ~flows'[f].moved => Addressed(flows[f].kd, servers'[flows[f].indx])
  <2> DEFINE j == flows[f].indx
  <2>1. j \in DOMAIN servers /\ j \in DOMAIN servers'
    BY <1>3, <1>5 DEF StayBut
  <2>2. ~flows[f].moved => InUse(j) /\ Addressed(flows[f].kd, servers[j])
    BY DEF ContextInv, FlowsInv
  <2>3. ~flows'[f].moved => ~flows[f].moved /\ servers'[j].state # "pss_unitialized"
    BY <1>6
  <2> HIDE DEF j
  <2>4. InUse(j) /\ servers'[j].state # "pss_unitialized" =>
          servers'[j].ip = servers[j].ip /\ servers'[j].scope = servers[j].scope
    BY <1>3, <2>1 DEF StayBut
  <2> QED BY <2>1, <2>2, <2>3, <2>4 DEF j, Addressed
<1>8. Family'
  <2>1. Family
    BY DEF ContextInv, FlowsInv
  <2> QED BY <1>4, <1>6, <2>1 DEF Family, Closed
<1>9. FlowsInv'
  <2>1. DOMAIN flows' \subseteq FlowIds
    BY <1>4 DEF ContextInv, FlowsInv
  <2> QED BY <1>4, <1>6, <1>7, <1>8, <2>1 DEF FlowsInv, InUse
<1>10. SameKeys /\ UNCHANGED <<chain, flow_cnt, order>>
  BY <1>4, <1>6 DEF SameKeys, AddServer
<1>11. TableInv' /\ IterInv'
  BY <1>10, TableSame, IterSame DEF ContextInv
<1> QED BY <1>2, <1>9, <1>11 DEF ContextInv

-----------------------------------------------------------------------------
(* The flows that are there before and after a step keep their keys and     *)
(* their order.                                                             *)
LEMMA ChainOrder ==
  ASSUME TableInv, NEW b \in Buckets
  PROVE  /\ chain[b] \in Seq(FlowIds) /\ Injective(chain[b])
         /\ \A x, y : Before(chain[b], x, y) <=>
                        x \in Elems(chain[b]) /\ y \in Elems(chain[b]) /\ Before(order, x, y)
<1>1. \A x, y : Before(order, x, y) <=> BeforeUpto(order, Len(order), x, y)
  BY UptoAll DEF TableInv
<1> QED BY <1>1 DEF TableInv, Ordered

LEMMA FlowBucket ==
  ASSUME FlowsInv, NEW f \in DOMAIN flows
  PROVE  Bucket(f) \in Buckets /\ flows[f].kd \in KeyRec
<1>1. flows[f].kd \in KeyRec
  BY DEF FlowsInv, FlowRec
<1> QED BY <1>1, ContextAssumption DEF Bucket

(* What stays of the table when the flows of gone are deleted. *)
LEMMA DeleteTable ==
  ASSUME FlowsInv, TableInv, NEW gone \in SUBSET DOMAIN flows, Delete(gone)
  PROVE  /\ TableInv' /\ DOMAIN flows' = DOMAIN flows \ gone
         /\ flows' = [f \in DOMAIN flows' |-> flows'[f]]
         /\ \A f \in DOMAIN flows' : flows'[f] = flows[f]
         /\ \A x, y \in DOMAIN flows' : Before(order', x, y) <=> Before(order, x, y)
<1>1. /\ DOMAIN flows' = DOMAIN flows \ gone
      /\ flows' = [f \in DOMAIN flows' |-> flows'[f]]
      /\ \A f \in DOMAIN flows' : flows'[f] = flows[f]
  BY DEF Delete
<1>2. order \in Seq(FlowIds) /\ Injective(order) /\ Elems(order) = DOMAIN flows
  BY DEF TableInv
<1>3. order' \in Seq(FlowIds) /\ Keeps(order, gone, order')
  <2>1. order' = Without(order, gone)
    BY DEF Delete
  <2>2. \A s \in Seq(FlowIds) : Without(s, gone) \in Seq(FlowIds)
                                /\ Keeps(s, gone, Without(s, gone))
    BY WithoutKeeps
  <2> QED BY <1>2, <2>1, <2>2
<1>4. Injective(order') /\ Elems(order') = DOMAIN flows'
  BY <1>1, <1>2, <1>3 DEF Keeps
<1>5. \A x, y : Before(order', x, y) <=> BeforeUpto(order', Len(order'), x, y)
  BY <1>3, UptoAll
<1>6. ASSUME NEW b \in Buckets
      PROVE  /\ chain'[b] \in Seq(FlowIds)
             /\ Elems(chain'[b]) = {f \in DOMAIN flows' : Bucket(f)' = b}
             /\ Ordered(chain'[b], order', Len(order'))
  <2> DEFINE c == chain[b]
             g == {f \in gone : Bucket(f) = b}
             d == chain'[b]
  <2>1. c \in Seq(FlowIds) /\ Injective(c) /\ Elems(c) = {f \in DOMAIN flows : Bucket(f) = b}
        /\ \A x, y : Before(c, x, y) <=> x \in Elems(c) /\ y \in Elems(c) /\ Before(order, x, y)
    BY ChainOrder DEF TableInv
  <2>2. d = Without(c, g)
    BY Zenon DEF Delete, RemoveAll
  <2>3. \A s \in Seq(FlowIds) : \A h : Without(s, h) \in Seq(FlowIds)
                                       /\ Keeps(s, h, Without(s, h))
    BY WithoutKeeps
  <2>4. \A f \in DOMAIN flows' : Bucket(f)' = Bucket(f)
    BY <1>1 DEF Bucket
  <2>5. {f \in DOMAIN flows' : Bucket(f)' = b} = {f \in DOMAIN flows : Bucket(f) = b} \ g
    BY <1>1, <2>4
  <2> HIDE DEF c, d
  <2>6. d \in Seq(FlowIds) /\ Keeps(c, g, d)
    <3> HIDE DEF g
    <3> QED BY <2>1, <2>2, <2>3
  <2>7. Elems(d) = Elems(c) \ g /\ Injective(d)
        /\ \A x, y : Before(d, x, y) <=> Before(c, x, y) /\ x \notin g /\ y \notin g
    <3> HIDE DEF g
    <3> QED BY <2>1, <2>6 DEF Keeps
  <2>8. \A x \in Elems(c) : x \notin g <=> x \notin gone
    BY <2>1
  <2> HIDE DEF g
  <2>9. \A x, y : Before(d, x, y) <=> x \in Elems(d) /\ y \in Elems(d) /\ Before(order', x, y)
    BY <1>3, <2>1, <2>7, <2>8 DEF Keeps
  <2>10. Ordered(d, order', Len(order'))
    BY <1>5, <2>7, <2>9 DEF Ordered
  <2> QED BY <2>1, <2>5, <2>6, <2>7, <2>10 DEF d
<1>7. chain' \in [Buckets -> Seq(FlowIds)]
  <2>1. chain' = [b \in Buckets |-> chain'[b]]
    BY DEF Delete, RemoveAll
  <2> QED BY <1>6, <2>1
<1>8. flow_cnt' = Cardinality(DOMAIN flows')
  <2> DEFINE there == {f \in gone : \E i \in DOMAIN chain[Bucket(f)] :
                                      chain[Bucket(f)][i] = f}
  <2>1. there = gone
    <3>1. \A f \in gone : Bucket(f) \in Buckets /\ f \in Elems(chain[Bucket(f)])
      BY FlowBucket DEF TableInv
    <3> QED BY <3>1 DEF Elems
  <2>2. flow_cnt' = Cardinality(DOMAIN flows) - Cardinality(gone)
    BY <2>1 DEF Delete, Removed, TableInv
  <2>3. IsFiniteSet(DOMAIN flows) /\ DOMAIN flows \cap gone = gone
    BY FlowIdsFinite DEF FlowsInv
  <2>4. Cardinality(DOMAIN flows \ gone)
          = Cardinality(DOMAIN flows) - Cardinality(DOMAIN flows \cap gone)
    BY <2>3, FS_Difference
  <2> QED BY <1>1, <2>2, <2>3, <2>4
<1>9. TableInv'
  BY <1>3, <1>4, <1>6, <1>7, <1>8 DEF TableInv
<1>10. \A x, y \in DOMAIN flows' : Before(order', x, y) <=> Before(order, x, y)
  BY <1>1, <1>3 DEF Keeps
<1> QED BY <1>1, <1>9, <1>10

(* Deleting from the head of a chain on takes no flow out of another one. *)
LEMMA ChildrenApart ==
  ASSUME Family, NEW f \in DOMAIN flows, \A g \in DOMAIN flows : flows[g].child # f
  PROVE  Closed(DOMAIN flows \ ChildrenFrom(f))
<1> SUFFICES ASSUME NEW g \in DOMAIN flows \ ChildrenFrom(f), flows[g].child # NULL,
                    flows[g].child \in ChildrenFrom(f)
             PROVE  FALSE
  BY DEF Family, Closed
<1> DEFINE h == flows[g].child
<1>1. PICK S \in SUBSET DOMAIN flows : f \in S /\ Closed(S) /\ g \notin S
  BY DEF ChildrenFrom
<1> DEFINE T == S \ {h}
<1>2. f \in T
  BY <1>1
<1>3. Closed(T)
  BY <1>1 DEF Family, Closed
<1>4. T \in SUBSET DOMAIN flows
  OBVIOUS
<1>5. h \in T
  BY <1>2, <1>3, <1>4 DEF ChildrenFrom
<1> QED BY <1>5

LEMMA DeleteFlowStep ==
  ASSUME ContextInv, NEW f \in FlowIds, pcp_delete_flow(f), ~iter.on,
         UNCHANGED <<nl, servers, iter>>
  PROVE  ContextInv'
<1> DEFINE gone == ChildrenFrom(f)
<1>1. gone \in SUBSET DOMAIN flows
  BY DEF ChildrenFrom
<1>2. Delete(gone)
  BY DEF pcp_delete_flow
<1>3. Family
  BY DEF ContextInv, FlowsInv
<1>4. Closed(DOMAIN flows \ gone)
  BY <1>3, ChildrenApart DEF pcp_delete_flow
<1> HIDE DEF gone
<1>5. /\ TableInv' /\ DOMAIN flows' = DOMAIN flows \ gone
      /\ flows' = [g \in DOMAIN flows' |-> flows'[g]]
      /\ \A g \in DOMAIN flows' : flows'[g] = flows[g]
  BY <1>1, <1>2, DeleteTable DEF ContextInv
<1>6. Family'
  BY <1>3, <1>4, <1>5 DEF Family, Closed
<1>7. FlowsInv'
  <2>1. \A g \in DOMAIN flows' : g \in DOMAIN flows
    BY <1>5
  <2> QED BY <1>5, <1>6, <2>1 DEF ContextInv, FlowsInv, InUse
<1>8. ServersInv'
  BY DEF ContextInv, ServersInv, InUse
<1>9. IterInv'
  BY IterOff DEF ContextInv, IterInv
<1> QED BY <1>5, <1>7, <1>8, <1>9 DEF ContextInv

-----------------------------------------------------------------------------
(* pcp_new_flow and create_natpmp_ann_msg. *)

NewIds(on) == [k \in DOMAIN on |-> SetToSeq(FlowIds \ DOMAIN flows)[k]]

NewKeys(on, req) ==
  [k \in DOMAIN on |-> [ip |-> servers[on[k]].ip, scope |-> servers[on[k]].scope,
                        req |-> req]]

NextOf(ids, k) == IF k < Len(ids) THEN ids[k + 1] ELSE NULL

NewRec(kd, i, child) == [kd |-> kd, indx |-> i, moved |-> FALSE, child |-> child]

LEMMA NewRecFields ==
  ASSUME NEW kd, NEW i, NEW child
  PROVE  /\ NewRec(kd, i, child).kd = kd /\ NewRec(kd, i, child).indx = i
         /\ NewRec(kd, i, child).child = child
         /\ kd \in KeyRec /\ i \in Nat /\ child \in FlowIds \cup {NULL}
              => NewRec(kd, i, child) \in FlowRec
BY DEF NewRec, FlowRec

NewFlow(f, on, ids, kds) ==
  LET k == CHOOSE j \in DOMAIN ids : ids[j] = f
  IN  [kd |-> kds[k], indx |-> on[k], moved |-> FALSE,
       child |-> IF k < Len(ids) THEN ids[k + 1] ELSE NULL]

(* The flows that are added: free ones, each one once. *)
Fresh(on, ids, kds) ==
  /\ on \in Seq({i \in DOMAIN servers : InUse(i)})
  /\ ids \in Seq(FlowIds) /\ Injective(ids) /\ Len(ids) = Len(on)
  /\ Elems(ids) \cap DOMAIN flows = {}
  /\ \A k \in 1 .. Len(ids) : kds[k] \in KeyRec /\ Addressed(kds[k], servers[on[k]])

Enters(on, ids, kds) ==
  /\ flows' = [f \in DOMAIN flows \cup ToSet(ids) |->
                 IF f \in DOMAIN flows THEN flows[f] ELSE NewFlow(f, on, ids, kds)]
  /\ chain' = AddAll(ids, kds)
  /\ flow_cnt' = flow_cnt + Len(ids)
  /\ order' = order \o ids

LEMMA AddFlowsEnters ==
  ASSUME FlowsInv, NEW on \in Seq({i \in DOMAIN servers : InUse(i)}), NEW kds,
         \A k \in 1 .. Len(on) : kds[k] \in KeyRec /\ Addressed(kds[k], servers[on[k]]),
         AddFlows(on, kds)
  PROVE  \E ids : Fresh(on, ids, kds) /\ Enters(on, ids, kds)
<1> DEFINE left == FlowIds \ DOMAIN flows
           free == SetToSeq(left)
           ids == NewIds(on)
           U == {i \in DOMAIN servers : InUse(i)}
<1>1. on \in Seq(U)
  OBVIOUS
<1>2. Enters(on, ids, kds) /\ Len(on) <= Len(free)
  BY Zenon DEF AddFlows, Enters, NewIds, NewFlow
<1>3. free \in [1 .. Cardinality(left) -> left] /\ Cardinality(left) \in Nat
      /\ IsInjective(free)
  <2>1. IsFiniteSet(left)
    BY FlowIdsFinite
  <2> HIDE DEF left
  <2> QED BY <2>1, SetToSeqFacts
<1>4. ids = [k \in DOMAIN on |-> free[k]]
  BY DEF NewIds
<1> HIDE DEF free, ids, U
<1>5. Len(on) \in Nat /\ DOMAIN on = 1 .. Len(on) /\ \A k \in 1 .. Len(on) : on[k] \in U
  BY <1>1
<1>6. /\ free \in Seq(left) /\ Len(free) = Cardinality(left)
      /\ DOMAIN free = 1 .. Cardinality(left)
  <2> DEFINE m == Cardinality(left)
  <2>1. free \in [1 .. m -> left] /\ m \in Nat
    BY <1>3
  <2> HIDE DEF m, left
  <2>2. free \in Seq(left) /\ Len(free) = m /\ DOMAIN free = 1 .. m
    BY <2>1
  <2> QED BY <2>2 DEF m
<1>7. \A k \in 1 .. Len(on) : k \in DOMAIN free /\ free[k] \in left
  BY <1>2, <1>3, <1>5, <1>6
<1>8. /\ ids \in Seq(left) /\ Len(ids) = Len(on) /\ DOMAIN ids = 1 .. Len(on)
      /\ \A k \in 1 .. Len(on) : ids[k] = free[k]
  BY <1>4, <1>5, <1>7
<1>9. Injective(ids)
  BY <1>3, <1>7, <1>8 DEF Injective, IsInjective
<1>10. ids \in Seq(FlowIds) /\ Elems(ids) \cap DOMAIN flows = {}
  BY <1>8 DEF Elems
<1>11. Fresh(on, ids, kds)
  BY <1>1, <1>8, <1>9, <1>10 DEF Fresh, U
<1> QED BY <1>2, <1>11

LEMMA NewFlowEnters ==
  ASSUME ServersInv, FlowsInv, NEW src, NEW req \in Requests, pcp_new_flow(src, req)
  PROVE  \E on, ids, kds : Fresh(on, ids, kds) /\ Enters(on, ids, kds)
<1> DEFINE on == Suitable(src)
           kds == NewKeys(on, req)
<1>1. on \in Seq({i \in DOMAIN servers : InUse(i)})
  BY SuitableTyped DEF ServersInv
<1>2. AddFlows(on, kds)
  BY Zenon DEF pcp_new_flow, NewKeys
<1> HIDE DEF on
<1>3. ASSUME NEW k \in 1 .. Len(on)
      PROVE  kds[k] \in KeyRec /\ Addressed(kds[k], servers[on[k]])
  <2>1. on[k] \in DOMAIN servers /\ k \in DOMAIN on
    BY <1>1
  <2>2. servers[on[k]].ip \in Ips /\ servers[on[k]].scope \in Scopes
    <3>1. servers[on[k]] \in SlotRec
      BY <2>1 DEF ServersInv
    <3> QED BY <3>1 DEF SlotRec
  <2>3. kds[k] = [ip |-> servers[on[k]].ip, scope |-> servers[on[k]].scope, req |-> req]
    BY <2>1 DEF NewKeys
  <2> HIDE DEF kds
  <2> QED BY <2>2, <2>3 DEF KeyRec, Addressed
<1> HIDE DEF kds
<1>4. \E ids : Fresh(on, ids, kds) /\ Enters(on, ids, kds)
  BY <1>1, <1>2, <1>3, AddFlowsEnters
<1> QED BY <1>4

LEMMA AnnounceEnters ==
  ASSUME ServersInv, FlowsInv, NEW i \in DOMAIN servers, create_natpmp_ann_msg(i)
  PROVE  \E on, ids, kds : Fresh(on, ids, kds) /\ Enters(on, ids, kds)
<1> DEFINE kd == [ip |-> servers[i].ip, scope |-> 0, req |-> Announce]
           on == <<i>>
           kds == <<kd>>
<1>1. AddFlows(on, kds) /\ InUse(i)
  BY DEF create_natpmp_ann_msg, InUse
<1>2. kd \in KeyRec /\ Addressed(kd, servers[i])
  <2>1. servers[i].ip \in Ips /\ 0 \in Scopes
    <3>1. servers[i] \in SlotRec
      BY DEF ServersInv
    <3> QED BY <3>1, DiscoveryAssumption DEF SlotRec
  <2> QED BY <2>1 DEF KeyRec, Addressed
<1> HIDE DEF kd
<1>3. on \in Seq({j \in DOMAIN servers : InUse(j)}) /\ Len(on) = 1
      /\ on[1] = i /\ kds[1] = kd
  BY <1>1
<1> HIDE DEF on, kds
<1>4. \A k \in 1 .. Len(on) : kds[k] \in KeyRec /\ Addressed(kds[k], servers[on[k]])
  BY <1>2, <1>3
<1>5. \E ids : Fresh(on, ids, kds) /\ Enters(on, ids, kds)
  BY <1>1, <1>3, <1>4, AddFlowsEnters
<1> QED BY <1>5

Entered(on, ids, kds) ==
  /\ DOMAIN flows' = DOMAIN flows \cup Elems(ids)
  /\ flows' = [f \in DOMAIN flows' |-> flows'[f]]
  /\ \A f \in DOMAIN flows : flows'[f] = flows[f]
  /\ \A k \in 1 .. Len(ids) : flows'[ids[k]] = NewRec(kds[k], on[k], NextOf(ids, k))
  /\ \A x, y \in DOMAIN flows : Before(order', x, y) <=> Before(order, x, y)

LEMMA NewFlowTable ==
  ASSUME ServersInv, FlowsInv, TableInv,
         NEW on, NEW ids, NEW kds, Fresh(on, ids, kds), Enters(on, ids, kds)
  PROVE  TableInv' /\ Entered(on, ids, kds)
<1>1. /\ ids \in Seq(FlowIds) /\ Injective(ids) /\ Elems(ids) \cap DOMAIN flows = {}
      /\ Len(ids) \in Nat /\ DOMAIN ids = 1 .. Len(ids)
  BY DEF Fresh
<1>2. ToSet(ids) = Elems(ids)
  BY DEF ToSet, Elems
<1>3. /\ DOMAIN flows' = DOMAIN flows \cup Elems(ids)
      /\ flows' = [f \in DOMAIN flows' |-> flows'[f]]
      /\ (\A f \in DOMAIN flows : flows'[f] = flows[f])
      /\ \A f \in Elems(ids) : flows'[f] = NewFlow(f, on, ids, kds)
  BY <1>1, <1>2 DEF Enters
<1>4. ASSUME NEW k \in 1 .. Len(ids)
      PROVE  flows'[ids[k]] = NewRec(kds[k], on[k], NextOf(ids, k))
  <2> DEFINE j == CHOOSE i \in DOMAIN ids : ids[i] = ids[k]
  <2>1. j \in DOMAIN ids /\ ids[j] = ids[k]
    BY <1>1
  <2>2. j = k
    BY <1>1, <2>1 DEF Injective
  <2>3. NewFlow(ids[k], on, ids, kds)
          = NewRec(kds[j], on[j], NextOf(ids, j))
    BY Zenon DEF NewFlow, NewRec, NextOf
  <2>4. ids[k] \in Elems(ids)
    BY <1>1 DEF Elems
  <2> HIDE DEF j
  <2> QED BY <1>3, <2>2, <2>3, <2>4
<1>5. \A k \in 1 .. Len(ids) : compute_flow_key(kds[k]) \in Buckets
  BY ContextAssumption DEF Fresh
<1>6. /\ chain' \in [Buckets -> Seq(FlowIds)]
      /\ \A b \in Buckets :
           /\ Elems(chain'[b]) = Elems(chain[b]) \cup Added(ids, kds, Len(ids), b)
           /\ Ordered(chain'[b], order', Len(order) + Len(ids))
  <2>1. chain \in [Buckets -> Seq(FlowIds)] /\ order \in Seq(FlowIds)
        /\ Injective(order) /\ Elems(order) \cap Elems(ids) = {}
    BY <1>1 DEF TableInv
  <2>2. \A b \in Buckets : Ordered(chain[b], order, Len(order))
                           /\ Elems(chain[b]) \subseteq Elems(order)
    BY DEF TableInv
  <2>3. ASSUME NEW c \in [Buckets -> Seq(FlowIds)], chain = c,
               NEW o \in Seq(FlowIds), Injective(o), Elems(o) \cap Elems(ids) = {},
               \A b \in Buckets : /\ Ordered(c[b], o, Len(o))
                                  /\ Elems(c[b]) \subseteq Elems(o)
        PROVE  /\ AddAll(ids, kds) \in [Buckets -> Seq(FlowIds)]
               /\ \A b \in Buckets :
                    /\ Elems(AddAll(ids, kds)[b])
                         = Elems(c[b]) \cup Added(ids, kds, Len(ids), b)
                    /\ Ordered(AddAll(ids, kds)[b], o \o ids, Len(o) + Len(ids))
    BY <1>1, <1>5, <2>3, AddAllFacts
  <2>4. /\ AddAll(ids, kds) \in [Buckets -> Seq(FlowIds)]
        /\ \A b \in Buckets :
             /\ Elems(AddAll(ids, kds)[b])
                  = Elems(chain[b]) \cup Added(ids, kds, Len(ids), b)
             /\ Ordered(AddAll(ids, kds)[b], order \o ids, Len(order) + Len(ids))
    BY <2>1, <2>2, <2>3, Zenon
  <2> QED BY <2>4, Zenon DEF Enters
<1>7. /\ order' \in Seq(FlowIds) /\ Len(order') = Len(order) + Len(ids)
      /\ Injective(order') /\ Elems(order') = DOMAIN flows'
      /\ \A x, y : BeforeUpto(order', Len(order), x, y) <=> Before(order, x, y)
  <2>1. order \in Seq(FlowIds) /\ Injective(order) /\ Elems(order) = DOMAIN flows
    BY DEF TableInv
  <2>2. order' = order \o ids
    BY DEF Enters
  <2>3. \A s \in Seq(FlowIds) :
          /\ s \o ids \in Seq(FlowIds) /\ Len(s \o ids) = Len(s) + Len(ids)
          /\ Elems(s \o ids) = Elems(s) \cup Elems(ids)
          /\ \A x, y : BeforeUpto(s \o ids, Len(s), x, y) <=> Before(s, x, y)
          /\ Injective(s) /\ Injective(ids) /\ Elems(s) \cap Elems(ids) = {}
               => Injective(s \o ids)
    BY <1>1, ConcatFacts
  <2>4. /\ order' \in Seq(FlowIds) /\ Len(order') = Len(order) + Len(ids)
        /\ Elems(order') = Elems(order) \cup Elems(ids)
        /\ \A x, y : BeforeUpto(order', Len(order), x, y) <=> Before(order, x, y)
        /\ Injective(order)  /\ Injective(ids) /\ Elems(order) \cap Elems(ids) = {}
               => Injective(order')
    BY <2>1, <2>2, <2>3
  <2> QED BY <1>1, <1>3, <2>1, <2>4
<1>8. ASSUME NEW b \in Buckets
      PROVE  Elems(chain'[b]) = {f \in DOMAIN flows' : Bucket(f)' = b}
  <2>1. Elems(chain[b]) = {f \in DOMAIN flows : Bucket(f) = b}
    BY DEF TableInv
  <2>2. \A f \in DOMAIN flows : Bucket(f)' = Bucket(f)
    BY <1>3 DEF Bucket
  <2>3. ASSUME NEW k \in 1 .. Len(ids)
        PROVE  Bucket(ids[k])' = compute_flow_key(kds[k])
    <3>1. flows'[ids[k]].kd = kds[k]
      BY <1>4, NewRecFields
    <3> QED BY <3>1 DEF Bucket
  <2>4. Added(ids, kds, Len(ids), b) = {f \in Elems(ids) : Bucket(f)' = b}
    BY <1>1, <2>3 DEF Added, Elems
  <2> QED BY <1>1, <1>3, <1>6, <2>1, <2>2, <2>4
<1>9. flow_cnt' = Cardinality(DOMAIN flows')
  <2>1. IsFiniteSet(DOMAIN flows)
    BY FlowIdsFinite DEF FlowsInv
  <2>2. IsFiniteSet(Elems(ids)) /\ Cardinality(Elems(ids)) = Len(ids)
    BY <1>1, FlowIdsFinite, CountOfSequence
  <2>3. Cardinality(DOMAIN flows \cup Elems(ids))
          = Cardinality(DOMAIN flows) + Cardinality(Elems(ids))
            - Cardinality(DOMAIN flows \cap Elems(ids))
    BY <2>1, <2>2, FS_Union
  <2>4. DOMAIN flows \cap Elems(ids) = {} /\ Cardinality({}) = 0
    BY <1>1, FS_EmptySet
  <2>5. flow_cnt' = Cardinality(DOMAIN flows) + Len(ids)
    BY DEF Enters, TableInv
  <2>6. Cardinality(DOMAIN flows) \in Nat
    BY <2>1, FS_CardinalityType
  <2>7. Cardinality(DOMAIN flows \cap Elems(ids)) = 0
    BY <2>4, Zenon
  <2> QED BY <1>1, <1>3, <2>2, <2>3, <2>5, <2>6, <2>7
<1>10. TableInv'
  BY <1>6, <1>7, <1>8, <1>9 DEF TableInv
<1>11. ASSUME NEW x \in DOMAIN flows, NEW y \in DOMAIN flows
       PROVE  Before(order', x, y) <=> Before(order, x, y)
  <2>1. Elems(order) = DOMAIN flows /\ order \in Seq(FlowIds)
        /\ Len(order) \in Nat /\ DOMAIN order = 1 .. Len(order)
        /\ Len(order') \in Nat /\ DOMAIN order' = 1 .. Len(order')
    BY <1>7 DEF TableInv
  <2>2. \A i \in 1 .. Len(order) : i \in 1 .. Len(order') /\ order'[i] = order[i]
    BY <1>1, <2>1 DEF Enters
  <2>3. \A z \in DOMAIN flows : \A i \in 1 .. Len(order') :
          order'[i] = z => i \in 1 .. Len(order)
    <3> TAKE z \in DOMAIN flows
    <3>1. PICK j \in 1 .. Len(order) : order[j] = z
      BY <2>1 DEF Elems
    <3> QED BY <1>7, <2>1, <2>2, <3>1 DEF Injective
  <2> QED BY <2>1, <2>2, <2>3 DEF Before
<1> QED BY <1>3, <1>4, <1>10, <1>11 DEF Entered

LEMMA NewFlowFlows ==
  ASSUME ServersInv, FlowsInv, TableInv, UNCHANGED <<nl, servers, iter>>,
         NEW on, NEW ids, NEW kds, Fresh(on, ids, kds), Enters(on, ids, kds)
  PROVE  FlowsInv'
<1> DEFINE n == Len(ids)
           child(k) == NextOf(ids, k)
<1>1. /\ ids \in Seq(FlowIds) /\ Injective(ids) /\ Elems(ids) \cap DOMAIN flows = {}
      /\ n \in Nat /\ DOMAIN ids = 1 .. n /\ n = Len(on)
      /\ \A k \in 1 .. n : ids[k] \in FlowIds /\ ids[k] \in Elems(ids)
  BY DEF Fresh, Elems
<1>2. /\ DOMAIN flows' = DOMAIN flows \cup Elems(ids)
      /\ flows' = [f \in DOMAIN flows' |-> flows'[f]]
      /\ (\A f \in DOMAIN flows : flows'[f] = flows[f])
      /\ \A k \in 1 .. n :
           flows'[ids[k]] = NewRec(kds[k], on[k], child(k))
  <2>1. Entered(on, ids, kds)
    BY NewFlowTable
  <2> QED BY <2>1, Zenon DEF Entered
<1> HIDE DEF n
<1>3. \A k \in 1 .. n : \/ child(k) = NULL
                        \/ /\ k + 1 \in 1 .. n /\ child(k) = ids[k + 1]
                           /\ child(k) \in FlowIds /\ child(k) \in Elems(ids)
  BY <1>1 DEF NextOf, n
<1>4. \A j, k \in 1 .. n : child(j) = child(k) /\ child(j) # NULL => j = k
  <2> SUFFICES ASSUME NEW j \in 1 .. n, NEW k \in 1 .. n, child(j) = child(k),
                      child(j) # NULL
               PROVE  j = k
    OBVIOUS
  <2>1. j + 1 \in 1 .. n /\ k + 1 \in 1 .. n /\ ids[j + 1] = ids[k + 1]
    BY <1>3
  <2>2. j + 1 = k + 1
    BY <1>1, <2>1 DEF Injective
  <2> QED BY <2>2
<1> HIDE DEF child
<1>5. \A f \in Elems(ids) : \E k \in 1 .. n : f = ids[k]
  BY <1>1 DEF Elems
<1>6. \A k \in 1 .. n : flows'[ids[k]].child = child(k)
  BY <1>2, NewRecFields
<1>7. ASSUME NEW k \in 1 .. n
      PROVE  /\ flows'[ids[k]] \in FlowRec /\ flows'[ids[k]].indx \in DOMAIN servers
             /\ InUse(flows'[ids[k]].indx)
             /\ Addressed(flows'[ids[k]].kd, servers[flows'[ids[k]].indx])
  <2> DEFINE new == flows'[ids[k]]
             i == on[k]
  <2>1. new = NewRec(kds[k], i, child(k))
    BY <1>2
  <2>2. i \in DOMAIN servers /\ InUse(i)
    BY <1>1 DEF Fresh
  <2>3. i \in Nat
    BY <2>2 DEF ServersInv
  <2>4. kds[k] \in KeyRec /\ Addressed(kds[k], servers[i])
    BY DEF Fresh, n
  <2>5. child(k) \in FlowIds \cup {NULL}
    BY <1>3
  <2> HIDE DEF new, i
  <2>6. new.kd = kds[k] /\ new.indx = i /\ new \in FlowRec
    BY <2>1, <2>3, <2>4, <2>5, NewRecFields
  <2> QED BY <2>2, <2>4, <2>6 DEF new
<1>8. ASSUME Family
      PROVE  Family'
  <2>1. ASSUME NEW f \in DOMAIN flows'
        PROVE  flows'[f].child \in DOMAIN flows' \cup {NULL}
    <3>1. CASE f \in DOMAIN flows
      BY <1>2, <1>8, <3>1 DEF Family, Closed
    <3>2. CASE f \in Elems(ids)
      BY <1>2, <1>3, <1>5, <1>6, <3>2
    <3> QED BY <1>2, <3>1, <3>2
  <2>2. ASSUME NEW f \in DOMAIN flows', NEW g \in DOMAIN flows',
               flows'[f].child = flows'[g].child, flows'[f].child # NULL
        PROVE  f = g
    <3>1. \A x \in DOMAIN flows : flows'[x].child \in DOMAIN flows \cup {NULL}
      BY <1>2, <1>8 DEF Family, Closed
    <3>2. \A x \in Elems(ids) : flows'[x].child \in Elems(ids) \cup {NULL}
      BY <1>3, <1>5, <1>6
    <3>3. CASE f \in DOMAIN flows /\ g \in DOMAIN flows
      BY <1>2, <1>8, <2>2, <3>3 DEF Family
    <3>4. CASE f \in Elems(ids) /\ g \in Elems(ids)
      <4>1. PICK j \in 1 .. n, k \in 1 .. n : f = ids[j] /\ g = ids[k]
        BY <1>5, <3>4
      <4>2. child(j) = child(k) /\ child(j) # NULL
        BY <1>6, <2>2, <4>1
      <4> QED BY <1>4, <4>1, <4>2
    <3>5. CASE f \in DOMAIN flows /\ g \in Elems(ids)
      BY <1>1, <2>2, <3>1, <3>2, <3>5
    <3>6. CASE f \in Elems(ids) /\ g \in DOMAIN flows
      BY <1>1, <2>2, <3>1, <3>2, <3>6
    <3> QED BY <1>2, <3>3, <3>4, <3>5, <3>6
  <2> QED BY <2>1, <2>2 DEF Family, Closed
<1>9. ASSUME NEW f \in DOMAIN flows'
      PROVE  /\ f \in FlowIds /\ flows'[f] \in FlowRec /\ flows'[f].indx \in DOMAIN servers
             /\ ~flows'[f].moved => /\ InUse(flows'[f].indx)
                                    /\ Addressed(flows'[f].kd, servers[flows'[f].indx])
  <2>1. CASE f \in DOMAIN flows
    BY <1>2, <2>1 DEF FlowsInv
  <2>2. CASE f \in Elems(ids)
    BY <1>1, <1>5, <1>7, <2>2
  <2> QED BY <1>2, <2>1, <2>2
<1> QED BY <1>2, <1>8, <1>9 DEF FlowsInv, InUse

(* Also in the callback of a walk: the flows that are added come behind all *)
(* others.                                                                  *)
LEMMA EntersStep ==
  ASSUME ContextInv, Working, UNCHANGED <<nl, servers, iter>>,
         NEW on, NEW ids, NEW kds, Fresh(on, ids, kds), Enters(on, ids, kds)
  PROVE  ContextInv'
<1>1. ServersInv'
  BY DEF ContextInv, ServersInv, InUse
<1>2. FlowsInv' /\ TableInv'
  BY NewFlowFlows, NewFlowTable DEF ContextInv
<1>3. /\ \A f \in DOMAIN flows : f \in DOMAIN flows' /\ flows'[f] = flows[f]
      /\ \A x, y \in DOMAIN flows : Before(order', x, y) <=> Before(order, x, y)
  <2>1. Entered(on, ids, kds)
    BY NewFlowTable DEF ContextInv
  <2> QED BY <2>1 DEF Entered
<1>4. \A f \in DOMAIN flows : Bucket(f)' = Bucket(f)
  BY <1>3 DEF Bucket
<1>5. IterInv'
  <2>1. CASE ~iter.on
    BY <2>1, IterOff DEF ContextInv, IterInv
  <2>2. CASE iter.on
    <3>1. iter.fdb # NULL /\ (iter.all => iter.close)
      BY <2>2 DEF Working, Idle, InCallback
    <3> QED BY <1>3, <1>4, <2>2, <3>1 DEF ContextInv, IterInv
  <2> QED BY <2>1, <2>2
<1> QED BY <1>1, <1>2, <1>5 DEF ContextInv

LEMMA NewFlowStep ==
  ASSUME ContextInv, Working, UNCHANGED <<nl, servers, iter>>,
         \/ \E src \in Sources, req \in Requests : pcp_new_flow(src, req)
         \/ \E i \in DOMAIN servers : create_natpmp_ann_msg(i)
  PROVE  ContextInv'
<1>1. \E on, ids, kds : Fresh(on, ids, kds) /\ Enters(on, ids, kds)
  BY NewFlowEnters, AnnounceEnters DEF ContextInv
<1> QED BY <1>1, EntersStep

-----------------------------------------------------------------------------
(* The walk. *)

(* What a callback has done to the table when it returns: delete_flow_iter  *)
(* has taken the flow that the walk is at.                                  *)
Survives ==
  /\ DOMAIN flows' = IF iter.all THEN DOMAIN flows \ {iter.fdb} ELSE DOMAIN flows
  /\ \A f \in DOMAIN flows' : flows'[f].kd = flows[f].kd
  /\ \A x, y \in DOMAIN flows' : Before(order', x, y) <=> Before(order, x, y)

LEMMA CallbackStep ==
  ASSUME ContextInv, iter.on, iter.fdb # NULL, UNCHANGED <<nl, servers>>,
         IF iter.all THEN Delete({iter.fdb}) ELSE UNCHANGED table,
         iter'.on = iter.on, iter'.all = iter.all
  PROVE  ServersInv' /\ FlowsInv' /\ TableInv' /\ Survives
<1>1. ServersInv'
  BY DEF ContextInv, ServersInv, InUse
<1>2. iter.fdb \in DOMAIN flows
  BY DEF ContextInv, IterInv
<1>3. CASE iter.all
  <2> DEFINE gone == {iter.fdb}
  <2>1. gone \in SUBSET DOMAIN flows /\ Delete(gone)
    BY <1>2, <1>3
  <2> HIDE DEF gone
  <2>2. \A g \in SUBSET DOMAIN flows : Delete(g) =>
          /\ TableInv' /\ DOMAIN flows' = DOMAIN flows \ g
          /\ flows' = [f \in DOMAIN flows' |-> flows'[f]]
          /\ \A f \in DOMAIN flows' : flows'[f] = flows[f]
          /\ \A x, y \in DOMAIN flows' : Before(order', x, y) <=> Before(order, x, y)
    BY DeleteTable DEF ContextInv
  <2>3. /\ TableInv' /\ DOMAIN flows' = DOMAIN flows \ gone
        /\ flows' = [f \in DOMAIN flows' |-> flows'[f]]
        /\ \A f \in DOMAIN flows' : flows'[f] = flows[f]
        /\ \A x, y \in DOMAIN flows' : Before(order', x, y) <=> Before(order, x, y)
    BY <2>1, <2>2
  <2>4. FlowsInv'
    BY <1>3, <2>3 DEF ContextInv, FlowsInv, InUse
  <2>5. Survives
    BY <1>3, <2>3 DEF Survives, gone
  <2> QED BY <1>1, <2>3, <2>4, <2>5
<1>4. CASE ~iter.all
  <2>1. flows' = flows /\ chain' = chain /\ flow_cnt' = flow_cnt /\ order' = order
    BY <1>4 DEF table
  <2>2. TableInv'
    BY <2>1, TableSame DEF SameKeys, ContextInv
  <2>3. FlowsInv'
    BY <1>4, <2>1 DEF ContextInv, FlowsInv, InUse, Family, Closed
  <2> QED BY <1>1, <1>4, <2>1, <2>2, <2>3 DEF Survives
<1> QED BY <1>3, <1>4

LEMMA VisitStep ==
  ASSUME ContextInv, nl.at = "ready", UNCHANGED <<nl, servers>>, IterVisit
  PROVE  ContextInv'
<1> DEFINE f == iter.fdb
           b == iter.indx
<1>a. PICK next, after : next = iter.next /\ after = After(chain'[b], next)
  OBVIOUS
<1>0. /\ iter.on /\ f # NULL /\ iter \in IterRec
      /\ IF iter.all THEN Delete({f}) ELSE UNCHANGED table
      /\ f \in DOMAIN flows /\ Bucket(f) = b
      /\ iter' = [iter EXCEPT !.fdb = next, !.next = after,
                              !.indx = IF next = NULL THEN @ + 1 ELSE @,
                              !.left = @ \ {f},
                              !.seen = IF iter.all THEN {} ELSE @ \cup {f}]
  BY <1>a DEF IterVisit, fdb_next, ContextInv, IterInv
<1>1. b \in Buckets /\ b \in Nat /\ b + 1 \in 0 .. NBuckets /\ b \in 0 .. NBuckets
  <2>1. b \in Buckets
    BY <1>0, FlowBucket DEF ContextInv
  <2> QED BY <2>1, ContextAssumption DEF Buckets
<1>2. /\ iter'.on = iter.on /\ iter'.all = iter.all /\ iter'.close = iter.close
      /\ iter'.fdb = next /\ iter'.next = after /\ iter'.left = iter.left \ {f}
      /\ iter'.seen = (IF iter.all THEN {} ELSE iter.seen \cup {f})
      /\ iter'.indx = IF next = NULL THEN b + 1 ELSE b
  BY <1>0 DEF IterRec
<1>3. ServersInv' /\ FlowsInv' /\ TableInv' /\ Survives
  BY <1>0, <1>2, CallbackStep
<1>4. /\ chain'[b] \in Seq(FlowIds) /\ order' \in Seq(FlowIds)
      /\ Injective(chain'[b]) /\ Injective(order')
      /\ Elems(chain'[b]) = {g \in DOMAIN flows' : Bucket(g)' = b}
      /\ Elems(order') = DOMAIN flows'
      /\ \A x, y : Before(chain'[b], x, y) <=>
           x \in Elems(chain'[b]) /\ y \in Elems(chain'[b]) /\ Before(order', x, y)
  <2>1. /\ chain'[b] \in Seq(FlowIds) /\ order' \in Seq(FlowIds) /\ Injective(order')
        /\ Ordered(chain'[b], order', Len(order'))
        /\ Elems(chain'[b]) = {g \in DOMAIN flows' : Bucket(g)' = b}
        /\ Elems(order') = DOMAIN flows'
    BY <1>1, <1>3 DEF TableInv
  <2>2. \A x, y : Before(order', x, y) <=> BeforeUpto(order', Len(order'), x, y)
    BY <2>1, UptoAll
  <2> QED BY <2>1, <2>2 DEF Ordered
<1>5. /\ \A x, y : Before(order, x, y) => x # y
      /\ \A x, y, z : Before(order, x, y) /\ Before(order, y, z) => Before(order, x, z)
  BY BeforeFacts DEF ContextInv, TableInv
<1>6. \A g \in DOMAIN flows' : g \in DOMAIN flows /\ Bucket(g)' = Bucket(g)
  BY <1>3 DEF Survives, Bucket
<1>7. \A g \in DOMAIN flows : g # f => g \in DOMAIN flows'
  BY <1>3 DEF Survives
<1>8. next # NULL => /\ next \in DOMAIN flows' /\ next # f /\ Bucket(next)' = b
                     /\ Before(order, f, next) /\ next \in Elems(chain'[b])
  <2>1. next # NULL => /\ next \in DOMAIN flows /\ Bucket(next) = b
                       /\ Before(order, f, next)
    BY <1>a DEF ContextInv, IterInv, Bucket
  <2> QED BY <1>4, <1>5, <1>6, <1>7, <2>1
<1>9. next = NULL => after = NULL
  <2>1. ASSUME NEW s \in Seq(FlowIds)
        PROVE  After(s, NULL) = NULL
    BY AfterNull
  <2> QED BY <1>4, <1>a, <2>1
<1>10. next # NULL =>
         /\ after # NULL => after \in Elems(chain'[b]) /\ Before(order', next, after)
         /\ \A y \in Elems(chain'[b]) : y # next /\ ~Before(order', y, next) =>
              after # NULL /\ ~Before(order', y, after)
  <2>1. ASSUME NEW s \in Seq(FlowIds), NEW all \in Seq(FlowIds), Injective(s),
               Injective(all), Elems(s) \subseteq Elems(all), NEW g \in Elems(s),
               \A x, y : Before(s, x, y) <=>
                           x \in Elems(s) /\ y \in Elems(s) /\ Before(all, x, y)
        PROVE  /\ After(s, g) # NULL => After(s, g) \in Elems(s) /\ Before(all, g, After(s, g))
               /\ \A y \in Elems(s) : y # g /\ ~Before(all, y, g) =>
                    After(s, g) # NULL /\ ~Before(all, y, After(s, g))
    BY <2>1, BehindFacts
  <2>2. Elems(chain'[b]) \subseteq Elems(order')
    BY <1>4
  <2> QED BY <1>4, <1>8, <1>a, <2>1, <2>2
<1>11. after # NULL => /\ next # NULL /\ after \in DOMAIN flows' /\ Bucket(after)' = b
                       /\ Before(order', next, after)
  BY <1>4, <1>9, <1>10
<1>12. iter' \in IterRec
  <2>1. DOMAIN flows' \subseteq FlowIds /\ f \in FlowIds
    BY <1>0, <1>3 DEF ContextInv, FlowsInv
  <2>2. next \in FlowIds \cup {NULL} /\ after \in FlowIds \cup {NULL}
    BY <1>8, <1>11, <2>1
  <2>3. iter'.indx \in 0 .. NBuckets
    BY <1>1, <1>2
  <2>4. iter'.left \in SUBSET FlowIds /\ iter'.seen \in SUBSET FlowIds
    BY <1>0, <1>2, <2>1 DEF IterRec
  <2>5. iter' = [on |-> iter.on, indx |-> iter'.indx, fdb |-> next, next |-> after,
                 all |-> iter.all, close |-> iter.close, left |-> iter'.left,
                 seen |-> iter'.seen]
    BY <1>0, <1>2 DEF IterRec
  <2> QED BY <1>0, <2>2, <2>3, <2>4, <2>5 DEF IterRec
<1>13. \A g \in DOMAIN flows : Bucket(g) \in Nat
  BY FlowBucket, ContextAssumption DEF ContextInv, Buckets
<1>14. ASSUME NEW g \in iter.left, g # f
       PROVE  /\ g \in DOMAIN flows' /\ Bucket(g)' >= iter'.indx
              /\ Bucket(g)' = iter'.indx /\ next # NULL /\ g # next =>
                   after # NULL /\ ~Before(order', g, after)
  <2>1. /\ g \in DOMAIN flows /\ Bucket(g) >= b
        /\ Bucket(g) = b => next # NULL /\ ~Before(order, g, next)
    BY <1>0, <1>14, <1>a DEF ContextInv, IterInv
  <2>2. g \in DOMAIN flows' /\ Bucket(g)' = Bucket(g)
    BY <1>6, <1>7, <1>14, <2>1
  <2>3. CASE next = NULL
    BY <1>1, <1>2, <1>13, <2>1, <2>2, <2>3
  <2>4. CASE next # NULL
    <3>1. Before(order', g, next) <=> Before(order, g, next)
      BY <1>3, <1>8, <2>2, <2>4 DEF Survives
    <3>2. Bucket(g) = b => g \in Elems(chain'[b]) /\ ~Before(order', g, next)
      BY <1>4, <2>1, <2>2, <3>1
    <3> QED BY <1>2, <1>10, <2>1, <2>2, <2>4, <3>2
  <2> QED BY <2>3, <2>4
<1>15. ASSUME NEW g \in iter'.seen
       PROVE  /\ g \in DOMAIN flows'
              /\ \/ Bucket(g)' < iter'.indx
                 \/ Bucket(g)' = iter'.indx /\ next # NULL /\ Before(order', g, next)
  <2>1. ~iter.all /\ (g = f \/ g \in iter.seen)
    BY <1>2, <1>15
  <2>2. /\ g \in DOMAIN flows
        /\ Bucket(g) < b \/ (Bucket(g) = b /\ (g = f \/ Before(order, g, f)))
    BY <1>0, <2>1 DEF ContextInv, IterInv
  <2>3. g \in DOMAIN flows' /\ Bucket(g)' = Bucket(g)
    BY <1>3, <1>6, <2>1, <2>2 DEF Survives
  <2>4. CASE next = NULL
    BY <1>1, <1>2, <1>13, <2>2, <2>3, <2>4
  <2>5. CASE next # NULL
    <3>1. g = f \/ Before(order, g, f) => Before(order, g, next)
      BY <1>5, <1>8, <2>5
    <3>2. Before(order', g, next) <=> Before(order, g, next)
      BY <1>3, <1>8, <2>3, <2>5 DEF Survives
    <3> QED BY <1>2, <2>2, <2>3, <2>5, <3>1, <3>2
  <2> QED BY <2>4, <2>5
<1>16. /\ iter.all => iter'.seen = {}
       /\ iter.all /\ ~iter.close => DOMAIN flows' \subseteq iter'.left
  BY <1>0, <1>2, <1>3 DEF Survives, ContextInv, IterInv
<1>17. IterInv'
  <2>1. (iter'.on => nl'.at = "ready") /\ (~iter'.on => iter' = NoIter)
    BY <1>0, <1>2
  <2>2. iter'.fdb # NULL => iter'.fdb \in DOMAIN flows' /\ Bucket(iter.fdb)' = iter'.indx
    BY <1>2, <1>8
  <2>3. iter'.next # NULL => /\ iter'.next \in DOMAIN flows'
                             /\ Bucket(iter.next)' = iter'.indx
                             /\ iter'.fdb # NULL /\ Before(order', iter'.fdb, iter'.next)
    BY <1>2, <1>11
  <2>4. \A g \in iter'.left :
          /\ g \in DOMAIN flows' /\ Bucket(g)' >= iter'.indx
          /\ Bucket(g)' = iter'.indx /\ iter'.fdb # NULL /\ g # iter'.fdb =>
               iter'.next # NULL /\ ~Before(order', g, iter'.next)
    BY <1>2, <1>14
  <2>5. \A g \in iter'.seen :
          /\ g \in DOMAIN flows'
          /\ \/ Bucket(g)' < iter'.indx
             \/ Bucket(g)' = iter'.indx /\ iter'.fdb # NULL /\ Before(order', g, iter'.fdb)
    BY <1>2, <1>15
  <2> QED BY <1>2, <1>12, <1>16, <2>1, <2>2, <2>3, <2>4, <2>5 DEF IterInv, Bucket
<1> QED BY <1>3, <1>17 DEF ContextInv

LEMMA HeadFacts ==
  ASSUME NEW S, NEW s \in Seq(S), Injective(s), s # <<>>
  PROVE  Head(s) \in Elems(s) /\ \A y : ~Before(s, y, Head(s))
<1>1. Len(s) \in Nat /\ DOMAIN s = 1 .. Len(s) /\ 1 \in 1 .. Len(s) /\ Head(s) = s[1]
  OBVIOUS
<1>2. Head(s) \in Elems(s)
  BY <1>1 DEF Elems
<1>3. \A j \in 1 .. Len(s) : s[j] = s[1] => j = 1
  BY <1>1 DEF Injective
<1> QED BY <1>1, <1>2, <1>3 DEF Before

LEMMA IterStartStep ==
  ASSUME ContextInv, nl.at = "ready", UNCHANGED <<nl, servers>>,
         NEW all \in BOOLEAN, NEW close \in BOOLEAN, IterStart(all, close)
  PROVE  IterInv'
<1>1. iter' = [on |-> TRUE, indx |-> 0, fdb |-> NULL, next |-> NULL, all |-> all,
               close |-> close, left |-> DOMAIN flows, seen |-> {}]
      /\ flows' = flows
  BY DEF IterStart, NoIter, table
<1>2. /\ iter'.on /\ iter'.indx = 0 /\ iter'.fdb = NULL /\ iter'.next = NULL
      /\ iter'.left = DOMAIN flows /\ iter'.seen = {}
  BY <1>1
<1>3. iter' \in IterRec
  <2>1. DOMAIN flows \in SUBSET FlowIds /\ 0 \in 0 .. NBuckets
    BY ContextAssumption DEF ContextInv, FlowsInv
  <2> QED BY <1>1, <2>1 DEF IterRec
<1>4. \A f \in DOMAIN flows : Bucket(f)' >= 0
  <2>1. \A f \in DOMAIN flows : Bucket(f) \in Nat /\ Bucket(f)' = Bucket(f)
    BY <1>1, FlowBucket, ContextAssumption DEF ContextInv, Buckets, Bucket
  <2> QED BY <2>1
<1> QED BY <1>1, <1>2, <1>3, <1>4 DEF IterInv

LEMMA IterStepStep ==
  ASSUME ContextInv, nl.at = "ready", UNCHANGED <<nl, servers>>, IterStep
  PROVE  IterInv' /\ iter'.on = iter.on /\ iter'.all = iter.all
<1> DEFINE b == iter.indx
<1>1. /\ iter \in IterRec /\ iter.on /\ iter.fdb = NULL /\ iter.next = NULL
      /\ b < NBuckets /\ flows' = flows /\ order' = order
      /\ \A f \in iter.left : f \in DOMAIN flows /\ Bucket(f) >= b
      /\ \A f \in iter.seen : f \in DOMAIN flows /\ Bucket(f) < b
      /\ iter.all => iter.seen = {}
      /\ iter.all /\ ~iter.close => DOMAIN flows \subseteq iter.left
  BY DEF IterStep, table, ContextInv, IterInv
<1>2. b \in Buckets /\ b \in Nat /\ b + 1 \in 0 .. NBuckets
  BY <1>1, ContextAssumption DEF IterRec, Buckets
<1>3. \A f \in DOMAIN flows : Bucket(f) \in Nat /\ Bucket(f)' = Bucket(f)
  BY <1>1, FlowBucket, ContextAssumption DEF ContextInv, Buckets, Bucket
<1>4. /\ chain[b] \in Seq(FlowIds) /\ Injective(chain[b])
      /\ order \in Seq(FlowIds) /\ Injective(order) /\ Elems(order) = DOMAIN flows
      /\ Elems(chain[b]) = {f \in DOMAIN flows : Bucket(f) = b}
      /\ \A x, y : Before(chain[b], x, y) <=>
                     x \in Elems(chain[b]) /\ y \in Elems(chain[b]) /\ Before(order, x, y)
  BY <1>2, ChainOrder DEF ContextInv, TableInv
<1>5. CASE chain[b] = <<>>
  <2>1. iter' = [iter EXCEPT !.indx = b + 1]
    BY <1>5 DEF IterStep
  <2>2. /\ iter'.on /\ iter'.indx = b + 1 /\ iter'.fdb = NULL /\ iter'.next = NULL
        /\ iter'.all = iter.all /\ iter'.close = iter.close
        /\ iter'.left = iter.left /\ iter'.seen = iter.seen /\ iter' \in IterRec
    BY <1>1, <1>2, <2>1 DEF IterRec
  <2>3. \A f \in DOMAIN flows : Bucket(f) # b
    BY <1>4, <1>5, EmptyFacts
  <2>4. \A f \in iter.left : f \in DOMAIN flows /\ Bucket(f)' >= b + 1
    BY <1>1, <1>2, <1>3, <2>3
  <2>5. \A f \in iter.seen : f \in DOMAIN flows /\ Bucket(f)' < b + 1
    BY <1>1, <1>2, <1>3
  <2> HIDE DEF b
  <2> QED BY <1>1, <2>2, <2>4, <2>5 DEF IterInv
<1>6. CASE chain[b] # <<>>
  <2> DEFINE h == Head(chain[b])
             n == After(chain[b], h)
  <2>1. iter' = [iter EXCEPT !.fdb = h, !.next = n]
    BY <1>6 DEF IterStep
  <2>2. h \in Elems(chain[b]) /\ \A y : ~Before(chain[b], y, h)
    <3>1. ASSUME NEW s \in Seq(FlowIds), Injective(s), s # <<>>
          PROVE  Head(s) \in Elems(s) /\ \A y : ~Before(s, y, Head(s))
      BY <3>1, HeadFacts
    <3> QED BY <1>4, <1>6, <3>1
  <2> HIDE DEF h
  <2>3. h \in DOMAIN flows /\ Bucket(h) = b /\ h \in FlowIds /\ h # NULL
    BY <1>4, <2>2, FlowIdsNotNull DEF ContextInv, FlowsInv
  <2>4. /\ n # NULL => n \in Elems(chain[b]) /\ Before(order, h, n)
        /\ \A y \in Elems(chain[b]) : y # h /\ ~Before(order, y, h) =>
             n # NULL /\ ~Before(order, y, n)
    <3>1. ASSUME NEW s \in Seq(FlowIds), NEW all \in Seq(FlowIds), Injective(s),
                 Injective(all), Elems(s) \subseteq Elems(all), NEW g \in Elems(s),
                 \A x, y : Before(s, x, y) <=>
                             x \in Elems(s) /\ y \in Elems(s) /\ Before(all, x, y)
          PROVE  /\ After(s, g) # NULL => After(s, g) \in Elems(s) /\ Before(all, g, After(s, g))
                 /\ \A y \in Elems(s) : y # g /\ ~Before(all, y, g) =>
                      After(s, g) # NULL /\ ~Before(all, y, After(s, g))
      BY <3>1, BehindFacts
    <3>2. Elems(chain[b]) \subseteq Elems(order)
      BY <1>4
    <3> QED BY <1>4, <2>2, <3>1, <3>2
  <2> HIDE DEF n
  <2>5. n # NULL => n \in DOMAIN flows /\ Bucket(n) = b /\ Before(order, h, n)
    BY <1>4, <2>4
  <2>6. n \in FlowIds \cup {NULL}
    BY <2>5 DEF ContextInv, FlowsInv
  <2>7. /\ iter'.on /\ iter'.indx = b /\ iter'.fdb = h /\ iter'.next = n
        /\ iter'.all = iter.all /\ iter'.close = iter.close
        /\ iter'.left = iter.left /\ iter'.seen = iter.seen /\ iter' \in IterRec
    BY <1>1, <2>1, <2>3, <2>6 DEF IterRec
  <2>8. \A f \in DOMAIN flows : Bucket(f) = b /\ f # h => n # NULL /\ ~Before(order, f, n)
    BY <1>4, <2>2, <2>4
  <2> HIDE DEF b
  <2> QED BY <1>1, <1>3, <2>3, <2>5, <2>7, <2>8 DEF IterInv
<1> QED BY <1>1, <1>5, <1>6, Zenon

(* The walk has passed over no flow; that of pcp_terminate without          *)
(* close_flows has left none behind.                                        *)
LEMMA WalkedThrough ==
  ASSUME ContextInv, iter.on, iter.indx = NBuckets
  PROVE  iter.left = {} /\ (iter.all /\ ~iter.close => DOMAIN flows = {})
<1>1. \A f \in DOMAIN flows : ~(Bucket(f) >= NBuckets)
  <2>1. \A f \in DOMAIN flows : Bucket(f) \in 0 .. (NBuckets - 1)
    BY FlowBucket DEF ContextInv, Buckets
  <2> QED BY <2>1, ContextAssumption
<1> QED BY <1>1 DEF ContextInv, IterInv

(* Every step keeps the invariant. *)
LEMMA UnchangedServers ==
  ASSUME ServersInv, UNCHANGED <<nl, servers>>
  PROVE  ServersInv'
BY DEF ServersInv, InUse

LEMMA UnchangedTable ==
  ASSUME FlowsInv, TableInv, UNCHANGED <<servers, table>>,
         iter.on /\ iter.all => iter'.on /\ iter'.all
  PROVE  FlowsInv' /\ TableInv'
<1>1. flows' = flows /\ chain' = chain /\ flow_cnt' = flow_cnt /\ order' = order
  BY DEF table
<1>2. TableInv'
  BY <1>1, TableSame DEF SameKeys
<1>3. Family => Family'
  BY <1>1 DEF Family, Closed
<1> QED BY <1>1, <1>2, <1>3 DEF FlowsInv, InUse

LEMMA DiscoverStep ==
  ASSUME ContextInv, Discover, UNCHANGED <<table, iter>>
  PROVE  ContextInv'
<1>1. flows' = flows /\ chain' = chain /\ flow_cnt' = flow_cnt /\ order' = order
  BY DEF table
<1>2. nl.at # "ready"
  BY DEF Discover, Lookup, getgateways, readNlSock, parse_gateways, psd_add_gw, pcp_init
<1>3. ~iter.on
  BY <1>2 DEF ContextInv, IterInv
<1>4. ServersInv' /\ StayBut(NULL)
  <2>1. CASE Lookup /\ UNCHANGED servers
    <3>1. nl' \in NlRec
      BY <2>1, LookupTyped DEF ContextInv, ServersInv
    <3> QED BY <2>1, <3>1 DEF ContextInv, ServersInv, StayBut, InUse
  <2>2. CASE psd_add_gw
    BY <2>2, AddGatewayStep DEF ContextInv
  <2>3. CASE pcp_init
    <3>1. nl' \in NlRec /\ servers' = servers
      BY <2>3, NoLookupTyped DEF pcp_init
    <3> QED BY <3>1 DEF ContextInv, ServersInv, StayBut, InUse
  <2> QED BY <2>1, <2>2, <2>3 DEF Discover
<1>5. FlowsInv'
  BY <1>1, <1>4, ServersFlows DEF ContextInv, ServersInv
<1>6. TableInv'
  BY <1>1, TableSame DEF ContextInv, SameKeys
<1>7. IterInv'
  BY <1>3, IterOff DEF ContextInv, IterInv
<1> QED BY <1>4, <1>5, <1>6, <1>7 DEF ContextInv

LEMMA ServerMovesContext ==
  ASSUME ContextInv, ServerMoves, UNCHANGED <<table, iter>>
  PROVE  ContextInv'
<1>1. flows' = flows /\ chain' = chain /\ flow_cnt' = flow_cnt /\ order' = order
  BY DEF table
<1>2. ServersInv' /\ StayBut(NULL)
  BY ServerMovesStep DEF ContextInv
<1>3. FlowsInv'
  BY <1>1, <1>2, ServersFlows DEF ContextInv, ServersInv
<1>4. TableInv'
  BY <1>1, TableSame DEF ContextInv, SameKeys
<1>5. IterInv'
  BY <1>1, IterSame DEF ContextInv, IterInv, SameKeys, ServerMoves
<1> QED BY <1>2, <1>3, <1>4, <1>5 DEF ContextInv

LEMMA WalkStep ==
  ASSUME ContextInv, nl.at = "ready", UNCHANGED <<nl, servers>>,
         \/ \E all, close \in BOOLEAN : (close => all) /\ IterStart(all, close)
         \/ IterStep \/ IterVisit \/ IterStop \/ IterEnd
  PROVE  ContextInv'
<1>0. ServersInv'
  BY UnchangedServers DEF ContextInv
<1>1. CASE \E all, close \in BOOLEAN : IterStart(all, close)
  <2>1. PICK all \in BOOLEAN, close \in BOOLEAN : IterStart(all, close)
    BY <1>1
  <2>2. IterInv'
    BY <2>1, IterStartStep
  <2>3. ~iter.on /\ UNCHANGED table
    BY <2>1 DEF IterStart
  <2>4. FlowsInv' /\ TableInv'
    BY <2>3, UnchangedTable DEF ContextInv
  <2> QED BY <1>0, <2>2, <2>4 DEF ContextInv
<1>2. CASE IterStep
  <2>1. IterInv' /\ iter'.on = iter.on /\ iter'.all = iter.all
    BY <1>2, IterStepStep
  <2>2. FlowsInv' /\ TableInv'
    BY <1>2, <2>1, UnchangedTable DEF ContextInv, IterStep
  <2> QED BY <1>0, <2>1, <2>2 DEF ContextInv
<1>3. CASE IterVisit
  BY <1>3, VisitStep
<1>4. CASE IterStop \/ IterEnd
  <2>1. iter' = NoIter /\ ~iter.all /\ UNCHANGED table
    BY <1>4 DEF IterStop, IterEnd
  <2>2. FlowsInv' /\ TableInv'
    BY <2>1, UnchangedTable DEF ContextInv
  <2> QED BY <1>0, <2>1, <2>2, IterOff DEF ContextInv
<1> QED BY <1>1, <1>2, <1>3, <1>4

LEMMA TerminateStep ==
  ASSUME pcp_terminate
  PROVE  ContextInv'
<1>1. Init'
  BY DEF pcp_terminate, Init
<1>2. Init' => ContextInv'
  BY InitContext, PTL
<1> QED BY <1>1, <1>2

LEMMA NextContext == ContextInv /\ [Next]_cvars => ContextInv'
<1> SUFFICES ASSUME ContextInv, [Next]_cvars
             PROVE  ContextInv'
  OBVIOUS
<1>1. CASE Discover /\ UNCHANGED <<table, iter>>
  BY <1>1, DiscoverStep
<1>2. CASE Idle /\ AddServer /\ UNCHANGED iter
  BY <1>2, AddServerFlows DEF Idle
<1>3. CASE Working /\ ServerMoves /\ UNCHANGED <<table, iter>>
  BY <1>3, ServerMovesContext
<1>4. CASE /\ Working /\ UNCHANGED <<nl, servers, iter>>
           /\ \/ \E src \in Sources, req \in Requests : pcp_new_flow(src, req)
              \/ \E i \in DOMAIN servers : create_natpmp_ann_msg(i)
  BY <1>4, NewFlowStep
<1>5. CASE /\ Idle /\ UNCHANGED <<nl, servers, iter>>
           /\ \E f \in FlowIds : pcp_delete_flow(f)
  BY <1>5, DeleteFlowStep DEF Idle
<1>6. CASE /\ nl.at = "ready" /\ UNCHANGED <<nl, servers>>
           /\ \/ \E all, close \in BOOLEAN : (close => all) /\ IterStart(all, close)
              \/ IterStep \/ IterVisit \/ IterStop \/ IterEnd
  BY <1>6, WalkStep
<1>7. CASE pcp_terminate
  BY <1>7, TerminateStep
<1>8. CASE UNCHANGED cvars
  <2>1. UNCHANGED <<nl, servers>> /\ UNCHANGED <<servers, table>> /\ iter' = iter
        /\ order' = order /\ flows' = flows /\ nl' = nl
    BY <1>8 DEF cvars, table
  <2>2. ServersInv' /\ FlowsInv' /\ TableInv'
    BY <2>1, UnchangedServers, UnchangedTable DEF ContextInv
  <2>3. IterInv'
    BY <2>1, IterSame DEF ContextInv, SameKeys, IterInv
  <2> QED BY <2>2, <2>3 DEF ContextInv
<1> QED BY <1>1, <1>2, <1>3, <1>4, <1>5, <1>6, <1>7, <1>8 DEF Next

-----------------------------------------------------------------------------
(* The theorems. *)

(* The servers, the table of the flows and the walk through it stay         *)
(* consistent with one another in every step of a context.                  *)
THEOREM ContextInductive == Spec => []ContextInv
<1>1. Init => ContextInv
  BY InitContext
<1>2. ContextInv /\ [Next]_cvars => ContextInv'
  BY NextContext
<1> QED BY <1>1, <1>2, PTL DEF Spec

(* Servers, flows, chains and the walk keep their types, and flow_cnt never *)
(* leaves the range of the flows there can be.                              *)
THEOREM ContextTypeCorrect == Spec => []TypeOK
<1>1. ContextInv => TypeOK
  <2> SUFFICES ASSUME ContextInv
               PROVE  TypeOK
    OBVIOUS
  <2>1. flow_cnt \in 0 .. NFlows
    BY FlowIdsFinite DEF ContextInv, TableInv, FlowsInv
  <2> QED BY <2>1 DEF TypeOK, ContextInv, ServersInv, FlowsInv, TableInv, IterInv
<1> QED BY <1>1, ContextInductive, PTL

(* pcp_db_add_flow and pcp_db_rem_flow: every flow is once in the chain of  *)
(* its hash and in no other, and flow_cnt is the number of the flows.       *)
THEOREM TableSound == Spec => []TableWellFormed
<1>1. ContextInv => TableWellFormed
  <2> SUFFICES ASSUME ContextInv
               PROVE  TableWellFormed
    OBVIOUS
  <2>1. ASSUME NEW b \in Buckets, NEW f \in FlowIds
        PROVE  Cardinality({k \in DOMAIN chain[b] : chain[b][k] = f}) =
                 IF f \in DOMAIN flows /\ compute_flow_key(flows[f].kd) = b THEN 1 ELSE 0
    <3> DEFINE at == {k \in DOMAIN chain[b] : chain[b][k] = f}
    <3>1. Injective(chain[b]) /\ Elems(chain[b]) = {g \in DOMAIN flows : Bucket(g) = b}
      BY ChainOrder DEF ContextInv, TableInv
    <3>2. f \in Elems(chain[b]) <=> f \in DOMAIN flows /\ compute_flow_key(flows[f].kd) = b
      BY <3>1 DEF Bucket
    <3>3. CASE f \in Elems(chain[b])
      <4>1. PICK k \in DOMAIN chain[b] : chain[b][k] = f
        BY <3>3 DEF Elems
      <4>2. at = {k}
        BY <3>1, <4>1 DEF Injective
      <4>3. Cardinality(at) = 1
        BY <4>2, FS_Singleton
      <4> QED BY <3>2, <3>3, <4>3
    <3>4. CASE f \notin Elems(chain[b])
      <4>1. at = {}
        BY <3>4 DEF Elems
      <4>2. Cardinality(at) = 0
        BY <4>1, FS_EmptySet
      <4> QED BY <3>2, <3>4, <4>2
    <3> QED BY <3>3, <3>4
  <2> QED BY <2>1 DEF TableWellFormed, ContextInv, TableInv
<1> QED BY <1>1, ContextInductive, PTL

(* pcp_db_foreach_flow never holds or goes on with a flow that was freed or *)
(* that is in another chain than the one it walks, through all additions    *)
(* its callback makes, the pulse of delete_flow_iter included.              *)
THEOREM WalkHoldsLive == Spec => []IterationHoldsLive
<1>1. ContextInv => IterationHoldsLive
  BY DEF ContextInv, IterInv, IterationHoldsLive
<1> QED BY <1>1, ContextInductive, PTL

(* pcp_db_foreach_flow gives its callback no flow twice and, when it is     *)
(* through, has missed none that was there from its beginning, whatever the *)
(* callback has added; so pcp_terminate frees every flow there was, and     *)
(* without close_flows the table is empty then. What pcp_pulse adds with    *)
(* close_flows may stay.                                                    *)
THEOREM WalkIsComplete == Spec => []IterationIsComplete
<1>1. ContextInv => IterationIsComplete
  <2> SUFFICES ASSUME ContextInv
               PROVE  IterationIsComplete
    OBVIOUS
  <2>1. ASSUME iter.fdb \in iter.seen
        PROVE  FALSE
    <3>1. iter.fdb # NULL
      BY <2>1, FlowIdsNotNull DEF ContextInv, IterInv, IterRec
    <3>2. iter.fdb \in DOMAIN flows /\ Bucket(iter.fdb) = iter.indx
      BY <3>1 DEF ContextInv, IterInv
    <3>3. iter.indx \in Nat
      BY ContextAssumption DEF ContextInv, IterInv, IterRec
    <3>4. Before(order, iter.fdb, iter.fdb)
      BY <2>1, <3>2, <3>3 DEF ContextInv, IterInv
    <3> QED BY <3>4, BeforeFacts DEF ContextInv, TableInv
  <2>2. ASSUME iter.on, iter.indx = NBuckets
        PROVE  iter.left = {} /\ (iter.all /\ ~iter.close => flow_cnt = 0)
    <3>1. iter.left = {} /\ (iter.all /\ ~iter.close => DOMAIN flows = {})
      BY <2>2, WalkedThrough
    <3> QED BY <3>1, FS_EmptySet DEF ContextInv, TableInv
  <2> QED BY <2>1, <2>2 DEF IterationIsComplete
<1> QED BY <1>1, ContextInductive, PTL

(* The first flow with a key and a server is the same in its chain and      *)
(* among all flows.                                                         *)
Oldest(kd, i) ==
  order[CHOOSE j \in DOMAIN order :
          /\ flows[order[j]].kd = kd /\ flows[order[j]].indx = i
          /\ \A l \in 1 .. (j - 1) : \/ flows[order[l]].kd # kd
                                     \/ flows[order[l]].indx # i]

LEMMA FirstOfKey ==
  ASSUME ContextInv, NEW f \in DOMAIN flows, NEW kd, NEW i,
         flows[f].kd = kd, flows[f].indx = i
  PROVE  pcp_get_flow(kd, i) = Oldest(kd, i)
<1> DEFINE b == compute_flow_key(kd)
           ch == chain[b]
           Match(g) == flows[g].kd = kd /\ flows[g].indx = i
           at == {k \in DOMAIN ch : Match(ch[k])}
           m == CHOOSE k \in at : \A j \in at : k <= j
           First(j) == /\ flows[order[j]].kd = kd /\ flows[order[j]].indx = i
                       /\ \A l \in 1 .. (j - 1) : \/ flows[order[l]].kd # kd
                                                  \/ flows[order[l]].indx # i
           p == CHOOSE j \in DOMAIN order : First(j)
<1>1. b \in Buckets /\ Bucket(f) = b
  BY FlowBucket DEF ContextInv, Bucket
<1>2. /\ ch \in Seq(FlowIds) /\ Injective(ch)
      /\ Elems(ch) = {g \in DOMAIN flows : Bucket(g) = b}
      /\ \A x, y : Before(ch, x, y) <=> x \in Elems(ch) /\ y \in Elems(ch) /\ Before(order, x, y)
      /\ Len(ch) \in Nat /\ DOMAIN ch = 1 .. Len(ch)
  BY <1>1, ChainOrder DEF ContextInv, TableInv
<1>3. /\ Len(order) \in Nat /\ DOMAIN order = 1 .. Len(order) /\ Injective(order)
      /\ Elems(order) = DOMAIN flows
  BY DEF ContextInv, TableInv
<1>4. pcp_get_flow(kd, i) = IF at = {} THEN NULL ELSE ch[m]
  BY Zenon DEF pcp_get_flow
<1>5. at # {} /\ at \in SUBSET (1 .. Len(ch))
  BY <1>1, <1>2 DEF Elems
<1>6. m \in at /\ \A j \in at : m <= j
  <2>1. ASSUME NEW n \in Nat, NEW s \in SUBSET (1 .. n), s # {}
        PROVE  (CHOOSE k \in s : \A j \in s : k <= j) \in s
               /\ \A j \in s : (CHOOSE k \in s : \A l \in s : k <= l) <= j
    BY <2>1, FirstIndex
  <2> HIDE DEF at
  <2>2. Len(ch) \in Nat
    BY <1>2
  <2> QED BY <1>5, <2>1, <2>2, Zenon
<1>7. p \in DOMAIN order /\ First(p)
  <2> DEFINE K == {j \in DOMAIN order : Match(order[j])}
  <2>1. K # {} /\ K \in SUBSET (1 .. Len(order))
    BY <1>3 DEF Elems
  <2>2. PICK j \in K : \A l \in K : j <= l
    <3> HIDE DEF K
    <3> QED BY <1>3, <2>1, FirstIndex
  <2>3. \A l \in 1 .. (j - 1) : l \in DOMAIN order /\ ~(j <= l)
    BY <1>3, <2>1, <2>2
  <2>4. First(j) /\ j \in DOMAIN order
    BY <2>2, <2>3
  <2> HIDE DEF First
  <2> QED BY <2>4, Zenon
<1> HIDE DEF m, p, First
<1>8. m \in 1 .. Len(ch) /\ Match(ch[m]) /\ ch[m] \in Elems(ch) /\ ch[m] \in DOMAIN flows
  BY <1>2, <1>6 DEF Elems
<1>9. /\ p \in 1 .. Len(order) /\ Match(order[p]) /\ order[p] \in DOMAIN flows
      /\ \A l \in 1 .. (p - 1) : ~Match(order[l])
  BY <1>3, <1>7 DEF Elems, First
<1>10. order[p] \in Elems(ch)
  BY <1>2, <1>9 DEF Bucket
<1>11. PICK q \in 1 .. Len(ch) : ch[q] = order[p]
  BY <1>2, <1>10 DEF Elems
<1>12. ASSUME m # q
       PROVE  FALSE
  <2>1. m < q
    <3>1. q \in at
      BY <1>2, <1>9, <1>11
    <3> QED BY <1>6, <1>8, <1>12, <3>1
  <2>2. Before(ch, ch[m], order[p])
    BY <1>2, <1>8, <1>11, <2>1 DEF Before
  <2>3. Before(order, ch[m], order[p])
    BY <1>2, <2>2
  <2>4. PICK k \in 1 .. Len(order), l \in 1 .. Len(order) :
          k < l /\ order[k] = ch[m] /\ order[l] = order[p]
    BY <1>3, <2>3 DEF Before
  <2>5. l = p /\ k \in 1 .. (p - 1)
    BY <1>3, <1>9, <2>4 DEF Injective
  <2> QED BY <1>8, <1>9, <2>4, <2>5
<1>13. pcp_get_flow(kd, i) = order[p]
  BY <1>4, <1>5, <1>11, <1>12
<1> QED BY <1>13, Zenon DEF p, First, Oldest

(* get_pcp_server_by_ip and pcp_get_flow lead an answer to the flow it      *)
(* belongs to, or to the oldest with the same key, however the array of the *)
(* servers and the table have changed since the request was sent.           *)
THEOREM AnswersReach == Spec => []AnswerReachesFlow
<1>1. ContextInv => AnswerReachesFlow
  <2> SUFFICES ASSUME ContextInv, NEW f \in DOMAIN flows, ~flows[f].moved,
                      flows[f].kd.req # Announce
               PROVE  LET kd == flows[f].kd
                          i  == get_pcp_server_by_ip(kd.ip, kd.scope)
                          k  == CHOOSE j \in DOMAIN order :
                                  /\ flows[order[j]].kd = kd /\ flows[order[j]].indx = i
                                  /\ \A l \in 1..(j - 1) : \/ flows[order[l]].kd # kd
                                                           \/ flows[order[l]].indx # i
                      IN  i = flows[f].indx /\ pcp_get_flow(kd, i) = order[k]
    BY Zenon DEF AnswerReachesFlow
  <2>1. PICK kd, j : kd = flows[f].kd /\ j = flows[f].indx
    OBVIOUS
  <2>2. PICK ip, scope : ip = kd.ip /\ scope = kd.scope
    OBVIOUS
  <2>3. PICK i : i = get_pcp_server_by_ip(ip, scope)
    OBVIOUS
  <2>4. /\ j \in DOMAIN servers /\ InUse(j) /\ servers[j].ip = ip
        /\ servers[j].scope = scope
    BY <2>1, <2>2 DEF ContextInv, FlowsInv, Addressed
  <2>5. servers[j].scope = ScopeOf(ip, scope)
    BY <2>4 DEF ContextInv, ServersInv
  <2>6. /\ i # NULL => /\ i \in DOMAIN servers /\ InUse(i) /\ servers[i].ip = ip
                       /\ servers[i].scope = ScopeOf(ip, scope)
        /\ i = NULL => \A l \in DOMAIN servers :
                         ~(/\ InUse(l) /\ servers[l].ip = ip
                           /\ servers[l].scope = ScopeOf(ip, scope))
    BY <2>3, LookupFacts DEF ContextInv
  <2>7. i = j
    <3>1. i # NULL
      BY <2>4, <2>5, <2>6
    <3> QED BY <2>4, <2>5, <2>6, <3>1 DEF ContextInv, ServersInv
  <2>8. pcp_get_flow(kd, i) = Oldest(kd, i)
    BY <2>1, <2>7, FirstOfKey
  <2> QED BY <2>1, <2>2, <2>3, <2>7, <2>8, Zenon DEF Oldest
<1> QED BY <1>1, ContextInductive, PTL

(* pcp_new_server, psd_add_pcp_server and pcp_terminate: no step moves a    *)
(* server to another index or gives its slot to another one.                *)
THEOREM ServersKeepIndex == Spec => ServersStay
<1> DEFINE Stays == \A i \in DOMAIN servers :
                      InUse(i) /\ servers' # <<>> =>
                        /\ i \in DOMAIN servers'
                        /\ servers'[i].state # "pss_unitialized" =>
                             /\ servers'[i].ip = servers[i].ip
                             /\ servers'[i].scope = servers[i].scope
<1>1. ContextInv /\ [Next]_cvars => [Stays]_<<nl, servers>>
  <2> SUFFICES ASSUME ContextInv, [Next]_cvars
               PROVE  UNCHANGED servers \/ servers' = <<>> \/ \E i : StayBut(i)
    BY DEF StayBut, InUse
  <2>1. CASE psd_add_gw
    BY <2>1, AddGatewayStep DEF ContextInv
  <2>2. CASE AddServer
    BY <2>2, AddServerStep, ContextAssumption DEF ContextInv, AddServer
  <2>3. CASE ServerMoves
    BY <2>3, ServerMovesStep DEF ContextInv
  <2>4. CASE UNCHANGED servers
    BY <2>4
  <2>5. CASE pcp_terminate
    BY <2>5 DEF pcp_terminate
  <2> QED BY <2>1, <2>2, <2>3, <2>4, <2>5 DEF Next, Discover, pcp_init, cvars
<1> QED BY <1>1, ContextInductive, PTL DEF Spec, ServersStay

-----------------------------------------------------------------------------
(* The answer of the kernel in the buffer. *)

(* FlattenSeq, datagram by datagram. *)
Flattens(f, t) ==
  f = [i \in 1 .. Len(t) |-> IF i = 1 THEN t[i] ELSE f[i - 1] \o t[i]]

LEMMA FlattenExists ==
  ASSUME NEW S, NEW t \in Seq(Seq(S)), t # <<>>
  PROVE  \E f : /\ Flattens(f, t) /\ FlattenSeq(t) = f[Len(t)]
                /\ f \in [1 .. Len(t) -> Seq(S)]
<1> DEFINE n == Len(t)
           A == Seq(S)
           step == [ic \in (1 .. n) \X A |-> ic[2] \o t[ic[1]]]
           f == CHOOSE h : Flattens(h, t)
<1>1. n \in Nat /\ n # 0 /\ \A i \in 1 .. n : t[i] \in A
  OBVIOUS
<1>2. FlattenSeq(t) = f[n]
  BY <1>1, Zenon DEF FlattenSeq, Flattens
<1> HIDE DEF n, f
<1>3. step \in [(1 .. n) \X A -> A]
  <2>1. \A a \in A : \A i \in 1 .. n : a \o t[i] \in A
    BY <1>1
  <2> QED BY <2>1
<1>4. \A i \in 1 .. n : \A a \in A : step[<<i, a>>] = a \o t[i]
  OBVIOUS
<1>5. <<>> \in A
  OBVIOUS
<1>6. \A a \in A : <<>> \o a = a
  OBVIOUS
<1> HIDE DEF step, A
<1>7. PICK g : Folds(g, n, A, <<>>, step)
  BY <1>1, <1>3, <1>5, FoldsExists
<1>8. Unfolds(g, n, A, <<>>, step)
  BY <1>7 DEF Folds, Unfolds
<1>9. PrefixValues(g, n, A, <<>>, step)
  BY <1>1, <1>3, <1>5, <1>8, FoldPrefixes
<1>10. PICK F : Steps(F, n, A, <<>>, step)
  BY <1>9 DEF PrefixValues
<1> DEFINE h == [i \in 1 .. n |-> F[i]]
<1>11. h \in [1 .. n -> A]
  BY <1>1, <1>10 DEF Steps
<1>12. ASSUME NEW i \in 1 .. n
       PROVE  h[i] = IF i = 1 THEN t[i] ELSE h[i - 1] \o t[i]
  <2>1. F[i] = step[<<i, F[i - 1]>>] /\ F[i - 1] \in A
    BY <1>1, <1>10 DEF Steps
  <2>2. F[i] = F[i - 1] \o t[i]
    BY <1>4, <2>1
  <2>3. CASE i = 1
    <3>1. i - 1 = 0 /\ F[0] = <<>> /\ t[i] \in A
      BY <1>1, <1>10, <2>3 DEF Steps
    <3>2. F[i] = <<>> \o t[i]
      BY <2>2, <3>1
    <3>3. F[i] = t[i]
      BY <1>6, <3>1, <3>2
    <3> QED BY <2>3, <3>3
  <2>4. CASE i # 1
    <3>1. i - 1 \in 1 .. n
      BY <1>1, <2>4
    <3> QED BY <2>2, <2>4, <3>1
  <2> QED BY <2>3, <2>4
<1>13. h = [i \in 1 .. n |-> IF i = 1 THEN t[i] ELSE h[i - 1] \o t[i]]
  <2>1. h = [i \in 1 .. n |-> h[i]]
    OBVIOUS
  <2> HIDE DEF h
  <2> QED BY <1>12, <2>1
<1> HIDE DEF h
<1>14. Flattens(h, t)
  BY <1>13 DEF Flattens, n
<1>15. Flattens(f, t)
  BY <1>14, Zenon DEF f
<1>16. \A i \in 0 .. n : i = 0 \/ f[i] \in A
  <2> DEFINE T == {i \in 0 .. n : i = 0 \/ f[i] \in A}
  <2>1. 0 \in T
    BY <1>1
  <2>2. ASSUME NEW i \in 1 .. n, i - 1 \in T
        PROVE  i \in T
    <3>1. f[i] = IF i = 1 THEN t[i] ELSE f[i - 1] \o t[i]
      BY <1>15 DEF Flattens, n
    <3>2. i = 1 \/ f[i - 1] \in A
      BY <2>2
    <3>3. f[i] \in A
      BY <1>1, <3>1, <3>2 DEF A
    <3> QED BY <1>1, <3>3
  <2>3. \A i \in 0 .. n : i \in T
    <3> HIDE DEF T
    <3> QED BY <1>1, <2>1, <2>2, PrefixInduction
  <2> QED BY <2>3
<1>17. f \in [1 .. n -> A]
  <2>1. f = [i \in 1 .. n |-> f[i]]
    BY <1>15 DEF Flattens, n
  <2>2. \A i \in 1 .. n : i \in 0 .. n /\ i # 0
    BY <1>1
  <2> QED BY <1>16, <2>1, <2>2
<1> QED BY <1>2, <1>15, <1>17 DEF n, A

LEMMA FlattenFirst ==
  ASSUME NEW S, NEW t \in Seq(Seq(S)), t # <<>>
  PROVE  /\ FlattenSeq(<<>>) = <<>> /\ FlattenSeq(t) \in Seq(S)
         /\ FlattenSeq(t) = Head(t) \o FlattenSeq(Tail(t))
<1> DEFINE n == Len(t)
           u == Tail(t)
<1>1. FlattenSeq(<<>>) = <<>>
  BY DEF FlattenSeq
<1>2. /\ n \in Nat /\ n # 0 /\ u \in Seq(Seq(S)) /\ Len(u) = n - 1 /\ Head(t) = t[1]
      /\ (\A i \in 1 .. n : t[i] \in Seq(S))
      /\ \A i \in 1 .. (n - 1) : u[i] = t[i + 1] /\ u[i] \in Seq(S)
  OBVIOUS
<1>3. PICK f : Flattens(f, t) /\ FlattenSeq(t) = f[n] /\ f \in [1 .. n -> Seq(S)]
  BY FlattenExists
<1> HIDE DEF n, u
<1>4. f[1] = t[1]
  BY <1>2, <1>3 DEF Flattens, n
<1>5. ASSUME u = <<>>
      PROVE  FlattenSeq(t) = t[1] \o FlattenSeq(u)
  <2>1. n = 1
    <3>1. Len(u) = 0
      BY <1>5
    <3> QED BY <1>2, <3>1
  <2>2. t[1] \o <<>> = t[1] /\ t[1] \in Seq(S)
    BY <1>2, <2>1
  <2> QED BY <1>1, <1>3, <1>4, <1>5, <2>1, <2>2
<1>6. ASSUME u # <<>>
      PROVE  FlattenSeq(t) = t[1] \o FlattenSeq(u)
  <2>1. PICK h : /\ Flattens(h, u) /\ FlattenSeq(u) = h[Len(u)]
                 /\ h \in [1 .. Len(u) -> Seq(S)]
    BY <1>2, <1>6, FlattenExists
  <2>2. n - 1 \in Nat /\ n - 1 # 0
    <3>1. Len(u) # 0
      BY <1>2, <1>6
    <3> QED BY <1>2, <3>1
  <2> DEFINE T == {i \in 0 .. (n - 1) : i = 0 \/ f[i + 1] = t[1] \o h[i]}
  <2>3. 0 \in T
    BY <2>2
  <2>4. ASSUME NEW i \in 1 .. (n - 1), i - 1 \in T
        PROVE  i \in T
    <3>1. i + 1 \in 1 .. n /\ i + 1 # 1 /\ (i + 1) - 1 = i /\ i \in 0 .. (n - 1) /\ 1 \in 1 .. n
      BY <1>2
    <3>2. f[i + 1] = f[i] \o u[i]
      <4>1. f[i + 1] = f[(i + 1) - 1] \o t[i + 1]
        BY <1>3, <3>1 DEF Flattens, n
      <4> QED BY <1>2, <3>1, <4>1
    <3>3. h[i] = IF i = 1 THEN u[i] ELSE h[i - 1] \o u[i]
      BY <1>2, <2>1 DEF Flattens
    <3>4. CASE i = 1
      BY <1>4, <3>1, <3>2, <3>3, <3>4
    <3>5. CASE i # 1
      <4>1. f[i] = t[1] \o h[i - 1]
        <5>1. (i - 1) + 1 = i /\ i - 1 # 0
          BY <3>5
        <5> QED BY <2>4, <5>1
      <4>2. t[1] \in Seq(S) /\ h[i - 1] \in Seq(S) /\ u[i] \in Seq(S)
        BY <1>2, <2>1, <3>1, <3>5
      <4>3. \A a, b, c \in Seq(S) : (a \o b) \o c = a \o (b \o c)
        BY SMTT(30)
      <4>4. f[i + 1] = t[1] \o (h[i - 1] \o u[i])
        <5>1. f[i + 1] = (t[1] \o h[i - 1]) \o u[i]
          BY <3>2, <4>1
        <5> DEFINE a == t[1]
                   b == h[i - 1]
                   c == u[i]
        <5>2. a \in Seq(S) /\ b \in Seq(S) /\ c \in Seq(S)
          BY <4>2
        <5> HIDE DEF a, b, c
        <5>3. (a \o b) \o c = a \o (b \o c)
          BY <4>3, <5>2
        <5> QED BY <5>1, <5>3 DEF a, b, c
      <4>5. f[i + 1] = t[1] \o h[i]
        BY <3>3, <3>5, <4>4
      <4> QED BY <3>1, <4>5
    <3> QED BY <3>4, <3>5
  <2>5. \A i \in 0 .. (n - 1) : i \in T
    <3> HIDE DEF T
    <3> QED BY <2>2, <2>3, <2>4, PrefixInduction
  <2>6. n - 1 \in T /\ (n - 1) + 1 = n
    <3>1. n - 1 \in 0 .. (n - 1) /\ (n - 1) + 1 = n
      BY <1>2, <2>2
    <3> HIDE DEF T
    <3> QED BY <2>5, <3>1
  <2>7. f[n] = t[1] \o h[n - 1]
    BY <2>2, <2>6
  <2>8. FlattenSeq(u) = h[n - 1]
    BY <1>2, <2>1
  <2> QED BY <1>3, <2>7, <2>8, Zenon
<1>7. FlattenSeq(t) \in Seq(S)
  BY <1>2, <1>3
<1> QED BY <1>1, <1>2, <1>5, <1>6, <1>7, Zenon DEF u

(* Messages that are no route of the main table add no gateway. *)
LEMMA GatewaysNone ==
  ASSUME NEW a \in Seq(NlMsgRec), NEW b \in Seq(NlMsgRec), \A j \in DOMAIN b : ~b[j].main
  PROVE  Gateways(a \o b) = Gateways(a)
<1> DEFINE c == a \o b
           m == Len(a)
           n == Len(b)
<1>1. /\ c \in Seq(NlMsgRec) /\ Len(c) = m + n /\ m \in Nat /\ n \in Nat
      /\ (\A i \in 1 .. m : c[i] = a[i]) /\ DOMAIN b = 1 .. n
      /\ \A i \in 1 .. n : c[m + i] = b[i]
  OBVIOUS
<1> HIDE DEF c, n
<1>2. PICK F : /\ F[0] = <<>> /\ Gateways(c) = F[Len(c)]
               /\ \A i \in 1 .. Len(c) : F[i] = Gather(F[i - 1], c[i])
  BY <1>1, GatewaySteps
<1>3. PICK G : /\ G[0] = <<>> /\ Gateways(a) = G[m]
               /\ \A i \in 1 .. m : G[i] = Gather(G[i - 1], a[i])
  BY GatewaySteps
<1> HIDE DEF m
<1>4. F[m] = G[m]
  <2> DEFINE T == {i \in 0 .. m : F[i] = G[i]}
  <2>1. 0 \in T
    BY <1>1, <1>2, <1>3
  <2>2. ASSUME NEW i \in 1 .. m, i - 1 \in T
        PROVE  i \in T
    <3>1. i \in 1 .. Len(c) /\ i \in 0 .. m
      BY <1>1
    <3>2. F[i] = Gather(F[i - 1], c[i]) /\ G[i] = Gather(G[i - 1], a[i])
      BY <1>2, <1>3, <3>1
    <3>3. c[i] = a[i] /\ F[i - 1] = G[i - 1]
      BY <1>1, <2>2
    <3>4. F[i] = G[i]
      BY <3>2, <3>3, Zenon
    <3> QED BY <3>1, <3>4
  <2>3. m \in T
    <3>1. m \in 0 .. m
      BY <1>1
    <3>2. \A i \in 0 .. m : i \in T
      <4> HIDE DEF T
      <4> QED BY <1>1, <2>1, <2>2, PrefixInduction
    <3> QED BY <3>1, <3>2
  <2> QED BY <2>3
<1>5. F[m + n] = F[m]
  <2> DEFINE T == {i \in 0 .. n : F[m + i] = F[m]}
  <2>1. 0 \in T
    BY <1>1
  <2>2. ASSUME NEW i \in 1 .. n, i - 1 \in T
        PROVE  i \in T
    <3>1. m + i \in 1 .. Len(c) /\ i \in 0 .. n /\ (m + i) - 1 = m + (i - 1)
      BY <1>1
    <3>2. F[m + i] = Gather(F[(m + i) - 1], c[m + i])
      BY <1>2, <3>1
    <3>3. c[m + i] = b[i] /\ ~b[i].main
      BY <1>1
    <3>4. F[m + (i - 1)] = F[m]
      BY <2>2
    <3>5. F[m + i] = F[m + (i - 1)]
      BY <3>1, <3>2, <3>3 DEF Gather
    <3> QED BY <3>1, <3>4, <3>5
  <2>3. n \in T
    <3>1. n \in 0 .. n
      BY <1>1
    <3>2. \A i \in 0 .. n : i \in T
      <4> HIDE DEF T
      <4> QED BY <1>1, <2>1, <2>2, PrefixInduction
    <3> QED BY <3>1, <3>2
  <2> QED BY <2>3
<1> QED BY <1>1, <1>2, <1>3, <1>4, <1>5 DEF c

LEMMA ConcatAssoc ==
  ASSUME NEW S, NEW a \in Seq(S), NEW b \in Seq(S), NEW c \in Seq(S)
  PROVE  /\ a \o b \in Seq(S) /\ (a \o b) \o c = a \o (b \o c)
         /\ (a \o b) \o <<>> = a \o b
OBVIOUS

LEMMA EndedFirst ==
  ASSUME NEW t \in Seq(Seq(NlMsgRec) \ {<<>>}), t # <<>>, Ended(t)
  PROVE  /\ Ended(Tail(t))
         /\ Head(t)[1].type = "done" =>
              Tail(t) = <<>> /\ \A j \in DOMAIN Head(t) : ~Head(t)[j].main
         /\ ~Head(t)[1].multi => Tail(t) = <<>> /\ Len(Head(t)) = 1
<1> DEFINE n == Len(t)
           u == Tail(t)
<1>1. /\ n \in Nat /\ n # 0 /\ Head(t) = t[1] /\ DOMAIN t = 1 .. n /\ 1 \in 1 .. n
      /\ u \in Seq(Seq(NlMsgRec)) /\ Len(u) = n - 1 /\ DOMAIN u = 1 .. (n - 1)
      /\ \A i \in 1 .. (n - 1) : u[i] = t[i + 1]
  OBVIOUS
<1>2. n = 1 => u = <<>>
  <2> HIDE DEF n, u
  <2>1. n = 1 => Len(u) = 0
    BY <1>1
  <2> QED BY <1>1, <2>1
<1>a. \A k \in 1 .. n :
        /\ t[k][1].type = "done" => k = n /\ \A j \in DOMAIN t[k] : ~t[k][j].main
        /\ ~t[k][1].multi => k = n /\ Len(t[k]) = 1
  BY <1>1 DEF Ended
<1> HIDE DEF u, n
<1>3. Ended(u)
  <2>1. ASSUME NEW i \in 1 .. (n - 1)
        PROVE  /\ u[i][1].type = "done" => i = n - 1 /\ \A j \in DOMAIN u[i] : ~u[i][j].main
               /\ ~u[i][1].multi => i = n - 1 /\ Len(u[i]) = 1
    <3>1. i + 1 \in 1 .. n /\ (i + 1 = n => i = n - 1) /\ u[i] = t[i + 1]
      BY <1>1
    <3> QED BY <1>a, <3>1
  <2> QED BY <1>1, <2>1 DEF Ended
<1>4. /\ t[1][1].type = "done" => 1 = n /\ \A j \in DOMAIN t[1] : ~t[1][j].main
      /\ ~t[1][1].multi => 1 = n /\ Len(t[1]) = 1
  BY <1>1, <1>a
<1> QED BY <1>1, <1>2, <1>3, <1>4 DEF u

(* While the buffer has room, it holds the datagrams that were read.        *)
LookupInv ==
  /\ nl.at = "recv" => Ended(nl.unread)
  /\ nl.at = "recv" /\ nl.len < BUFSIZE =>
       FlattenSeq(nl.dump) = nl.buf \o FlattenSeq(nl.unread)
  /\ nl.at = "parse" => Gateways(nl.buf) = Gateways(FlattenSeq(nl.dump))
  /\ GatewaysAllOrNone

LEMMA FlattenTyped ==
  ASSUME NEW S, NEW t \in Seq(Seq(S))
  PROVE  FlattenSeq(t) \in Seq(S)
<1>1. CASE t = <<>>
  BY <1>1 DEF FlattenSeq
<1>2. CASE t # <<>>
  BY <1>2, FlattenFirst
<1> QED BY <1>1, <1>2

LEMMA ReadStep ==
  ASSUME nl \in NlRec, LookupInv, readNlSock
  PROVE  LookupInv'
<1>1. CASE nl'.at = "failed"
  BY <1>1 DEF LookupInv, GatewaysAllOrNone
<1>2. CASE nl'.at # "failed"
  <2>1. PICK d, u, read :
          /\ d = Head(nl.unread) /\ u = Tail(nl.unread)
          /\ read = IF SizeOf(d) < BUFSIZE - nl.len THEN SizeOf(d) ELSE BUFSIZE - nl.len
    OBVIOUS
  <2> DEFINE n == [nl EXCEPT !.unread = u]
  <2>a. [nl EXCEPT !.at = "failed"].at = "failed" /\ [n EXCEPT !.at = "failed"].at = "failed"
    BY DEF NlRec
  <2>2. /\ nl.at = "recv" /\ nl.unread # <<>>
        /\ nl' = IF ~Accepted(d, read) THEN [n EXCEPT !.at = "failed"]
                 ELSE IF d[1].type = "done" THEN [n EXCEPT !.at = "parse"]
                 ELSE [n EXCEPT !.buf = @ \o Whole(d, read), !.len = @ + read,
                                !.at = IF d[1].multi THEN "recv" ELSE "parse"]
    <3>1. nl' # [nl EXCEPT !.at = "failed"]
      BY <1>2, <2>a
    <3> QED BY <2>1, <3>1, Zenon DEF readNlSock
  <2>3. /\ nl.unread \in Seq(Seq(NlMsgRec) \ {<<>>}) /\ nl.buf \in Seq(NlMsgRec)
        /\ nl.len \in 0 .. BUFSIZE /\ BUFSIZE \in Nat
    BY NlFields, GatewayAssumption
  <2>4. d \in Seq(NlMsgRec) /\ d # <<>> /\ u \in Seq(Seq(NlMsgRec))
        /\ nl.unread \in Seq(Seq(NlMsgRec))
    BY <2>1, <2>2, <2>3
  <2>5. /\ Ended(u)
        /\ d[1].type = "done" => u = <<>> /\ \A j \in DOMAIN d : ~d[j].main
        /\ ~d[1].multi => u = <<>> /\ Len(d) = 1
    <3>1. ASSUME NEW t \in Seq(Seq(NlMsgRec) \ {<<>>}), t # <<>>, Ended(t),
                 d = Head(t), u = Tail(t)
          PROVE  /\ Ended(u)
                 /\ d[1].type = "done" => u = <<>> /\ \A j \in DOMAIN d : ~d[j].main
                 /\ ~d[1].multi => u = <<>> /\ Len(d) = 1
      BY <3>1, EndedFirst
    <3>2. Ended(nl.unread)
      BY <2>2 DEF LookupInv
    <3> QED BY <2>1, <2>2, <2>3, <3>1, <3>2
  <2>6. FlattenSeq(nl.unread) = d \o FlattenSeq(u) /\ FlattenSeq(<<>>) = <<>>
    <3>1. ASSUME NEW t \in Seq(Seq(NlMsgRec)), t # <<>>, d = Head(t), u = Tail(t)
          PROVE  FlattenSeq(t) = d \o FlattenSeq(u) /\ FlattenSeq(<<>>) = <<>>
      BY <3>1, FlattenFirst
    <3> QED BY <2>1, <2>2, <2>4, <3>1
  <2>7. SizeOf(d) \in Nat /\ (Len(d) = 1 => SizeOf(d) = d[1].size) /\ d[1].size \in Nat \ {0}
    <3>1. d[1] \in NlMsgRec
      BY <2>4
    <3> QED BY <2>4, <3>1, SizeTyped DEF NlMsgRec
  <2>8. read \in Nat /\ read + nl.len <= BUFSIZE
        /\ (read < SizeOf(d) => read + nl.len = BUFSIZE)
    BY <2>1, <2>3, <2>7
  <2>9. PICK f : f = FlattenSeq(u) /\ f \in Seq(NlMsgRec)
    BY <2>4, FlattenTyped
  <2>10. PICK b : b = nl.buf /\ b \in Seq(NlMsgRec)
    BY <2>3
  <2>11. nl.len < BUFSIZE => FlattenSeq(nl.dump) = (b \o d) \o f
    <3>1. nl.len < BUFSIZE => FlattenSeq(nl.dump) = b \o (d \o f)
      BY <2>2, <2>6, <2>9, <2>10 DEF LookupInv
    <3>2. (b \o d) \o f = b \o (d \o f)
      <4>1. b \in Seq(NlMsgRec) /\ d \in Seq(NlMsgRec) /\ f \in Seq(NlMsgRec)
        BY <2>4, <2>9, <2>10
      <4> QED BY <4>1, ConcatAssoc, SMTT(30)
    <3> QED BY <3>1, <3>2
  <2>12. Accepted(d, read) /\ nl.len < BUFSIZE /\ d[1].size <= read
    <3>1. Accepted(d, read)
      BY <1>2, <2>2, <2>a
    <3> QED BY <2>3, <2>7, <2>8, <3>1 DEF Accepted
  <2>13. u = <<>> => (b \o d) \o f = b \o d
    <3>1. (b \o d) \o <<>> = b \o d
      BY <2>4, <2>10, ConcatAssoc
    <3>2. u = <<>> => f = <<>>
      BY <2>6, <2>9
    <3> QED BY <3>1, <3>2
  <2>14. CASE d[1].type = "done"
    <3>1. nl' = [n EXCEPT !.at = "parse"]
      BY <2>2, <2>12, <2>14
    <3>2. nl'.at = "parse" /\ nl'.buf = b /\ nl'.dump = nl.dump
      BY <2>10, <3>1 DEF NlRec
    <3>3. Gateways(b \o d) = Gateways(b)
      BY <2>4, <2>5, <2>10, <2>14, GatewaysNone
    <3>4. FlattenSeq(nl.dump) = b \o d
      BY <2>5, <2>11, <2>12, <2>13, <2>14
    <3>5. Gateways(nl'.buf) = Gateways(FlattenSeq(nl'.dump))
      BY <3>2, <3>3, <3>4, Zenon
    <3> QED BY <3>2, <3>5 DEF LookupInv, GatewaysAllOrNone
  <2>15. CASE d[1].type # "done"
    <3> DEFINE w == Whole(d, read)
               at == IF d[1].multi THEN "recv" ELSE "parse"
    <3>1. nl' = [n EXCEPT !.buf = @ \o w, !.len = @ + read, !.at = at]
      BY <2>2, <2>12, <2>15
    <3> HIDE DEF w, at
    <3>2. /\ nl'.at = at /\ nl'.buf = b \o w /\ nl'.len = nl.len + read
          /\ nl'.dump = nl.dump /\ nl'.unread = u
      BY <2>10, <3>1 DEF NlRec
    <3>3. SizeOf(d) <= read => w = d
      BY <2>4, <2>8, WholeFacts DEF w
    <3>4. CASE d[1].multi
      <4>1. nl'.at = "recv"
        BY <3>2, <3>4 DEF at
      <4>2. ASSUME nl'.len < BUFSIZE
            PROVE  FlattenSeq(nl'.dump) = nl'.buf \o FlattenSeq(nl'.unread)
        <5>1. SizeOf(d) <= read
          BY <2>3, <2>7, <2>8, <3>2, <4>2
        <5>2. w = d
          BY <3>3, <5>1
        <5> QED BY <2>9, <2>11, <2>12, <3>2, <5>2
      <4> QED BY <2>5, <3>2, <4>1, <4>2 DEF LookupInv, GatewaysAllOrNone
    <3>5. CASE ~d[1].multi
      <4>1. nl'.at = "parse"
        BY <3>2, <3>5 DEF at
      <4>2. w = d
        BY <2>5, <2>7, <2>12, <3>3, <3>5
      <4>3. FlattenSeq(nl.dump) = b \o d
        BY <2>5, <2>11, <2>12, <2>13, <3>5
      <4>4. Gateways(nl'.buf) = Gateways(FlattenSeq(nl'.dump))
        BY <3>2, <4>2, <4>3, Zenon
      <4> QED BY <4>1, <4>4 DEF LookupInv, GatewaysAllOrNone
    <3> QED BY <3>4, <3>5
  <2> QED BY <2>14, <2>15
<1> QED BY <1>1, <1>2

LEMMA LookupStep ==
  ASSUME nl \in NlRec, LookupInv, [Next]_cvars
  PROVE  LookupInv'
<1>1. CASE getgateways
  <2>1. CASE nl' = [nl EXCEPT !.at = "failed"]
    <3>1. nl'.at = "failed"
      BY <2>1 DEF NlRec
    <3> QED BY <3>1 DEF LookupInv, GatewaysAllOrNone
  <2>2. ASSUME NEW d \in Dumps,
               nl' = [NoLookup EXCEPT !.at = "recv", !.dump = d, !.unread = d]
        PROVE  LookupInv'
    <3>1. nl'.at = "recv" /\ nl'.dump = d /\ nl'.unread = d /\ nl'.buf = <<>>
      BY <2>2 DEF NoLookup
    <3>2. Ended(d) /\ d \in Seq(Seq(NlMsgRec))
      BY DumpAssumption
    <3>3. FlattenSeq(d) \in Seq(NlMsgRec)
      BY <3>2, FlattenTyped
    <3>4. FlattenSeq(d) = <<>> \o FlattenSeq(d)
      BY <3>3
    <3> QED BY <3>1, <3>2, <3>4 DEF LookupInv, GatewaysAllOrNone
  <2> QED BY <1>1, <2>1, <2>2 DEF getgateways
<1>2. CASE readNlSock
  BY <1>2, ReadStep
<1>3. CASE parse_gateways
  <2>1. /\ nl'.at = "found" /\ nl'.gws = Gateways(nl.buf) /\ nl'.dump = nl.dump
        /\ nl.at = "parse"
    BY <1>3 DEF parse_gateways, NlRec
  <2>2. nl'.gws = Gateways(FlattenSeq(nl'.dump))
    BY <2>1 DEF LookupInv
  <2> QED BY <2>1, <2>2 DEF LookupInv, GatewaysAllOrNone
<1>4. CASE psd_add_gw
  <2>1. nl.at = "found" /\ nl'.at = "found" /\ nl'.gws = nl.gws /\ nl'.dump = nl.dump
    BY <1>4 DEF psd_add_gw, NlRec
  <2> QED BY <2>1 DEF LookupInv, GatewaysAllOrNone
<1>5. CASE pcp_init \/ pcp_terminate
  <2>1. nl'.at \in {"ready", "idle"}
    BY <1>5 DEF pcp_init, pcp_terminate, NoLookup
  <2> QED BY <2>1 DEF LookupInv, GatewaysAllOrNone
<1>6. CASE UNCHANGED nl
  BY <1>6 DEF LookupInv, GatewaysAllOrNone
<1> QED BY <1>1, <1>2, <1>3, <1>4, <1>5, <1>6
        DEF Next, Discover, Lookup, AddServer, psd_add_pcp_server, ServerMoves, cvars

(* readNlSock and getgateways: a lookup that succeeds tells all gateways of *)
(* the answer, for answers and buffers of any size; one that does not fit   *)
(* into the buffer never passes for a shorter one.                          *)
THEOREM GatewaysComplete == Spec => []GatewaysAllOrNone
<1>1. Init => LookupInv
  BY DEF Init, NoLookup, LookupInv, GatewaysAllOrNone
<1>2. ContextInv => nl \in NlRec
  BY DEF ContextInv, ServersInv
<1>3. ContextInv /\ LookupInv /\ [Next]_cvars => LookupInv'
  BY <1>2, LookupStep
<1>4. LookupInv => GatewaysAllOrNone
  BY DEF LookupInv
<1> QED BY <1>1, <1>3, <1>4, ContextInductive, PTL DEF Spec
=============================================================================
