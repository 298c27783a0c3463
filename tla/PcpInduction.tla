---------------------------- MODULE PcpInduction ----------------------------
(***************************************************************************)
(* Induction over finite sets and natural numbers, and the functions that  *)
(* the folds of the community modules define by recursion. The induction   *)
(* theorems of the library are about a predicate; these are about the set  *)
(* of the values that satisfy it, which the provers can be given.          *)
(***************************************************************************)
EXTENDS Integers, Sequences, SequencesExt, FiniteSetTheorems,
        WellFoundedInduction, TLAPS

LEMMA SubsetsWellFounded ==
  ASSUME NEW S, IsFiniteSet(S)
  PROVE  IsWellFoundedOn(StrictSubsetOrdering(S), SUBSET S)
<1>1. FiniteSubsetsOf(S) = SUBSET S
  BY FS_FiniteSubsetsOfFinite, Zenon
<1>2. IsWellFoundedOn(StrictSubsetOrdering(S), FiniteSubsetsOf(S))
  BY FS_StrictSubsetOrderingWellFounded, Zenon
<1> QED BY <1>1, <1>2, Zenon

(* What holds of a set as soon as it holds of the set without any one of    *)
(* its elements holds of all subsets of a finite set.                       *)
LEMMA SubsetInduction ==
  ASSUME NEW S, IsFiniteSet(S), NEW T,
         \A s \in SUBSET S : (\A x \in s : s \ {x} \in T) => s \in T
  PROVE  SUBSET S \subseteq T
<1> SUFFICES ASSUME (SUBSET S) \ T # {}
             PROVE  FALSE
  OBVIOUS
<1>1. IsWellFoundedOn(StrictSubsetOrdering(S), SUBSET S)
  BY SubsetsWellFounded, Zenon
<1>2. PICK s \in (SUBSET S) \ T :
        \A t \in (SUBSET S) \ T : ~ (<<t, s>> \in StrictSubsetOrdering(S))
  BY <1>1, WFMin
<1>3. \A x \in s : <<s \ {x}, s>> \in StrictSubsetOrdering(S)
  BY DEF StrictSubsetOrdering
<1>4. \A x \in s : s \ {x} \in T
  BY <1>2, <1>3
<1> QED BY <1>4

(* The same for natural numbers. *)
LEMMA SetNatInduction ==
  ASSUME NEW T, 0 \in T, \A n \in Nat : n \in T => n + 1 \in T
  PROVE  \A n \in Nat : n \in T
<1> SUFFICES ASSUME Nat \ T # {}
             PROVE  FALSE
  OBVIOUS
<1>2. PICK n \in Nat \ T : \A m \in Nat \ T : ~ (<<m, n>> \in OpToRel(<, Nat))
  BY NatLessThanWellFounded, WFMin
<1>3. n # 0 /\ n - 1 \in Nat /\ n = (n - 1) + 1
  BY Z3
<1>4. n - 1 \notin T
  BY <1>3
<1>5. <<n - 1, n>> \in OpToRel(<, Nat)
  BY <1>3 DEF OpToRel
<1> QED BY <1>2, <1>3, <1>4, <1>5

-----------------------------------------------------------------------------
(* What MapThenFoldSet defines on the subsets of s, with the operation and  *)
(* the choice of the next element given as functions.                       *)
Iterates(g, s, base, step, pick) ==
  g = [t \in SUBSET s |-> IF t = {} THEN base
                          ELSE step[<<pick[t], g[t \ {pick[t]}]>>]]

LEMMA IteratesUnique ==
  ASSUME NEW S, IsFiniteSet(S), NEW base, NEW step, NEW pick,
         \A s \in SUBSET S : s # {} => pick[s] \in s,
         NEW s \in SUBSET S, NEW t \in SUBSET S, NEW g, NEW h,
         Iterates(g, s, base, step, pick), Iterates(h, t, base, step, pick)
  PROVE  \A u \in SUBSET S : u \subseteq s /\ u \subseteq t => g[u] = h[u]
<1> DEFINE T == {u \in SUBSET S : u \subseteq s /\ u \subseteq t => g[u] = h[u]}
<1>1. {} \in T
  BY Zenon DEF Iterates
<1>2. ASSUME NEW u \in SUBSET S, u # {}, u \ {pick[u]} \in T
      PROVE  u \in T
  <2> SUFFICES ASSUME u \subseteq s, u \subseteq t
               PROVE  g[u] = h[u]
    OBVIOUS
  <2>1. g[u] = step[<<pick[u], g[u \ {pick[u]}]>>]
    BY <1>2 DEF Iterates
  <2>2. h[u] = step[<<pick[u], h[u \ {pick[u]}]>>]
    BY <1>2 DEF Iterates
  <2> QED BY <1>2, <2>1, <2>2
<1> HIDE DEF T
<1>3. \A u \in SUBSET S : (\A x \in u : u \ {x} \in T) => u \in T
  BY <1>1, <1>2
<1>4. SUBSET S \subseteq T
  BY <1>3, SubsetInduction
<1> QED BY <1>4 DEF T

(* There is such a function. *)
LEMMA IteratesExists ==
  ASSUME NEW S, IsFiniteSet(S), NEW base, NEW step, NEW pick,
         \A s \in SUBSET S : s # {} => pick[s] \in s
  PROVE  \E g : Iterates(g, S, base, step, pick)
<1> DEFINE T == {s \in SUBSET S : \E g : Iterates(g, s, base, step, pick)}
<1>1. ASSUME NEW s \in SUBSET S, \A t \in SUBSET s : t # s => t \in T
      PROVE  s \in T
  <2> DEFINE h(t) == CHOOSE g : Iterates(g, t, base, step, pick)
             rest(t) == t \ {pick[t]}
             G == [t \in SUBSET s |-> IF t = {} THEN base
                                      ELSE step[<<pick[t], h(rest(t))[rest(t)]>>]]
  <2>1. ASSUME NEW t \in SUBSET s, t # s
        PROVE  Iterates(h(t), t, base, step, pick)
    BY <1>1, <2>1, Zenon
  <2>2. ASSUME NEW t \in SUBSET s, t # s
        PROVE  G[t] = h(t)[t]
    <3>1. CASE t = {}
      BY <2>1, <3>1, Zenon DEF Iterates
    <3>2. CASE t # {}
      <4>1. pick[t] \in t /\ rest(t) \subseteq t /\ rest(t) # s
        BY <3>2
      <4>2. Iterates(h(rest(t)), rest(t), base, step, pick)
        BY <2>1, <4>1
      <4>3. h(t)[rest(t)] = h(rest(t))[rest(t)]
        <5> HIDE DEF h
        <5> QED BY <2>1, <2>2, <4>1, <4>2, IteratesUnique
      <4>4. h(t)[t] = step[<<pick[t], h(t)[rest(t)]>>]
        <5>1. ASSUME NEW g, Iterates(g, t, base, step, pick)
              PROVE  g[t] = step[<<pick[t], g[rest(t)]>>]
          BY <3>2, <5>1 DEF Iterates
        <5> HIDE DEF h
        <5> QED BY <2>1, <2>2, <5>1
      <4> HIDE DEF h
      <4> QED BY <3>2, <4>3, <4>4
    <3> QED BY <3>1, <3>2
  <2>3. ASSUME NEW t \in SUBSET s, t # {}
        PROVE  G[t] = step[<<pick[t], G[rest(t)]>>]
    <3>1. pick[t] \in t /\ rest(t) \in SUBSET s /\ rest(t) # s
      BY <2>3
    <3>2. G[rest(t)] = h(rest(t))[rest(t)]
      BY <2>2, <3>1, Zenon
    <3> HIDE DEF h
    <3>3. G[t] = step[<<pick[t], h(rest(t))[rest(t)]>>]
      BY <2>3
    <3> QED BY <3>2, <3>3
  <2>4. G = [t \in SUBSET s |-> G[t]] /\ G[{}] = base
    <3>1. {} \in SUBSET s
      OBVIOUS
    <3> HIDE DEF h
    <3> QED BY <3>1
  <2> HIDE DEF G
  <2>5. G = [t \in SUBSET s |-> IF t = {} THEN base ELSE step[<<pick[t], G[rest(t)]>>]]
    <3>1. \A t \in SUBSET s :
            G[t] = IF t = {} THEN base ELSE step[<<pick[t], G[rest(t)]>>]
      BY <2>3, <2>4
    <3> HIDE DEF rest
    <3> QED BY <2>4, <3>1
  <2>6. Iterates(G, s, base, step, pick)
    BY <2>5, Zenon DEF Iterates
  <2> QED BY <2>6
<1>2. S \in T
  <2> HIDE DEF T
  <2> SUFFICES ASSUME (SUBSET S) \ T # {}
               PROVE  FALSE
    OBVIOUS
  <2>1. IsWellFoundedOn(StrictSubsetOrdering(S), SUBSET S)
    BY SubsetsWellFounded, Zenon
  <2>2. PICK s \in (SUBSET S) \ T :
          \A t \in (SUBSET S) \ T : ~ (<<t, s>> \in StrictSubsetOrdering(S))
    BY <2>1, WFMin
  <2>3. \A t \in SUBSET s : t # s => <<t, s>> \in StrictSubsetOrdering(S)
    BY DEF StrictSubsetOrdering
  <2>4. \A t \in SUBSET s : t # s => t \in T
    BY <2>2, <2>3
  <2> QED BY <1>1, <2>4
<1> QED BY <1>2

-----------------------------------------------------------------------------
LEMMA PositionsFinite == \A n \in Nat : IsFiniteSet(1 .. n)
BY FS_Interval

(* Max of FiniteSetsExt, on sets of positions. *)
LEMMA MaxOfPositions ==
  ASSUME NEW n \in Nat, NEW s \in SUBSET (1 .. n), s # {}
  PROVE  Max(s) \in s /\ \A y \in s : Max(s) >= y
<1> DEFINE T == {k \in Nat : \A u \in SUBSET (1 .. k) :
                     u # {} => \E x \in u : \A y \in u : x >= y}
<1>1. 0 \in T
  <2>1. 1 .. 0 = {}
    OBVIOUS
  <2> QED BY <2>1
<1>2. \A k \in Nat : k \in T => k + 1 \in T
  <2> TAKE k \in Nat
  <2> HAVE k \in T
  <2> SUFFICES ASSUME NEW u \in SUBSET (1 .. k + 1), u # {}
               PROVE  \E x \in u : \A y \in u : x >= y
    OBVIOUS
  <2>1. CASE k + 1 \in u
    BY <2>1
  <2>2. CASE k + 1 \notin u
    <3>1. u \in SUBSET (1 .. k)
      BY <2>2
    <3> QED BY <3>1
  <2> QED BY <2>1, <2>2
<1>3. n \in T
  <2> HIDE DEF T
  <2> QED BY <1>1, <1>2, SetNatInduction
<1>4. \E x \in s : \A y \in s : x >= y
  BY <1>3
<1> QED BY <1>4 DEF Max

(* The same for the least element. *)
LEMMA LeastPosition ==
  ASSUME NEW n \in Nat, NEW s \in SUBSET (1 .. n), s # {}
  PROVE  \E x \in s : \A y \in s : x <= y
<1> DEFINE T == {k \in Nat : \A u \in SUBSET (1 .. k) :
                     u # {} => \E x \in u : \A y \in u : x <= y}
<1>1. 0 \in T
  <2>1. 1 .. 0 = {}
    OBVIOUS
  <2> QED BY <2>1
<1>2. \A k \in Nat : k \in T => k + 1 \in T
  <2> TAKE k \in Nat
  <2> HAVE k \in T
  <2> SUFFICES ASSUME NEW u \in SUBSET (1 .. k + 1), u # {}
               PROVE  \E x \in u : \A y \in u : x <= y
    OBVIOUS
  <2>1. CASE u \cap (1 .. k) = {}
    <3>1. \A y \in u : y = k + 1
      BY <2>1
    <3> QED BY <3>1
  <2>2. CASE u \cap (1 .. k) # {}
    <3>1. PICK x \in u \cap (1 .. k) : \A y \in u \cap (1 .. k) : x <= y
      BY <2>2
    <3> QED BY <3>1
  <2> QED BY <2>1, <2>2
<1>3. n \in T
  <2> HIDE DEF T
  <2> QED BY <1>1, <1>2, SetNatInduction
<1> QED BY <1>3

(* What FoldLeft defines on the sets of positions of a sequence of n, with  *)
(* an operation that does not leave A.                                      *)
Folds(g, n, A, base, step) ==
  /\ g = [t \in SUBSET (1 .. n) |-> g[t]]
  /\ g[{}] = base
  /\ \A t \in SUBSET (1 .. n) :
       /\ g[t] \in A
       /\ t # {} => /\ Max(t) \in 1 .. n
                    /\ g[t] = step[<<Max(t), g[t \ {Max(t)}]>>]

LEMMA FoldsExists ==
  ASSUME NEW n \in Nat, NEW A, NEW base \in A,
         NEW step \in [(1 .. n) \X A -> A]
  PROVE  \E g : Folds(g, n, A, base, step)
<1> DEFINE S == 1 .. n
           pick == [t \in SUBSET S |-> Max(t)]
<1>1. IsFiniteSet(S)
  BY PositionsFinite
<1>2. \A s \in SUBSET S : s # {} => pick[s] \in s
  BY MaxOfPositions
<1>3. PICK g : Iterates(g, S, base, step, pick)
  <2> HIDE DEF pick, S
  <2> QED BY <1>1, <1>2, IteratesExists
<1>4. g = [t \in SUBSET S |-> IF t = {} THEN base
                              ELSE step[<<Max(t), g[t \ {Max(t)}]>>]]
  BY <1>3 DEF Iterates
<1> DEFINE T == {t \in SUBSET S : g[t] \in A}
<1> HIDE DEF S
<1>5. {} \in T
  BY <1>4
<1>6. \A s \in SUBSET S : s # {} /\ s \ {Max(s)} \in T => s \in T
  <2> TAKE s \in SUBSET S
  <2> HAVE s # {} /\ s \ {Max(s)} \in T
  <2>1. Max(s) \in S
    BY <1>2
  <2>2. <<Max(s), g[s \ {Max(s)}]>> \in S \X A
    BY <2>1
  <2>3. g[s] = step[<<Max(s), g[s \ {Max(s)}]>>]
    BY <1>4
  <2> QED BY <2>2, <2>3 DEF S
<1>7. SUBSET S \subseteq T
  <2> HIDE DEF T
  <2>1. \A s \in SUBSET S : (\A x \in s : s \ {x} \in T) => s \in T
    BY <1>2, <1>5, <1>6
  <2> QED BY <1>1, <2>1, SubsetInduction
<1>8. \A t \in SUBSET S :
        /\ g[t] \in A
        /\ t # {} => Max(t) \in S /\ g[t] = step[<<Max(t), g[t \ {Max(t)}]>>]
  BY <1>2, <1>4, <1>7
<1>9. g = [t \in SUBSET S |-> g[t]] /\ g[{}] = base
  BY <1>4
<1>10. Folds(g, n, A, base, step)
  BY <1>8, <1>9, Zenon DEF S, Folds
<1> QED BY <1>10

(* Any function that a fold over a sequence may stand for goes through the  *)
(* sets A[t], one for every set t of positions.                             *)
LEMMA FoldReaches ==
  ASSUME NEW n \in Nat, NEW A, NEW f, f[{}] \in A[{}],
         \A s \in SUBSET (1 .. n) :
           s # {} /\ Max(s) \in s /\ f[s \ {Max(s)}] \in A[s \ {Max(s)}]
             => f[s] \in A[s]
  PROVE  f[1 .. n] \in A[1 .. n]
<1> DEFINE S == 1 .. n
           T == {t \in SUBSET S : f[t] \in A[t]}
<1>1. \A s \in SUBSET S : (\A x \in s : s \ {x} \in T) => s \in T
  <2> TAKE s \in SUBSET S
  <2> HAVE \A x \in s : s \ {x} \in T
  <2>1. CASE s = {}
    BY <2>1
  <2>2. CASE s # {}
    <3>1. Max(s) \in s
      BY <2>2, MaxOfPositions
    <3> QED BY <2>2, <3>1
  <2> QED BY <2>1, <2>2
<1>2. S \in T
  <2>1. IsFiniteSet(S)
    BY PositionsFinite
  <2> HIDE DEF T, S
  <2> QED BY <1>1, <2>1, SubsetInduction
<1> QED BY <1>2

(* Above all it stays in a set that no step leaves. *)
LEMMA FoldStays ==
  ASSUME NEW n \in Nat, NEW A, NEW f, f[{}] \in A,
         \A s \in SUBSET (1 .. n) :
           s # {} /\ Max(s) \in 1 .. n /\ f[s \ {Max(s)}] \in A => f[s] \in A
  PROVE  f[1 .. n] \in A
<1> DEFINE B == [t \in SUBSET (1 .. n) |-> A]
<1>1. f[{}] \in B[{}]
  OBVIOUS
<1>2. \A s \in SUBSET (1 .. n) :
        s # {} /\ Max(s) \in s /\ f[s \ {Max(s)}] \in B[s \ {Max(s)}]
          => f[s] \in B[s]
  OBVIOUS
<1>3. f[1 .. n] \in B[1 .. n]
  <2> HIDE DEF B
  <2> QED BY <1>1, <1>2, FoldReaches
<1> QED BY <1>3

-----------------------------------------------------------------------------
(* A fold goes through the first positions of its sequence. *)
LEMMA PrefixMax ==
  ASSUME NEW i \in Nat, i # 0
  PROVE  Max(1 .. i) = i /\ (1 .. i) \ {i} = 1 .. (i - 1) /\ i \in 1 .. i
<1> DEFINE s == 1 .. i
           x == Max(s)
<1>1. i \in s /\ s # {} /\ s \in SUBSET (1 .. i)
  OBVIOUS
<1>2. x \in s /\ \A y \in s : x >= y
  <2> HIDE DEF x
  <2>1. Max(s) \in s /\ \A y \in s : Max(s) >= y
    BY <1>1, MaxOfPositions
  <2> QED BY <2>1 DEF x
<1> HIDE DEF x
<1>3. x = i
  BY <1>1, <1>2
<1>4. (1 .. i) \ {i} = 1 .. (i - 1)
  OBVIOUS
<1> QED BY <1>1, <1>3, <1>4 DEF x

LEMMA PrefixInduction ==
  ASSUME NEW n \in Nat, NEW T, 0 \in T, \A i \in 1 .. n : i - 1 \in T => i \in T
  PROVE  \A i \in 0 .. n : i \in T
<1> DEFINE U == {k \in Nat : k <= n => k \in T}
<1>1. 0 \in U
  OBVIOUS
<1>2. \A k \in Nat : k \in U => k + 1 \in U
  <2> TAKE k \in Nat
  <2> SUFFICES ASSUME k \in U, k + 1 <= n
               PROVE  k + 1 \in T
    OBVIOUS
  <2>1. k + 1 \in 1 .. n /\ (k + 1) - 1 = k /\ k \in T
    OBVIOUS
  <2> QED BY <2>1
<1>3. \A k \in Nat : k \in U
  <2> HIDE DEF U
  <2> QED BY <1>1, <1>2, SetNatInduction
<1> QED BY <1>3

(* The values of a fold at the first positions, from the equation that its  *)
(* function satisfies.                                                      *)
Steps(F, n, A, base, step) ==
  /\ F \in [0 .. n -> A] /\ F[0] = base
  /\ \A i \in 1 .. n : F[i] = step[<<i, F[i - 1]>>]

Unfolds(f, n, A, base, step) ==
  /\ f[{}] = base
  /\ \A s \in SUBSET (1 .. n) : s # {} /\ Max(s) \in s /\ f[s \ {Max(s)}] \in A
                                  => f[s] = step[<<Max(s), f[s \ {Max(s)}]>>]

PrefixValues(f, n, A, base, step) ==
  \E F : Steps(F, n, A, base, step) /\ F[n] = f[1 .. n]

LEMMA FoldPrefixes ==
  ASSUME NEW n \in Nat, NEW A, NEW base \in A, NEW step \in [(1 .. n) \X A -> A],
         NEW f, Unfolds(f, n, A, base, step)
  PROVE  PrefixValues(f, n, A, base, step)
<1> DEFINE T == {i \in 0 .. n : f[1 .. i] \in A}
           F == [i \in 0 .. n |-> f[1 .. i]]
<1>1. ASSUME NEW i \in 1 .. n, f[1 .. (i - 1)] \in A
      PROVE  f[1 .. i] = step[<<i, f[1 .. (i - 1)]>>] /\ f[1 .. i] \in A
  <2> DEFINE s == 1 .. i
  <2>1. i \in Nat /\ i # 0 /\ s \in SUBSET (1 .. n)
    OBVIOUS
  <2>2. Max(s) = i /\ s \ {i} = 1 .. (i - 1) /\ i \in s
    BY <2>1, PrefixMax
  <2> HIDE DEF s
  <2>3. s # {} /\ Max(s) \in s /\ f[s \ {Max(s)}] \in A
    BY <1>1, <2>2
  <2>4. f[s] = step[<<Max(s), f[s \ {Max(s)}]>>]
    BY <2>1, <2>3 DEF Unfolds
  <2>5. f[s] = step[<<i, f[1 .. (i - 1)]>>]
    BY <2>2, <2>4
  <2>6. <<i, f[1 .. (i - 1)]>> \in (1 .. n) \X A
    BY <1>1
  <2> QED BY <2>5, <2>6 DEF s
<1>2. 0 \in T /\ f[1 .. 0] = base
  <2>1. 1 .. 0 = {} /\ 0 \in 0 .. n
    OBVIOUS
  <2> QED BY <2>1 DEF Unfolds
<1>3. \A i \in 1 .. n : i - 1 \in T => i \in T
  <2>1. \A i \in 1 .. n : i \in 0 .. n
    OBVIOUS
  <2> QED BY <1>1, <2>1
<1>4. \A i \in 0 .. n : i \in T
  <2> HIDE DEF T
  <2> QED BY <1>2, <1>3, PrefixInduction
<1>5. F \in [0 .. n -> A]
  BY <1>4
<1>6. F[0] = base /\ F[n] = f[1 .. n]
  <2>1. 0 \in 0 .. n /\ n \in 0 .. n
    OBVIOUS
  <2> QED BY <1>2, <2>1
<1>7. ASSUME NEW i \in 1 .. n
      PROVE  F[i] = step[<<i, F[i - 1]>>]
  <2>1. i \in 0 .. n /\ i - 1 \in 0 .. n
    OBVIOUS
  <2> QED BY <1>1, <1>4, <2>1
<1> HIDE DEF F
<1>8. Steps(F, n, A, base, step)
  BY <1>5, <1>6, <1>7 DEF Steps
<1> QED BY <1>6, <1>8 DEF PrefixValues
=============================================================================
