------------------------------ MODULE PcpEpoch ------------------------------
(***************************************************************************)
(* compare_epochs of pcp_utils.h: does the epoch of an answer fit the time *)
(* the client has seen pass since its reference answer, or has the server  *)
(* been restarted? All values are unsigned and EpochMod (2^32) wide.       *)
(***************************************************************************)
EXTENDS Integers

CONSTANT EpochMod

ASSUME EpochAssumption == EpochMod \in Nat /\ EpochMod > 64

Epoch == 0 .. EpochMod - 1

(* s->epoch == ~0u: no answer of the server has been used as reference yet. *)
NoEpoch == EpochMod - 1

(* Unsigned sum with a small constant and unsigned difference. *)
Plus(x, k)  == IF x + k < EpochMod THEN x + k ELSE x + k - EpochMod
Minus(x, y) == IF x >= y THEN x - y ELSE x - y + EpochMod

(* x - (x >> 4): 15/16 of x, rounded up. *)
Most(x) == x - (x \div 16)

(* The comparison of the two differences. *)
OutOfStep_FastOnly(c_delta, s_delta) ==   \* mutant: a slow epoch is not seen
  Plus(c_delta, 2) < Most(s_delta)

OutOfStep(c_delta, s_delta) ==
  \/ Plus(c_delta, 2) < Most(s_delta)
  \/ Plus(s_delta, 2) < Most(c_delta)

(* The reference the comparison is made with: the answer itself if there is *)
(* none yet. A reference is the epoch of an answer and when it arrived.     *)
Reference(ref, recv_epoch, received_time) ==
  IF ref.epoch = NoEpoch
  THEN [epoch |-> recv_epoch, cepoch |-> received_time]
  ELSE ref

compare_epochs(ref, recv_epoch, received_time) ==
  LET r == Reference(ref, recv_epoch, received_time)
  IN OutOfStep(Minus(received_time, r.cepoch), Minus(recv_epoch, r.epoch))
=============================================================================
