----------------------------- MODULE Induction -----------------------------
(***************************************************************************)
(* Induction over the natural numbers for a set instead of a predicate, so *)
(* that it can be cited by name.  It rests on finite sets alone: were n    *)
(* the first number missing, k |-> k + 1 would map the numbers below n     *)
(* that are in the set one-to-one to all of them but 0.                    *)
(***************************************************************************)
EXTENDS Integers, FiniteSetTheorems, TLAPS

(* A set that has 0, and with a number the next, has all of them.          *)
LEMMA Induction ==
  ASSUME NEW T, 0 \in T, \A n \in Nat : n \in T => n + 1 \in T
  PROVE  Nat \subseteq T
<1>1. SUFFICES ASSUME NEW n \in Nat, n \notin T PROVE FALSE
  OBVIOUS
<1> DEFINE S == {k \in 0..n : k \in T}
           next == [k \in S |-> k + 1]
<1>2. IsFiniteSet(S) /\ 0 \in S
  <2>1. IsFiniteSet(0..n)
    BY FS_Interval
  <2>2. QED  BY <2>1, FS_Subset
<1>3. \A k \in S : k + 1 \in S \ {0}
  BY <1>1
<1>4. next \in Injection(S, S \ {0})
  BY <1>3 DEF Injection, IsInjective
<1>5. /\ IsFiniteSet(S \ {0}) /\ Cardinality(S) \in Nat
      /\ Cardinality(S \ {0}) = Cardinality(S) - 1
  BY <1>2, FS_RemoveElement, FS_CardinalityType
<1>6. Cardinality(S) <= Cardinality(S \ {0})
  BY <1>4, <1>5, FS_Injection
<1>7. QED  BY <1>5, <1>6

(* Course-of-values induction: a set that has every number all smaller     *)
(* ones of which it has, has all of them.                                  *)
LEMMA StrongInduction ==
  ASSUME NEW T, \A n \in Nat : (\A m \in Nat : m < n => m \in T) => n \in T
  PROVE  Nat \subseteq T
<1> DEFINE U == {n \in Nat : \A m \in Nat : m < n => m \in T}
<1>1. 0 \in U
  OBVIOUS
<1>2. ASSUME NEW n \in Nat, n \in U PROVE n + 1 \in U
  <2>1. n \in T
    BY <1>2
  <2>2. \A m \in Nat : m < n + 1 => m < n \/ m = n
    OBVIOUS
  <2>3. QED  BY <1>2, <2>1, <2>2
<1>3. Nat \subseteq U
  <2> HIDE DEF U
  <2>1. QED  BY <1>1, <1>2, Induction
<1>4. ASSUME NEW n \in Nat PROVE n \in T
  <2>1. n + 1 \in U /\ n < n + 1
    BY <1>3
  <2>2. QED  BY <2>1
<1>5. QED  BY <1>4
=============================================================================
