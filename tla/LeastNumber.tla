---------------------------- MODULE LeastNumber ----------------------------
(***************************************************************************)
(* The least-number principle, from the well-foundedness of < on Nat, in   *)
(* the form the proofs of this project need: whatever would be proved by   *)
(* induction is proved by looking at the least number that breaks it.      *)
(***************************************************************************)
EXTENDS Naturals, FiniteSetsExt, WellFoundedInduction, TLAPS

\* A nonempty set of naturals has a least element.
LEMMA LeastElement ==
    ASSUME NEW T \in SUBSET Nat, T # {}
    PROVE  \E x \in T : \A y \in T : x <= y
<1> DEFINE R == OpToRel(<, Nat)
<1>1. IsWellFoundedOn(R, Nat)
    BY NatLessThanWellFounded, Zenon
<1>2. \A x, y \in Nat : y < x => <<y, x>> \in R
    BY DEF OpToRel
<1> HIDE DEF R
<1>3. PICK x \in T : \A y \in T : ~ (<<y, x>> \in R)
    BY <1>1, WFMin
<1>4. \A y \in T : ~ (y < x)
    BY <1>2, <1>3
<1>5. x \in Nat /\ \A y \in T : y \in Nat
    OBVIOUS
<1> QED BY <1>4, <1>5

\* A nonempty set of naturals with a bound has the maximum that Max chooses.
LEMMA BoundedMax ==
    ASSUME NEW T \in SUBSET Nat, T # {},
           NEW n \in Nat, \A x \in T : x <= n
    PROVE  Max(T) \in T /\ \A x \in T : x <= Max(T)
<1> DEFINE U == {k \in Nat : n - k \in T}
<1>1. \A x \in T : x \in Nat /\ n - x \in Nat /\ n - (n - x) = x
    OBVIOUS
<1>2. U \in SUBSET Nat /\ U # {}
    BY <1>1
<1>3. PICK u \in U : \A y \in U : u <= y
    BY <1>2, LeastElement
<1>4. n - u \in T /\ u \in Nat
    OBVIOUS
<1>5. \A x \in T : n - u >= x
  <2> TAKE x \in T
  <2>1. n - x \in U
      BY <1>1
  <2>2. u <= n - x
      BY <2>1, <1>3
  <2> QED BY <2>2, <1>1, <1>4
<1>6. \E m \in T : \A x \in T : m >= x
    BY <1>4, <1>5
<1>7. Max(T) \in T /\ \A x \in T : Max(T) >= x
    BY <1>6 DEF Max
<1> QED BY <1>1, <1>7
=============================================================================
