----------------------------- MODULE EgelNumbers -----------------------------
(***************************************************************************)
(* Lemmas about sets of numbers on which the proofs of several modules     *)
(* rest: a least number, and induction over an interval.                   *)
(***************************************************************************)
EXTENDS Integers, FiniteSetsExt, FiniteSetTheorems, TLAPS

\* Some number of a set of numbers is the least of them.
LEMMA LeastNumber ==
    ASSUME NEW T, T \subseteq Nat, T # {}
    PROVE  \E n \in T : \A i \in T : n <= i
<1> DEFINE Below(n) == {i \in T : i < n}
           F == {Below(n) : n \in T}
<1>1. F \subseteq FiniteSubsetsOf(Nat)
    <2> SUFFICES ASSUME NEW n \in T
                 PROVE  Below(n) \in FiniteSubsetsOf(Nat)
        OBVIOUS
    <2>1. IsFiniteSet(Below(n))
        BY FS_BoundedSetOfNaturals
    <2> QED
        BY <2>1 DEF FiniteSubsetsOf
<1>2. IsWellFoundedOn(StrictSubsetOrdering(Nat), FiniteSubsetsOf(Nat))
    BY FS_StrictSubsetOrderingWellFounded
<1>3. F # {}
    OBVIOUS
<1>4. PICK B \in F : \A C \in F : ~ <<C, B>> \in StrictSubsetOrdering(Nat)
    <2> HIDE DEF F
    <2> QED
        BY <1>1, <1>2, <1>3, WFMin
<1>5. PICK n \in T : B = Below(n)
    OBVIOUS
<1>6. ASSUME NEW i \in T, i < n
      PROVE  FALSE
    <2>1. Below(i) \in F
        OBVIOUS
    <2>2. Below(i) \subseteq Below(n) /\ i \in Below(n) /\ i \notin Below(i)
        <3> HIDE DEF F
        <3>1. i < n /\ ~(i < i) /\ \A j \in T : j < i => j < n
            BY <1>6
        <3> QED
            BY <3>1
    <2>3. <<Below(i), B>> \in StrictSubsetOrdering(Nat)
        BY <2>2, <1>5 DEF StrictSubsetOrdering
    <2> QED
        BY <2>1, <2>3, <1>4
<1> QED
    BY <1>6

\* Induction from the first to the last number of an interval.
LEMMA Upwards ==
    ASSUME NEW T, NEW m \in Int, NEW n \in Int, m <= n => m \in T,
           \A i \in m..n : i \in T /\ i < n => i + 1 \in T
    PROVE  m..n \subseteq T
<1> SUFFICES ASSUME NEW l \in m..n, l \notin T
             PROVE  FALSE
    OBVIOUS
<1> DEFINE U == {i \in Nat : m + i \in (m..n) \ T}
<1>1. l - m \in U
    OBVIOUS
<1>2. PICK i \in U : \A j \in U : i <= j
    BY <1>1, LeastNumber
<1>3. i # 0
    OBVIOUS
<1>4. i - 1 \notin U
    BY <1>2
<1> QED
    BY <1>3, <1>4

\* Induction from the last to the first number of an interval.
LEMMA Downwards ==
    ASSUME NEW T, NEW m \in Int, NEW n \in Int, m <= n => n \in T,
           \A i \in m..n : i \in T /\ i > m => i - 1 \in T
    PROVE  m..n \subseteq T
<1> SUFFICES ASSUME NEW l \in m..n, l \notin T
             PROVE  FALSE
    OBVIOUS
<1> DEFINE U == {i \in Nat : n - i \in (m..n) \ T}
<1>1. n - l \in U
    OBVIOUS
<1>2. PICK i \in U : \A j \in U : i <= j
    BY <1>1, LeastNumber
<1>3. i # 0
    OBVIOUS
<1>4. i - 1 \notin U
    BY <1>2
<1> QED
    BY <1>3, <1>4

LEMMA MinIs ==
    ASSUME NEW S, S \subseteq Nat, NEW x \in S, \A y \in S : x <= y
    PROVE  Min(S) = x
<1>1. Min(S) \in S /\ Min(S) <= x
    BY DEF Min
<1>2. x <= Min(S) /\ x \in Nat /\ Min(S) \in Nat
    BY <1>1
<1> QED
    BY <1>1, <1>2

=============================================================================
