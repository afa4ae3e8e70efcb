-------------------------- MODULE EgelTrampolineStack --------------------------
(***************************************************************************)
(* The inductive invariant of EgelTrampoline.  What is still to be reduced *)
(* is a stack of redexes, the frames, chained by k, and a stack of         *)
(* handlers, chained by exc, each of which cuts the frames off at some     *)
(* level.  A hole is the place of a frame, and what a frame needs is there *)
(* but for the places of the frames above it.  Lemmas about the closure of *)
(* a set of arrays and about which arrays are new come first.              *)
(***************************************************************************)
EXTENDS EgelTrampoline, EgelNumbers

-----------------------------------------------------------------------------
(* The closure of a set of arrays.                                         *)

Closed(next, C) == \A a \in C : next[a] \subseteq C

\* The arrays that n steps lead to, or fewer.
Steps(next, S, n) ==
    {a \in Addr : \E p \in [Nat -> Addr] :
        /\ p[0] \in S
        /\ p[n] = a
        /\ \A i \in 0..n - 1 : p[i + 1] = p[i] \/ p[i + 1] \in next[p[i]]}

LEMMA StepsFirst ==
    ASSUME NEW next, NEW S \in SUBSET Addr
    PROVE  Steps(next, S, 0) = S
<1>1. ASSUME NEW a \in S
      PROVE  a \in Steps(next, S, 0)
    <2> DEFINE p == [i \in Nat |-> a]
    <2>1. p \in [Nat -> Addr] /\ \A i \in Nat : p[i] = a
        OBVIOUS
    <2>2. a \in Addr /\ p[0] \in S /\ p[0] = a
        BY <2>1
    <2> HIDE DEF p
    <2> QED
        BY <2>1, <2>2 DEF Steps
<1> QED
    BY <1>1 DEF Steps

LEMMA StepsNext ==
    ASSUME NEW next \in [Addr -> SUBSET Addr], NEW S \in SUBSET Addr, NEW n \in Nat
    PROVE  Steps(next, S, n + 1) =
               Steps(next, S, n) \cup UNION {next[a] : a \in Steps(next, S, n)}
<1>1. ASSUME NEW a \in Steps(next, S, n), NEW b \in next[a] \cup {a}
      PROVE  b \in Steps(next, S, n + 1)
    <2>1. a \in Addr /\ b \in Addr
        BY DEF Steps
    <2>2. PICK p \in [Nat -> Addr] :
                /\ p[0] \in S
                /\ p[n] = a
                /\ \A i \in 0..n - 1 : p[i + 1] = p[i] \/ p[i + 1] \in next[p[i]]
        BY DEF Steps
    <2> DEFINE o == [p EXCEPT ![n + 1] = b]
    <2>3. /\ o \in [Nat -> Addr]
          /\ o[n + 1] = b
          /\ \A i \in 0..n : o[i] = p[i]
        BY <2>1
    <2> HIDE DEF o
    <2>4. \A i \in 0..n : o[i + 1] = o[i] \/ o[i + 1] \in next[o[i]]
        <3> TAKE i \in 0..n
        <3>1. CASE i = n
            BY <3>1, <2>2, <2>3
        <3>2. CASE i < n
            BY <3>2, <2>2, <2>3
        <3> QED
            BY <3>1, <3>2
    <2>5. o[0] \in S
        BY <2>2, <2>3
    <2> QED
        BY <2>1, <2>3, <2>4, <2>5 DEF Steps
<1>2. ASSUME NEW b \in Steps(next, S, n + 1)
      PROVE  \E a \in Steps(next, S, n) : b \in next[a] \cup {a}
    <2>1. PICK p \in [Nat -> Addr] :
                /\ p[0] \in S
                /\ p[n + 1] = b
                /\ \A i \in 0..n : p[i + 1] = p[i] \/ p[i + 1] \in next[p[i]]
        BY DEF Steps
    <2>2. p[n] \in Steps(next, S, n)
        BY <2>1 DEF Steps
    <2> QED
        BY <2>1, <2>2
<1> QED
    BY <1>1, <1>2

ClosureBy(c, next, S) ==
    /\ c[0] = S
    /\ \A n \in 1..MaxHeap : c[n] = c[n - 1] \cup UNION {next[a] : a \in c[n - 1]}

\* The recursive function of Closure exists.
LEMMA ClosureFunction ==
    ASSUME NEW next \in [Addr -> SUBSET Addr], NEW S \in SUBSET Addr
    PROVE  \E c : ClosureBy(c, next, S) /\ Closure(next, S) = c[MaxHeap]
<1> DEFINE F(f) == [n \in 0..MaxHeap |->
                        IF n = 0 THEN S
                        ELSE UNION {C \cup UNION {next[a] : a \in C} : C \in {f[n - 1]}}]
           w == [n \in 0..MaxHeap |-> Steps(next, S, n)]
           c == CHOOSE f : f = F(f)
<1>1. ASSUME NEW n \in 0..MaxHeap
      PROVE  w[n] = IF n = 0 THEN S
                    ELSE UNION {C \cup UNION {next[a] : a \in C} : C \in {w[n - 1]}}
    <2>1. CASE n = 0
        BY <2>1, StepsFirst
    <2>2. CASE n # 0
        <3>1. n - 1 \in Nat /\ (n - 1) + 1 = n /\ n - 1 \in 0..MaxHeap
            BY <2>2, TrampolineAssumption
        <3>2. Steps(next, S, n) =
                 Steps(next, S, n - 1) \cup UNION {next[a] : a \in Steps(next, S, n - 1)}
            BY <3>1, StepsNext
        <3> QED
            BY <2>2, <3>1, <3>2
    <2> QED
        BY <2>1, <2>2
<1>2. w = F(w)
    BY <1>1
<1>3. c = F(c)
    <2> HIDE DEF F, w
    <2> QED
        BY <1>2
<1>4. Closure(next, S) = c[MaxHeap]
    BY DEF Closure
<1>5. c[0] = S
    <2> HIDE DEF c
    <2> QED
        BY <1>3, TrampolineAssumption
<1>6. ASSUME NEW n \in 1..MaxHeap
      PROVE  c[n] = c[n - 1] \cup UNION {next[a] : a \in c[n - 1]}
    <2>1. n \in 0..MaxHeap /\ n # 0
        BY TrampolineAssumption
    <2>2. c[n] = UNION {C \cup UNION {next[a] : a \in C} : C \in {c[n - 1]}}
        <3> HIDE DEF c
        <3> QED
            BY <1>3, <2>1
    <2> HIDE DEF c
    <2> QED
        BY <2>2
<1> QED
    BY <1>4, <1>5, <1>6 DEF ClosureBy

\* Closure(next, S) is the least set with S that next does not lead out of.
LEMMA ClosureLeast ==
    ASSUME NEW next \in [Addr -> SUBSET Addr], NEW S \in SUBSET Addr
    PROVE  /\ Closure(next, S) \in SUBSET Addr
           /\ S \subseteq Closure(next, S)
           /\ Closed(next, Closure(next, S))
           /\ \A D : S \subseteq D /\ Closed(next, D) => Closure(next, S) \subseteq D
<1>0. PICK c : ClosureBy(c, next, S) /\ Closure(next, S) = c[MaxHeap]
    BY ClosureFunction
<1>1. /\ c[0] = S
      /\ \A n \in 1..MaxHeap : c[n] = c[n - 1] \cup UNION {next[a] : a \in c[n - 1]}
      /\ Closure(next, S) = c[MaxHeap]
    BY <1>0 DEF ClosureBy
<1>2. MaxHeap \in Nat
    BY TrampolineAssumption
<1> DEFINE L(D) == {n \in 0..MaxHeap : c[n] \subseteq D}
<1>3. ASSUME NEW D, S \subseteq D, Closed(next, D), D \subseteq Addr
      PROVE  0..MaxHeap \subseteq L(D)
    <2>1. 0 \in L(D)
        BY <1>1, <1>2, <1>3
    <2>2. ASSUME NEW n \in 0..MaxHeap, n \in L(D), n < MaxHeap
          PROVE  n + 1 \in L(D)
        <3>1. c[n + 1] = c[n] \cup UNION {next[a] : a \in c[n]}
            BY <2>2, <1>1, <1>2
        <3> QED
            BY <3>1, <2>2, <1>2, <1>3 DEF Closed
    <2> HIDE DEF L
    <2> QED
        BY <2>1, <2>2, <1>2, Upwards
<1>4. \A n \in 0..MaxHeap : c[n] \subseteq Addr
    <2>1. Closed(next, Addr)
        BY DEF Closed
    <2> QED
        BY <1>3, <2>1
<1>5. \A n \in 0..MaxHeap : S \subseteq c[n]
    <2> DEFINE M == {n \in 0..MaxHeap : S \subseteq c[n]}
    <2>1. 0 \in M
        BY <1>1, <1>2
    <2>2. ASSUME NEW n \in 0..MaxHeap, n \in M, n < MaxHeap
          PROVE  n + 1 \in M
        <3>1. c[n + 1] = c[n] \cup UNION {next[a] : a \in c[n]}
            BY <2>2, <1>1, <1>2
        <3> QED
            BY <3>1, <2>2, <1>2
    <2>3. 0..MaxHeap \subseteq M
        <3> HIDE DEF M
        <3> QED
            BY <2>1, <2>2, <1>2, Upwards
    <2> QED
        BY <2>3
<1>6. Closed(next, c[MaxHeap])
    <2> DEFINE M == {n \in 0..MaxHeap : Closed(next, c[n]) \/ Cardinality(c[n]) >= n}
    <2>0. IsFiniteSet(Addr) /\ Cardinality(Addr) = MaxHeap
        BY <1>2, FS_Interval DEF Addr
    <2>3. \A n \in 0..MaxHeap : IsFiniteSet(c[n]) /\ Cardinality(c[n]) \in Nat
        BY <1>4, <2>0, FS_Subset, FS_CardinalityType
    <2>1. 0 \in M
        BY <2>3, <1>2
    <2>2. ASSUME NEW n \in 0..MaxHeap, n \in M, n < MaxHeap
          PROVE  n + 1 \in M
        <3>1. c[n + 1] = c[n] \cup UNION {next[a] : a \in c[n]}
            BY <2>2, <1>1, <1>2
        <3>2. n + 1 \in 0..MaxHeap
            BY <2>2, <1>2
        <3>3. CASE Closed(next, c[n])
            <4>1. c[n + 1] = c[n]
                BY <3>1, <3>3 DEF Closed
            <4> QED
                BY <4>1, <3>2, <3>3
        <3>4. CASE ~Closed(next, c[n])
            <4>1. c[n] \subseteq c[n + 1] /\ c[n] # c[n + 1]
                BY <3>1, <3>4 DEF Closed
            <4>2. Cardinality(c[n]) <= Cardinality(c[n + 1]) /\ Cardinality(c[n]) # Cardinality(c[n + 1])
                BY <4>1, <2>3, <3>2, FS_Subset
            <4> QED
                BY <4>2, <2>2, <2>3, <3>2, <3>4
        <3> QED
            BY <3>3, <3>4
    <2>4. MaxHeap \in M
        <3> HIDE DEF M
        <3>1. 0..MaxHeap \subseteq M
            BY <2>1, <2>2, <1>2, Upwards
        <3> QED
            BY <3>1, <1>2
    <2>5. CASE Cardinality(c[MaxHeap]) >= MaxHeap
        <3>1. c[MaxHeap] \in SUBSET Addr /\ Cardinality(c[MaxHeap]) \in Nat
            BY <1>2, <1>4, <2>3
        <3>2. Cardinality(c[MaxHeap]) = Cardinality(Addr)
            BY <2>0, <2>5, <3>1, <1>2, FS_Subset
        <3>3. c[MaxHeap] = Addr
            BY <2>0, <3>1, <3>2, FS_Subset
        <3> QED
            BY <3>3 DEF Closed
    <2> QED
        BY <2>4, <2>5
<1>7. ASSUME NEW D, S \subseteq D, Closed(next, D)
      PROVE  Closure(next, S) \subseteq D
    <2>1. S \subseteq D \cap Addr /\ Closed(next, D \cap Addr)
        BY <1>7 DEF Closed
    <2> QED
        BY <2>1, <1>1, <1>2, <1>3
<1> QED
    BY <1>1, <1>2, <1>4, <1>5, <1>6, <1>7

-----------------------------------------------------------------------------
(* New arrays.                                                             *)

\* How many numbers of a set come before a.
Earlier(U, a) == Cardinality({b \in U : b < a})

\* The numbers of a finite set can be counted.
LEMMA Counting ==
    ASSUME NEW U, U \subseteq Nat, IsFiniteSet(U)
    PROVE  \A i \in 1..Cardinality(U) : \E a \in U : Earlier(U, a) = i - 1
<1> DEFINE Below(a) == {b \in U : b < a}
           n == Cardinality(U)
           T == {i \in 1..n : \E a \in U : Cardinality(Below(a)) = i - 1}
<1>0. \A a \in U : a \in Nat
    OBVIOUS
<1>1. n \in Nat
    BY FS_CardinalityType
<1>2. \A a \in U : IsFiniteSet(Below(a)) /\ Cardinality(Below(a)) \in Nat
    BY FS_Subset, FS_CardinalityType
<1>3. ASSUME 1 <= n
      PROVE  1 \in T
    <2>1. U # {}
        BY <1>3, FS_EmptySet
    <2>2. PICK a \in U : \A b \in U : a <= b
        BY <2>1, LeastNumber
    <2>3. Below(a) = {}
        <3>1. \A b \in U : ~(b < a)
            BY <2>2, <1>0
        <3> QED
            BY <3>1
    <2>4. Cardinality(Below(a)) = 0
        BY <2>3, FS_EmptySet
    <2>5. \E c \in U : Cardinality(Below(c)) = 1 - 1
        BY <2>4
    <2>6. 1 \in 1..n
        BY <1>3, <1>1
    <2> QED
        BY <2>5, <2>6
<1>4. ASSUME NEW i \in 1..n, i \in T, i < n
      PROVE  i + 1 \in T
    <2>1. PICK a \in U : Cardinality(Below(a)) = i - 1
        BY <1>4
    <2> DEFINE Above == {b \in U : a < b}
               B == Below(a) \cup {a}
    <2>2. IsFiniteSet(B) /\ Cardinality(B) = i
        <3>1. a \notin Below(a)
            OBVIOUS
        <3>2. IsFiniteSet(B) /\ Cardinality(B) = Cardinality(Below(a)) + 1
            BY ONLY <3>1, <1>2, FS_AddElement
        <3> QED
            BY <3>2, <2>1
    <2>3. Above # {}
        <3>1. ASSUME Above = {}
              PROVE  U = B
            <4>1. \A b \in U : ~(a < b)
                BY <3>1
            <4>2. \A b \in U : b < a \/ b = a
                BY <4>1, <1>0
            <4> QED
                BY <4>2
        <3> QED
            BY <3>1, <2>2, <1>4
    <2>4. PICK c \in Above : \A b \in Above : c <= b
        <3>1. Above \subseteq Nat
            OBVIOUS
        <3> HIDE DEF Above
        <3> QED
            BY <2>3, <3>1, LeastNumber
    <2>5. Below(c) = B
        <3>1. c \in U /\ a < c /\ \A b \in U : a < b => c <= b
            BY <2>4
        <3>2. \A b \in U : b < c <=> b < a \/ b = a
            BY <3>1, <1>0
        <3> QED
            BY <3>2
    <2> QED
        BY <2>2, <2>4, <2>5, <1>4, <1>1
<1>5. 1..n \subseteq T
    <2> HIDE DEF T, n
    <2> QED
        BY <1>1, <1>3, <1>4, Upwards
<1> QED
    BY <1>5 DEF Earlier

\* Whoever comes later has more before him.
LEMMA CountGrows ==
    ASSUME NEW U, U \subseteq Nat, IsFiniteSet(U)
    PROVE  /\ \A a \in U : Earlier(U, a) \in 0..Cardinality(U) - 1
           /\ \A a, b \in U : a < b => Earlier(U, a) < Earlier(U, b)
           /\ \A a, b \in U : Earlier(U, a) = Earlier(U, b) => a = b
<1> DEFINE Below(a) == {b \in U : b < a}
           Count(a) == Cardinality(Below(a))
<1>1. \A a \in U : a \in Nat
    OBVIOUS
<1>2. \A a \in U : IsFiniteSet(Below(a)) /\ Count(a) \in Nat
    BY FS_Subset, FS_CardinalityType
<1>0. \A a \in U : Count(a) = Earlier(U, a)
    BY DEF Earlier
<1>3. ASSUME NEW a \in U, NEW b \in U, a < b
      PROVE  Count(a) < Count(b)
    <2>1. \A c \in U : c < a => c < b
        BY <1>1, <1>3
    <2>2. a \in Nat /\ b \in Nat /\ ~(a < a)
        BY <1>1
    <2>3. Below(a) \in SUBSET Below(b)
        BY <2>1
    <2>4. a \in Below(b) /\ a \notin Below(a)
        BY <1>3, <2>2
    <2>5. Below(a) # Below(b)
        BY <2>4
    <2> HIDE DEF Below
    <2>6. Cardinality(Below(a)) <= Cardinality(Below(b)) /\ Cardinality(Below(a)) # Cardinality(Below(b))
        BY <1>2, <2>3, <2>5, FS_Subset
    <2> QED
        BY <2>6, <1>2
<1>4. ASSUME NEW a \in U, NEW b \in U, Count(a) = Count(b)
      PROVE  a = b
    <2>0. Count(a) \in Nat /\ Count(b) \in Nat
        BY <1>2
    <2>1. ~(Count(a) < Count(b)) /\ ~(Count(b) < Count(a))
        BY <2>0, <1>4
    <2>2. ~(a < b) /\ ~(b < a)
        BY <2>1, <1>3
    <2> QED
        BY <2>2, <1>1
<1>5. ASSUME NEW a \in U
      PROVE  Count(a) \in 0..Cardinality(U) - 1
    <2>1. Below(a) \in SUBSET U /\ Below(a) # U
        BY <1>1
    <2> HIDE DEF Below
    <2>2. Cardinality(Below(a)) <= Cardinality(U) /\ Cardinality(Below(a)) # Cardinality(U)
        BY <2>1, FS_Subset
    <2>3. Cardinality(U) \in Nat
        BY FS_CardinalityType
    <2> QED
        BY <2>2, <2>3, <1>2
<1> HIDE DEF Count
<1> QED
    BY <1>0, <1>3, <1>4, <1>5

LEMMA BeforeGrows ==
    /\ \A a \in Unused : Before(a) \in Nat
    /\ \A a, b \in Unused : a < b => Before(a) < Before(b)
    /\ \A a, b \in Unused : Before(a) = Before(b) => a = b
<1>1. IsFiniteSet(Unused) /\ Unused \subseteq Nat
    <2>1. IsFiniteSet(Addr)
        BY TrampolineAssumption, FS_Interval DEF Addr
    <2>2. Unused \subseteq Addr /\ Addr \subseteq Nat
        BY TrampolineAssumption DEF Unused, Addr
    <2> QED
        BY <2>1, <2>2, FS_Subset
<1>2. Cardinality(Unused) \in Nat
    BY <1>1, FS_CardinalityType
<1> QED
    <2>1. \A a \in Unused : Before(a) = Earlier(Unused, a)
        BY DEF Before, Earlier
    <2>2. /\ \A a \in Unused : Earlier(Unused, a) \in 0..Cardinality(Unused) - 1
          /\ \A a, b \in Unused : a < b => Earlier(Unused, a) < Earlier(Unused, b)
          /\ \A a, b \in Unused : Earlier(Unused, a) = Earlier(Unused, b) => a = b
        BY <1>1, CountGrows
    <2>3. \A a \in Unused : Before(a) \in Nat
        BY <2>1, <2>2, <1>2
    <2>4. ASSUME NEW a \in Unused, NEW b \in Unused
          PROVE  (a < b => Before(a) < Before(b)) /\ (Before(a) = Before(b) => a = b)
        BY <2>1, <2>2
    <2> QED
        BY <2>3, <2>4

\* The members of a set, from the greatest to the least.
LEMMA Descending ==
    ASSUME NEW U, U \subseteq Nat, IsFiniteSet(U), U # {}
    PROVE  LET n == Cardinality(U)
           IN  /\ n \in Nat \ {0}
               /\ \E r \in [1..n -> U] :
                    /\ \A l \in 2..n : r[l] < r[l - 1] /\ \A b \in U : r[l] < b => r[l - 1] <= b
                    /\ \A b \in U : r[n] <= b /\ b <= r[1]
                    /\ \A b \in U : \E l \in 1..n : r[l] = b
                    /\ \A i, l \in 1..n : r[i] < r[l] => l < i
                    /\ \A i, l \in 1..n : r[i] = r[l] => i = l
<1> DEFINE n == Cardinality(U)
           Count(a) == Earlier(U, a)
           r == [l \in 1..n |-> CHOOSE a \in U : Count(a) = n - l]
<1>1. n \in Nat \ {0}
    BY FS_CardinalityType, FS_EmptySet
<1>2. /\ \A a \in U : a \in Nat /\ Count(a) \in 0..n - 1
      /\ \A a, b \in U : a < b => Count(a) < Count(b)
      /\ \A a, b \in U : Count(a) = Count(b) => a = b
    BY CountGrows
<1>3. \A i \in 1..n : \E a \in U : Count(a) = i - 1
    BY Counting
<1>0. \A a \in U : Count(a) \in Nat /\ Count(a) \in Int
    BY <1>1, <1>2
<1> HIDE DEF n, Count
<1>4. ASSUME NEW l \in 1..n
      PROVE  r[l] \in U /\ Count(r[l]) = n - l
    <2>1. (n - l) + 1 \in 1..n /\ ((n - l) + 1) - 1 = n - l
        BY <1>1
    <2>2. \E a \in U : Count(a) = n - l
        BY <2>1, <1>3
    <2> QED
        BY <2>2
<1>5. r \in [1..n -> U]
    BY <1>4
<1> HIDE DEF r
<1>6. ASSUME NEW a \in U, NEW b \in U, Count(a) < Count(b)
      PROVE  a < b
    <2>1. a # b /\ ~(b < a)
        BY <1>2, <1>6
    <2> QED
        BY <2>1, <1>2
<1>7. ASSUME NEW l \in 2..n
      PROVE  r[l] < r[l - 1] /\ \A b \in U : r[l] < b => r[l - 1] <= b
    <2>1. l \in 1..n /\ l - 1 \in 1..n
        BY <1>1
    <2>2. /\ r[l] \in U /\ Count(r[l]) = n - l
          /\ r[l - 1] \in U /\ Count(r[l - 1]) = n - (l - 1)
        BY <2>1, <1>4
    <2>3. r[l] < r[l - 1]
        <3>1. n - l < n - (l - 1)
            BY <2>1, <1>1
        <3> QED
            BY <2>2, <3>1, <1>6
    <2>4. ASSUME NEW b \in U, r[l] < b, ~(r[l - 1] <= b)
          PROVE  FALSE
        <3>1. b < r[l - 1]
            <4>1. b \in Nat /\ r[l - 1] \in Nat
                BY <2>2, <1>2
            <4> QED
                BY <4>1, <2>4
        <3>2. n - l < Count(b) /\ Count(b) < n - (l - 1) /\ Count(b) \in Int
            <4>1. Count(r[l]) < Count(b) /\ Count(b) < Count(r[l - 1])
                BY <2>2, <2>4, <3>1, <1>2
            <4> QED
                BY <4>1, <2>2, <1>0
        <3> QED
            BY <3>2, <2>1, <1>1
    <2> QED
        BY <2>3, <2>4
<1>8. ASSUME NEW b \in U
      PROVE  /\ r[n] <= b /\ b <= r[1]
             /\ \E l \in 1..n : r[l] = b
    <2>1. n \in 1..n /\ 1 \in 1..n /\ n - n = 0
        BY <1>1
    <2>2. r[n] \in U /\ Count(r[n]) = 0 /\ r[1] \in U /\ Count(r[1]) = n - 1
        BY <2>1, <1>4
    <2>3. Count(b) \in 0..n - 1 /\ b \in Nat
        BY <1>2
    <2>4. ~(b < r[n])
        <3>1. b < r[n] => Count(b) < 0
            BY <2>2, <1>2
        <3> QED
            BY <2>3, <3>1
    <2>5. ~(r[1] < b)
        <3>1. r[1] < b => Count(r[1]) < Count(b)
            BY <2>2, <1>2
        <3> QED
            BY <2>2, <2>3, <3>1, <1>1
    <2>6. \E l \in 1..n : r[l] = b
        <3>1. n - Count(b) \in 1..n /\ n - (n - Count(b)) = Count(b)
            BY <2>3, <1>1
        <3>2. r[n - Count(b)] \in U /\ Count(r[n - Count(b)]) = Count(b)
            BY <3>1, <1>4
        <3> QED
            BY <3>1, <3>2, <1>2
    <2> QED
        <3>1. r[n] \in Nat /\ r[1] \in Nat /\ b \in Nat
            BY <2>2, <2>3, <1>2
        <3> QED
            BY <3>1, <2>4, <2>5, <2>6
<1>9. ASSUME NEW i \in 1..n, NEW l \in 1..n, r[i] < r[l]
      PROVE  l < i
    <2>1. n - i < n - l
        <3>1. r[i] \in U /\ r[l] \in U /\ Count(r[i]) = n - i /\ Count(r[l]) = n - l
            BY <1>4
        <3>2. Count(r[i]) < Count(r[l])
            BY <3>1, <1>2, <1>9
        <3> QED
            BY <3>1, <3>2
    <2> QED
        BY <2>1, <1>1
<1>10. ASSUME NEW i \in 1..n, NEW l \in 1..n, r[i] = r[l]
       PROVE  i = l
    <2>1. n - i = n - l
        BY <1>4, <1>10
    <2> QED
        BY <2>1, <1>1
<1> QED
    BY <1>1, <1>5, <1>7, <1>8, <1>9, <1>10 DEF n

\* As many addresses as there is room for are new, and each another one.
LEMMA NewAddresses ==
    ASSUME NEW n \in Nat, Room(n)
    PROVE  /\ \A i \in 1..n : New(i) \in Unused /\ Before(New(i)) = i - 1
           /\ \A i, j \in 1..n : New(i) = New(j) => i = j
<1>1. IsFiniteSet(Unused) /\ Unused \subseteq Nat /\ Cardinality(Unused) \in Nat
    <2>1. IsFiniteSet(Addr)
        BY TrampolineAssumption, FS_Interval DEF Addr
    <2>2. Unused \subseteq Addr /\ Addr \subseteq Nat
        BY TrampolineAssumption DEF Unused, Addr
    <2>3. IsFiniteSet(Unused)
        BY <2>1, <2>2, FS_Subset
    <2> QED
        BY <2>2, <2>3, FS_CardinalityType
<1>2. ASSUME NEW i \in 1..n
      PROVE  New(i) \in Unused /\ Before(New(i)) = i - 1
    <2>1. i \in 1..Cardinality(Unused)
        BY <1>1 DEF Room
    <2>2. \E a \in Unused : Before(a) = i - 1
        BY <1>1, <2>1, Counting DEF Before, Earlier
    <2> QED
        BY <2>2 DEF New
<1>3. ASSUME NEW i \in 1..n, NEW j \in 1..n, New(i) = New(j)
      PROVE  i = j
    <2>1. i - 1 = j - 1
        BY <1>2, <1>3
    <2> QED
        BY <2>1
<1> QED
    BY <1>2, <1>3

\* What the heap is when there are new arrays.
LEMMA AllocGives ==
    ASSUME NEW arrays, NEW T, arrays \in Seq(T), Room(Len(arrays)), DOMAIN heap = Addr
    PROVE  LET n == Len(arrays)
               N == {New(i) : i \in 1..n}
           IN  /\ n \in Nat
               /\ \A i \in 1..n : New(i) \in Addr /\ heap[New(i)] = Free
               /\ \A i, j \in 1..n : New(i) = New(j) => i = j
               /\ Alloc(arrays) = [a \in Addr |-> Alloc(arrays)[a]]
               /\ \A i \in 1..n : Alloc(arrays)[New(i)] = arrays[i]
               /\ \A a \in Addr \ N : Alloc(arrays)[a] = heap[a]
<1> DEFINE n == Len(arrays)
<1>1. n \in Nat
    OBVIOUS
<1>2. /\ \A i \in 1..n : New(i) \in Unused /\ Before(New(i)) = i - 1
      /\ \A i, j \in 1..n : New(i) = New(j) => i = j
    BY <1>1, NewAddresses
<1>3. Alloc(arrays) = [a \in Addr |-> IF a \in Unused /\ Before(a) < n
                                      THEN arrays[Before(a) + 1]
                                      ELSE heap[a]]
    BY DEF Alloc, Unused
<1> HIDE DEF n
<1>4. \A i \in 1..n : New(i) \in Addr /\ heap[New(i)] = Free
    BY <1>2 DEF Unused
<1>5. ASSUME NEW i \in 1..n
      PROVE  Alloc(arrays)[New(i)] = arrays[i]
    <2>1. i - 1 < n /\ (i - 1) + 1 = i
        BY <1>1
    <2>2. New(i) \in Addr /\ New(i) \in Unused /\ Before(New(i)) = i - 1
        BY <1>2, <1>4
    <2> QED
        BY <2>1, <2>2, <1>3
<1>6. ASSUME NEW a \in Addr \ {New(i) : i \in 1..n}
      PROVE  Alloc(arrays)[a] = heap[a]
    <2>1. ASSUME a \in Unused, Before(a) < n
          PROVE  FALSE
        <3>1. Before(a) + 1 \in 1..n /\ (Before(a) + 1) - 1 = Before(a)
            BY <2>1, <1>1, BeforeGrows
        <3>2. New(Before(a) + 1) \in Unused /\ Before(New(Before(a) + 1)) = Before(a)
            BY <3>1, <1>2
        <3>3. New(Before(a) + 1) = a
            BY <3>2, <2>1, BeforeGrows
        <3> QED
            BY <3>1, <3>3
    <2> QED
        BY <2>1, <1>3
<1> USE DEF n
<1> QED
    BY <1>1, <1>2, <1>3, <1>4, <1>5, <1>6

-----------------------------------------------------------------------------
(* Stacks of frames and handlers.                                          *)

Heaps == [Addr -> Arrays]

IsTree(array) == array.rt = Nil /\ array.k = Nil /\ array.exc = Nil

\* Where the result of redex a goes, and what is there.
Place(h, a) == <<h[a].rt, h[a].rti>>

Content(h, s) == h[s[1]].items[s[2]]

IsPlace(h, s) == s[1] \in Addr /\ s[2] \in DOMAIN h[s[1]].items

\* All that is inside the arrays of R is in R, but for the places in X.
Sound(h, R, X) ==
    \A a \in R :
        /\ IsTree(h[a])
        /\ h[a].items # <<>>
        /\ \A i \in DOMAIN h[a].items : <<a, i>> \in X \/ h[a].items[i] \in R \cup Plain

\* The items of a are complete, but for the places in X.  The first item of
\* a redex that takes the result is not a value.
Ready(h, a, X) ==
    \E R \in SUBSET Addr :
        /\ Sound(h, R, X)
        /\ \A i \in DOMAIN h[a].items :
               \/ <<a, i>> \in X
               \/ h[a].items[i] \in R \cup Plain
               \/ i = 1 /\ h[a].rt = Nil

\* What is at place s is not complete, and stays so whatever is written to
\* the places in X.
Within(h, Q, X) ==
    \A a \in Q : \A i \in DOMAIN h[a].items :
        <<a, i>> \in X \/ h[a].items[i] \in Q \cup Combinators

Starved(h, X, s) ==
    \A Q \in SUBSET Addr : Within(h, Q, X) => Content(h, s) \notin Q \cup Combinators

-----------------------------------------------------------------------------
(* What is ready and what is starved, when the heap changes.               *)

\* Arrays are added, in g, to those of h.
Extends(h, g) == \A a \in Addr : h[a].items # <<>> => g[a] = h[a]

\* What cannot be reached is freed.
Collects(g, live, h) ==
    /\ live \subseteq Addr
    /\ \A a \in live : Refers(g, a) \subseteq live
    /\ h = [a \in Addr |-> IF a \in live THEN g[a] ELSE Free]

LEMMA PlainCombinators == Plain \subseteq Combinators
BY DEF Plain, Combinators

LEMMA NoValueIsNil == Nil \notin Addr \cup Combinators /\ Addr \cap Combinators = {}
BY TrampolineAssumption, TermsAssumption DEF Addr

LEMMA SoundJoin ==
    ASSUME NEW h, NEW X, NEW R, NEW S, Sound(h, R, X), Sound(h, S, X)
    PROVE  Sound(h, R \cup S, X)
BY DEF Sound

LEMMA SoundCuts ==
    ASSUME NEW h, NEW X, NEW Y, NEW R, Sound(h, R, X), X \subseteq Y
    PROVE  Sound(h, R, Y)
BY DEF Sound

LEMMA SoundWithin ==
    ASSUME NEW h, NEW X, NEW R, Sound(h, R, X)
    PROVE  Within(h, R, X)
BY PlainCombinators DEF Sound, Within

LEMMA ReadyCuts ==
    ASSUME NEW h, NEW a, NEW X, NEW Y, Ready(h, a, X), X \subseteq Y
    PROVE  Ready(h, a, Y)
<1>1. PICK R \in SUBSET Addr :
        /\ Sound(h, R, X)
        /\ \A i \in DOMAIN h[a].items :
               \/ <<a, i>> \in X
               \/ h[a].items[i] \in R \cup Plain
               \/ i = 1 /\ h[a].rt = Nil
    BY DEF Ready
<1>2. Sound(h, R, Y)
    BY <1>1, SoundCuts
<1> QED
    BY <1>1, <1>2 DEF Ready

LEMMA StarvedCuts ==
    ASSUME NEW h, NEW s, NEW X, NEW Y, Starved(h, X, s), Y \subseteq X
    PROVE  Starved(h, Y, s)
BY DEF Starved, Within

LEMMA SoundExtends ==
    ASSUME NEW h, NEW g, NEW X, NEW R \in SUBSET Addr, Sound(h, R, X), Extends(h, g)
    PROVE  Sound(g, R, X)
BY DEF Sound, Extends

LEMMA ReadyExtends ==
    ASSUME NEW h, NEW g, NEW a \in Addr, NEW X,
           Ready(h, a, X), h[a].items # <<>>, Extends(h, g)
    PROVE  Ready(g, a, X)
<1>1. PICK R \in SUBSET Addr :
        /\ Sound(h, R, X)
        /\ \A i \in DOMAIN h[a].items :
               \/ <<a, i>> \in X
               \/ h[a].items[i] \in R \cup Plain
               \/ i = 1 /\ h[a].rt = Nil
    BY DEF Ready
<1>2. Sound(g, R, X)
    BY <1>1, SoundExtends
<1>3. g[a] = h[a]
    BY DEF Extends
<1> QED
    BY <1>1, <1>2, <1>3 DEF Ready

LEMMA StarvedExtends ==
    ASSUME NEW h \in Heaps, NEW g, NEW s, NEW X, NEW Y,
           Starved(h, X, s), IsPlace(h, s), Extends(h, g),
           \A x \in Y : x \in X \/ h[x[1]].items = <<>>
    PROVE  Starved(g, Y, s)
<1> SUFFICES ASSUME NEW Q \in SUBSET Addr, Within(g, Q, Y)
             PROVE  Content(g, s) \notin Q \cup Combinators
    BY DEF Starved
<1>1. \A a \in Addr : \A i \in DOMAIN h[a].items : h[a].items # <<>>
    BY DEF Heaps, Arrays
<1>2. Within(h, Q, X)
    <2> SUFFICES ASSUME NEW a \in Q, NEW i \in DOMAIN h[a].items
                 PROVE  <<a, i>> \in X \/ h[a].items[i] \in Q \cup Combinators
        BY DEF Within
    <2>1. h[a].items # <<>> /\ g[a] = h[a]
        BY <1>1 DEF Extends
    <2>2. <<a, i>> \in Y \/ h[a].items[i] \in Q \cup Combinators
        BY <2>1 DEF Within
    <2>3. <<a, i>> \in Y => <<a, i>> \in X
        BY <2>1
    <2> QED
        BY <2>2, <2>3
<1>3. Content(g, s) = Content(h, s)
    BY <1>1 DEF IsPlace, Extends, Content
<1> QED
    BY <1>2, <1>3 DEF Starved

\* A write changes the items of an array, and nothing else.
LEMMA WriteGives ==
    ASSUME NEW h \in Heaps, NEW s, IsPlace(h, s), NEW v \in Values
    PROVE  LET g == Write(h, s[1], s[2], v)
           IN  /\ g \in Heaps
               /\ Content(g, s) = v
               /\ \A a \in Addr :
                    /\ g[a].rt = h[a].rt /\ g[a].rti = h[a].rti
                    /\ g[a].k = h[a].k /\ g[a].exc = h[a].exc
                    /\ DOMAIN g[a].items = DOMAIN h[a].items
                    /\ Len(g[a].items) = Len(h[a].items)
                    /\ g[a].items = <<>> <=> h[a].items = <<>>
                    /\ Place(g, a) = Place(h, a)
                    /\ \A i \in DOMAIN h[a].items :
                            g[a].items[i] = IF a = s[1] /\ i = s[2] THEN v ELSE h[a].items[i]
               /\ \A a \in Addr : a # s[1] => g[a] = h[a]
<1> DEFINE g == Write(h, s[1], s[2], v)
           b == s[1]
<1>1. g = [h EXCEPT ![b] = [h[b] EXCEPT !.items = [h[b].items EXCEPT ![s[2]] = v]]]
    BY DEF Write
<1>2. b \in Addr /\ h[b] \in Arrays /\ s[2] \in DOMAIN h[b].items
    BY DEF Heaps, IsPlace
<1> DEFINE items == [h[b].items EXCEPT ![s[2]] = v]
<1>3. /\ items \in Seq(Values)
      /\ DOMAIN items = DOMAIN h[b].items
      /\ Len(items) = Len(h[b].items)
      /\ items # <<>> /\ h[b].items # <<>>
      /\ \A i \in DOMAIN h[b].items : items[i] = IF i = s[2] THEN v ELSE h[b].items[i]
    <2>1. h[b].items \in Seq(Values)
        BY <1>2 DEF Arrays
    <2> QED
        BY <2>1, <1>2
<1> HIDE DEF items
<1>4. g = [h EXCEPT ![b] = [h[b] EXCEPT !.items = items]]
    BY <1>1 DEF items
<1> HIDE DEF g
<1>5. /\ g[b] = [h[b] EXCEPT !.items = items]
      /\ \A a \in Addr : a # b => g[a] = h[a]
    BY <1>2, <1>4 DEF Heaps
<1>6. /\ g[b].items = items
      /\ g[b].rt = h[b].rt /\ g[b].rti = h[b].rti /\ g[b].k = h[b].k /\ g[b].exc = h[b].exc
      /\ g[b] \in Arrays
    BY <1>2, <1>3, <1>5 DEF Arrays
<1>7. g \in Heaps
    BY <1>4, <1>5, <1>6, <1>2 DEF Heaps
<1>8. Content(g, s) = v
    BY <1>2, <1>3, <1>6 DEF Content
<1>9. ASSUME NEW a \in Addr
      PROVE  /\ g[a].rt = h[a].rt /\ g[a].rti = h[a].rti
             /\ g[a].k = h[a].k /\ g[a].exc = h[a].exc
             /\ DOMAIN g[a].items = DOMAIN h[a].items
             /\ Len(g[a].items) = Len(h[a].items)
             /\ g[a].items = <<>> <=> h[a].items = <<>>
             /\ Place(g, a) = Place(h, a)
             /\ \A i \in DOMAIN h[a].items :
                     g[a].items[i] = IF a = s[1] /\ i = s[2] THEN v ELSE h[a].items[i]
    <2>1. CASE a = b
        BY <2>1, <1>3, <1>6 DEF Place
    <2>2. CASE a # b
        BY <2>2, <1>5 DEF Place
    <2> QED
        BY <2>1, <2>2
<1> QED
    BY <1>5, <1>7, <1>8, <1>9 DEF g

\* A complete value is written.
LEMMA ReadyWritten ==
    ASSUME NEW h \in Heaps, NEW s, IsPlace(h, s), s = <<s[1], s[2]>>, NEW v \in Values,
           NEW a \in Addr, NEW X, NEW Y, Ready(h, a, X), X \subseteq Y \cup {s},
           NEW R \in SUBSET Addr, Sound(h, R, Y), v \in R \cup Plain
    PROVE  Ready(Write(h, s[1], s[2], v), a, Y)
<1> DEFINE g == Write(h, s[1], s[2], v)
<1>0. /\ \A b \in Addr :
            /\ g[b].rt = h[b].rt /\ g[b].k = h[b].k /\ g[b].exc = h[b].exc
            /\ DOMAIN g[b].items = DOMAIN h[b].items
            /\ g[b].items = <<>> <=> h[b].items = <<>>
      /\ \A b \in Addr : \A i \in DOMAIN h[b].items :
            g[b].items[i] = IF b = s[1] /\ i = s[2] THEN v ELSE h[b].items[i]
    BY WriteGives
<1>1. PICK S \in SUBSET Addr :
        /\ Sound(h, S, X)
        /\ \A i \in DOMAIN h[a].items :
               \/ <<a, i>> \in X
               \/ h[a].items[i] \in S \cup Plain
               \/ i = 1 /\ h[a].rt = Nil
    BY DEF Ready
<1> HIDE DEF g
<1>2. ASSUME NEW b \in Addr, NEW i \in DOMAIN h[b].items, <<b, i>> \in X
      PROVE  <<b, i>> \in Y \/ g[b].items[i] \in R \cup Plain
    <2>1. CASE <<b, i>> = s
        BY <2>1, <1>0
    <2>2. CASE <<b, i>> # s
        BY <2>2, <1>2
    <2> QED
        BY <2>1, <2>2
<1>3. ASSUME NEW b \in Addr, NEW i \in DOMAIN h[b].items
      PROVE  g[b].items[i] \in {h[b].items[i]} \cup R \cup Plain
    BY <1>0
<1>4. Sound(g, R \cup S, Y)
    <2>1. ASSUME NEW b \in R \cup S
          PROVE  IsTree(g[b]) /\ g[b].items # <<>>
        BY <1>0, <1>1 DEF Sound, IsTree
    <2>2. ASSUME NEW b \in R \cup S, NEW i \in DOMAIN g[b].items
          PROVE  <<b, i>> \in Y \/ g[b].items[i] \in (R \cup S) \cup Plain
        <3>1. b \in Addr /\ i \in DOMAIN h[b].items
            BY <1>0, <2>2
        <3>2. CASE b \in R
            <4>1. <<b, i>> \in Y \/ h[b].items[i] \in R \cup Plain
                BY <3>1, <3>2 DEF Sound
            <4> QED
                BY <4>1, <3>1, <1>3
        <3>3. CASE b \in S
            <4>1. <<b, i>> \in X \/ h[b].items[i] \in S \cup Plain
                BY <1>1, <3>1, <3>3 DEF Sound
            <4> QED
                BY <4>1, <3>1, <1>2, <1>3
        <3> QED
            BY <3>2, <3>3
    <2> QED
        BY <2>1, <2>2 DEF Sound
<1>5. ASSUME NEW i \in DOMAIN g[a].items
      PROVE  \/ <<a, i>> \in Y
             \/ g[a].items[i] \in (R \cup S) \cup Plain
             \/ i = 1 /\ g[a].rt = Nil
    <2>1. i \in DOMAIN h[a].items /\ g[a].rt = h[a].rt
        BY <1>0
    <2>2. \/ <<a, i>> \in X
          \/ h[a].items[i] \in S \cup Plain
          \/ i = 1 /\ h[a].rt = Nil
        BY <2>1, <1>1
    <2> QED
        BY <2>1, <2>2, <1>2, <1>3
<1>6. Ready(g, a, Y)
    <2>1. R \cup S \in SUBSET Addr
        OBVIOUS
    <2> QED
        BY <2>1, <1>4, <1>5 DEF Ready
<1> QED
    BY <1>6 DEF g

\* A value is written to a place that is starved: what was ready is not
\* there.
LEMMA SoundAvoids ==
    ASSUME NEW h \in Heaps, NEW s, IsPlace(h, s), s = <<s[1], s[2]>>, NEW v \in Values,
           NEW R \in SUBSET Addr, NEW X, NEW Z, Sound(h, R, X), Starved(h, Z, s),
           X \subseteq Z \cup {s}
    PROVE  /\ s \in X \/ s[1] \notin R
           /\ Content(h, s) \in R \cup Plain => s \in X
           /\ Sound(Write(h, s[1], s[2], v), R, X)
<1> DEFINE g == Write(h, s[1], s[2], v)
<1>0. /\ \A b \in Addr :
            /\ g[b].rt = h[b].rt /\ g[b].k = h[b].k /\ g[b].exc = h[b].exc
            /\ DOMAIN g[b].items = DOMAIN h[b].items
            /\ g[b].items = <<>> <=> h[b].items = <<>>
      /\ \A b \in Addr : \A i \in DOMAIN h[b].items :
            <<b, i>> # s => g[b].items[i] = h[b].items[i]
    BY WriteGives
<1> HIDE DEF g
<1>1. Content(h, s) \in R \cup Plain => s \in X
    <2> SUFFICES ASSUME s \notin X
                 PROVE  Content(h, s) \notin R \cup Plain
        OBVIOUS
    <2>1. Within(h, R, Z)
        BY SoundWithin DEF Within
    <2> QED
        BY <2>1, PlainCombinators DEF Starved
<1>2. s \in X \/ s[1] \notin R
    <2> SUFFICES ASSUME s \notin X, s[1] \in R
                 PROVE  FALSE
        OBVIOUS
    <2>1. <<s[1], s[2]>> \in X \/ h[s[1]].items[s[2]] \in R \cup Plain
        BY DEF Sound, IsPlace
    <2> QED
        BY <2>1, <1>1 DEF Content
<1>3. Sound(g, R, X)
    <2>1. ASSUME NEW b \in R
          PROVE  IsTree(g[b]) /\ g[b].items # <<>>
        BY <1>0 DEF Sound, IsTree
    <2>2. ASSUME NEW b \in R, NEW i \in DOMAIN g[b].items, <<b, i>> \notin X
          PROVE  g[b].items[i] \in R \cup Plain
        <3>1. b \in Addr /\ i \in DOMAIN h[b].items
            BY <1>0
        <3>2. <<b, i>> # s
            BY <1>2, <2>2
        <3>3. h[b].items[i] \in R \cup Plain
            BY <2>2, <3>1 DEF Sound
        <3> QED
            BY <1>0, <3>1, <3>2, <3>3
    <2> QED
        BY <2>1, <2>2 DEF Sound
<1> QED
    BY <1>1, <1>2, <1>3 DEF g

LEMMA ReadyAvoids ==
    ASSUME NEW h \in Heaps, NEW s, IsPlace(h, s), s = <<s[1], s[2]>>, NEW v \in Values,
           NEW a \in Addr, NEW X, NEW Z, Ready(h, a, X), Starved(h, Z, s),
           X \subseteq Z \cup {s}
    PROVE  Ready(Write(h, s[1], s[2], v), a, X)
<1> DEFINE g == Write(h, s[1], s[2], v)
<1>0. /\ \A b \in Addr : g[b].rt = h[b].rt /\ DOMAIN g[b].items = DOMAIN h[b].items
      /\ \A b \in Addr : \A i \in DOMAIN h[b].items :
            <<b, i>> # s => g[b].items[i] = h[b].items[i]
    BY WriteGives
<1>1. PICK S \in SUBSET Addr :
        /\ Sound(h, S, X)
        /\ \A i \in DOMAIN h[a].items :
               \/ <<a, i>> \in X
               \/ h[a].items[i] \in S \cup Plain
               \/ i = 1 /\ h[a].rt = Nil
    BY DEF Ready
<1>2. Sound(g, S, X)
    BY <1>1, SoundAvoids
<1>3. Content(h, s) \in S \cup Plain => s \in X
    BY <1>1, SoundAvoids
<1> HIDE DEF g
<1>4. ASSUME NEW i \in DOMAIN g[a].items
      PROVE  \/ <<a, i>> \in X
             \/ g[a].items[i] \in S \cup Plain
             \/ i = 1 /\ g[a].rt = Nil
    <2>1. i \in DOMAIN h[a].items /\ g[a].rt = h[a].rt
        BY <1>0
    <2>2. CASE <<a, i>> = s
        <3>1. h[a].items[i] = Content(h, s)
            BY <2>2 DEF Content
        <3> QED
            BY <3>1, <2>1, <2>2, <1>1, <1>3
    <2>3. CASE <<a, i>> # s
        BY <2>1, <2>3, <1>0, <1>1
    <2> QED
        BY <2>2, <2>3
<1>5. Ready(g, a, X)
    BY <1>2, <1>4 DEF Ready
<1> QED
    BY <1>5 DEF g

\* A value is written that is itself starved, or to a place that may be
\* written to.
LEMMA StarvedWrite ==
    ASSUME NEW h \in Heaps, NEW s, IsPlace(h, s), s = <<s[1], s[2]>>, NEW v \in Values,
           NEW o, o = <<o[1], o[2]>>, IsPlace(h, o), o # s,
           NEW X, NEW Y, Starved(h, X, o), Y \subseteq X,
           s \in X \/ Starved(Write(h, s[1], s[2], v), Y, s)
    PROVE  Starved(Write(h, s[1], s[2], v), Y, o)
<1> DEFINE g == Write(h, s[1], s[2], v)
<1>0. /\ \A b \in Addr : DOMAIN g[b].items = DOMAIN h[b].items
      /\ \A b \in Addr : \A i \in DOMAIN h[b].items :
            g[b].items[i] = IF <<b, i>> = s THEN v ELSE h[b].items[i]
      /\ Content(g, s) = v
    <2>1. /\ \A b \in Addr : DOMAIN g[b].items = DOMAIN h[b].items
          /\ \A b \in Addr : \A i \in DOMAIN h[b].items :
                g[b].items[i] = IF b = s[1] /\ i = s[2] THEN v ELSE h[b].items[i]
          /\ Content(g, s) = v
        BY WriteGives
    <2>2. \A b, i : <<b, i>> = s <=> b = s[1] /\ i = s[2]
        OBVIOUS
    <2> QED
        BY <2>1, <2>2
<1>s. s \in X \/ Starved(g, Y, s)
    OBVIOUS
<1> HIDE DEF g
<1> SUFFICES ASSUME NEW Q \in SUBSET Addr, Within(g, Q, Y)
             PROVE  Content(g, o) \notin Q \cup Combinators
    BY DEF Starved, g
<1>1. Content(g, o) = Content(h, o)
    BY <1>0 DEF Content, IsPlace
<1>2. Within(h, Q, X)
    <2> SUFFICES ASSUME NEW a \in Q, NEW i \in DOMAIN h[a].items, <<a, i>> \notin X
                 PROVE  h[a].items[i] \in Q \cup Combinators
        BY DEF Within
    <2>1. i \in DOMAIN g[a].items /\ <<a, i>> \notin Y
        BY <1>0
    <2>2. g[a].items[i] \in Q \cup Combinators
        BY <2>1 DEF Within
    <2>3. ASSUME <<a, i>> = s
          PROVE  FALSE
        <3>1. Starved(g, Y, s)
            BY <1>s, <2>3
        <3>2. Content(g, s) = g[a].items[i]
            BY <2>3 DEF Content
        <3> QED
            BY <3>1, <3>2, <2>2 DEF Starved
    <2> QED
        BY <2>2, <2>3, <1>0
<1> QED
    BY <1>1, <1>2 DEF Starved

\* What is unreachable is freed.
LEMMA ReadyCollects ==
    ASSUME NEW g \in Heaps, NEW live, NEW h, Collects(g, live, h), NEW a \in live, NEW X,
           Ready(g, a, X)
    PROVE  Ready(h, a, X)
<1>1. PICK R \in SUBSET Addr :
        /\ Sound(g, R, X)
        /\ \A i \in DOMAIN g[a].items :
               \/ <<a, i>> \in X
               \/ g[a].items[i] \in R \cup Plain
               \/ i = 1 /\ g[a].rt = Nil
    BY DEF Ready
<1>2. \A b \in live : b \in Addr /\ h[b] = g[b] /\ Addr \cap Range(g[b].items) \subseteq live
    BY DEF Collects, Refers
<1>3. \A b \in live : \A i \in DOMAIN g[b].items : g[b].items[i] \in R => g[b].items[i] \in live
    BY <1>2 DEF Range
<1>4. Sound(h, R \cap live, X)
    BY <1>1, <1>2, <1>3 DEF Sound
<1> QED
    BY <1>1, <1>2, <1>3, <1>4 DEF Ready

LEMMA StarvedCollects ==
    ASSUME NEW g \in Heaps, NEW live, NEW h, Collects(g, live, h), NEW s, s[1] \in live, NEW X,
           IsPlace(g, s), Starved(g, X, s)
    PROVE  Starved(h, X, s)
<1> SUFFICES ASSUME NEW Q \in SUBSET Addr, Within(h, Q, X)
             PROVE  Content(h, s) \notin Q \cup Combinators
    BY DEF Starved
<1>1. \A b \in live : b \in Addr /\ h[b] = g[b] /\ Addr \cap Range(g[b].items) \subseteq live
    BY DEF Collects, Refers
<1>2. \A b \in live : \A i \in DOMAIN g[b].items : g[b].items[i] \in Addr => g[b].items[i] \in live
    BY <1>1 DEF Range
<1>3. Within(g, Q \cap live, X)
    BY <1>1, <1>2 DEF Within
<1>4. Content(h, s) = Content(g, s) /\ Content(g, s) \notin (Q \cap live) \cup Combinators
    BY <1>1, <1>3 DEF Content, Starved
<1>5. Content(g, s) \in Q => Content(g, s) \in live
    BY <1>2 DEF Content, IsPlace
<1> QED
    BY <1>4, <1>5

-----------------------------------------------------------------------------
(* The stacks: frames st[1] to st[m], of which st[m] is to be reduced, and *)
(* handlers hs[1] to hs[q].  When hs[j] is used, the frames up to lv[j]    *)
(* remain; he[i] is the number of handlers there are for frame i.          *)

Counted(m, q, st, hs, lv, he) ==
    /\ m \in Nat \ {0}
    /\ q \in Nat
    /\ st \in [Nat -> Addr]
    /\ hs \in [Nat -> Addr]
    /\ lv \in [Nat -> Nat]
    /\ he \in [Nat -> Nat]
    /\ q = 0 <=> m = 1
    /\ \A i \in 2..m : he[i] \in 1..q /\ \A j \in 1..q : j <= he[i] <=> lv[j] < i
    /\ q >= 1 => lv[1] = 0
    /\ \A j \in 2..q : lv[j] \in 1..m - 1
    /\ \A j, l \in 1..q : j <= l => lv[j] <= lv[l]

FrameLinks(h, st, hs, he, i) ==
    /\ h[st[i]].k = st[i - 1]
    /\ h[st[i]].exc = hs[he[i]]
    /\ IsPlace(h, Place(h, st[i]))

HandlerLinks(h, st, hs, lv, j) ==
    /\ h[hs[j]].k = st[lv[j]]
    /\ h[hs[j]].exc = hs[j - 1]
    /\ IsPlace(h, Place(h, hs[j]))

\* The redex that takes the result, and the one that takes the exception.
FirstFrame(h, st) == IsTree(h[st[1]]) /\ h[st[1]].items[1] \in {Result, Exception}

FirstHandler(h, hs) == IsTree(h[hs[1]]) /\ h[hs[1]].items[1] = Exception

Linked(h, m, q, st, hs, lv, he) ==
    /\ \A i \in 1..m : h[st[i]].items # <<>>
    /\ \A j \in 1..q : h[hs[j]].items # <<>>
    /\ FirstFrame(h, st)
    /\ q >= 1 => FirstHandler(h, hs)
    /\ \A i \in 2..m : FrameLinks(h, st, hs, he, i)
    /\ \A j \in 2..q : HandlerLinks(h, st, hs, lv, j)

\* Only a handler and the frame that comes first after it share a place.
Distinct(h, m, q, st, hs, lv) ==
    /\ \A i, l \in 2..m : Place(h, st[i]) = Place(h, st[l]) => i = l
    /\ \A i \in 2..m : \A j \in 2..q : Place(h, st[i]) = Place(h, hs[j]) => lv[j] = i - 1
    /\ \A j, l \in 2..q : Place(h, hs[j]) = Place(h, hs[l]) => lv[j] = lv[l]

\* The places that others than frame i, or than handler j, may write to
\* first.
FrameCut(h, m, q, st, hs, i) ==
    ({Place(h, st[l]) : l \in 2..m} \cup {Place(h, hs[j]) : j \in 2..q}) \ {Place(h, st[i])}

HandlerCut(h, m, q, st, hs, lv, j) ==
    ({Place(h, st[i]) : i \in {i \in 2..m : i # lv[j] + 1}}
        \cup {Place(h, hs[l]) : l \in {l \in 2..q : l < j \/ lv[l] # lv[j]}})
    \ {Place(h, hs[j])}

Waiting(h, m, q, st, hs, lv) ==
    /\ \A i \in 2..m : Starved(h, FrameCut(h, m, q, st, hs, i), Place(h, st[i]))
    /\ \A j \in 2..q : Starved(h, HandlerCut(h, m, q, st, hs, lv, j), Place(h, hs[j]))

\* The places of the frames from i to l.
Places(h, st, i, l) == {Place(h, st[n]) : n \in i..l}

Prepared(h, m, q, st, hs, lv) ==
    /\ \A i \in 1..m : Ready(h, st[i], Places(h, st, i + 1, m))
    /\ \A j \in 1..q :
            /\ Ready(h, hs[j], {})
            /\ \A i \in 1..lv[j] :
                    Ready(h, st[i], {Place(h, hs[j])} \cup Places(h, st, i + 1, lv[j]))

Stacked(h, m, q, st, hs, lv, he) ==
    /\ h \in Heaps
    /\ Counted(m, q, st, hs, lv, he)
    /\ Linked(h, m, q, st, hs, lv, he)
    /\ Distinct(h, m, q, st, hs, lv)
    /\ Waiting(h, m, q, st, hs, lv)
    /\ Prepared(h, m, q, st, hs, lv)

\* The last handler takes over.
LEMMA HandlerTakes ==
    ASSUME NEW h, NEW m, NEW q, NEW st, NEW hs, NEW lv, NEW he,
           Stacked(h, m, q, st, hs, lv, he), q >= 1
    PROVE  Stacked(h, lv[q] + 1, q - 1, [st EXCEPT ![lv[q] + 1] = hs[q]], hs, lv,
                   [he EXCEPT ![lv[q] + 1] = q - 1])
<1> DEFINE n == lv[q] + 1
           p == q - 1
           sn == [st EXCEPT ![n] = hs[q]]
           hn == [he EXCEPT ![n] = p]
<1>1. /\ h \in Heaps
      /\ Counted(m, q, st, hs, lv, he)
      /\ Linked(h, m, q, st, hs, lv, he)
      /\ Distinct(h, m, q, st, hs, lv)
      /\ Waiting(h, m, q, st, hs, lv)
      /\ Prepared(h, m, q, st, hs, lv)
    BY DEF Stacked
<1>2. /\ q \in Nat /\ q >= 1 /\ m \in Nat /\ m >= 2
      /\ lv[q] \in Nat /\ n \in 1..m /\ n \in Nat /\ p \in Nat /\ p = q - 1
      /\ lv[q] = n - 1
    <2>1. q \in Nat /\ q >= 1 /\ m \in Nat /\ m >= 2 /\ lv[q] \in Nat
        BY <1>1 DEF Counted
    <2>2. lv[q] \in 0..m - 1
        <3>1. CASE q = 1
            BY <3>1, <2>1, <1>1 DEF Counted
        <3>2. CASE q # 1
            BY <3>2, <2>1, <1>1 DEF Counted
        <3> QED
            BY <3>1, <3>2
    <2> QED
        BY <2>1, <2>2
<1>3. p = 0 <=> n = 1
    BY <1>1, <1>2 DEF Counted
<1>4. \A j \in 1..q : lv[j] \in Nat /\ lv[j] <= lv[q]
    BY <1>1, <1>2 DEF Counted
<1>5. /\ sn \in [Nat -> Addr]
      /\ hn \in [Nat -> Nat]
      /\ sn[n] = hs[q]
      /\ hn[n] = p
      /\ \A i \in Nat : i # n => sn[i] = st[i] /\ hn[i] = he[i]
    BY <1>1, <1>2 DEF Counted
<1> HIDE DEF n, p, sn, hn
<1>6. Counted(n, p, sn, hs, lv, hn)
    <2>1. ASSUME NEW i \in 2..n
          PROVE  hn[i] \in 1..p /\ \A j \in 1..p : j <= hn[i] <=> lv[j] < i
        <3>1. CASE i = n
            BY <3>1, <1>2, <1>3, <1>4, <1>5
        <3>2. CASE i # n
            <4>1. i \in 2..m /\ hn[i] = he[i] /\ ~(lv[q] < i)
                BY <3>2, <1>2, <1>5
            <4>2. he[i] \in 1..q /\ \A j \in 1..q : j <= he[i] <=> lv[j] < i
                BY <4>1, <1>1 DEF Counted
            <4>3. ~(q <= he[i])
                BY <4>1, <4>2, <1>2
            <4> QED
                BY <4>1, <4>2, <4>3, <1>2
        <3> QED
            BY <3>1, <3>2
    <2>2. \A j \in 2..p : lv[j] \in 1..n - 1
        <3>1. \A j \in 2..p : j \in 2..q /\ j \in 1..q
            BY <1>2
        <3>2. \A j \in 2..q : lv[j] \in 1..m - 1
            BY <1>1 DEF Counted
        <3> QED
            BY <3>1, <3>2, <1>2, <1>4
    <2>3. /\ n \in Nat \ {0} /\ hs \in [Nat -> Addr] /\ lv \in [Nat -> Nat]
          /\ q >= 1 => lv[1] = 0
          /\ \A j, l \in 1..q : j <= l => lv[j] <= lv[l]
        BY <1>1, <1>2 DEF Counted
    <2>4. \A j \in 1..p : j \in 1..q
        BY <1>2
    <2>5. \A j, l \in 1..p : j <= l => lv[j] <= lv[l]
        BY <2>3, <2>4
    <2> QED
        BY <1>2, <1>3, <1>5, <2>1, <2>2, <2>3, <2>5 DEF Counted
<1>7. Linked(h, n, p, sn, hs, lv, hn)
    <2>1. FirstFrame(h, sn)
        <3>1. CASE n = 1
            BY <3>1, <1>1, <1>2, <1>3, <1>5 DEF Linked, FirstFrame, FirstHandler
        <3>2. CASE n # 1
            BY <3>2, <1>1, <1>5 DEF Linked, FirstFrame
        <3> QED
            BY <3>1, <3>2
    <2>2. ASSUME NEW i \in 1..n
          PROVE  h[sn[i]].items # <<>>
        <3>1. CASE i = n
            <4>1. q \in 1..q /\ sn[i] = hs[q]
                BY <3>1, <1>2, <1>5
            <4> QED
                BY <4>1, <1>1 DEF Linked
        <3>2. CASE i # n
            <4>1. i \in 1..m /\ sn[i] = st[i]
                BY <3>2, <1>2, <1>5
            <4> QED
                BY <4>1, <1>1 DEF Linked
        <3> QED
            BY <3>1, <3>2
    <2>3. ASSUME NEW i \in 2..n
          PROVE  FrameLinks(h, sn, hs, hn, i)
        <3>1. CASE i = n
            <4>1. q \in 2..q
                BY <3>1, <1>2, <1>3
            <4>2. HandlerLinks(h, st, hs, lv, q)
                BY <4>1, <1>1 DEF Linked
            <4>3. sn[n - 1] = st[lv[q]]
                BY <1>2, <1>5
            <4> QED
                BY <3>1, <4>2, <4>3, <1>2, <1>5 DEF HandlerLinks, FrameLinks
        <3>2. CASE i # n
            <4>1. i \in 2..m /\ sn[i] = st[i] /\ hn[i] = he[i] /\ sn[i - 1] = st[i - 1]
                BY <3>2, <1>2, <1>5
            <4>2. FrameLinks(h, st, hs, he, i)
                BY <4>1, <1>1 DEF Linked
            <4> QED
                BY <4>1, <4>2 DEF FrameLinks
        <3> QED
            BY <3>1, <3>2
    <2>4. ASSUME NEW j \in 2..p
          PROVE  HandlerLinks(h, sn, hs, lv, j)
        <3>1. j \in 2..q /\ HandlerLinks(h, st, hs, lv, j)
            BY <1>1, <1>2 DEF Linked
        <3>2. lv[j] \in 1..n - 1
            BY <1>6 DEF Counted
        <3>3. sn[lv[j]] = st[lv[j]]
            BY <3>2, <1>2, <1>5
        <3> QED
            BY <3>1, <3>3 DEF HandlerLinks
    <2>5. /\ p >= 1 => FirstHandler(h, hs)
          /\ \A j \in 1..p : h[hs[j]].items # <<>>
        BY <1>1, <1>2 DEF Linked
    <2> QED
        BY <2>1, <2>2, <2>3, <2>4, <2>5 DEF Linked
<1>8. Distinct(h, n, p, sn, hs, lv)
    <2>1. ASSUME NEW i \in 2..n, NEW l \in 2..n, Place(h, sn[i]) = Place(h, sn[l])
          PROVE  i = l
        <3>1. CASE i = n /\ l # n
            BY <3>1, <2>1, <1>1, <1>2, <1>3, <1>5 DEF Distinct
        <3>2. CASE i # n /\ l = n
            BY <3>2, <2>1, <1>1, <1>2, <1>3, <1>5 DEF Distinct
        <3>3. CASE i # n /\ l # n
            BY <3>3, <2>1, <1>1, <1>2, <1>5 DEF Distinct
        <3> QED
            BY <3>1, <3>2, <3>3
    <2>2. ASSUME NEW i \in 2..n, NEW j \in 2..p, Place(h, sn[i]) = Place(h, hs[j])
          PROVE  lv[j] = i - 1
        <3>1. CASE i = n
            BY <3>1, <2>2, <1>1, <1>2, <1>3, <1>5 DEF Distinct
        <3>2. CASE i # n
            BY <3>2, <2>2, <1>1, <1>2, <1>5 DEF Distinct
        <3> QED
            BY <3>1, <3>2
    <2>3. \A j, l \in 2..p : Place(h, hs[j]) = Place(h, hs[l]) => lv[j] = lv[l]
        BY <1>1, <1>2 DEF Distinct
    <2> QED
        BY <2>1, <2>2, <2>3 DEF Distinct
<1>9. ASSUME NEW i \in 2..n
      PROVE  Starved(h, FrameCut(h, n, p, sn, hs, i), Place(h, sn[i]))
    <2>0. /\ \A j \in 2..p : j \in 2..q /\ j < q
          /\ \A l \in 2..n : l # n => l \in 2..m /\ l # lv[q] + 1 /\ sn[l] = st[l]
        BY <1>2, <1>5
    <2>1. CASE i = n
        <3>1. q \in 2..q /\ sn[i] = hs[q]
            BY <2>1, <1>2, <1>3, <1>5
        <3>2. Starved(h, HandlerCut(h, m, q, st, hs, lv, q), Place(h, hs[q]))
            BY <3>1, <1>1 DEF Waiting
        <3>3. FrameCut(h, n, p, sn, hs, i) \subseteq HandlerCut(h, m, q, st, hs, lv, q)
            BY <2>1, <3>1, <2>0 DEF FrameCut, HandlerCut
        <3> QED
            BY <3>1, <3>2, <3>3, StarvedCuts
    <2>2. CASE i # n
        <3>1. i \in 2..m /\ sn[i] = st[i] /\ q \in 2..q
            BY <2>0, <2>2, <1>2, <1>3
        <3>2. Starved(h, FrameCut(h, m, q, st, hs, i), Place(h, st[i]))
            BY <3>1, <1>1 DEF Waiting
        <3>3. FrameCut(h, n, p, sn, hs, i) \subseteq FrameCut(h, m, q, st, hs, i)
            BY <3>1, <2>0, <1>5 DEF FrameCut
        <3> QED
            BY <3>1, <3>2, <3>3, StarvedCuts
    <2> QED
        BY <2>1, <2>2
<1>10. ASSUME NEW j \in 2..p
       PROVE  Starved(h, HandlerCut(h, n, p, sn, hs, lv, j), Place(h, hs[j]))
    <2>1. j \in 2..q /\ q \in 2..q
        BY <1>2
    <2>2. Starved(h, HandlerCut(h, m, q, st, hs, lv, j), Place(h, hs[j]))
        BY <2>1, <1>1 DEF Waiting
    <2>3. lv[j] \in Nat /\ (n # lv[j] + 1 => lv[q] # lv[j])
        BY <2>1, <1>2, <1>4
    <2>4. /\ \A l \in 2..p : l \in 2..q
          /\ \A l \in 2..n : l # n => l \in 2..m /\ sn[l] = st[l]
        BY <1>2, <1>5
    <2>5. HandlerCut(h, n, p, sn, hs, lv, j) \subseteq HandlerCut(h, m, q, st, hs, lv, j)
        <3> SUFFICES ASSUME NEW x \in HandlerCut(h, n, p, sn, hs, lv, j)
                     PROVE  x \in HandlerCut(h, m, q, st, hs, lv, j)
            OBVIOUS
        <3>1. CASE x \in {Place(h, sn[i]) : i \in {i \in 2..n : i # lv[j] + 1}}
            <4>1. PICK i \in 2..n : i # lv[j] + 1 /\ x = Place(h, sn[i])
                BY <3>1
            <4>2. CASE i = n
                BY <4>1, <4>2, <2>1, <2>3, <1>5 DEF HandlerCut
            <4>3. CASE i # n
                BY <4>1, <4>3, <2>4 DEF HandlerCut
            <4> QED
                BY <4>2, <4>3
        <3>2. CASE x \in {Place(h, hs[l]) : l \in {l \in 2..p : l < j \/ lv[l] # lv[j]}}
            BY <3>2, <2>4 DEF HandlerCut
        <3> QED
            BY <3>1, <3>2 DEF HandlerCut
    <2> QED
        BY <2>2, <2>5, StarvedCuts
<1>11. ASSUME NEW i \in 1..n
       PROVE  Ready(h, sn[i], Places(h, sn, i + 1, n))
    <2>0. q \in 1..q /\ lv[q] \in Nat
        BY <1>2
    <2>1. CASE i = n
        <3>1. Ready(h, hs[q], {})
            BY <2>0, <1>1 DEF Prepared
        <3> QED
            BY <2>1, <3>1, <1>5, ReadyCuts
    <2>2. CASE i # n
        <3>0. i \in 1..lv[q] /\ sn[i] = st[i]
            BY <2>2, <1>2, <1>5
        <3>1. Ready(h, st[i], {Place(h, hs[q])} \cup Places(h, st, i + 1, lv[q]))
            BY <3>0, <2>0, <1>1 DEF Prepared
        <3>2. /\ n \in i + 1..n
              /\ \A l \in i + 1..lv[q] : l \in i + 1..n /\ sn[l] = st[l]
            BY <2>2, <1>2, <1>5
        <3>3. {Place(h, hs[q])} \cup Places(h, st, i + 1, lv[q]) \subseteq Places(h, sn, i + 1, n)
            BY <3>2, <1>5 DEF Places
        <3> QED
            BY <3>0, <3>1, <3>3, ReadyCuts
    <2> QED
        BY <2>1, <2>2
<1>12. ASSUME NEW j \in 1..p
       PROVE  /\ Ready(h, hs[j], {})
              /\ \A i \in 1..lv[j] :
                     Ready(h, sn[i], {Place(h, hs[j])} \cup Places(h, sn, i + 1, lv[j]))
    <2>1. j \in 1..q /\ lv[j] \in Nat /\ lv[j] < n
        BY <1>2, <1>4
    <2>2. \A i \in 1..lv[j] : i \in Nat /\ i # n
        BY <2>1, <1>2
    <2>3. \A i \in 1..lv[j] : sn[i] = st[i]
        BY <2>2, <1>5
    <2>4. ASSUME NEW i \in 1..lv[j]
          PROVE  Places(h, sn, i + 1, lv[j]) = Places(h, st, i + 1, lv[j])
        <3>1. \A l \in i + 1..lv[j] : l \in 1..lv[j]
            BY <2>1
        <3> QED
            BY <3>1, <2>3 DEF Places
    <2> QED
        BY <2>1, <2>3, <2>4, <1>1 DEF Prepared
<1>13. Stacked(h, n, p, sn, hs, lv, hn)
    BY <1>1, <1>6, <1>7, <1>8, <1>9, <1>10, <1>11, <1>12 DEF Stacked, Waiting, Prepared
<1> QED
    BY <1>13 DEF n, p, sn, hn

\* The cuts depend on where the frames and handlers write to.
SamePlaces(g, h, m, q, st, hs) ==
    /\ \A i \in 1..m : Place(h, st[i]) = Place(g, st[i])
    /\ \A j \in 1..q : Place(h, hs[j]) = Place(g, hs[j])

LEMMA SameBetween ==
    ASSUME NEW g, NEW h, NEW m \in Nat, NEW q \in Nat, NEW st, NEW hs,
           SamePlaces(g, h, m, q, st, hs)
    PROVE  \A i, l \in 1..m : Places(h, st, i + 1, l) = Places(g, st, i + 1, l)
<1> SUFFICES ASSUME NEW i \in 1..m, NEW l \in 1..m
             PROVE  Places(h, st, i + 1, l) = Places(g, st, i + 1, l)
    OBVIOUS
<1>1. \A n \in i + 1..l : n \in 1..m
    OBVIOUS
<1> QED
    BY <1>1 DEF Places, SamePlaces

LEMMA SameCuts ==
    ASSUME NEW g, NEW h, NEW m \in Nat, NEW q \in Nat, NEW st, NEW hs, NEW lv,
           SamePlaces(g, h, m, q, st, hs)
    PROVE  /\ \A i \in 2..m : FrameCut(h, m, q, st, hs, i) = FrameCut(g, m, q, st, hs, i)
           /\ \A j \in 2..q : HandlerCut(h, m, q, st, hs, lv, j) = HandlerCut(g, m, q, st, hs, lv, j)
           /\ Distinct(g, m, q, st, hs, lv) => Distinct(h, m, q, st, hs, lv)
<1>1. /\ \A i \in 2..m : i \in 1..m
      /\ \A j \in 2..q : j \in 1..q
    OBVIOUS
<1> USE DEF SamePlaces
<1>3. \A i \in 2..m : FrameCut(h, m, q, st, hs, i) = FrameCut(g, m, q, st, hs, i)
    BY <1>1 DEF FrameCut
<1>4. \A j \in 2..q : HandlerCut(h, m, q, st, hs, lv, j) = HandlerCut(g, m, q, st, hs, lv, j)
    BY <1>1 DEF HandlerCut
<1>5. Distinct(g, m, q, st, hs, lv) => Distinct(h, m, q, st, hs, lv)
    BY <1>1 DEF Distinct
<1> QED
    BY <1>3, <1>4, <1>5

\* The stacks stay when the arrays on them do, and what is ready or starved
\* stays so.
LEMMA StackedStays ==
    ASSUME NEW g, NEW h \in Heaps, NEW m, NEW q, NEW st, NEW hs, NEW lv, NEW he,
           Stacked(g, m, q, st, hs, lv, he),
           NEW A,
           \A i \in 1..m : st[i] \in A,
           \A j \in 1..q : hs[j] \in A,
           \A a \in A : h[a] = g[a],
           \A a \in A : IsPlace(g, Place(g, a)) =>
                /\ IsPlace(h, Place(g, a))
                /\ \A X : Starved(g, X, Place(g, a)) => Starved(h, X, Place(g, a)),
           \A a \in A : \A X : Ready(g, a, X) => Ready(h, a, X)
    PROVE  Stacked(h, m, q, st, hs, lv, he)
<1>1. /\ Counted(m, q, st, hs, lv, he)
      /\ Linked(g, m, q, st, hs, lv, he)
      /\ Distinct(g, m, q, st, hs, lv)
      /\ Waiting(g, m, q, st, hs, lv)
      /\ Prepared(g, m, q, st, hs, lv)
    BY DEF Stacked
<1>2. /\ m \in Nat /\ q \in Nat
      /\ \A i \in 2..m : i \in 1..m
      /\ \A j \in 2..q : j \in 1..q
      /\ 1 \in 1..m
      /\ q >= 1 => 1 \in 1..q
    BY <1>1 DEF Counted
<1>3. /\ \A i \in 1..m : Place(h, st[i]) = Place(g, st[i])
      /\ \A j \in 1..q : Place(h, hs[j]) = Place(g, hs[j])
    BY DEF Place
<1>4. /\ \A i \in 2..m : FrameCut(h, m, q, st, hs, i) = FrameCut(g, m, q, st, hs, i)
      /\ \A j \in 2..q : HandlerCut(h, m, q, st, hs, lv, j) = HandlerCut(g, m, q, st, hs, lv, j)
      /\ \A i, l \in 1..m : Places(h, st, i + 1, l) = Places(g, st, i + 1, l)
      /\ Distinct(h, m, q, st, hs, lv)
    <2>1. SamePlaces(g, h, m, q, st, hs)
        BY <1>3 DEF SamePlaces
    <2>2. \A i \in 2..m : FrameCut(h, m, q, st, hs, i) = FrameCut(g, m, q, st, hs, i)
        BY <1>2, <2>1, SameCuts
    <2>3. \A j \in 2..q : HandlerCut(h, m, q, st, hs, lv, j) = HandlerCut(g, m, q, st, hs, lv, j)
        BY <1>2, <2>1, SameCuts
    <2>4. \A i, l \in 1..m : Places(h, st, i + 1, l) = Places(g, st, i + 1, l)
        <3>1. m \in Nat /\ q \in Nat
            BY <1>2
        <3> QED
            BY <3>1, <2>1, SameBetween
    <2>5. Distinct(h, m, q, st, hs, lv)
        BY <1>1, <1>2, <2>1, SameCuts
    <2> QED
        BY <2>2, <2>3, <2>4, <2>5
<1>5. Linked(h, m, q, st, hs, lv, he)
    <2>1. /\ \A i \in 1..m : h[st[i]].items # <<>>
          /\ \A j \in 1..q : h[hs[j]].items # <<>>
        BY <1>1 DEF Linked
    <2>2. FirstFrame(h, st) /\ (q >= 1 => FirstHandler(h, hs))
        BY <1>1, <1>2 DEF Linked, FirstFrame, FirstHandler
    <2>3. ASSUME NEW i \in 2..m
          PROVE  FrameLinks(h, st, hs, he, i)
        BY <1>1, <1>2, <1>3 DEF Linked, FrameLinks
    <2>4. ASSUME NEW j \in 2..q
          PROVE  HandlerLinks(h, st, hs, lv, j)
        BY <1>1, <1>2, <1>3 DEF Linked, HandlerLinks
    <2> QED
        BY <2>1, <2>2, <2>3, <2>4 DEF Linked
<1>6. Waiting(h, m, q, st, hs, lv)
    <2>1. ASSUME NEW i \in 2..m
          PROVE  Starved(h, FrameCut(h, m, q, st, hs, i), Place(h, st[i]))
        <3>1. IsPlace(g, Place(g, st[i]))
            BY <1>1 DEF Linked, FrameLinks
        <3>2. Starved(g, FrameCut(g, m, q, st, hs, i), Place(g, st[i]))
            BY <1>1 DEF Waiting
        <3> QED
            BY <3>1, <3>2, <1>2, <1>3, <1>4
    <2>2. ASSUME NEW j \in 2..q
          PROVE  Starved(h, HandlerCut(h, m, q, st, hs, lv, j), Place(h, hs[j]))
        <3>1. IsPlace(g, Place(g, hs[j]))
            BY <1>1 DEF Linked, HandlerLinks
        <3>2. Starved(g, HandlerCut(g, m, q, st, hs, lv, j), Place(g, hs[j]))
            BY <1>1 DEF Waiting
        <3> QED
            BY <3>1, <3>2, <1>2, <1>3, <1>4
    <2> QED
        BY <2>1, <2>2 DEF Waiting
<1>7. Prepared(h, m, q, st, hs, lv)
    <2>1. ASSUME NEW i \in 1..m
          PROVE  Ready(h, st[i], Places(h, st, i + 1, m))
        <3>1. m \in 1..m
            BY <1>2
        <3>2. Ready(g, st[i], Places(h, st, i + 1, m))
            BY <3>1, <1>1, <1>4 DEF Prepared
        <3> QED
            BY <3>2
    <2>2. ASSUME NEW j \in 1..q
          PROVE  Ready(h, hs[j], {})
        BY <1>1 DEF Prepared
    <2>3. ASSUME NEW j \in 1..q, NEW i \in 1..lv[j]
          PROVE  Ready(h, st[i], {Place(h, hs[j])} \cup Places(h, st, i + 1, lv[j]))
        <3>1. lv[j] \in 1..m /\ i \in 1..m
            <4>1. lv[j] \in Nat /\ lv[j] < m
                <5>1. CASE j = 1
                    BY <5>1, <1>1, <1>2 DEF Counted
                <5>2. CASE j # 1
                    BY <5>2, <1>1, <1>2 DEF Counted
                <5> QED
                    BY <5>1, <5>2
            <4> QED
                BY <4>1, <1>2
        <3>2. Ready(g, st[i], {Place(g, hs[j])} \cup Places(g, st, i + 1, lv[j]))
            BY <1>1 DEF Prepared
        <3>3. Ready(g, st[i], {Place(h, hs[j])} \cup Places(h, st, i + 1, lv[j]))
            BY <3>1, <3>2, <1>3, <1>4
        <3> QED
            BY <3>1, <3>3
    <2> QED
        BY <2>1, <2>2, <2>3 DEF Prepared
<1> QED
    BY <1>1, <1>4, <1>5, <1>6, <1>7 DEF Stacked

\* New arrays do not disturb.
LEMMA StackedExtends ==
    ASSUME NEW h, NEW g \in Heaps, NEW m, NEW q, NEW st, NEW hs, NEW lv, NEW he,
           Stacked(h, m, q, st, hs, lv, he), Extends(h, g)
    PROVE  Stacked(g, m, q, st, hs, lv, he)
<1> DEFINE A == {a \in Addr : h[a].items # <<>>}
<1>0. h \in Heaps
    BY DEF Stacked
<1>1. /\ \A i \in 1..m : st[i] \in A
      /\ \A j \in 1..q : hs[j] \in A
    <2>1. Counted(m, q, st, hs, lv, he) /\ Linked(h, m, q, st, hs, lv, he)
        BY DEF Stacked
    <2>2. /\ \A i \in 1..m : st[i] \in Addr
          /\ \A j \in 1..q : hs[j] \in Addr
        BY <2>1 DEF Counted
    <2> QED
        BY <2>1, <2>2 DEF Linked
<1>2. \A a \in A : g[a] = h[a]
    BY DEF Extends
<1>3. \A a \in A : \A X : Ready(h, a, X) => Ready(g, a, X)
    BY ReadyExtends
<1>4. ASSUME NEW a \in A, IsPlace(h, Place(h, a))
      PROVE  /\ IsPlace(g, Place(h, a))
             /\ \A X : Starved(h, X, Place(h, a)) => Starved(g, X, Place(h, a))
    <2>1. h[Place(h, a)[1]].items # <<>> /\ Place(h, a)[1] \in Addr
        BY <1>0, <1>4 DEF IsPlace, Heaps, Arrays
    <2>2. IsPlace(g, Place(h, a))
        BY <2>1, <1>4 DEF IsPlace, Extends
    <2> QED
        BY <2>2, <1>0, <1>4, StarvedExtends
<1> HIDE DEF A
<1> QED
    BY <1>1, <1>2, <1>3, <1>4, StackedStays

\* Nor does freeing what cannot be reached from the last frame.
LEMMA StackedCollects ==
    ASSUME NEW g, NEW h \in Heaps, NEW live, NEW m, NEW q, NEW st, NEW hs, NEW lv, NEW he,
           Stacked(g, m, q, st, hs, lv, he), Collects(g, live, h), st[m] \in live
    PROVE  Stacked(h, m, q, st, hs, lv, he)
<1>1. /\ g \in Heaps
      /\ Counted(m, q, st, hs, lv, he)
      /\ Linked(g, m, q, st, hs, lv, he)
    BY DEF Stacked
<1>2. m \in Nat /\ m >= 1 /\ q \in Nat
    BY <1>1 DEF Counted
<1>3. \A a \in live : Addr \cap {g[a].rt, g[a].k, g[a].exc} \subseteq live
    BY DEF Collects, Refers
<1>4. \A i \in 1..m : st[i] \in live
    <2> DEFINE T == {i \in 1..m : st[i] \in live}
    <2>1. m \in T
        BY <1>2
    <2>2. ASSUME NEW i \in 1..m, i \in T, i > 1
          PROVE  i - 1 \in T
        <3>1. i \in 2..m /\ i - 1 \in 1..m
            BY <2>2, <1>2
        <3>2. g[st[i]].k = st[i - 1]
            BY <3>1, <1>1 DEF Linked, FrameLinks
        <3>3. st[i - 1] \in Addr
            BY <3>1, <1>1, <1>2 DEF Counted
        <3> QED
            BY <3>1, <3>2, <3>3, <2>2, <1>3
    <2>3. 1..m \subseteq T
        <3> HIDE DEF T
        <3> QED
            BY <2>1, <2>2, <1>2, Downwards
    <2> QED
        BY <2>3
<1>5. \A j \in 1..q : hs[j] \in live
    <2> DEFINE T == {j \in 1..q : hs[j] \in live}
    <2>1. ASSUME 1 <= q
          PROVE  q \in T
        <3>1. m \in 2..m
            BY <2>1, <1>1, <1>2 DEF Counted
        <3>2. he[m] \in 1..q /\ \A j \in 1..q : j <= he[m] <=> lv[j] < m
            BY <3>1, <1>1 DEF Counted
        <3>3. lv[q] < m
            <4>1. CASE q = 1
                BY <4>1, <3>1, <1>1, <1>2 DEF Counted
            <4>2. CASE q # 1
                BY <4>2, <2>1, <1>1, <1>2 DEF Counted
            <4> QED
                BY <4>1, <4>2
        <3>4. he[m] = q
            BY <3>2, <3>3, <2>1, <1>2
        <3>5. g[st[m]].exc = hs[q]
            BY <3>1, <3>4, <1>1 DEF Linked, FrameLinks
        <3>6. hs[q] \in Addr
            BY <1>1, <1>2 DEF Counted
        <3> QED
            BY <3>5, <3>6, <2>1, <1>2, <1>3
    <2>2. ASSUME NEW j \in 1..q, j \in T, j > 1
          PROVE  j - 1 \in T
        <3>1. j \in 2..q /\ j - 1 \in 1..q
            BY <2>2, <1>2
        <3>2. g[hs[j]].exc = hs[j - 1]
            BY <3>1, <1>1 DEF Linked, HandlerLinks
        <3>3. hs[j - 1] \in Addr
            BY <3>1, <1>1, <1>2 DEF Counted
        <3> QED
            BY <3>1, <3>2, <3>3, <2>2, <1>3
    <2>3. 1..q \subseteq T
        <3> HIDE DEF T
        <3> QED
            BY <2>1, <2>2, <1>2, Downwards
    <2> QED
        BY <2>3
<1>6. \A a \in live : h[a] = g[a]
    BY DEF Collects
<1>7. \A a \in live : \A X : Ready(g, a, X) => Ready(h, a, X)
    BY <1>1, ReadyCollects
<1>8. ASSUME NEW a \in live, IsPlace(g, Place(g, a))
      PROVE  /\ IsPlace(h, Place(g, a))
             /\ \A X : Starved(g, X, Place(g, a)) => Starved(h, X, Place(g, a))
    <2>1. Place(g, a)[1] \in live
        BY <1>3, <1>8 DEF Place, IsPlace
    <2>2. IsPlace(h, Place(g, a))
        BY <2>1, <1>6, <1>8 DEF IsPlace
    <2> QED
        BY <2>1, <2>2, <1>1, <1>8, StarvedCollects
<1> QED
    BY <1>4, <1>5, <1>6, <1>7, <1>8, StackedStays

\* Sizes and levels, in the form in which they are used.
LEMMA Sizes ==
    ASSUME NEW m, NEW q, NEW st, NEW hs, NEW lv, NEW he, Counted(m, q, st, hs, lv, he)
    PROVE  /\ m \in Nat /\ m >= 1 /\ q \in Nat /\ 1 \in 1..m /\ m \in 1..m
           /\ \A i \in 2..m : i \in 1..m /\ i - 1 \in 1..m
           /\ \A j \in 2..q : j \in 1..q /\ j - 1 \in 1..q
           /\ \A i \in 1..m : st[i] \in Addr
           /\ \A j \in 1..q : hs[j] \in Addr
           /\ \A j \in 1..q : lv[j] \in 0..m - 1 /\ lv[j] \in 0..m
           /\ \A j \in 2..q : lv[j] \in 1..m
           /\ m >= 2 => q \in 1..q /\ he[m] = q
<1>1. m \in Nat /\ m >= 1 /\ q \in Nat
    BY DEF Counted
<1>2. /\ 1 \in 1..m /\ m \in 1..m
      /\ \A i \in 2..m : i \in 1..m /\ i - 1 \in 1..m
      /\ \A j \in 2..q : j \in 1..q /\ j - 1 \in 1..q
    BY <1>1
<1>3. /\ \A i \in 1..m : st[i] \in Addr
      /\ \A j \in 1..q : hs[j] \in Addr
    BY DEF Counted
<1>4. ASSUME NEW j \in 1..q
      PROVE  lv[j] \in 0..m - 1 /\ lv[j] \in 0..m
    <2>1. CASE j = 1
        BY <2>1, <1>1 DEF Counted
    <2>2. CASE j # 1
        BY <2>2, <1>1 DEF Counted
    <2> QED
        BY <2>1, <2>2
<1>5. \A j \in 2..q : lv[j] \in 1..m
    BY <1>1 DEF Counted
<1>6. ASSUME m >= 2
      PROVE  q \in 1..q /\ he[m] = q
    <2>1. q \in 1..q /\ m \in 2..m
        BY <1>1, <1>6 DEF Counted
    <2>2. he[m] \in 1..q /\ \A j \in 1..q : j <= he[m] <=> lv[j] < m
        BY <2>1 DEF Counted
    <2>3. lv[q] < m
        BY <2>1, <1>1, <1>4
    <2> QED
        BY <2>1, <2>2, <2>3
<1> QED
    BY <1>1, <1>2, <1>3, <1>4, <1>5, <1>6

\* What a frame writes over is no combinator.
LEMMA StarvedContent ==
    ASSUME NEW h, NEW s, NEW X, Starved(h, X, s)
    PROVE  Content(h, s) \notin Combinators
<1>1. {} \in SUBSET Addr /\ Within(h, {}, X)
    BY DEF Within
<1> QED
    BY <1>1 DEF Starved

LEMMA LinkedWrites ==
    ASSUME NEW h \in Heaps, NEW m, NEW q, NEW st, NEW hs, NEW lv, NEW he,
           Counted(m, q, st, hs, lv, he), Linked(h, m, q, st, hs, lv, he),
           NEW s, IsPlace(h, s), NEW v \in Values, Content(h, s) \notin Combinators
    PROVE  Linked(Write(h, s[1], s[2], v), m, q, st, hs, lv, he)
<1> DEFINE g == Write(h, s[1], s[2], v)
<1>1. \A a \in Addr :
        /\ g[a].rt = h[a].rt /\ g[a].rti = h[a].rti
        /\ g[a].k = h[a].k /\ g[a].exc = h[a].exc
        /\ DOMAIN g[a].items = DOMAIN h[a].items
        /\ g[a].items = <<>> <=> h[a].items = <<>>
        /\ Place(g, a) = Place(h, a)
        /\ \A i \in DOMAIN h[a].items :
                g[a].items[i] = IF a = s[1] /\ i = s[2] THEN v ELSE h[a].items[i]
    BY WriteGives
<1> HIDE DEF g
<1>2. ASSUME NEW a \in Addr, h[a].items # <<>>, h[a].items[1] \in {Result, Exception}
      PROVE  g[a].items[1] = h[a].items[1]
    <2>1. h[a].items[1] \in Combinators
        BY <1>2, TrampolineAssumption DEF Combinators
    <2>2. 1 \in DOMAIN h[a].items
        <3>1. h[a].items \in Seq(Values)
            BY DEF Heaps, Arrays
        <3> QED
            BY <3>1, <1>2
    <2>3. ~(a = s[1] /\ 1 = s[2])
        BY <2>1 DEF Content
    <2> QED
        BY <2>2, <2>3, <1>1
<1>3. \A a \in Addr : IsPlace(h, Place(h, a)) => IsPlace(g, Place(g, a))
    BY <1>1 DEF IsPlace
<1>4. /\ m \in Nat /\ m >= 1 /\ q \in Nat /\ 1 \in 1..m
      /\ \A i \in 2..m : i \in 1..m
      /\ \A j \in 2..q : j \in 1..q
      /\ \A i \in 1..m : st[i] \in Addr
      /\ \A j \in 1..q : hs[j] \in Addr
    BY Sizes
<1>5. /\ \A i \in 1..m : g[st[i]].items # <<>>
      /\ \A j \in 1..q : g[hs[j]].items # <<>>
    BY <1>1, <1>4 DEF Linked
<1>6. FirstFrame(g, st)
    BY <1>1, <1>2, <1>4 DEF Linked, FirstFrame, IsTree
<1>7. ASSUME q >= 1
      PROVE  FirstHandler(g, hs)
    <2>1. 1 \in 1..q
        BY <1>4, <1>7
    <2> QED
        BY <2>1, <1>1, <1>2, <1>4, <1>7 DEF Linked, FirstHandler, IsTree
<1>8. ASSUME NEW i \in 2..m
      PROVE  FrameLinks(g, st, hs, he, i)
    BY <1>1, <1>3, <1>4 DEF Linked, FrameLinks
<1>9. ASSUME NEW j \in 2..q
      PROVE  HandlerLinks(g, st, hs, lv, j)
    BY <1>1, <1>3, <1>4 DEF Linked, HandlerLinks
<1>10. Linked(g, m, q, st, hs, lv, he)
    BY <1>5, <1>6, <1>7, <1>8, <1>9 DEF Linked
<1> QED
    BY <1>10 DEF g

\* The last frame is done: its result is written, and the one below it is
\* next, with the handlers there are for that.
LEMMA FrameReturns ==
    ASSUME NEW h, NEW m, NEW q, NEW st, NEW hs, NEW lv, NEW he,
           Stacked(h, m, q, st, hs, lv, he), m >= 2,
           NEW R \in SUBSET Addr, Sound(h, R, {}), NEW v \in R \cup Plain
    PROVE  Stacked(Write(h, h[st[m]].rt, h[st[m]].rti, v),
                   m - 1, IF m = 2 THEN 0 ELSE he[m - 1], st, hs, lv, he)
<1> DEFINE s == Place(h, st[m])
           g == Write(h, s[1], s[2], v)
           n == m - 1
           p == IF m = 2 THEN 0 ELSE he[m - 1]
<1>1. /\ h \in Heaps
      /\ Counted(m, q, st, hs, lv, he)
      /\ Linked(h, m, q, st, hs, lv, he)
      /\ Distinct(h, m, q, st, hs, lv)
      /\ Waiting(h, m, q, st, hs, lv)
      /\ Prepared(h, m, q, st, hs, lv)
    BY DEF Stacked
<1>2. /\ m \in Nat /\ q \in Nat
      /\ \A i \in 2..m : i \in 1..m /\ i - 1 \in 1..m
      /\ \A j \in 2..q : j \in 1..q /\ j - 1 \in 1..q
      /\ \A i \in 1..m : st[i] \in Addr
      /\ \A j \in 1..q : hs[j] \in Addr
      /\ \A j \in 1..q : lv[j] \in 0..m - 1
    BY <1>1, Sizes
<1>3. m \in 2..m /\ n \in 1..m /\ n \in Nat \ {0} /\ m \in 1..m
    BY <1>2
<1>4. /\ p \in 0..q
      /\ p = 0 <=> n = 1
      /\ \A j \in 1..p : j \in 1..q /\ lv[j] < n
      /\ \A i \in 2..n : he[i] \in 1..p
    <2>1. CASE m = 2
        BY <2>1, <1>2
    <2>2. CASE m # 2
        <3>1. n \in 2..m /\ p = he[n]
            BY <2>2, <1>3
        <3>2. p \in 1..q /\ \A j \in 1..q : j <= p <=> lv[j] < n
            BY <3>1, <1>1 DEF Counted
        <3>3. ASSUME NEW i \in 2..n
              PROVE  he[i] \in 1..p
            <4>1. i \in 2..m
                BY <3>3, <1>3
            <4>2. he[i] \in 1..q /\ \A j \in 1..q : j <= he[i] <=> lv[j] < i
                BY <4>1, <1>1 DEF Counted
            <4>3. lv[he[i]] < i /\ lv[he[i]] \in Nat
                BY <4>2, <1>2
            <4>4. lv[he[i]] < n
                BY <4>3, <1>3
            <4> QED
                BY <4>2, <4>4, <3>2
        <3>4. \A j \in 1..p : j \in 1..q /\ j <= p
            BY <3>2, <1>2
        <3>5. p \in 0..q /\ p # 0 /\ n # 1
            BY <3>1, <3>2, <1>2
        <3> QED
            BY <3>2, <3>3, <3>4, <3>5
    <2> QED
        BY <2>1, <2>2
<1>5. s = <<s[1], s[2]>> /\ s = <<h[st[m]].rt, h[st[m]].rti>> /\ IsPlace(h, s)
    BY <1>1, <1>3 DEF Linked, FrameLinks, Place
<1>6. v \in Values
    BY PlainCombinators DEF Values
<1>7. Starved(h, FrameCut(h, m, q, st, hs, m), s)
    BY <1>1, <1>3 DEF Waiting
<1>8. \A a \in Addr : Place(g, a) = Place(h, a) /\ DOMAIN g[a].items = DOMAIN h[a].items
    BY <1>1, <1>5, <1>6, WriteGives
<1>9. g \in Heaps
    BY <1>1, <1>5, <1>6, WriteGives
<1>10. /\ \A i \in 1..m : Place(g, st[i]) = Place(h, st[i])
       /\ \A j \in 1..q : Place(g, hs[j]) = Place(h, hs[j])
    BY <1>2, <1>8
<1>11. /\ \A i \in 2..n : i \in 2..m /\ i # m /\ i \in 1..m
       /\ \A i \in 1..n : i \in 1..m /\ i # m
       /\ \A j \in 2..p : j \in 2..q /\ j \in 1..q
       /\ \A j \in 1..p : j \in 1..q
    BY <1>2, <1>3, <1>4
<1> HIDE DEF g, s, n, p
<1>12. Counted(n, p, st, hs, lv, he)
    <2>1. \A i \in 2..n : he[i] \in 1..p /\ \A j \in 1..p : j <= he[i] <=> lv[j] < i
        BY <1>1, <1>4, <1>11 DEF Counted
    <2>2. \A j \in 2..p : lv[j] \in 1..n - 1
        <3>1. \A j \in 2..p : lv[j] \in 1..m - 1 /\ lv[j] < n
            <4>1. \A j \in 2..p : j \in 1..p
                BY <1>4, <1>2
            <4> QED
                BY <4>1, <1>1, <1>4, <1>11 DEF Counted
        <3> QED
            BY <3>1, <1>2, <1>3
    <2>3. p \in Nat /\ (p >= 1 => q >= 1)
        BY <1>2, <1>4
    <2>4. /\ st \in [Nat -> Addr] /\ hs \in [Nat -> Addr] /\ lv \in [Nat -> Nat] /\ he \in [Nat -> Nat]
          /\ q >= 1 => lv[1] = 0
          /\ \A j, l \in 1..q : j <= l => lv[j] <= lv[l]
        BY <1>1 DEF Counted
    <2>5. \A j, l \in 1..p : j <= l => lv[j] <= lv[l]
        BY <2>4, <1>11
    <2> QED
        BY <2>1, <2>2, <2>3, <2>4, <2>5, <1>3, <1>4 DEF Counted
<1>13. Linked(g, n, p, st, hs, lv, he)
    <2>1. Linked(g, m, q, st, hs, lv, he)
        BY <1>1, <1>5, <1>6, <1>7, StarvedContent, LinkedWrites DEF g
    <2>2. p \in Nat /\ (p >= 1 => q >= 1)
        BY <1>2, <1>4
    <2> QED
        BY <2>1, <2>2, <1>11 DEF Linked
<1>14. Distinct(g, n, p, st, hs, lv)
    BY <1>1, <1>10, <1>11 DEF Distinct
<1>15. ASSUME NEW i \in 2..n
       PROVE  Starved(g, FrameCut(g, n, p, st, hs, i), Place(g, st[i]))
    <2> DEFINE o == Place(h, st[i])
    <2>1. i \in 2..m /\ i \in 1..m /\ i # m
        BY <1>11
    <2>2. Starved(h, FrameCut(h, m, q, st, hs, i), o)
        BY <2>1, <1>1 DEF Waiting
    <2>3. IsPlace(h, o) /\ o = <<o[1], o[2]>>
        BY <2>1, <1>1 DEF Linked, FrameLinks, Place
    <2>4. o # s
        BY <2>1, <1>1, <1>3 DEF Distinct, s
    <2>5. s \in FrameCut(h, m, q, st, hs, i)
        BY <2>4, <1>3 DEF FrameCut, s
    <2>6. FrameCut(g, n, p, st, hs, i) \subseteq FrameCut(h, m, q, st, hs, i)
        BY <2>1, <1>10, <1>11 DEF FrameCut
    <2> HIDE DEF o
    <2>7. Starved(g, FrameCut(g, n, p, st, hs, i), o)
        BY <2>2, <2>3, <2>4, <2>5, <2>6, <1>1, <1>5, <1>6, StarvedWrite DEF g
    <2> QED
        BY <2>1, <2>7, <1>10 DEF o
<1>16. ASSUME NEW j \in 2..p
       PROVE  Starved(g, HandlerCut(g, n, p, st, hs, lv, j), Place(g, hs[j]))
    <2> DEFINE o == Place(h, hs[j])
    <2>1. j \in 2..q /\ j \in 1..q /\ lv[j] < n /\ lv[j] \in Nat
        BY <1>2, <1>4, <1>11
    <2>2. Starved(h, HandlerCut(h, m, q, st, hs, lv, j), o)
        BY <2>1, <1>1 DEF Waiting
    <2>3. IsPlace(h, o) /\ o = <<o[1], o[2]>>
        BY <2>1, <1>1 DEF Linked, HandlerLinks, Place
    <2>4. o # s
        <3>1. lv[j] # m - 1
            BY <2>1, <1>2 DEF n
        <3> QED
            BY <2>1, <3>1, <1>1, <1>3 DEF Distinct, s
    <2>5. s \in HandlerCut(h, m, q, st, hs, lv, j)
        <3>1. m # lv[j] + 1
            BY <2>1, <1>2 DEF n
        <3> QED
            BY <3>1, <2>4, <1>3 DEF HandlerCut, s
    <2>6. HandlerCut(g, n, p, st, hs, lv, j) \subseteq HandlerCut(h, m, q, st, hs, lv, j)
        BY <2>1, <1>10, <1>11 DEF HandlerCut
    <2> HIDE DEF o
    <2>7. Starved(g, HandlerCut(g, n, p, st, hs, lv, j), o)
        BY <2>2, <2>3, <2>4, <2>5, <2>6, <1>1, <1>5, <1>6, StarvedWrite DEF g
    <2> QED
        BY <2>1, <2>7, <1>10 DEF o
<1>17. \A Y : Sound(h, R, Y)
    BY SoundCuts
<1>18. ASSUME NEW i \in 1..n
       PROVE  Ready(g, st[i], Places(g, st, i + 1, n))
    <2>1. Ready(h, st[i], Places(h, st, i + 1, m))
        BY <1>1, <1>11 DEF Prepared
    <2>2. Places(h, st, i + 1, m) \subseteq Places(g, st, i + 1, n) \cup {s}
        <3> SUFFICES ASSUME NEW l \in i + 1..m
                     PROVE  Place(h, st[l]) \in Places(g, st, i + 1, n) \cup {s}
            BY DEF Places
        <3>1. l \in 1..m /\ (l # m => l \in i + 1..n)
            BY <1>2 DEF n
        <3> QED
            BY <3>1, <1>10 DEF Places, s
    <2> QED
        BY <2>1, <2>2, <1>1, <1>2, <1>5, <1>6, <1>11, <1>17, ReadyWritten DEF g
<1>19. ASSUME NEW j \in 1..p
       PROVE  /\ Ready(g, hs[j], {})
              /\ \A i \in 1..lv[j] :
                     Ready(g, st[i], {Place(g, hs[j])} \cup Places(g, st, i + 1, lv[j]))
    <2>0. j \in 1..q /\ lv[j] \in 0..m - 1
        BY <1>2, <1>11
    <2>1. /\ Ready(h, hs[j], {})
          /\ \A i \in 1..lv[j] :
                Ready(h, st[i], {Place(h, hs[j])} \cup Places(h, st, i + 1, lv[j]))
        BY <2>0, <1>1 DEF Prepared
    <2>2. Ready(g, hs[j], {})
        BY <2>0, <2>1, <1>1, <1>2, <1>5, <1>6, ReadyWritten DEF g
    <2>3. ASSUME NEW i \in 1..lv[j]
          PROVE  Ready(g, st[i], {Place(g, hs[j])} \cup Places(g, st, i + 1, lv[j]))
        <3> DEFINE X == {Place(h, hs[j])} \cup Places(h, st, i + 1, lv[j])
        <3>1. i \in 1..m /\ \A l \in i + 1..lv[j] : l \in 1..m
            BY <2>0, <1>2
        <3>2. {Place(g, hs[j])} \cup Places(g, st, i + 1, lv[j]) = X
            BY <3>1, <2>0, <1>10 DEF Places
        <3>3. Ready(h, st[i], X)
            BY <2>1
        <3>4. st[i] \in Addr
            BY <3>1, <1>2
        <3> HIDE DEF X
        <3>5. X \subseteq X \cup {s}
            OBVIOUS
        <3>6. Ready(g, st[i], X)
            BY <3>3, <3>4, <3>5, <1>1, <1>5, <1>6, <1>17, ReadyWritten DEF g
        <3> QED
            BY <3>2, <3>6
    <2> QED
        BY <2>2, <2>3
<1>20. Stacked(g, n, p, st, hs, lv, he)
    BY <1>9, <1>12, <1>13, <1>14, <1>15, <1>16, <1>18, <1>19 DEF Stacked, Waiting, Prepared
<1> QED
    BY <1>20, <1>5 DEF g, n, p

-----------------------------------------------------------------------------
(* Frames d[1] to d[n] in the place of the last frame, t.                  *)

\* A place in a new array, that is a hole.
IsHole(h, g, s) ==
    /\ IsPlace(g, s)
    /\ h[s[1]].items = <<>>
    /\ Content(g, s) = Nil

\* Each frame but the first fills a hole.
AddsFrames(h, g, t, n, d) ==
    /\ n \in Nat \ {0}
    /\ d \in [Nat -> Addr]
    /\ \A l \in 1..n :
            /\ g[d[l]].items # <<>>
            /\ g[d[l]].exc = h[t].exc
            /\ Ready(g, d[l], Places(g, d, l + 1, n))
    /\ g[d[1]].k = h[t].k
    /\ \A l \in 2..n : g[d[l]].k = d[l - 1] /\ IsHole(h, g, Place(g, d[l]))
    /\ \A i, l \in 2..n : Place(g, d[i]) = Place(g, d[l]) => i = l

\* The first one writes where t does ...
Keeps(h, f, g, t, d) == g = f /\ Place(g, d[1]) = Place(h, t)

\* ... or it fills a hole, inside a value that is put there already.
Settles(h, f, g, t, n, d) ==
    /\ \A l \in 2..n : Place(g, d[1]) # Place(g, d[l])
    /\ IsHole(h, g, Place(g, d[1]))
    /\ \E v \in Values :
        /\ g = Write(f, h[t].rt, h[t].rti, v)
        /\ \E R \in SUBSET Addr : Sound(f, R, Places(g, d, 1, n)) /\ v \in R \cup Plain
    /\ \A X : (\A x \in X : h[x[1]].items = <<>> => x \in Places(g, d, 2, n))
                => Starved(g, X, Place(h, t))

\* The frames are then sn, of which frame i has hn[i] handlers.
Puts(sn, hn, m, q, st, he, n, d) ==
    /\ \A i \in Nat : i < m => sn[i] = st[i] /\ hn[i] = he[i]
    /\ \A i \in m..m + n - 1 : sn[i] = d[i - m + 1] /\ hn[i] = q

LEMMA HolesStarve ==
    ASSUME NEW h, NEW g, NEW s, NEW X, IsHole(h, g, s)
    PROVE  Starved(g, X, s)
BY NoValueIsNil DEF IsHole, Starved

LEMMA FramesAdded ==
    ASSUME NEW h, NEW f \in Heaps, NEW g, NEW m, NEW q, NEW st, NEW hs, NEW lv, NEW he,
           Stacked(h, m, q, st, hs, lv, he), m >= 2,
           Extends(h, f), NEW n, NEW d, AddsFrames(h, g, st[m], n, d),
           Keeps(h, f, g, st[m], d) \/ Settles(h, f, g, st[m], n, d)
    PROVE  \E sn, hn : Puts(sn, hn, m, q, st, he, n, d) /\ Stacked(g, m + n - 1, q, sn, hs, lv, hn)
<1> DEFINE t == st[m]
           s == Place(h, t)
           w == m + n - 1
           sn == [i \in Nat |-> IF i < m THEN st[i] ELSE d[i - m + 1]]
           hn == [i \in Nat |-> IF i < m THEN he[i] ELSE q]
           A == {a \in Addr : h[a].items # <<>>}
<1>1. /\ h \in Heaps
      /\ Counted(m, q, st, hs, lv, he)
      /\ Linked(h, m, q, st, hs, lv, he)
      /\ Distinct(h, m, q, st, hs, lv)
      /\ Waiting(h, m, q, st, hs, lv)
      /\ Prepared(h, m, q, st, hs, lv)
    BY DEF Stacked
<1>2. /\ m \in Nat /\ q \in Nat
      /\ \A i \in 2..m : i \in 1..m /\ i - 1 \in 1..m
      /\ \A j \in 2..q : j \in 1..q /\ j - 1 \in 1..q
      /\ \A i \in 1..m : st[i] \in Addr
      /\ \A j \in 1..q : hs[j] \in Addr
      /\ \A j \in 1..q : lv[j] \in 0..m - 1
      /\ q \in 1..q /\ he[m] = q
    BY <1>1, Sizes
<1>3. /\ m \in 2..m /\ m \in 1..m /\ m \in Nat /\ m >= 2
      /\ n \in Nat /\ n >= 1 /\ w \in Nat /\ w >= m /\ w = m + n - 1
      /\ d \in [Nat -> Addr]
    BY <1>2 DEF AddsFrames
<1>4. /\ sn \in [Nat -> Addr] /\ hn \in [Nat -> Nat]
      /\ \A i \in Nat : i < m => sn[i] = st[i] /\ hn[i] = he[i]
      /\ \A i \in m..w : sn[i] = d[i - m + 1] /\ hn[i] = q
    <2>1. st \in [Nat -> Addr] /\ he \in [Nat -> Nat]
        BY <1>1 DEF Counted
    <2>2. \A i \in Nat : ~(i < m) => i - m + 1 \in Nat
        BY <1>3
    <2> QED
        BY <2>1, <2>2, <1>2, <1>3
\* The arrays there were.
<1>5. /\ s = <<s[1], s[2]>> /\ s = <<h[t].rt, h[t].rti>>
      /\ IsPlace(h, s) /\ Starved(h, FrameCut(h, m, q, st, hs, m), s)
    BY <1>1, <1>3 DEF Linked, FrameLinks, Place, Waiting
<1>6. ASSUME NEW o, IsPlace(h, o)
      PROVE  o[1] \in A /\ IsPlace(f, o)
    BY <1>1, <1>6 DEF IsPlace, Heaps, Arrays, Extends
<1>7. /\ \A i \in 1..m : st[i] \in A
      /\ \A j \in 1..q : hs[j] \in A
    BY <1>1, <1>2 DEF Linked
<1>8. ASSUME Settles(h, f, g, t, n, d)
      PROVE  \E v \in Values : g = Write(f, s[1], s[2], v)
    <2>1. s[1] = h[t].rt /\ s[2] = h[t].rti
        BY <1>5
    <2>2. \E v \in Values : g = Write(f, h[t].rt, h[t].rti, v)
        BY <1>8 DEF Settles
    <2> QED
        BY <2>1, <2>2
<1>9. \A a \in A : f[a] = h[a]
    BY DEF Extends
<1>10. /\ g \in Heaps
       /\ \A a \in A : Place(g, a) = Place(h, a)
       /\ \A o : IsPlace(f, o) => IsPlace(g, o)
    <2>1. CASE Keeps(h, f, g, t, d)
        BY <2>1, <1>9 DEF Keeps, Place
    <2>2. CASE Settles(h, f, g, t, n, d)
        <3>1. PICK v \in Values : g = Write(f, s[1], s[2], v)
            BY <2>2, <1>8
        <3>0. f \in Heaps /\ IsPlace(f, s)
            BY <1>5, <1>6
        <3>2. /\ g \in Heaps
              /\ \A a \in Addr : Place(g, a) = Place(f, a) /\ DOMAIN g[a].items = DOMAIN f[a].items
            BY <3>0, <3>1, WriteGives
        <3>3. \A a \in A : Place(g, a) = Place(h, a)
            BY <3>2, <1>9 DEF Place
        <3> QED
            BY <3>2, <3>3 DEF IsPlace
    <2> QED
        BY <2>1, <2>2
<1>11. /\ \A i \in 1..m : Place(g, st[i]) = Place(h, st[i])
       /\ \A j \in 1..q : Place(g, hs[j]) = Place(h, hs[j])
    BY <1>7, <1>10
\* The new ones.
<1>12. ASSUME NEW i \in m..w
       PROVE  /\ i - m + 1 \in 1..n /\ sn[i] = d[i - m + 1]
              /\ i # m => i - m + 1 \in 2..n /\ IsHole(h, g, Place(g, sn[i]))
              /\ i = m => sn[i] = d[1]
    <2>1. i - m + 1 \in 1..n /\ sn[i] = d[i - m + 1]
        BY <1>3, <1>4
    <2>2. i # m => i - m + 1 \in 2..n
        BY <1>3
    <2> QED
        BY <2>1, <2>2, <1>3 DEF AddsFrames
<1>13. \/ g = f /\ Place(g, sn[m]) = s
       \/ IsHole(h, g, Place(g, sn[m]))
    BY <1>3, <1>12 DEF Keeps, Settles
<1>14. ASSUME NEW i \in m..w
       PROVE  \/ i = m /\ g = f /\ Place(g, sn[i]) = s
              \/ IsHole(h, g, Place(g, sn[i]))
    BY <1>12, <1>13
<1>15. ASSUME NEW o, IsPlace(h, o), NEW r, IsHole(h, g, r)
       PROVE  o # r
    BY <1>6, <1>15 DEF IsHole
<1>16. ASSUME NEW i \in 1..w
       PROVE  \/ i \in 1..m /\ i # m /\ sn[i] = st[i] /\ i < m
              \/ i \in m..w
    BY <1>3, <1>4
<1> HIDE DEF s, w, sn, hn, A
<1>17. Counted(w, q, sn, hs, lv, hn)
    <2>1. ASSUME NEW i \in 2..w
          PROVE  hn[i] \in 1..q /\ \A j \in 1..q : j <= hn[i] <=> lv[j] < i
        <3>1. CASE i < m
            BY <3>1, <1>1, <1>3, <1>4 DEF Counted
        <3>2. CASE ~(i < m)
            <4>1. i \in m..w /\ hn[i] = q
                BY <3>2, <1>3, <1>4
            <4>2. \A j \in 1..q : lv[j] < i
                BY <4>1, <1>2, <1>3
            <4> QED
                BY <4>1, <4>2, <1>2
        <3> QED
            BY <3>1, <3>2
    <2>2. \A j \in 2..q : lv[j] \in 1..w - 1
        <3>1. \A j \in 2..q : lv[j] \in 1..m - 1
            BY <1>1 DEF Counted
        <3> QED
            BY <3>1, <1>3
    <2>3. w \in Nat \ {0} /\ w # 1 /\ q # 0
        BY <1>2, <1>3
    <2> QED
        BY <2>1, <2>2, <2>3, <1>1, <1>4 DEF Counted
<1>18. Linked(g, w, q, sn, hs, lv, hn)
    <2>1. Linked(g, m, q, st, hs, lv, he)
        <3>1. Linked(f, m, q, st, hs, lv, he)
            BY StackedExtends DEF Stacked
        <3>2. CASE Keeps(h, f, g, t, d)
            BY <3>1, <3>2 DEF Keeps
        <3>3. CASE Settles(h, f, g, t, n, d)
            <4>1. PICK v \in Values : g = Write(f, s[1], s[2], v)
                BY <3>3, <1>8
            <4>2. Content(f, s) = Content(h, s)
                BY <1>5, <1>6, <1>9 DEF Content
            <4>3. Content(f, s) \notin Combinators
                BY <4>2, <1>5, StarvedContent
            <4> QED
                BY <3>1, <4>1, <4>3, <1>1, <1>5, <1>6, LinkedWrites
        <3> QED
            BY <3>2, <3>3
    <2>2. ASSUME NEW i \in 1..w
          PROVE  g[sn[i]].items # <<>>
        <3>1. CASE i < m
            BY <3>1, <2>1, <1>3, <1>16 DEF Linked
        <3>2. CASE ~(i < m)
            <4>1. i \in m..w
                BY <3>2, <1>3
            <4> QED
                BY <4>1, <1>12 DEF AddsFrames
        <3> QED
            BY <3>1, <3>2
    <2>3. FirstFrame(g, sn)
        <3>1. sn[1] = st[1]
            BY <1>3, <1>4
        <3> QED
            BY <3>1, <2>1 DEF Linked, FirstFrame
    <2>4. ASSUME NEW i \in 2..w
          PROVE  FrameLinks(g, sn, hs, hn, i)
        <3>1. CASE i < m
            <4>1. i \in 2..m /\ sn[i] = st[i] /\ sn[i - 1] = st[i - 1] /\ hn[i] = he[i]
                BY <3>1, <1>3, <1>4
            <4>2. FrameLinks(g, st, hs, he, i)
                BY <4>1, <2>1 DEF Linked
            <4> QED
                BY <4>1, <4>2 DEF FrameLinks
        <3>2. CASE i = m
            <4>0. m \in m..w /\ i \in m..w
                BY <3>2, <1>3
            <4>1. sn[i] = d[1] /\ sn[i - 1] = st[i - 1] /\ hn[i] = q
                BY <3>2, <4>0, <1>3, <1>4, <1>12
            <4>2. h[t].k = st[m - 1] /\ h[t].exc = hs[q]
                BY <1>1, <1>2, <1>3 DEF Linked, FrameLinks
            <4>3. g[d[1]].k = h[t].k /\ g[d[1]].exc = h[t].exc
                BY <1>3 DEF AddsFrames
            <4>4. IsPlace(g, Place(g, sn[i]))
                BY <3>2, <1>5, <1>6, <1>10, <1>13 DEF IsHole
            <4> QED
                BY <3>2, <4>1, <4>2, <4>3, <4>4 DEF FrameLinks
        <3>3. CASE i > m
            <4>0. i \in m..w /\ i - 1 \in m..w /\ i # m /\ (i - 1) - m + 1 = (i - m + 1) - 1
                BY <3>3, <1>3
            <4> DEFINE l == i - m + 1
            <4>1. sn[i] = d[l] /\ sn[i - 1] = d[l - 1] /\ hn[i] = q /\ l \in 2..n /\ l \in 1..n
                BY <4>0, <1>4, <1>12
            <4> HIDE DEF l
            <4>2. g[d[l]].k = d[l - 1] /\ g[d[l]].exc = h[t].exc
                BY <4>1 DEF AddsFrames
            <4>3. h[t].exc = hs[q]
                BY <1>1, <1>2, <1>3 DEF Linked, FrameLinks
            <4>4. IsPlace(g, Place(g, sn[i]))
                BY <4>0, <1>12 DEF IsHole
            <4> QED
                BY <4>1, <4>2, <4>3, <4>4 DEF FrameLinks
        <3> QED
            BY <3>1, <3>2, <3>3, <1>3
    <2>5. ASSUME NEW j \in 2..q
          PROVE  HandlerLinks(g, sn, hs, lv, j)
        <3>1. sn[lv[j]] = st[lv[j]]
            BY <1>2, <1>3, <1>4
        <3>2. HandlerLinks(g, st, hs, lv, j)
            BY <2>1 DEF Linked
        <3> QED
            BY <3>1, <3>2 DEF HandlerLinks
    <2> QED
        BY <2>1, <2>2, <2>3, <2>4, <2>5 DEF Linked
<1>19. /\ \A i \in 2..m : IsPlace(h, Place(h, st[i])) /\ IsPlace(h, Place(g, st[i]))
       /\ \A j \in 2..q : IsPlace(h, Place(h, hs[j])) /\ IsPlace(h, Place(g, hs[j]))
    BY <1>1, <1>2, <1>11 DEF Linked, FrameLinks, HandlerLinks
<1>20. Distinct(g, w, q, sn, hs, lv)
    <2>1. ASSUME NEW i \in 2..w, NEW l \in 2..w, Place(g, sn[i]) = Place(g, sn[l]), i <= l
          PROVE  i = l
        <3>1. CASE l < m
            <4>1. i \in 2..m /\ l \in 2..m /\ sn[i] = st[i] /\ sn[l] = st[l]
                BY <2>1, <3>1, <1>3, <1>4
            <4>2. Place(h, st[i]) = Place(h, st[l])
                BY <4>1, <2>1, <1>2, <1>11
            <4> QED
                BY <4>1, <4>2, <1>1 DEF Distinct
        <3>2. CASE i < m /\ l >= m
            <4>1. i \in 2..m /\ i # m /\ sn[i] = st[i] /\ l \in m..w
                BY <2>1, <3>2, <1>3, <1>4
            <4>2. Place(g, sn[i]) # s
                BY <4>1, <1>1, <1>2, <1>3, <1>11 DEF Distinct, s
            <4>3. ~IsHole(h, g, Place(g, sn[l]))
                BY <4>1, <2>1, <1>15, <1>19
            <4> QED
                BY <4>1, <4>2, <4>3, <2>1, <1>14
        <3>3. CASE i >= m
            <4>1. i \in m..w /\ l \in m..w
                BY <2>1, <3>3, <1>3
            <4>2. CASE i = m /\ l # m
                <5>1. l - m + 1 \in 2..n /\ sn[l] = d[l - m + 1] /\ sn[i] = d[1] /\ IsHole(h, g, Place(g, sn[l]))
                    BY <4>1, <4>2, <1>12
                <5>2. CASE Keeps(h, f, g, t, d)
                    BY <5>1, <5>2, <2>1, <1>5, <1>15 DEF Keeps, s
                <5>3. CASE Settles(h, f, g, t, n, d)
                    BY <5>1, <5>3, <2>1 DEF Settles
                <5> QED
                    BY <5>2, <5>3
            <4>3. CASE i # m /\ l # m
                <5>1. /\ i - m + 1 \in 2..n /\ sn[i] = d[i - m + 1]
                      /\ l - m + 1 \in 2..n /\ sn[l] = d[l - m + 1]
                    BY <4>1, <4>3, <1>12
                <5>2. i - m + 1 = l - m + 1
                    BY <5>1, <2>1 DEF AddsFrames
                <5> QED
                    BY <5>2, <1>3
            <4> QED
                BY <4>2, <4>3, <2>1, <3>3
        <3> QED
            BY <3>1, <3>2, <3>3, <1>3
    <2>2. \A i, l \in 2..w : Place(g, sn[i]) = Place(g, sn[l]) => i = l
        <3>1. \A i, l \in 2..w : i <= l \/ l <= i
            OBVIOUS
        <3> QED
            BY <2>1, <3>1
    <2>3. ASSUME NEW i \in 2..w, NEW j \in 2..q, Place(g, sn[i]) = Place(g, hs[j])
          PROVE  lv[j] = i - 1
        <3>1. CASE i < m
            <4>1. i \in 2..m /\ sn[i] = st[i]
                BY <3>1, <1>3, <1>4
            <4> QED
                BY <4>1, <2>3, <1>1, <1>2, <1>11 DEF Distinct
        <3>2. CASE ~(i < m)
            <4>1. i \in m..w
                BY <3>2, <1>3
            <4>2. ~IsHole(h, g, Place(g, sn[i]))
                BY <2>3, <1>15, <1>19
            <4>3. i = m /\ Place(h, st[m]) = Place(h, hs[j])
                BY <4>1, <4>2, <2>3, <1>2, <1>11, <1>14 DEF s
            <4> QED
                BY <4>3, <1>1, <1>3 DEF Distinct
        <3> QED
            BY <3>1, <3>2
    <2>4. \A j, l \in 2..q : Place(g, hs[j]) = Place(g, hs[l]) => lv[j] = lv[l]
        BY <1>1, <1>2, <1>11 DEF Distinct
    <2> QED
        BY <2>2, <2>3, <2>4 DEF Distinct
<1>21. ASSUME NEW o, o = <<o[1], o[2]>>, IsPlace(h, o), NEW X, Starved(h, X, o), NEW Y,
              \A x \in Y : x \in X \/ h[x[1]].items = <<>>,
              g = f \/ (o # s /\ (s \in X \/ Starved(g, Y, s)))
       PROVE  Starved(g, Y, o)
    <2>1. CASE g = f
        <3>1. Starved(f, Y, o)
            BY <1>21, <1>1, StarvedExtends
        <3> QED
            BY <3>1, <2>1
    <2>2. CASE g # f
        <3>1. o # s /\ (s \in X \/ Starved(g, Y, s))
            BY <1>21, <2>2
        <3>2. PICK v \in Values : g = Write(f, s[1], s[2], v)
            BY <2>2, <1>8 DEF Keeps
        <3> DEFINE Z == IF s \in X THEN Y \cup {s} ELSE Y
        <3>3. \A x \in Z : x \in X \/ h[x[1]].items = <<>>
            BY <1>21
        <3>4. Y \subseteq Z /\ (s \in Z \/ Starved(g, Y, s))
            BY <3>1
        <3> HIDE DEF Z
        <3>5. Starved(f, Z, o)
            BY <1>21, <1>1, <3>3, StarvedExtends
        <3>6. IsPlace(f, s) /\ IsPlace(f, o)
            BY <1>21, <1>5, <1>6
        <3>7. Starved(Write(f, s[1], s[2], v), Y, s) <=> Starved(g, Y, s)
            BY <3>2
        <3>8. Starved(Write(f, s[1], s[2], v), Y, o)
            BY <1>5, <1>21, <3>1, <3>4, <3>5, <3>6, <3>7, StarvedWrite
        <3> QED
            BY <3>8, <3>2
    <2> QED
        BY <2>1, <2>2
<1>22. ASSUME NEW i \in m..w
       PROVE  Place(g, sn[i]) = s \/ h[Place(g, sn[i])[1]].items = <<>>
    BY <1>14 DEF IsHole
<1>23. Waiting(g, w, q, sn, hs, lv)
    <2>1. ASSUME NEW i \in 2..w
          PROVE  Starved(g, FrameCut(g, w, q, sn, hs, i), Place(g, sn[i]))
        <3>1. CASE i < m
            <4> DEFINE o == Place(h, st[i])
                       X == FrameCut(h, m, q, st, hs, i)
                       Y == FrameCut(g, w, q, sn, hs, i)
            <4>1. i \in 2..m /\ sn[i] = st[i] /\ i # m
                BY <3>1, <1>3, <1>4
            <4>2. Place(g, sn[i]) = o /\ Starved(h, X, o) /\ IsPlace(h, o)
                BY <4>1, <1>1, <1>2, <1>11, <1>19 DEF Waiting
            <4>3. o = <<o[1], o[2]>>
                BY DEF Place
            <4>4. o # s /\ s \in X
                BY <4>1, <1>1, <1>3 DEF Distinct, FrameCut, s
            <4>5. ASSUME NEW x \in Y
                  PROVE  x \in X \/ h[x[1]].items = <<>>
                <5>1. x # o
                    BY <4>2 DEF FrameCut
                <5>2. CASE \E j \in 2..q : x = Place(g, hs[j])
                    BY <5>1, <5>2, <1>2, <1>11 DEF FrameCut
                <5>3. ASSUME NEW l \in 2..w, x = Place(g, sn[l])
                      PROVE  x \in X \/ h[x[1]].items = <<>>
                    <6>1. CASE l < m
                        <7>1. l \in 2..m /\ l \in 1..m /\ sn[l] = st[l]
                            BY <6>1, <1>3, <1>4
                        <7>2. x = Place(h, st[l])
                            BY <7>1, <5>3, <1>11
                        <7> QED
                            BY <7>1, <7>2, <5>1 DEF FrameCut
                    <6>2. CASE ~(l < m)
                        <7>1. l \in m..w
                            BY <6>2, <1>3
                        <7> QED
                            BY <7>1, <5>3, <4>4, <1>22
                    <6> QED
                        BY <6>1, <6>2
                <5> QED
                    BY <5>2, <5>3 DEF FrameCut
            <4> HIDE DEF o, X, Y
            <4>6. Starved(g, Y, o)
                BY <4>2, <4>3, <4>4, <4>5, <1>21
            <4> QED
                BY <4>2, <4>6 DEF Y
        <3>2. CASE i >= m /\ IsHole(h, g, Place(g, sn[i]))
            BY <3>2, HolesStarve
        <3>3. CASE i >= m /\ ~IsHole(h, g, Place(g, sn[i]))
            <4> DEFINE X == FrameCut(h, m, q, st, hs, m)
                       Y == FrameCut(g, w, q, sn, hs, m)
            <4>1. i \in m..w
                BY <3>3
            <4>2. i = m /\ g = f /\ Place(g, sn[i]) = s
                BY <3>3, <4>1, <1>14
            <4>3. ASSUME NEW x \in Y
                  PROVE  x \in X \/ h[x[1]].items = <<>>
                <5>1. x # s
                    BY <4>2 DEF FrameCut
                <5>2. CASE \E j \in 2..q : x = Place(g, hs[j])
                    BY <5>1, <5>2, <1>2, <1>11 DEF FrameCut, s
                <5>3. ASSUME NEW l \in 2..w, x = Place(g, sn[l])
                      PROVE  x \in X \/ h[x[1]].items = <<>>
                    <6>1. CASE l < m
                        <7>1. l \in 2..m /\ l \in 1..m /\ sn[l] = st[l]
                            BY <6>1, <1>3, <1>4
                        <7>2. x = Place(h, st[l])
                            BY <7>1, <5>3, <1>11
                        <7> QED
                            BY <7>1, <7>2, <5>1 DEF FrameCut, s
                    <6>2. CASE ~(l < m)
                        <7>1. l \in m..w
                            BY <6>2, <1>3
                        <7> QED
                            BY <7>1, <5>1, <5>3, <1>22
                    <6> QED
                        BY <6>1, <6>2
                <5> QED
                    BY <5>2, <5>3 DEF FrameCut
            <4>4. Starved(h, X, s) /\ IsPlace(h, s) /\ s = <<s[1], s[2]>>
                BY <1>5
            <4> HIDE DEF X, Y
            <4>5. Starved(g, Y, s)
                BY <4>2, <4>3, <4>4, <1>21
            <4> QED
                BY <4>2, <4>5 DEF Y
        <3> QED
            BY <3>1, <3>2, <3>3, <1>3
    <2>2. ASSUME NEW j \in 2..q
          PROVE  Starved(g, HandlerCut(g, w, q, sn, hs, lv, j), Place(g, hs[j]))
        <3> DEFINE o == Place(h, hs[j])
                   X == HandlerCut(h, m, q, st, hs, lv, j)
                   Y == HandlerCut(g, w, q, sn, hs, lv, j)
        <3>1. Place(g, hs[j]) = o /\ Starved(h, X, o) /\ IsPlace(h, o)
            BY <1>1, <1>2, <1>11, <1>19 DEF Waiting
        <3>2. o = <<o[1], o[2]>>
            BY DEF Place
        <3>3. lv[j] \in 0..m - 1
            BY <1>2
        <3>4. ASSUME NEW x \in Y
              PROVE  \/ x \in X
                     \/ /\ h[x[1]].items = <<>>
                        /\ lv[j] # m - 1 \/ x \in Places(g, d, 2, n)
            <4>1. x # o
                BY <3>1 DEF HandlerCut
            <4>2. CASE \E l \in 2..q : (l < j \/ lv[l] # lv[j]) /\ x = Place(g, hs[l])
                BY <4>1, <4>2, <1>2, <1>11 DEF HandlerCut
            <4>3. ASSUME NEW l \in 2..w, l # lv[j] + 1, x = Place(g, sn[l])
                  PROVE  \/ x \in X
                         \/ /\ h[x[1]].items = <<>>
                            /\ lv[j] # m - 1 \/ x \in Places(g, d, 2, n)
                <5>1. CASE l < m
                    <6>1. l \in 2..m /\ l \in 1..m /\ sn[l] = st[l]
                        BY <5>1, <1>3, <1>4
                    <6>2. x = Place(h, st[l])
                        BY <6>1, <4>3, <1>11
                    <6> QED
                        BY <6>1, <6>2, <4>1, <4>3 DEF HandlerCut
                <5>2. CASE l = m
                    <6>1. lv[j] # m - 1 /\ m # lv[j] + 1 /\ m \in m..w
                        BY <5>2, <4>3, <3>3, <1>3
                    <6>2. x = s => x \in X
                        BY <6>1, <4>1, <1>3 DEF HandlerCut, s
                    <6> QED
                        BY <5>2, <6>1, <6>2, <4>3, <1>22
                <5>3. CASE l > m
                    <6>1. l \in m..w /\ l # m
                        BY <5>3, <1>3
                    <6>2. l - m + 1 \in 2..n /\ x = Place(g, d[l - m + 1]) /\ IsHole(h, g, x)
                        BY <6>1, <4>3, <1>12
                    <6> QED
                        BY <6>2 DEF Places, IsHole
                <5> QED
                    BY <5>1, <5>2, <5>3, <1>3
            <4> QED
                BY <4>2, <4>3 DEF HandlerCut
        <3>5. ASSUME lv[j] # m - 1, o # s
              PROVE  s \in X
            BY <3>3, <3>5, <1>2, <1>3 DEF HandlerCut, s
        <3>6. ASSUME o = s
              PROVE  lv[j] = m - 1
            BY <3>6, <1>1, <1>3 DEF Distinct, s
        <3>7. ASSUME NEW x \in X
              PROVE  h[x[1]].items # <<>>
            <4>1. IsPlace(h, x)
                BY <1>19 DEF HandlerCut
            <4> QED
                BY <4>1, <1>6 DEF A
        <3> HIDE DEF o, X, Y
        <3>8. ASSUME lv[j] = m - 1, g # f
              PROVE  Starved(g, Y, s)
            <4>1. Settles(h, f, g, t, n, d)
                BY <3>8 DEF Keeps
            <4>2. \A x \in Y : h[x[1]].items = <<>> => x \in Places(g, d, 2, n)
                BY <3>4, <3>7, <3>8
            <4> QED
                BY <4>1, <4>2 DEF Settles, s
        <3>9. CASE o = s /\ g # f
            BY <3>1, <3>6, <3>8, <3>9 DEF Y
        <3>10. CASE o # s \/ g = f
            <4>1. \A x \in Y : x \in X \/ h[x[1]].items = <<>>
                BY <3>4
            <4>2. g = f \/ (o # s /\ (s \in X \/ Starved(g, Y, s)))
                BY <3>5, <3>8, <3>10
            <4>3. Starved(g, Y, o)
                BY <3>1, <3>2, <4>1, <4>2, <1>21
            <4> QED
                BY <3>1, <4>3 DEF Y
        <3> QED
            BY <3>9, <3>10
    <2> QED
        BY <2>1, <2>2 DEF Waiting
<1>24. ASSUME NEW a \in A, NEW X, X \subseteq FrameCut(h, m, q, st, hs, m) \cup {s}, Ready(h, a, X)
       PROVE  Ready(g, a, X)
    <2> DEFINE Z == FrameCut(h, m, q, st, hs, m)
    <2>1. Ready(f, a, X) /\ a \in Addr
        BY <1>24, ReadyExtends DEF A
    <2>2. CASE g # f
        <3>1. PICK v \in Values : g = Write(f, s[1], s[2], v)
            BY <2>2, <1>8 DEF Keeps
        <3>2. Starved(h, Z, s) /\ IsPlace(h, s) /\ s = <<s[1], s[2]>> /\ IsPlace(f, s)
            BY <1>5, <1>6
        <3>3. X \subseteq Z \cup {s}
            BY <1>24
        <3> HIDE DEF Z
        <3>4. Starved(f, Z, s)
            BY <3>2, <1>1, StarvedExtends
        <3>5. Ready(Write(f, s[1], s[2], v), a, X)
            BY <2>1, <3>2, <3>3, <3>4, ReadyAvoids
        <3> QED
            BY <3>1, <3>5
    <2> QED
        BY <2>1, <2>2
<1>25. Prepared(g, w, q, sn, hs, lv)
    <2>1. ASSUME NEW i \in 1..w
          PROVE  Ready(g, sn[i], Places(g, sn, i + 1, w))
        <3> DEFINE Y == Places(g, sn, i + 1, w)
        <3>1. CASE i < m
            <4> DEFINE X == Places(h, st, i + 1, m)
            <4>1. i \in 1..m /\ sn[i] = st[i] /\ st[i] \in A
                BY <3>1, <1>3, <1>4, <1>7
            <4>2. Ready(f, st[i], X) /\ st[i] \in Addr
                BY <4>1, <1>1, ReadyExtends DEF Prepared, A
            <4>3. X \subseteq Y \cup {s}
                <5> SUFFICES ASSUME NEW l \in i + 1..m, l # m
                             PROVE  Place(h, st[l]) \in Y
                    BY DEF Places, s
                <5>1. l \in 1..m /\ l \in i + 1..w /\ sn[l] = st[l]
                    BY <1>3, <1>4
                <5> QED
                    BY <5>1, <1>11 DEF Places
            <4>4. \A l \in 1..n : Place(g, d[l]) \in Y
                <5> SUFFICES ASSUME NEW l \in 1..n
                             PROVE  Place(g, d[l]) \in Y
                    OBVIOUS
                <5>1. /\ l + m - 1 \in m..w /\ l + m - 1 \in i + 1..w
                      /\ (l + m - 1) - m + 1 = l
                    BY <3>1, <1>3
                <5>2. sn[l + m - 1] = d[l]
                    BY <5>1, <1>4
                <5> QED
                    BY <5>1, <5>2 DEF Places
            <4> HIDE DEF X, Y
            <4>5. CASE Keeps(h, f, g, t, d)
                <5>1. s \in Y
                    BY <4>4, <4>5, <1>3 DEF Keeps, s
                <5>2. Ready(f, st[i], Y)
                    BY <4>2, <4>3, <5>1, ReadyCuts
                <5> QED
                    BY <4>1, <4>5, <5>2 DEF Keeps, Y
            <4>6. CASE Settles(h, f, g, t, n, d)
                <5>1. PICK v \in Values :
                        /\ g = Write(f, h[t].rt, h[t].rti, v)
                        /\ \E R \in SUBSET Addr :
                                Sound(f, R, Places(g, d, 1, n)) /\ v \in R \cup Plain
                    BY <4>6 DEF Settles
                <5>2. PICK R \in SUBSET Addr :
                        Sound(f, R, Places(g, d, 1, n)) /\ v \in R \cup Plain
                    BY <5>1
                <5>3. g = Write(f, s[1], s[2], v) /\ s = <<s[1], s[2]>> /\ IsPlace(f, s)
                    BY <5>1, <1>5, <1>6
                <5>4. Places(g, d, 1, n) \subseteq Y
                    BY <4>4 DEF Places
                <5>5. Sound(f, R, Y)
                    BY <5>2, <5>4, SoundCuts
                <5>6. Ready(Write(f, s[1], s[2], v), st[i], Y)
                    BY <4>2, <4>3, <5>2, <5>3, <5>5, ReadyWritten
                <5> QED
                    BY <4>1, <5>3, <5>6 DEF Y
            <4> QED
                BY <4>5, <4>6
        <3>2. CASE ~(i < m)
            <4> DEFINE l == i - m + 1
            <4>1. i \in m..w
                BY <3>2, <1>3
            <4>2. l \in 1..n /\ sn[i] = d[l]
                BY <4>1, <1>12
            <4>3. Places(g, d, l + 1, n) \subseteq Y
                <5> SUFFICES ASSUME NEW e \in l + 1..n
                             PROVE  Place(g, d[e]) \in Y
                    BY DEF Places
                <5>1. /\ e + m - 1 \in m..w /\ e + m - 1 \in i + 1..w
                      /\ (e + m - 1) - m + 1 = e
                    BY <4>1, <1>3
                <5>2. sn[e + m - 1] = d[e]
                    BY <5>1, <1>4
                <5> QED
                    BY <5>1, <5>2 DEF Places
            <4> HIDE DEF l, Y
            <4>4. Ready(g, d[l], Places(g, d, l + 1, n))
                BY <4>2 DEF AddsFrames
            <4>5. Ready(g, d[l], Y)
                BY <4>3, <4>4, ReadyCuts
            <4> QED
                BY <4>2, <4>5 DEF Y
        <3> QED
            BY <3>1, <3>2
    <2>2. ASSUME NEW j \in 1..q
          PROVE  Ready(g, hs[j], {})
        <3>1. Ready(h, hs[j], {}) /\ hs[j] \in A
            BY <1>1, <1>7 DEF Prepared
        <3> QED
            BY <3>1, <1>24
    <2>3. ASSUME NEW j \in 1..q, NEW i \in 1..lv[j]
          PROVE  Ready(g, sn[i], {Place(g, hs[j])} \cup Places(g, sn, i + 1, lv[j]))
        <3> DEFINE X == {Place(h, hs[j])} \cup Places(h, st, i + 1, lv[j])
        <3>1. j \in 2..q /\ lv[j] \in 0..m - 1
            BY <1>1, <1>2 DEF Counted
        <3>2. i \in 1..m /\ i < m /\ sn[i] = st[i]
            BY <3>1, <1>3, <1>4
        <3>3. Ready(h, st[i], X) /\ st[i] \in A
            BY <3>2, <1>1, <1>7 DEF Prepared
        <3>4. ASSUME NEW l \in i + 1..lv[j]
              PROVE  /\ Place(h, st[l]) \in FrameCut(h, m, q, st, hs, m) \cup {s}
                     /\ Place(g, sn[l]) = Place(h, st[l])
            <4>1. l \in 2..m /\ l \in 1..m /\ sn[l] = st[l]
                BY <3>1, <1>3, <1>4
            <4> QED
                BY <4>1, <1>11 DEF FrameCut, s
        <3>5. Place(h, hs[j]) \in FrameCut(h, m, q, st, hs, m) \cup {s} /\ Place(g, hs[j]) = Place(h, hs[j])
            BY <3>1, <1>11 DEF FrameCut, s
        <3>6. X \subseteq FrameCut(h, m, q, st, hs, m) \cup {s}
            BY <3>4, <3>5 DEF Places
        <3>7. X = {Place(g, hs[j])} \cup Places(g, sn, i + 1, lv[j])
            BY <3>4, <3>5 DEF Places
        <3> HIDE DEF X
        <3>8. Ready(g, st[i], X)
            BY <3>3, <3>6, <1>24
        <3> QED
            BY <3>2, <3>7, <3>8
    <2> QED
        BY <2>1, <2>2, <2>3 DEF Prepared
<1>26. Stacked(g, w, q, sn, hs, lv, hn)
    BY <1>10, <1>17, <1>18, <1>20, <1>23, <1>25 DEF Stacked
<1> QED
    BY <1>3, <1>4, <1>26 DEF Puts

-----------------------------------------------------------------------------
\* The frame at the end of its stack takes another one's place.
LEMMA FirstFrameBecomes ==
    ASSUME NEW h, NEW g \in Heaps, NEW st, NEW hs, NEW lv, NEW he,
           Stacked(h, 1, 0, st, hs, lv, he), NEW a \in Addr,
           IsTree(g[a]), g[a].items # <<>>, g[a].items[1] \in {Result, Exception}, Ready(g, a, {})
    PROVE  \E sn : sn[1] = a /\ Stacked(g, 1, 0, sn, hs, lv, he)
<1> DEFINE sn == [i \in Nat |-> a]
<1>1. sn \in [Nat -> Addr] /\ sn[1] = a
    OBVIOUS
<1>2. Counted(1, 0, st, hs, lv, he)
    BY DEF Stacked
<1>3. (1..0 = {}) /\ (2..1 = {}) /\ (2..0 = {}) /\ (1..1 = {1}) /\ (1 + 1 = 2)
    OBVIOUS
<1> HIDE DEF sn
<1>4. Counted(1, 0, sn, hs, lv, he)
    BY <1>1, <1>2 DEF Counted
<1>5. Linked(g, 1, 0, sn, hs, lv, he)
    BY <1>1, <1>3 DEF Linked, FirstFrame
<1>6. Distinct(g, 1, 0, sn, hs, lv) /\ Waiting(g, 1, 0, sn, hs, lv)
    BY <1>3 DEF Distinct, Waiting
<1>7. Prepared(g, 1, 0, sn, hs, lv)
    <2>1. Places(g, sn, 1 + 1, 1) = {}
        BY <1>3 DEF Places
    <2> QED
        BY <2>1, <1>1, <1>3 DEF Prepared
<1> QED
    BY <1>1, <1>4, <1>5, <1>6, <1>7 DEF Stacked

\* The last frame, t, gets a handler H of its own.
LEMMA HandlerAdded ==
    ASSUME NEW h, NEW g \in Heaps, NEW m, NEW q, NEW st, NEW hs, NEW lv, NEW he,
           Stacked(h, m, q, st, hs, lv, he), m >= 2,
           \A j \in 1..q : hs[j] # st[m],
           NEW H \in Addr, H # st[m], h[H].items # <<>>,
           h[H].k = h[st[m]].k, h[H].exc = h[st[m]].exc, Place(h, H) = Place(h, st[m]),
           Ready(h, H, {}),
           g[st[m]].exc = H,
           \A a \in Addr : /\ g[a].rt = h[a].rt /\ g[a].rti = h[a].rti /\ g[a].k = h[a].k
                           /\ g[a].items = h[a].items
                           /\ a # st[m] => g[a].exc = h[a].exc
    PROVE  \E hn, ln, en : Stacked(g, m, q + 1, st, hn, ln, en)
<1> DEFINE t == st[m]
           p == q + 1
           hn == [hs EXCEPT ![p] = H]
           ln == [lv EXCEPT ![p] = m - 1]
           en == [he EXCEPT ![m] = p]
<1>1. /\ h \in Heaps
      /\ Counted(m, q, st, hs, lv, he)
      /\ Linked(h, m, q, st, hs, lv, he)
      /\ Distinct(h, m, q, st, hs, lv)
      /\ Waiting(h, m, q, st, hs, lv)
      /\ Prepared(h, m, q, st, hs, lv)
    BY DEF Stacked
<1>2. /\ m \in Nat /\ q \in Nat /\ q >= 1
      /\ \A i \in 2..m : i \in 1..m /\ i - 1 \in 1..m
      /\ \A j \in 2..q : j \in 1..q /\ j - 1 \in 1..q
      /\ \A i \in 1..m : st[i] \in Addr
      /\ \A j \in 1..q : hs[j] \in Addr
      /\ \A j \in 1..q : lv[j] \in 0..m - 1
      /\ q \in 1..q /\ he[m] = q
    BY <1>1, Sizes
<1>3. /\ m \in 2..m /\ m \in 1..m /\ m - 1 \in 1..m - 1 /\ m - 1 \in Nat /\ p \in Nat /\ p >= 2
      /\ \A j \in 1..p : j # p => j \in 1..q
      /\ \A j \in 2..p : j # p => j \in 2..q
      /\ \A j \in 1..q : j \in 1..p /\ j # p
      /\ \A j \in 2..q : j \in 2..p
      /\ p \in 2..p /\ p - 1 = q /\ p = q + 1 /\ t \in Addr
    BY <1>2
<1>4. /\ hn \in [Nat -> Addr] /\ ln \in [Nat -> Nat] /\ en \in [Nat -> Nat]
      /\ hn[p] = H /\ ln[p] = m - 1 /\ en[m] = p
      /\ \A j \in 1..q : hn[j] = hs[j] /\ ln[j] = lv[j]
      /\ \A i \in Nat : i # m => en[i] = he[i]
      /\ \A j \in 1..p : ln[j] \in 0..m - 1
    <2>1. hs \in [Nat -> Addr] /\ lv \in [Nat -> Nat] /\ he \in [Nat -> Nat]
        BY <1>1 DEF Counted
    <2>2. \A j \in 1..q : j \in Nat /\ j # p
        BY <1>2
    <2>3. /\ hn \in [Nat -> Addr] /\ ln \in [Nat -> Nat] /\ en \in [Nat -> Nat]
          /\ hn[p] = H /\ ln[p] = m - 1 /\ en[m] = p
          /\ \A j \in 1..q : hn[j] = hs[j] /\ ln[j] = lv[j]
          /\ \A i \in Nat : i # m => en[i] = he[i]
        BY <2>1, <2>2, <1>2, <1>3
    <2>4. ASSUME NEW j \in 1..p
          PROVE  ln[j] \in 0..m - 1
        <3>1. CASE j = p
            BY <3>1, <2>3, <1>2
        <3>2. CASE j # p
            BY <3>2, <2>3, <1>2, <1>3
        <3> QED
            BY <3>1, <3>2
    <2> QED
        BY <2>3, <2>4
<1>5. /\ \A a \in Addr : Place(g, a) = Place(h, a)
      /\ \A s : IsPlace(h, s) => IsPlace(g, s)
      /\ \A Q \in SUBSET Addr : \A X : Within(g, Q, X) => Within(h, Q, X)
      /\ \A s : IsPlace(h, s) => Content(g, s) = Content(h, s)
    BY DEF Place, IsPlace, Within, Content
<1>6. ASSUME NEW s, IsPlace(h, s), NEW X, Starved(h, X, s)
      PROVE  Starved(g, X, s)
    BY <1>5, <1>6 DEF Starved
<1>7. h[t].rt \in Addr /\ ~IsTree(h[t]) /\ IsPlace(h, Place(h, t))
    <2>1. IsPlace(h, Place(h, t))
        BY <1>1, <1>3 DEF Linked, FrameLinks
    <2> QED
        BY <2>1, NoValueIsNil DEF IsPlace, Place, IsTree
<1>8. ASSUME NEW a \in Addr, NEW X, Ready(h, a, X)
      PROVE  Ready(g, a, X)
    <2>1. PICK R \in SUBSET Addr :
            /\ Sound(h, R, X)
            /\ \A i \in DOMAIN h[a].items :
                   \/ <<a, i>> \in X
                   \/ h[a].items[i] \in R \cup Plain
                   \/ i = 1 /\ h[a].rt = Nil
        BY <1>8 DEF Ready
    <2>2. \A b \in R : IsTree(h[b]) /\ b # t
        BY <2>1, <1>7 DEF Sound
    <2>3. \A b \in R : IsTree(g[b])
        BY <2>2 DEF IsTree
    <2>4. Sound(g, R, X)
        BY <2>1, <2>3 DEF Sound
    <2> QED
        BY <2>1, <2>4 DEF Ready
<1> HIDE DEF p, hn, ln, en
<1>9. Counted(m, p, st, hn, ln, en)
    <2>1. ASSUME NEW i \in 2..m
          PROVE  en[i] \in 1..p /\ \A j \in 1..p : j <= en[i] <=> ln[j] < i
        <3>1. CASE i = m
            <4>1. \A j \in 1..p : ln[j] < m
                BY <1>2, <1>4
            <4>2. \A j \in 1..p : j <= p
                OBVIOUS
            <4> QED
                <5>1. en[i] = p /\ p \in 1..p
                    BY <3>1, <1>3, <1>4
                <5> QED
                    BY <3>1, <5>1, <4>1, <4>2
        <3>2. CASE i # m
            <4>1. he[i] \in 1..q /\ \A j \in 1..q : j <= he[i] <=> lv[j] < i
                BY <1>1 DEF Counted
            <4>0. i \in Nat /\ i <= m - 1
                BY <3>2, <1>2
            <4>2. en[i] = he[i] /\ en[i] \in 1..p /\ ~(p <= en[i])
                <5>1. en[i] = he[i]
                    BY <3>2, <4>0, <1>4
                <5> QED
                    BY <5>1, <4>1, <1>2, <1>3
            <4>3. ~(ln[p] < i)
                BY <4>0, <1>2, <1>4
            <4> QED
                BY <4>1, <4>2, <4>3, <1>3, <1>4
        <3> QED
            BY <3>1, <3>2
    <2>2. ln[1] = 0
        BY <1>1, <1>2, <1>4 DEF Counted
    <2>3. \A j \in 2..p : ln[j] \in 1..m - 1
        <3>1. \A j \in 2..q : lv[j] \in 1..m - 1
            BY <1>1 DEF Counted
        <3> QED
            BY <3>1, <1>2, <1>3, <1>4
    <2>4. ASSUME NEW j \in 1..p, NEW l \in 1..p, j <= l
          PROVE  ln[j] <= ln[l]
        <3>1. CASE l = p
            <4>1. \A e \in 1..p : ln[e] <= m - 1
                BY <1>2, <1>4
            <4> QED
                BY <3>1, <4>1, <1>4
        <3>2. CASE l # p
            <4>1. l \in 1..q /\ j \in 1..q
                BY <2>4, <3>2, <1>2, <1>3
            <4> QED
                BY <4>1, <2>4, <1>1, <1>4 DEF Counted
        <3> QED
            BY <3>1, <3>2
    <2>5. st \in [Nat -> Addr] /\ m \in Nat \ {0} /\ m # 1 /\ p # 0
        <3>1. p # 0 /\ m # 1
            BY <1>2, <1>3
        <3> QED
            BY <3>1, <1>1 DEF Counted
    <2> QED
        BY <2>1, <2>2, <2>3, <2>4, <2>5, <1>3, <1>4 DEF Counted
<1>10. ASSUME NEW i \in 1..m, i # m
       PROVE  st[i] # t
    <2>1. CASE i = 1
        BY <2>1, <1>1, <1>7 DEF Linked, FirstFrame
    <2>2. CASE i # 1
        <3>1. i \in 2..m
            BY <2>2
        <3> QED
            BY <3>1, <1>3, <1>10, <1>1 DEF Distinct
    <2> QED
        BY <2>1, <2>2
<1>11. Linked(g, m, p, st, hn, ln, en)
    <2>1. ASSUME NEW i \in 2..m
          PROVE  FrameLinks(g, st, hn, en, i)
        <3>1. FrameLinks(h, st, hs, he, i)
            BY <1>1 DEF Linked
        <3>2. st[i] \in Addr /\ i \in Nat
            BY <1>2
        <3>3. g[st[i]].k = st[i - 1] /\ IsPlace(g, Place(g, st[i]))
            BY <3>1, <3>2, <1>5 DEF FrameLinks
        <3>4. g[st[i]].exc = hn[en[i]]
            <4>1. CASE i = m
                BY <4>1, <1>4
            <4>2. CASE i # m
                <5>1. he[i] \in 1..q /\ st[i] # t
                    BY <4>2, <1>1, <1>2, <1>10 DEF Counted
                <5> QED
                    BY <5>1, <4>2, <3>1, <3>2, <1>4 DEF FrameLinks
            <4> QED
                BY <4>1, <4>2
        <3> QED
            BY <3>3, <3>4 DEF FrameLinks
    <2>2. ASSUME NEW j \in 2..p
          PROVE  HandlerLinks(g, st, hn, ln, j)
        <3>1. CASE j = p
            <4>1. g[H].k = st[m - 1] /\ g[H].exc = hs[q]
                BY <1>1, <1>2, <1>3 DEF Linked, FrameLinks
            <4>2. IsPlace(g, Place(g, H))
                BY <1>5, <1>7
            <4>3. hn[j - 1] = hs[q]
                BY <3>1, <1>2, <1>3, <1>4
            <4> QED
                BY <3>1, <4>1, <4>2, <4>3, <1>4 DEF HandlerLinks
        <3>2. CASE j # p
            <4>1. j \in 2..q /\ j \in 1..q /\ j - 1 \in 1..q
                BY <3>2, <1>2, <1>3
            <4>2. HandlerLinks(h, st, hs, lv, j)
                BY <4>1, <1>1 DEF Linked
            <4>3. hs[j] \in Addr /\ hs[j] # t
                BY <4>1, <1>2
            <4> QED
                BY <4>1, <4>2, <4>3, <1>4, <1>5 DEF HandlerLinks
        <3> QED
            BY <3>1, <3>2
    <2>3. FirstFrame(g, st)
        <3>1. 1 \in 1..m /\ 1 # m /\ st[1] \in Addr
            BY <1>2
        <3>2. st[1] # t
            BY <3>1, <1>10
        <3> QED
            BY <3>1, <3>2, <1>1 DEF Linked, FirstFrame, IsTree
    <2>4. FirstHandler(g, hn)
        <3>1. 1 \in 1..q
            BY <1>2
        <3>2. hn[1] = hs[1] /\ hs[1] \in Addr /\ hs[1] # t
            BY <3>1, <1>2, <1>4
        <3> QED
            BY <3>2, <1>1, <1>2 DEF Linked, FirstHandler, IsTree
    <2>5. \A i \in 1..m : g[st[i]].items # <<>>
        BY <1>1, <1>2 DEF Linked
    <2>6. \A j \in 1..p : g[hn[j]].items # <<>>
        <3>1. \A j \in 1..q : h[hs[j]].items # <<>>
            BY <1>1 DEF Linked
        <3>2. \A j \in 1..q : hn[j] = hs[j] /\ hs[j] \in Addr
            BY <1>2, <1>4
        <3>3. \A j \in 1..p : j = p \/ j \in 1..q
            BY <1>3
        <3>4. \A a \in Addr : g[a].items = h[a].items
            OBVIOUS
        <3>5. \A j \in 1..q : g[hn[j]].items # <<>>
            BY <3>1, <3>2, <3>4
        <3>6. g[hn[p]].items # <<>>
            BY <3>4, <1>4
        <3> QED
            BY <3>3, <3>5, <3>6
    <2> QED
        BY <2>1, <2>2, <2>3, <2>4, <2>5, <2>6 DEF Linked
<1>12. /\ \A i \in 1..m : Place(g, st[i]) = Place(h, st[i])
       /\ \A j \in 1..q : Place(g, hn[j]) = Place(h, hs[j])
       /\ Place(g, hn[p]) = Place(h, t) /\ Place(g, st[m]) = Place(h, t)
       /\ \A j \in 2..p : j # p => j \in 1..q
    <2>1. \A a \in Addr : Place(g, a) = Place(h, a)
        BY <1>5
    <2>2. \A j \in 1..q : hn[j] = hs[j] /\ hs[j] \in Addr
        BY <1>2, <1>4
    <2>3. hn[p] = H
        BY <1>4
    <2>4. \A j \in 2..p : j # p => j \in 1..q
        BY <1>2, <1>3
    <2> QED
        BY <2>1, <2>2, <2>3, <2>4, <1>2, <1>3
<1>13. Distinct(g, m, p, st, hn, ln)
    <2>1. \A i, l \in 2..m : Place(g, st[i]) = Place(g, st[l]) => i = l
        BY <1>1, <1>2, <1>12 DEF Distinct
    <2>2. ASSUME NEW i \in 2..m, NEW j \in 2..p, Place(g, st[i]) = Place(g, hn[j])
          PROVE  ln[j] = i - 1
        <3>1. CASE j = p
            BY <3>1, <2>2, <1>1, <1>2, <1>3, <1>4, <1>12 DEF Distinct
        <3>2. CASE j # p
            BY <3>2, <2>2, <1>1, <1>2, <1>3, <1>4, <1>12 DEF Distinct
        <3> QED
            BY <3>1, <3>2
    <2>3. ASSUME NEW j \in 2..p, NEW l \in 2..p, Place(g, hn[j]) = Place(g, hn[l]), l # p
          PROVE  ln[j] = ln[l]
        <3>1. l \in 2..q
            BY <2>3, <1>3
        <3>2. CASE j = p
            BY <3>1, <3>2, <2>3, <1>1, <1>2, <1>3, <1>4, <1>12 DEF Distinct
        <3>3. CASE j # p
            BY <3>1, <3>3, <2>3, <1>1, <1>2, <1>3, <1>4, <1>12 DEF Distinct
        <3> QED
            BY <3>2, <3>3
    <2>4. \A j, l \in 2..p : Place(g, hn[j]) = Place(g, hn[l]) => ln[j] = ln[l]
        BY <2>3
    <2> QED
        BY <2>1, <2>2, <2>4 DEF Distinct
<1>14. Waiting(g, m, p, st, hn, ln)
    <2>1. ASSUME NEW i \in 2..m
          PROVE  Starved(g, FrameCut(g, m, p, st, hn, i), Place(g, st[i]))
        <3>1. FrameCut(g, m, p, st, hn, i) \subseteq FrameCut(h, m, q, st, hs, i)
            BY <1>2, <1>3, <1>12 DEF FrameCut
        <3>2. /\ Starved(h, FrameCut(h, m, q, st, hs, i), Place(h, st[i]))
              /\ IsPlace(h, Place(h, st[i]))
            BY <1>1 DEF Waiting, Linked, FrameLinks
        <3>3. Starved(g, FrameCut(h, m, q, st, hs, i), Place(h, st[i]))
            BY <3>2, <1>6
        <3> QED
            BY <3>1, <3>3, <1>2, <1>12, StarvedCuts
    <2>2. ASSUME NEW j \in 2..p
          PROVE  Starved(g, HandlerCut(g, m, p, st, hn, ln, j), Place(g, hn[j]))
        <3>1. CASE j = p
            <4>1. HandlerCut(g, m, p, st, hn, ln, j) \subseteq FrameCut(h, m, q, st, hs, m)
                BY <3>1, <1>2, <1>3, <1>12 DEF FrameCut, HandlerCut
            <4>2. /\ Starved(h, FrameCut(h, m, q, st, hs, m), Place(h, st[m]))
                  /\ IsPlace(h, Place(h, st[m]))
                BY <1>1, <1>3 DEF Waiting, Linked, FrameLinks
            <4>3. Starved(g, FrameCut(h, m, q, st, hs, m), Place(h, st[m]))
                BY <4>2, <1>6
            <4> QED
                BY <3>1, <4>1, <4>3, <1>12, StarvedCuts
        <3>2. CASE j # p
            <4>1. j \in 2..q /\ j \in 1..q
                BY <3>2, <1>3
            <4>2. ASSUME NEW x \in HandlerCut(g, m, p, st, hn, ln, j)
                  PROVE  x \in HandlerCut(h, m, q, st, hs, lv, j)
                <5>1. x # Place(h, hs[j])
                    BY <4>1, <1>12 DEF HandlerCut
                <5>2. CASE \E i \in 2..m : i # ln[j] + 1 /\ x = Place(g, st[i])
                    <6>1. PICK i \in 2..m : i # ln[j] + 1 /\ x = Place(g, st[i])
                        BY <5>2
                    <6>2. i # lv[j] + 1
                        BY <6>1, <4>1, <1>4
                    <6>3. x = Place(h, st[i])
                        BY <6>1, <1>2, <1>12
                    <6> QED
                        BY <5>1, <6>2, <6>3 DEF HandlerCut
                <5>3. CASE \E l \in 2..p : l # p /\ (l < j \/ ln[l] # ln[j]) /\ x = Place(g, hn[l])
                    BY <5>1, <5>3, <4>1, <1>3, <1>4, <1>12 DEF HandlerCut
                <5>4. CASE (p < j \/ ln[p] # ln[j]) /\ x = Place(g, hn[p])
                    <6>1. ~(p < j) /\ m # lv[j] + 1
                        <7>1. ln[p] = m - 1 /\ ln[j] = lv[j] /\ lv[j] \in 0..m - 1
                            BY <4>1, <1>2, <1>4
                        <7>2. ~(p < j)
                            BY <4>1, <1>2, <1>3
                        <7> QED
                            BY <5>4, <7>1, <7>2, <1>2
                    <6>2. x = Place(h, st[m])
                        BY <5>4, <1>12
                    <6> QED
                        BY <5>1, <6>1, <6>2, <1>3 DEF HandlerCut
                <5> QED
                    BY <5>2, <5>3, <5>4 DEF HandlerCut
            <4>3. /\ Starved(h, HandlerCut(h, m, q, st, hs, lv, j), Place(h, hs[j]))
                  /\ IsPlace(h, Place(h, hs[j]))
                BY <4>1, <1>1 DEF Waiting, Linked, HandlerLinks
            <4>4. Starved(g, HandlerCut(h, m, q, st, hs, lv, j), Place(h, hs[j]))
                BY <4>3, <1>6
            <4>5. HandlerCut(g, m, p, st, hn, ln, j) \subseteq HandlerCut(h, m, q, st, hs, lv, j)
                BY <4>2
            <4> QED
                BY <4>1, <4>4, <4>5, <1>12, StarvedCuts
        <3> QED
            BY <3>1, <3>2
    <2> QED
        BY <2>1, <2>2 DEF Waiting
<1>15. Prepared(g, m, p, st, hn, ln)
    <2>0. ASSUME NEW i \in 1..m, NEW l \in 0..m
          PROVE  Places(g, st, i + 1, l) = Places(h, st, i + 1, l)
        <3>1. \A e \in i + 1..l : e \in 1..m
            BY <1>2
        <3> QED
            BY <3>1, <1>12 DEF Places
    <2>1. ASSUME NEW i \in 1..m
          PROVE  Ready(g, st[i], Places(g, st, i + 1, m))
        <3>1. Ready(h, st[i], Places(h, st, i + 1, m)) /\ st[i] \in Addr
            BY <1>1, <1>2 DEF Prepared
        <3>2. m \in 0..m
            BY <1>2
        <3> QED
            BY <3>1, <3>2, <2>0, <1>8
    <2>2. ASSUME NEW j \in 1..p
          PROVE  Ready(g, hn[j], {})
        <3>1. CASE j = p
            BY <3>1, <1>4, <1>8
        <3>2. CASE j # p
            <4>1. j \in 1..q
                BY <3>2, <1>3
            <4> QED
                BY <4>1, <1>1, <1>2, <1>4, <1>8 DEF Prepared
        <3> QED
            BY <3>1, <3>2
    <2>3. ASSUME NEW j \in 1..p, NEW i \in 1..ln[j]
          PROVE  Ready(g, st[i], {Place(g, hn[j])} \cup Places(g, st, i + 1, ln[j]))
        <3>1. CASE j = p
            <4>1. i \in 1..m - 1 /\ i \in 1..m /\ m - 1 \in 0..m /\ m \in 0..m
                <5>1. i \in 1..m - 1
                    BY <3>1, <1>4
                <5> QED
                    BY <5>1, <1>2
            <4>2. {Place(h, t)} \cup Places(h, st, i + 1, m - 1) = Places(h, st, i + 1, m)
                <5>1. i + 1..m = (i + 1..m - 1) \cup {m}
                    BY <4>1, <1>2
                <5> QED
                    BY <5>1 DEF Places
            <4>3. Ready(g, st[i], Places(g, st, i + 1, m))
                BY <2>1, <4>1
            <4>4. Places(g, st, i + 1, m) = {Place(g, hn[j])} \cup Places(g, st, i + 1, m - 1)
                BY <3>1, <4>1, <4>2, <2>0, <1>12
            <4> QED
                BY <3>1, <4>3, <4>4, <1>4
        <3>2. CASE j # p
            <4>1. j \in 1..q /\ ln[j] = lv[j] /\ lv[j] \in 0..m - 1 /\ hn[j] = hs[j]
                BY <3>2, <1>2, <1>3, <1>4
            <4>2. i \in 1..m /\ lv[j] \in 0..m
                BY <4>1, <1>2
            <4>3. Ready(h, st[i], {Place(h, hs[j])} \cup Places(h, st, i + 1, lv[j]))
                BY <4>1, <1>1 DEF Prepared
            <4>4. /\ Places(g, st, i + 1, lv[j]) = Places(h, st, i + 1, lv[j])
                  /\ Place(g, hn[j]) = Place(h, hs[j])
                BY <2>0, <4>1, <4>2, <1>12
            <4> QED
                BY <4>1, <4>2, <4>3, <4>4, <1>2, <1>8
        <3> QED
            BY <3>1, <3>2
    <2> QED
        BY <2>1, <2>2, <2>3 DEF Prepared
<1>16. Stacked(g, m, p, st, hn, ln, en)
    BY <1>9, <1>11, <1>13, <1>14, <1>15 DEF Stacked
<1> QED
    BY <1>16 DEF p

=============================================================================
