--------------------------- MODULE EgelFutureProofs ---------------------------
(***************************************************************************)
(* Proofs about EgelFuture, for every set of tasks.                        *)
(***************************************************************************)
EXTENDS EgelFuture, FiniteSetTheorems, TLAPS

\* The futures a thread may come to wait for.
Reach(t) == holds[t] \cup doomed[t]

(***************************************************************************)
(* No circle of references.  A set of tasks each of which reaches a member *)
(* of the set would be, or contain, a circle.                              *)
(***************************************************************************)
NoReferenceCycle ==
    ~shared =>
        \A S \in SUBSET Tasks :
            (\A f \in S : Reach(f) \cap S # {}) => S = {}

\* Nothing refers to a task that was not started.
Fresh ==
    \A f \in Tasks : pc[f] = "unborn" =>
        /\ Reach(f) = {}
        /\ \A p \in Places : f \notin place[p]
        /\ \A t \in Threads : f \notin Reach(t)

\* Places are empty as long as handles are not shared; a thread in await holds the
\* future it awaits; only a task that has ended is ready, or was awaited.
Blocking ==
    /\ ~shared => \A p \in Places : place[p] = {}
    /\ \A t \in Threads : pc[t] = "awaiting" =>
          target[t] \in holds[t] \/ (crashed /\ target[t] = None)
    /\ \A f \in Tasks : ready[f] => pc[f] = "done"
    /\ \A f \in Tasks : pc[f] # "unborn" /\ ~valid[f] => pc[f] = "done"

IInv == TypeOK /\ Fresh /\ Blocking /\ NoReferenceCycle

\* Each new reference goes where two old ones led.
Shortcuts ==
    \A u \in Threads : \A g \in Reach(u)' :
        g \in Reach(u) \/ \E h \in Reach(u) : g \in Reach(h)

-----------------------------------------------------------------------------
LEMMA InitIInv == Init => IInv
  <1> SUFFICES ASSUME Init PROVE IInv
    OBVIOUS
  <1> USE FutureAssumption DEF Init
  <1>1. TypeOK /\ Fresh /\ Blocking
    BY DEF TypeOK, Threads, Places, Fresh, Blocking, Reach
  <1>2. \A f \in Tasks : Reach(f) = {}
    BY DEF Reach, Threads
  <1>3. NoReferenceCycle
    BY <1>2 DEF NoReferenceCycle
  <1> QED
    BY <1>1, <1>3 DEF IInv

\* Shortcuts close no circle: adding the middle of each to a circle of new
\* references gives a circle of old ones.
LEMMA NoNewCycle ==
    ASSUME TypeOK, NoReferenceCycle, Shortcuts, shared' = shared
    PROVE  NoReferenceCycle'
  <1> SUFFICES ASSUME ~shared, NEW S \in SUBSET Tasks,
                      \A f \in S : Reach(f)' \cap S # {}
               PROVE  S = {}
    BY DEF NoReferenceCycle
  <1> DEFINE Middle == {h \in Tasks : Reach(h) \cap S # {}}
             T == S \cup Middle
  <1>1. \A h \in Tasks : Reach(h) \subseteq Tasks
    BY DEF TypeOK, Reach, Threads
  <1>2. ASSUME NEW f \in S
        PROVE  Reach(f) \cap T # {}
    <2>1. PICK g \in S : g \in Reach(f)'
      OBVIOUS
    <2>2. g \in Reach(f) \/ \E h \in Reach(f) : g \in Reach(h)
      BY <2>1 DEF Shortcuts, Threads
    <2>3. CASE \E h \in Reach(f) : g \in Reach(h)
      BY <2>3, <1>1
    <2> QED
      BY <2>2, <2>3
  <1>3. \A f \in T : Reach(f) \cap T # {}
    BY <1>2
  <1>4. T = {}
    BY <1>3 DEF NoReferenceCycle
  <1> QED
    BY <1>4

\* A step that starts no task and adds only shortcuts keeps the references.
LEMMA ShortcutStep ==
    ASSUME TypeOK, Fresh, NoReferenceCycle, Shortcuts,
           UNCHANGED <<place, shared>>,
           \A f \in Tasks : pc'[f] = "unborn" => pc[f] = "unborn"
    PROVE  Fresh' /\ NoReferenceCycle'
  <1>1. ASSUME NEW f \in Tasks, pc'[f] = "unborn"
        PROVE  Reach(f)' = {} /\ \A t \in Threads : f \notin Reach(t)'
    <2>1. Reach(f) = {} /\ \A t \in Threads : f \notin Reach(t)
      BY <1>1 DEF Fresh
    <2>2. Reach(f)' = {}
      BY <2>1 DEF Shortcuts, Threads
    <2>3. \A t \in Threads : \A h \in Reach(t) : h \in Threads
      BY DEF TypeOK, Reach, Threads
    <2>4. \A t \in Threads : f \notin Reach(t)'
      BY <2>1, <2>3 DEF Shortcuts
    <2> QED
      BY <2>2, <2>4
  <1>2. Fresh'
    BY <1>1 DEF Fresh
  <1> QED
    BY <1>2, NoNewCycle

\* What letting go of X does to the references and the threads.
LEMMA LetGoEffect ==
    ASSUME TypeOK,
           NEW t \in Threads, NEW e \in Threads, NEW K \in SUBSET Tasks,
           NEW X \in SUBSET Tasks, NEW next \in {"dropping", "ending"},
           LetGo(t, K, X, e, next)
    PROVE  /\ holds' \in [Threads -> SUBSET Tasks]
           /\ doomed' \in [Threads -> SUBSET Tasks]
           /\ pc' \in [Threads -> {"unborn", "running", "awaiting",
                                   "dropping", "ending", "done"}]
           /\ \A g \in Reach(t)' : g \in K \/ g \in X \/ g \in doomed[t]
           /\ \A u \in Threads : u # t => Reach(u)' \subseteq Reach(u)
           /\ \A u \in Threads : u # t /\ u # e => holds'[u] = holds[u]
           /\ pc'[t] \in {"running", "dropping", "ending"}
           /\ \A u \in Threads : u # t => pc'[u] = pc[u]
  <1> DEFINE h == [holds EXCEPT ![t] = K, ![e] = IF e = t THEN K ELSE {}]
             d == Unreferenced(h, place, X)
  <1>1. /\ holds' = h
        /\ doomed' = [doomed EXCEPT ![t] = @ \cup d]
        /\ pc' = [pc EXCEPT ![t] = IF d = {} /\ next = "dropping" THEN "running" ELSE next]
    BY DEF LetGo
  <1>2. d \subseteq X
    BY DEF Unreferenced
  <1>3. /\ h \in [Threads -> SUBSET Tasks]
        /\ h[t] = K
        /\ \A u \in Threads \ {t} : h[u] \subseteq holds[u]
        /\ \A u \in Threads \ {t, e} : h[u] = holds[u]
    BY DEF TypeOK
  <1> HIDE DEF h, d
  <1>4. /\ doomed' \in [Threads -> SUBSET Tasks]
        /\ doomed'[t] = doomed[t] \cup d
        /\ \A u \in Threads \ {t} : doomed'[u] = doomed[u]
    BY <1>1, <1>2 DEF TypeOK
  <1>5. /\ pc' \in [Threads -> {"unborn", "running", "awaiting",
                                "dropping", "ending", "done"}]
        /\ pc'[t] \in {"running", "dropping", "ending"}
        /\ \A u \in Threads \ {t} : pc'[u] = pc[u]
    BY <1>1 DEF TypeOK
  <1> QED
    BY <1>1, <1>2, <1>3, <1>4, <1>5 DEF Reach

\* The thread only loses references, and only it moves.
OnlyLoses(t) ==
    /\ holds' \in [Threads -> SUBSET Tasks]
    /\ doomed' \in [Threads -> SUBSET Tasks]
    /\ pc' \in [Threads -> {"unborn", "running", "awaiting",
                            "dropping", "ending", "done"}]
    /\ Reach(t)' \subseteq Reach(t)
    /\ \A u \in Threads : u # t => Reach(u)' \subseteq Reach(u)
    /\ \A u \in Threads : u # t => holds'[u] = holds[u]
    /\ pc'[t] \in {"running", "dropping", "ending"}
    /\ \A u \in Threads : u # t => pc'[u] = pc[u]

\* Letting go of what the thread itself holds.
LEMMA LetGoSelf ==
    ASSUME TypeOK,
           NEW t \in Threads, NEW K \in SUBSET Tasks,
           NEW X \in SUBSET Tasks, NEW next \in {"dropping", "ending"},
           LetGo(t, K, X, t, next),
           K \subseteq holds[t], X \subseteq holds[t]
    PROVE  OnlyLoses(t)
  <1> DEFINE d == Unreferenced(holds', place, X)
  <1>1. holds' = [holds EXCEPT ![t] = K]
    BY DEF LetGo, TypeOK
  <1>2. /\ doomed' = [doomed EXCEPT ![t] = @ \cup d]
        /\ pc' = [pc EXCEPT ![t] = IF d = {} /\ next = "dropping" THEN "running" ELSE next]
    BY DEF LetGo
  <1>3. d \subseteq X
    BY DEF Unreferenced
  <1> HIDE DEF d
  <1>4. /\ holds' \in [Threads -> SUBSET Tasks]
        /\ holds'[t] = K
        /\ \A u \in Threads : u # t => holds'[u] = holds[u]
    BY <1>1 DEF TypeOK
  <1>5. /\ doomed' \in [Threads -> SUBSET Tasks]
        /\ doomed'[t] = doomed[t] \cup d
        /\ \A u \in Threads : u # t => doomed'[u] = doomed[u]
    BY <1>2, <1>3 DEF TypeOK
  <1>6. /\ pc' \in [Threads -> {"unborn", "running", "awaiting",
                                "dropping", "ending", "done"}]
        /\ pc'[t] \in {"running", "dropping", "ending"}
        /\ \A u \in Threads : u # t => pc'[u] = pc[u]
    BY <1>2 DEF TypeOK
  <1>7. Reach(t)' \subseteq Reach(t)
    BY <1>3, <1>4, <1>5 DEF Reach
  <1>8. \A u \in Threads : u # t => Reach(u)' \subseteq Reach(u)
    BY <1>4, <1>5 DEF Reach
  <1> QED
    BY <1>4, <1>5, <1>6, <1>7, <1>8 DEF OnlyLoses

-----------------------------------------------------------------------------
\* A C++ exception that leaves a thread adds no reference.
LEMMA EscapeEffect ==
    ASSUME TypeOK, NEW t \in Threads, NEW e \in Threads, Escape(t, e),
           t # Main => e \in Tasks
    PROVE  /\ holds' \in [Threads -> SUBSET Tasks]
           /\ doomed' \in [Threads -> SUBSET Tasks]
           /\ pc' \in [Threads -> {"unborn", "running", "awaiting",
                                   "dropping", "ending", "done"}]
           /\ escaping' \in [Threads -> BOOLEAN]
           /\ crashed' \in BOOLEAN
           /\ Reach(t)' \subseteq Reach(t) \cup holds[e]
           /\ \A u \in Threads \ {t} : Reach(u)' \subseteq Reach(u)
           /\ \A u \in Threads \ {t, e} : holds'[u] = holds[u]
           /\ crashed' \/ pc'[t] = "ending"
           /\ pc'[t] \in {pc[t], "running", "dropping", "ending"}
           /\ \A u \in Threads \ {t} : pc'[u] = pc[u]
           /\ t = Main => UNCHANGED <<pc, holds, doomed>>
  <1>1. CASE t = Main
    BY <1>1 DEF Escape, TypeOK, Reach
  <1>2. CASE t # Main
    <2>1. /\ escaping' = [escaping EXCEPT ![t] = TRUE]
          /\ UNCHANGED crashed
      BY <1>2 DEF Escape
    <2>2. PICK kept \in SUBSET holds[t] :
             LetGo(t, kept, (holds[t] \cup holds[e]) \ kept, e, "ending")
      BY <1>2 DEF Escape
    <2>3. /\ kept \in SUBSET Tasks
          /\ (holds[t] \cup holds[e]) \ kept \in SUBSET Tasks
      BY DEF TypeOK
    <2>4. pc'[t] = "ending"
      BY <2>2 DEF LetGo, TypeOK
    <2> DEFINE X == (holds[t] \cup holds[e]) \ kept
    <2>5. /\ holds' \in [Threads -> SUBSET Tasks]
          /\ doomed' \in [Threads -> SUBSET Tasks]
          /\ pc' \in [Threads -> {"unborn", "running", "awaiting",
                                  "dropping", "ending", "done"}]
          /\ Reach(t)' \subseteq kept \cup X \cup doomed[t]
          /\ \A u \in Threads \ {t} : Reach(u)' \subseteq Reach(u)
          /\ \A u \in Threads \ {t, e} : holds'[u] = holds[u]
          /\ \A u \in Threads \ {t} : pc'[u] = pc[u]
      BY <2>2, <2>3, LetGoEffect
    <2>6. kept \cup X \cup doomed[t] \subseteq Reach(t) \cup holds[e]
      BY DEF Reach
    <2>7. escaping' \in [Threads -> BOOLEAN] /\ crashed' \in BOOLEAN
      BY <2>1 DEF TypeOK
    <2> QED
      BY <1>2, <2>4, <2>5, <2>6, <2>7
  <1> QED
    BY <1>1, <1>2

\* A thread takes the handles of a place, which keeps them or not.
LEMMA TakeStep ==
    ASSUME IInv, NEW t \in Threads, NEW q \in Places, pc[t] = "running",
           place[q] # {},
           holds' = [holds EXCEPT ![t] = @ \cup place[q]],
           place' = place \/ place' = [place EXCEPT ![q] = {}],
           UNCHANGED <<pc, target, doomed, valid, ready, escaping, setting,
                       crashed, raced, shared, uses>>
    PROVE  IInv'
  <1> USE FutureAssumption DEF IInv
  <1>1. shared
    BY DEF Blocking
  <1>2. TypeOK'
    BY DEF TypeOK
  <1>3. /\ \A p \in Places : place'[p] \subseteq place[p]
        /\ holds'[t] = holds[t] \cup place[q]
        /\ \A u \in Threads \ {t} : holds'[u] = holds[u]
    BY DEF TypeOK
  <1>4. Fresh'
    <2> SUFFICES ASSUME NEW f \in Tasks, pc[f] = "unborn"
                 PROVE  /\ Reach(f)' = {}
                        /\ \A p \in Places : f \notin place'[p]
                        /\ \A u \in Threads : f \notin Reach(u)'
      BY DEF Fresh
    <2>1. f # t /\ f \in Threads
      BY DEF Threads
    <2>2. /\ Reach(f) = {}
          /\ \A p \in Places : f \notin place[p]
          /\ \A u \in Threads : f \notin Reach(u)
      BY DEF Fresh
    <2> QED
      BY <1>3, <2>1, <2>2 DEF Reach
  <1>5. Blocking'
    BY <1>1, <1>3 DEF Blocking, Threads
  <1> QED
    BY <1>1, <1>2, <1>4, <1>5 DEF NoReferenceCycle

\* What a place gets is held, and what it gives is shared: neither puts a
\* task that was not started anywhere.
LEMMA RefStep ==
    ASSUME IInv, NEW t \in Threads, NEW r \in References,
           SetRef(t, r) \/ GetRef(t, r) \/ RaceRef(t, r)
    PROVE  IInv'
  <1> USE FutureAssumption DEF IInv
  <1>1. r \in Places /\ pc[t] = "running"
    BY DEF Places, SetRef, GetRef, RaceRef, Running
  <1>2. CASE SetRef(t, r)
    <2>1. PICK H \in SUBSET holds[t] :
             /\ H # place[r]
             /\ place' = [place EXCEPT ![r] = H]
             /\ shared' = (shared \/ H # {})
             /\ doomed' = [doomed EXCEPT ![t] = Unreferenced(holds, place', place[r])]
      BY <1>2 DEF SetRef
    <2>2. /\ setting' = [setting EXCEPT ![t] = r]
          /\ pc' = [pc EXCEPT ![t] = "dropping"]
          /\ UNCHANGED <<target, holds, valid, ready, escaping, crashed, raced, uses>>
      BY <1>2 DEF SetRef
    <2>3. Unreferenced(holds, place', place[r]) \subseteq place[r]
      BY DEF Unreferenced
    <2>4. shared' = TRUE
      BY <1>1, <2>1 DEF Blocking, TypeOK
    <2>5. TypeOK'
      BY <1>1, <2>1, <2>2, <2>3, <2>4 DEF TypeOK
    <2>6. /\ doomed'[t] \subseteq place[r]
          /\ \A u \in Threads \ {t} : doomed'[u] = doomed[u]
          /\ \A p \in Places : place'[p] \subseteq place[p] \cup holds[t]
          /\ pc'[t] = "dropping" /\ \A u \in Threads \ {t} : pc'[u] = pc[u]
      BY <1>1, <2>1, <2>2, <2>3 DEF TypeOK
    <2>7. Fresh'
      <3> SUFFICES ASSUME NEW f \in Tasks, pc'[f] = "unborn"
                   PROVE  /\ Reach(f)' = {}
                          /\ \A p \in Places : f \notin place'[p]
                          /\ \A u \in Threads : f \notin Reach(u)'
        BY DEF Fresh
      <3>1. f # t /\ f \in Threads /\ pc[f] = "unborn"
        BY <2>6 DEF Threads
      <3>2. /\ Reach(f) = {}
            /\ \A p \in Places : f \notin place[p]
            /\ \A u \in Threads : f \notin Reach(u)
        BY <3>1 DEF Fresh
      <3> QED
        BY <1>1, <2>2, <2>6, <3>1, <3>2 DEF Reach
    <2>8. Blocking'
      BY <1>1, <2>2, <2>4, <2>6 DEF Blocking, Threads
    <2> QED
      BY <2>4, <2>5, <2>7, <2>8 DEF NoReferenceCycle
  <1>3. CASE GetRef(t, r)
    BY <1>1, <1>3, TakeStep DEF GetRef
  <1>4. CASE RaceRef(t, r)
    BY <1>4 DEF RaceRef, TypeOK, Fresh, Blocking, NoReferenceCycle, Reach
  <1> QED
    BY <1>2, <1>3, <1>4

LEMMA MessageStep ==
    ASSUME IInv, NEW t \in Threads, NEW m \in Messages, Push(t, m) \/ Pop(t, m)
    PROVE  IInv'
  <1> USE FutureAssumption DEF IInv
  <1>1. m \in Places /\ pc[t] = "running"
    BY DEF Places, Push, Pop, Running
  <1>2. CASE Push(t, m)
    <2>1. PICK H \in SUBSET holds[t] : place' = [place EXCEPT ![m] = H]
      BY <1>2 DEF Push
    <2>2. /\ shared' = TRUE
          /\ UNCHANGED <<pc, target, holds, doomed, valid, ready, escaping, setting,
                         crashed, raced, uses>>
      BY <1>2 DEF Push
    <2>3. TypeOK'
      BY <1>1, <2>1, <2>2 DEF TypeOK
    <2>4. \A p \in Places : place'[p] \subseteq place[p] \cup Reach(t)
      BY <1>1, <2>1 DEF TypeOK, Reach
    <2>5. Fresh' /\ Blocking'
      BY <2>2, <2>4 DEF Fresh, Blocking, Reach
    <2> QED
      BY <2>2, <2>3, <2>5 DEF NoReferenceCycle
  <1>3. CASE Pop(t, m)
    BY <1>1, <1>3, TakeStep DEF Pop, TypeOK
  <1> QED
    BY <1>2, <1>3

LEMMA NextIInv == IInv /\ [Next]_vars => IInv'
  <1> SUFFICES ASSUME IInv, [Next]_vars
               PROVE  IInv'
    OBVIOUS
  <1> USE FutureAssumption
  <1> USE DEF IInv
  <1>1. CASE UNCHANGED vars
    BY <1>1 DEF vars, TypeOK, Fresh, Blocking, NoReferenceCycle, Reach
  <1>2. ASSUME NEW t \in Threads, NEW f \in Tasks, Async(t, f)
        PROVE  IInv'
    <2> USE <1>2 DEF Async, Running, Up
    <2>1. PICK captured \in SUBSET holds[t] :
             holds' = [holds EXCEPT ![f] = captured, ![t] = @ \cup {f}]
      OBVIOUS
    <2>2. /\ f \in Threads /\ f # t
          /\ pc[f] = "unborn" /\ pc[t] = "running"
          /\ Reach(f) = {}
          /\ \A u \in Threads : f \notin Reach(u)
      BY DEF Fresh, Threads
    <2>3. TypeOK'
      BY <2>1, <2>2 DEF TypeOK, Threads
    <2>4. /\ holds'[f] = captured /\ holds'[t] = holds[t] \cup {f}
          /\ \A u \in Threads \ {t, f} : holds'[u] = holds[u]
      BY <2>1, <2>2 DEF TypeOK
    <2>5. /\ Reach(f)' = captured
          /\ Reach(t)' = Reach(t) \cup {f}
          /\ \A u \in Threads \ {t, f} : Reach(u)' = Reach(u)
      BY <2>2, <2>4 DEF Reach
    <2>6. Fresh'
      <3> SUFFICES ASSUME NEW g \in Tasks, pc'[g] = "unborn"
                   PROVE  Reach(g)' = {} /\ \A u \in Threads : g \notin Reach(u)'
        BY DEF Fresh, TypeOK, Threads
      <3>1. g # f /\ g # t /\ pc[g] = "unborn"
        BY <2>2 DEF TypeOK, Threads
      <3>2. Reach(g) = {} /\ \A u \in Threads : g \notin Reach(u)
        BY <3>1 DEF Fresh
      <3>3. g \notin captured
        BY <3>2 DEF Reach
      <3> QED
        BY <2>5, <3>1, <3>2, <3>3 DEF Threads
    <2>7. Blocking'
      BY <2>2, <2>4 DEF TypeOK, Blocking, Threads
    <2>8. NoReferenceCycle'
      <3> SUFFICES ASSUME ~shared, NEW S \in SUBSET Tasks,
                          \A g \in S : Reach(g)' \cap S # {}
                   PROVE  S = {}
        BY DEF NoReferenceCycle
      <3> DEFINE T == S \ {f}
      <3>1. captured \subseteq Reach(t)
        BY DEF Reach
      <3>2. ASSUME NEW g \in T
            PROVE  Reach(g) \cap T # {}
        <4>1. CASE g = t
          <5>1. CASE f \in S
            <6>1. captured \cap S # {}
              BY <5>1, <2>5
            <6> QED
              BY <4>1, <6>1, <3>1, <2>2
          <5>2. CASE f \notin S
            BY <4>1, <5>2, <2>5
          <5> QED
            BY <5>1, <5>2
        <4>2. CASE g # t
          BY <4>2, <2>2, <2>5 DEF Threads
        <4> QED
          BY <4>1, <4>2
      <3>3. T = {}
        BY <3>2 DEF NoReferenceCycle
      <3>4. f \notin S
        BY <3>1, <3>3, <2>2, <2>5
      <3> QED
        BY <3>3, <3>4
    <2> QED
      BY <2>3, <2>6, <2>7, <2>8
  <1>3. ASSUME NEW t \in Threads, NEW r \in References,
               SetRef(t, r) \/ GetRef(t, r) \/ RaceRef(t, r)
        PROVE  IInv'
    BY <1>3, RefStep
  <1>4. ASSUME NEW t \in Threads, NEW m \in Messages, Push(t, m) \/ Pop(t, m)
        PROVE  IInv'
    BY <1>4, MessageStep
  <1>5. ASSUME NEW t \in Threads, NEW f \in Tasks, AwaitCall(t, f)
        PROVE  IInv'
    <2> USE <1>5 DEF AwaitCall, Running
    <2>1. TypeOK'
      BY DEF TypeOK, Use
    <2>2. \A u \in Threads : Reach(u)' = Reach(u)
      BY DEF Reach
    <2>3. Fresh' /\ NoReferenceCycle'
      BY <2>2, ShortcutStep DEF Shortcuts, TypeOK, Threads
    <2>4. Blocking'
      BY DEF Blocking, TypeOK, Threads
    <2> QED
      BY <2>1, <2>3, <2>4
  <1>6. ASSUME NEW t \in Threads, NEW f \in Tasks, UseInvalid(t, f)
        PROVE  IInv'
    <2> USE <1>6 DEF UseInvalid, Running
    <2>0. uses' \in [Tasks -> {"never", "once", "more"}]
      BY DEF Use, TypeOK
    <2>1. t # Main => t \in Tasks
      BY DEF Threads
    <2>2. /\ holds' \in [Threads -> SUBSET Tasks]
          /\ doomed' \in [Threads -> SUBSET Tasks]
          /\ pc' \in [Threads -> {"unborn", "running", "awaiting",
                                  "dropping", "ending", "done"}]
          /\ escaping' \in [Threads -> BOOLEAN]
          /\ crashed' \in BOOLEAN
          /\ Reach(t)' \subseteq Reach(t) \cup holds[t]
          /\ \A u \in Threads \ {t} : Reach(u)' \subseteq Reach(u)
          /\ \A u \in Threads \ {t} : holds'[u] = holds[u]
          /\ pc'[t] \in {"running", "dropping", "ending"}
          /\ \A u \in Threads \ {t} : pc'[u] = pc[u]
      BY <2>1, EscapeEffect
    <2>3. TypeOK'
      BY <2>0, <2>2 DEF TypeOK
    <2>4. Shortcuts
      BY <2>2 DEF Shortcuts, Reach
    <2>5. Fresh' /\ NoReferenceCycle'
      BY <2>2, <2>4, ShortcutStep DEF TypeOK, Threads
    <2>6. Blocking'
      BY <2>2 DEF Blocking, Up, TypeOK, Threads
    <2> QED
      BY <2>3, <2>5, <2>6
  <1>7. ASSUME NEW t \in Threads, AwaitReturn(t) \/ AwaitRace(t)
        PROVE  IInv'
    <2> DEFINE f == target[t]
    <2>1. /\ pc[t] = "awaiting" /\ f \in Tasks /\ f \in Threads
          /\ f \in holds[t] /\ ready[f]
          /\ pc[f] = "done" /\ f # t
          /\ UNCHANGED <<ready, place, setting, raced, shared, uses>>
          /\ target' = [target EXCEPT ![t] = None]
      BY <1>7 DEF AwaitReturn, AwaitRace, Up, Blocking, TypeOK, Threads
    <2>2. /\ valid' \in [Tasks -> BOOLEAN]
          /\ \A g \in Tasks \ {f} : valid'[g] = valid[g]
      BY <1>7 DEF AwaitReturn, AwaitRace, TypeOK
    <2>3. /\ holds' \in [Threads -> SUBSET Tasks]
          /\ doomed' \in [Threads -> SUBSET Tasks]
          /\ pc' \in [Threads -> {"unborn", "running", "awaiting",
                                  "dropping", "ending", "done"}]
          /\ escaping' \in [Threads -> BOOLEAN]
          /\ crashed' \in BOOLEAN
          /\ Reach(t)' \subseteq Reach(t) \cup holds[f]
          /\ \A u \in Threads \ {t} : Reach(u)' \subseteq Reach(u)
          /\ \A u \in Threads \ {t, f} : holds'[u] = holds[u]
          /\ pc'[t] \in {"awaiting", "running", "dropping", "ending"}
          /\ \A u \in Threads \ {t} : pc'[u] = pc[u]
          /\ pc'[t] = "awaiting" => crashed'
      <3>1. CASE Escape(t, f)
        BY <3>1, <2>1, EscapeEffect
      <3>2. CASE Escape(t, t)
        <4>1. t # Main => t \in Tasks
          BY DEF Threads
        <4> QED
          BY <3>2, <4>1, <2>1, EscapeEffect DEF Reach
      <3>3. CASE crashed' = TRUE /\ UNCHANGED <<pc, holds, doomed, escaping>>
        BY <3>3, <2>1 DEF TypeOK, Reach
      <3>4. CASE /\ \E carried \in SUBSET holds[f] :
                       LetGo(t, holds[t] \cup carried, holds[f], f, "dropping")
                 /\ UNCHANGED <<escaping, crashed>>
        <4>1. PICK carried \in SUBSET holds[f] :
                 LetGo(t, holds[t] \cup carried, holds[f], f, "dropping")
          BY <3>4
        <4>2. /\ holds[t] \cup carried \in SUBSET Tasks
              /\ holds[f] \in SUBSET Tasks
          BY <2>1 DEF TypeOK
        <4>3. /\ holds' \in [Threads -> SUBSET Tasks]
              /\ doomed' \in [Threads -> SUBSET Tasks]
              /\ pc' \in [Threads -> {"unborn", "running", "awaiting",
                                      "dropping", "ending", "done"}]
              /\ \A g \in Reach(t)' :
                    g \in holds[t] \cup carried \/ g \in holds[f] \/ g \in doomed[t]
              /\ \A u \in Threads : u # t => Reach(u)' \subseteq Reach(u)
              /\ \A u \in Threads : u # t /\ u # f => holds'[u] = holds[u]
              /\ pc'[t] \in {"running", "dropping", "ending"}
              /\ \A u \in Threads : u # t => pc'[u] = pc[u]
          BY <4>1, <4>2, <2>1, LetGoEffect
        <4> QED
          BY <3>4, <4>3 DEF Reach, TypeOK
      <3> QED
        BY <1>7, <3>1, <3>2, <3>3, <3>4 DEF AwaitReturn, AwaitRace
    <2>4. TypeOK'
      BY <2>1, <2>2, <2>3 DEF TypeOK
    <2>5. Shortcuts
      BY <2>1, <2>3 DEF Shortcuts, Reach
    <2>6. Fresh' /\ NoReferenceCycle'
      BY <2>1, <2>3, <2>5, ShortcutStep DEF TypeOK, Threads
    <2>7. Blocking'
      <3>1. ~shared' => \A p \in Places : place'[p] = {}
        BY <2>1 DEF Blocking
      <3>2. ASSUME NEW u \in Threads, pc'[u] = "awaiting"
            PROVE  target'[u] \in holds'[u] \/ (crashed' /\ target'[u] = None)
        <4>1. CASE u = t
          BY <4>1, <3>2, <2>1, <2>3 DEF TypeOK
        <4>2. CASE u # t
          <5>1. pc[u] = "awaiting" /\ u # f /\ target'[u] = target[u]
            BY <4>2, <3>2, <2>1, <2>3 DEF TypeOK
          <5>2. ~crashed /\ holds'[u] = holds[u]
            BY <4>2, <5>1, <2>3, <1>7 DEF AwaitReturn, AwaitRace, Up
          <5> QED
            BY <5>1, <5>2 DEF Blocking
        <4> QED
          BY <4>1, <4>2
      <3>3. \A g \in Tasks : pc[g] = "done" => pc'[g] = "done"
        BY <2>1, <2>3 DEF Threads
      <3>4. \A g \in Tasks : pc'[g] # "unborn" => pc[g] # "unborn"
        BY <2>1, <2>3 DEF Threads
      <3>5. \A g \in Tasks : ready'[g] => pc'[g] = "done"
        BY <3>3, <2>1 DEF Blocking
      <3>6. \A g \in Tasks : pc'[g] # "unborn" /\ ~valid'[g] => pc'[g] = "done"
        BY <3>3, <3>4, <2>1, <2>2 DEF Blocking
      <3> QED
        BY <3>1, <3>2, <3>5, <3>6 DEF Blocking
    <2> QED
      BY <2>4, <2>6, <2>7
  <1>8. ASSUME NEW t \in Threads, (\E f \in Tasks : Drop(t, f)) \/ End(t)
        PROVE  IInv'
    <2>1. /\ ~crashed /\ pc[t] = "running"
          /\ UNCHANGED <<target, valid, ready, escaping, place, setting, crashed,
                         raced, shared, uses>>
      BY <1>8 DEF Drop, End, Running, Up
    <2>2. OnlyLoses(t)
      <3>1. ASSUME NEW f \in Tasks, Drop(t, f)
            PROVE  OnlyLoses(t)
        <4>1. /\ LetGo(t, holds[t] \ {f}, {f}, t, "dropping")
              /\ f \in holds[t]
              /\ holds[t] \ {f} \in SUBSET Tasks
          BY <3>1 DEF Drop, TypeOK
        <4> QED
          BY <4>1, LetGoSelf
      <3>2. ASSUME End(t)
            PROVE  OnlyLoses(t)
        <4>1. PICK kept \in SUBSET holds[t] :
                 LetGo(t, kept, holds[t] \ kept, t, "ending")
          BY <3>2 DEF End
        <4>2. /\ kept \in SUBSET Tasks
              /\ holds[t] \ kept \in SUBSET Tasks
          BY DEF TypeOK
        <4> QED
          BY <4>1, <4>2, LetGoSelf
      <3> QED
        BY <1>8, <3>1, <3>2
    <2>5. TypeOK'
      BY <2>1, <2>2 DEF TypeOK, OnlyLoses
    <2>6. Shortcuts
      BY <2>2 DEF Shortcuts, OnlyLoses
    <2>7. Fresh' /\ NoReferenceCycle'
      BY <2>1, <2>2, <2>6, ShortcutStep DEF TypeOK, Threads, OnlyLoses
    <2>8. Blocking'
      BY <2>1, <2>2 DEF Blocking, TypeOK, Threads, OnlyLoses
    <2> QED
      BY <2>5, <2>7, <2>8
  <1>9. ASSUME NEW t \in Threads, NEW f \in Tasks, Destroy(t, f)
        PROVE  IInv'
    <2> USE <1>9 DEF Destroy
    <2>1. /\ f \in Threads /\ f \in doomed[t] /\ f \in Reach(t)
          /\ UNCHANGED <<pc, target, ready, escaping, place, setting, crashed,
                         raced, shared, uses>>
      BY DEF Reach, Threads
    <2>2. pc[f] = "done"
      BY <2>1 DEF Fresh, Blocking
    <2>3. /\ holds' \in [Threads -> SUBSET Tasks]
          /\ holds'[f] = {}
          /\ \A u \in Threads \ {f} : holds'[u] = holds[u]
      BY <2>1 DEF TypeOK
    <2>4. Unreferenced(holds', place, holds[f]) \subseteq holds[f]
      BY DEF Unreferenced
    <2>5. /\ doomed' \in [Threads -> SUBSET Tasks]
          /\ doomed'[t] \subseteq doomed[t] \cup holds[f]
          /\ \A u \in Threads \ {t} : doomed'[u] = doomed[u]
      BY <2>1, <2>4 DEF TypeOK
    <2>6. TypeOK'
      BY <2>3, <2>5 DEF TypeOK
    <2>7. Shortcuts
      BY <2>1, <2>3, <2>5 DEF Shortcuts, Reach
    <2>8. Fresh' /\ NoReferenceCycle'
      BY <2>1, <2>7, ShortcutStep DEF TypeOK
    <2>9. Blocking'
      BY <2>1, <2>2, <2>3 DEF Blocking, TypeOK, Threads
    <2> QED
      BY <2>6, <2>8, <2>9
  <1>10. ASSUME NEW t \in Threads, DropDone(t) \/ EndDone(t)
         PROVE  IInv'
    <2>1. /\ pc[t] \in {"dropping", "ending"}
          /\ \E p \in {"running", "done"} : pc' = [pc EXCEPT ![t] = p]
          /\ UNCHANGED <<target, holds, doomed, valid, escaping, place, crashed,
                         raced, shared, uses>>
          /\ setting' = [setting EXCEPT ![t] = None] \/ setting' = setting
      BY <1>10 DEF DropDone, EndDone
    <2>2. /\ ready' \in [Tasks -> BOOLEAN]
          /\ \A f \in Tasks : ready'[f] => ready[f] \/ (f = t /\ pc'[t] = "done")
      BY <1>10 DEF DropDone, EndDone, TypeOK
    <2>3. TypeOK'
      BY <2>1, <2>2 DEF TypeOK
    <2>4. \A u \in Threads : Reach(u)' = Reach(u)
      BY <2>1 DEF Reach
    <2>5. Fresh' /\ NoReferenceCycle'
      BY <2>1, <2>4, ShortcutStep DEF Shortcuts, TypeOK, Threads
    <2>6. Blocking'
      BY <2>1, <2>2 DEF Blocking, TypeOK, Threads
    <2> QED
      BY <2>3, <2>5, <2>6
  <1> QED
    BY <1>1, <1>2, <1>3, <1>4, <1>5, <1>6, <1>7, <1>8, <1>9, <1>10
    DEF Next, Step

LEMMA SpecIInv == Spec => []IInv
  <1>1. Init => IInv
    BY InitIInv
  <1>2. IInv /\ [Next]_vars => IInv'
    BY NextIInv
  <1> QED
    BY <1>1, <1>2, PTL DEF Spec

-----------------------------------------------------------------------------
\* Type correctness of the futures and the threads.
THEOREM FuturesTyped == Spec => []TypeOK
  BY SpecIInv, PTL DEF IInv

\* Tasks never wait for each other in a circle when handles travel only in
\* closures and results: what a task waits for it can reach, and what can be
\* reached is well founded.
THEOREM NoDeadlock == Spec => []NoWaitCycle
  <1>1. IInv => NoWaitCycle
    <2> SUFFICES ASSUME IInv, ~shared,
                        NEW S \in (SUBSET Tasks) \ {{}},
                        \A f \in S : BlockedOn(f) \cap S # {}
                 PROVE  FALSE
      BY DEF NoWaitCycle
    <2>1. ASSUME NEW f \in S
          PROVE  BlockedOn(f) \cap S \subseteq Reach(f)
      <3>1. f \in Threads /\ None \notin S
        BY FutureAssumption DEF Threads
      <3>2. CASE pc[f] = "awaiting"
        BY <3>1, <3>2 DEF BlockedOn, IInv, Blocking, Reach
      <3>3. CASE pc[f] # "awaiting"
        BY <3>3 DEF BlockedOn, Reach
      <3> QED
        BY <3>2, <3>3
    <2>2. \A f \in S : Reach(f) \cap S # {}
      BY <2>1
    <2> QED
      BY <2>2 DEF IInv, NoReferenceCycle
  <1> QED
    BY <1>1, SpecIInv, PTL

-----------------------------------------------------------------------------
(***************************************************************************)
(* Proofs about EgelFuture that follow a task to its end: who refers to    *)
(* it, who waits for it, and what its future throws; for every set of      *)
(* tasks.                                                                  *)
(***************************************************************************)

\* A task that runs, or of which something is left to be destroyed.
Alive(f) == pc[f] \notin {"unborn", "done"} \/ holds[f] # {} \/ valid[f]
InPlace(f) == \E p \in Places : f \in place[p]
Referred(f) == InPlace(f) \/ \E t \in Threads : f \in Reach(t)

AliveReferred == \A f \in Tasks : Alive(f) => Referred(f)

\* Only a thread that is at it has futures to destroy.
DoomedBusy == \A t \in Threads : doomed[t] # {} => pc[t] \in {"dropping", "ending"}

\* Main keeps nothing.
MainEmpty == pc[Main] \in {"ending", "done"} => holds[Main] = {}

EndInv == AliveReferred /\ DoomedBusy /\ MainEmpty

\* Nothing becomes alive, and what was referred to still is.
Loosens ==
    /\ \A g \in Tasks : Alive(g)' => Alive(g)
    /\ \A g \in Tasks : Referred(g) => Referred(g)'
    /\ DoomedBusy' /\ MainEmpty'

-----------------------------------------------------------------------------
LEMMA InitEndInv == Init => EndInv
  <1> SUFFICES ASSUME Init PROVE EndInv
    OBVIOUS
  <1> USE FutureAssumption DEF Init
  <1>1. AliveReferred
    BY DEF AliveReferred, Alive, Threads
  <1>2. DoomedBusy /\ MainEmpty
    BY DEF DoomedBusy, MainEmpty, Threads
  <1> QED
    BY <1>1, <1>2 DEF EndInv

\* What a thread lets go of is kept, referred to elsewhere, or doomed.
LEMMA LetGoLoosens ==
    ASSUME TypeOK, DoomedBusy, MainEmpty,
           NEW t \in Threads, NEW e \in Threads, e # t => e # Main,
           NEW K \in SUBSET Tasks, NEW X \in SUBSET Tasks,
           NEW next \in {"dropping", "ending"},
           LetGo(t, K, X, e, next),
           pc[t] \in {"running", "awaiting"},
           t = Main /\ next = "ending" => K = {},
           holds[t] \subseteq K \cup X,
           e # t => holds[e] \subseteq K \cup X,
           place' = place,
           \A g \in Tasks : valid'[g] => valid[g]
    PROVE  Loosens
  <1> USE FutureAssumption
  <1> DEFINE h == [holds EXCEPT ![t] = K, ![e] = IF e = t THEN K ELSE {}]
             d == Unreferenced(h, place, X)
  <1>1. /\ holds' = h
        /\ doomed' = [doomed EXCEPT ![t] = @ \cup d]
        /\ pc' = [pc EXCEPT ![t] = IF d = {} /\ next = "dropping" THEN "running" ELSE next]
    BY DEF LetGo
  <1>2. /\ h[t] = K
        /\ \A u \in Threads \ {t, e} : h[u] = holds[u]
        /\ e # t => h[e] = {}
    BY DEF TypeOK
  <1>3. \A g \in X : g \in d \/ InPlace(g) \/ \E u \in Threads : g \in h[u]
    BY DEF Unreferenced, InPlace
  <1> HIDE DEF h, d
  <1>4. /\ doomed'[t] = doomed[t] \cup d
        /\ \A u \in Threads \ {t} : doomed'[u] = doomed[u]
        /\ pc'[t] = IF d = {} /\ next = "dropping" THEN "running" ELSE next
        /\ \A u \in Threads \ {t} : pc'[u] = pc[u]
    BY <1>1 DEF TypeOK
  <1>5. ASSUME NEW g \in Tasks, Alive(g)'
        PROVE  Alive(g)
    <2>1. g \in Threads
      BY DEF Threads
    <2>2. CASE g = t
      BY <2>2 DEF Alive
    <2>3. CASE g # t
      <3>1. pc'[g] = pc[g] /\ (holds'[g] # {} => holds[g] # {})
        BY <2>1, <2>3, <1>1, <1>2, <1>4
      <3> QED
        BY <3>1, <1>5 DEF Alive
    <2> QED
      BY <2>2, <2>3
  <1>6. ASSUME NEW g \in Tasks, Referred(g)
        PROVE  Referred(g)'
    <2>1. CASE InPlace(g)
      BY <2>1 DEF Referred, InPlace
    <2>2. ASSUME NEW u \in Threads, g \in doomed[u]
          PROVE  Referred(g)'
      <3>1. g \in doomed'[u]
        BY <2>2, <1>4
      <3> QED
        BY <3>1 DEF Referred, Reach
    <2>3. ASSUME g \in K \cup X
          PROVE  Referred(g)'
      <3>1. g \in d \/ InPlace(g) \/ \E u \in Threads : g \in h[u]
        BY <2>3, <1>2, <1>3
      <3>2. CASE g \in d
        <4>1. g \in doomed'[t]
          BY <3>2, <1>4
        <4> QED
          BY <4>1 DEF Referred, Reach
      <3> QED
        BY <3>1, <3>2, <1>1 DEF Referred, InPlace, Reach
    <2>4. ASSUME NEW u \in Threads, g \in holds[u]
          PROVE  Referred(g)'
      <3>1. CASE u \in {t, e}
        BY <3>1, <2>3, <2>4
      <3>2. CASE u \notin {t, e}
        <4>1. g \in holds'[u]
          BY <3>2, <2>4, <1>1, <1>2
        <4> QED
          BY <4>1 DEF Referred, Reach
      <3> QED
        BY <3>1, <3>2
    <2> QED
      BY <1>6, <2>1, <2>2, <2>4 DEF Referred, Reach
  <1>7. DoomedBusy'
    <2> SUFFICES ASSUME NEW u \in Threads, doomed'[u] # {}
                 PROVE  pc'[u] \in {"dropping", "ending"}
      BY DEF DoomedBusy
    <2>1. doomed[t] = {}
      BY DEF DoomedBusy
    <2>2. CASE u = t
      BY <2>1, <2>2, <1>4
    <2>3. CASE u # t
      BY <2>3, <1>4 DEF DoomedBusy
    <2> QED
      BY <2>2, <2>3
  <1>8. MainEmpty'
    <2>1. CASE t = Main
      BY <2>1, <1>1, <1>2, <1>4 DEF MainEmpty
    <2>2. CASE t # Main
      <3>1. Main \in Threads \ {t, e}
        BY <2>2 DEF Threads
      <3> QED
        BY <3>1, <1>1, <1>2, <1>4 DEF MainEmpty
    <2> QED
      BY <2>1, <2>2
  <1> QED
    BY <1>5, <1>6, <1>7, <1>8 DEF Loosens

\* A C++ exception doomes what the thread does not keep, or ends everything.
LEMMA EscapeLoosens ==
    ASSUME TypeOK, DoomedBusy, MainEmpty,
           NEW t \in Threads, NEW e \in Threads, e # t => e # Main,
           Escape(t, e),
           pc[t] \in {"running", "awaiting"},
           place' = place,
           \A g \in Tasks : valid'[g] => valid[g]
    PROVE  Loosens
  <1>1. CASE t = Main
    BY <1>1 DEF Escape, Loosens, Alive, Referred, InPlace, Reach, DoomedBusy, MainEmpty
  <1>2. CASE t # Main
    <2>1. PICK kept \in SUBSET holds[t] :
             LetGo(t, kept, (holds[t] \cup holds[e]) \ kept, e, "ending")
      BY <1>2 DEF Escape
    <2>2. /\ kept \in SUBSET Tasks
          /\ (holds[t] \cup holds[e]) \ kept \in SUBSET Tasks
          /\ holds[t] \subseteq kept \cup ((holds[t] \cup holds[e]) \ kept)
          /\ holds[e] \subseteq kept \cup ((holds[t] \cup holds[e]) \ kept)
      BY DEF TypeOK
    <2> QED
      BY <1>2, <2>1, <2>2, LetGoLoosens
  <1> QED
    BY <1>1, <1>2

-----------------------------------------------------------------------------
LEMMA NextEndInv == IInv /\ EndInv /\ [Next]_vars => EndInv'
  <1> SUFFICES ASSUME IInv, EndInv, [Next]_vars
               PROVE  EndInv'
    OBVIOUS
  <1> USE FutureAssumption
  <1> USE DEF IInv, EndInv
  <1>0. Loosens => AliveReferred' /\ DoomedBusy' /\ MainEmpty'
    BY DEF Loosens, AliveReferred
  <1>1. CASE UNCHANGED vars
    BY <1>1 DEF vars, AliveReferred, Alive, Referred, InPlace, Reach, DoomedBusy,
                MainEmpty
  <1>2. ASSUME NEW t \in Threads, NEW f \in Tasks, Async(t, f)
        PROVE  EndInv'
    <2>1. PICK captured \in SUBSET holds[t] :
             holds' = [holds EXCEPT ![f] = captured, ![t] = @ \cup {f}]
      BY <1>2 DEF Async
    <2>2. /\ f \in Threads /\ f # t /\ pc[f] = "unborn" /\ pc[t] = "running"
          /\ pc' = [pc EXCEPT ![f] = "running"]
          /\ valid' = [valid EXCEPT ![f] = TRUE]
          /\ UNCHANGED <<doomed, place>>
      BY <1>2 DEF Async, Running, Threads
    <2>3. /\ holds'[t] = holds[t] \cup {f}
          /\ \A u \in Threads \ {t, f} : holds'[u] = holds[u]
          /\ holds[f] = {}
          /\ \A u \in Threads \ {f} : pc'[u] = pc[u]
          /\ \A g \in Tasks \ {f} : valid'[g] = valid[g]
          /\ pc'[f] = "running"
      BY <2>1, <2>2 DEF TypeOK, Fresh, Reach
    <2>4. \A g \in Tasks : Referred(g) => Referred(g)'
      BY <2>2, <2>3 DEF Referred, InPlace, Reach
    <2>5. Referred(f)'
      BY <2>3 DEF Referred, Reach
    <2>6. ASSUME NEW g \in Tasks \ {f}, Alive(g)'
          PROVE  Referred(g)'
      <3>1. g \in Threads
        BY DEF Threads
      <3>2. CASE g = t
        BY <3>2, <2>2, <2>4 DEF Alive, AliveReferred
      <3>3. CASE g # t
        BY <3>1, <3>3, <2>3, <2>4, <2>6 DEF Alive, AliveReferred
      <3> QED
        BY <3>2, <3>3
    <2>7. AliveReferred'
      BY <2>5, <2>6 DEF AliveReferred
    <2>8. DoomedBusy'
      BY <2>2, <2>3 DEF DoomedBusy
    <2>9. MainEmpty'
      <3>1. Main \in Threads \ {f}
        BY DEF Threads
      <3> QED
        BY <3>1, <2>2, <2>3 DEF MainEmpty
    <2> QED
      BY <2>7, <2>8, <2>9
  <1>3. ASSUME NEW t \in Threads, NEW f \in Tasks, AwaitCall(t, f)
        PROVE  EndInv'
    <2>1. /\ UNCHANGED <<holds, doomed, valid, place>>
          /\ pc[t] = "running" /\ pc' = [pc EXCEPT ![t] = "awaiting"]
      BY <1>3 DEF AwaitCall, Running
    <2>2. pc'[t] = "awaiting" /\ \A u \in Threads \ {t} : pc'[u] = pc[u]
      BY <2>1 DEF TypeOK
    <2>3. \A g \in Tasks : Referred(g) => Referred(g)'
      BY <2>1 DEF Referred, InPlace, Reach
    <2>4. \A g \in Tasks : Alive(g)' => Alive(g)
      BY <2>1, <2>2 DEF Alive, Threads
    <2>5. DoomedBusy' /\ MainEmpty'
      BY <2>1, <2>2 DEF DoomedBusy, MainEmpty, Threads
    <2> QED
      BY <2>3, <2>4, <2>5, <1>0 DEF Loosens
  <1>9. ASSUME NEW t \in Threads, NEW r \in References, SetRef(t, r)
        PROVE  EndInv'
    <2>1. PICK H \in SUBSET holds[t] :
             /\ place' = [place EXCEPT ![r] = H]
             /\ doomed' = [doomed EXCEPT ![t] = Unreferenced(holds, place', place[r])]
      BY <1>9 DEF SetRef
    <2>2. /\ pc[t] = "running" /\ pc' = [pc EXCEPT ![t] = "dropping"]
          /\ r \in Places
          /\ UNCHANGED <<holds, valid>>
      BY <1>9 DEF SetRef, Running, Places
    <2> DEFINE d == Unreferenced(holds, place', place[r])
    <2>3. \A g \in place[r] : g \in d \/ InPlace(g)' \/ \E u \in Threads : g \in holds[u]
      BY DEF Unreferenced, InPlace
    <2> HIDE DEF d
    <2>4. /\ pc'[t] = "dropping" /\ \A u \in Threads \ {t} : pc'[u] = pc[u]
          /\ doomed[t] = {} /\ doomed'[t] = d
          /\ \A u \in Threads \ {t} : doomed'[u] = doomed[u]
          /\ \A q \in Places \ {r} : place'[q] = place[q]
      <3>1. doomed[t] = {}
        BY <2>2 DEF DoomedBusy
      <3>2. \A q \in Places \ {r} : place'[q] = place[q]
        BY <2>1, <2>2 DEF TypeOK
      <3>3. doomed'[t] = d /\ \A u \in Threads \ {t} : doomed'[u] = doomed[u]
        BY <2>1 DEF TypeOK, d
      <3>4. pc'[t] = "dropping" /\ \A u \in Threads \ {t} : pc'[u] = pc[u]
        BY <2>2 DEF TypeOK
      <3> QED
        BY <3>1, <3>2, <3>3, <3>4
    <2>5. ASSUME NEW g \in Tasks, Referred(g)
          PROVE  Referred(g)'
      <3>1. CASE g \in place[r]
        <4>1. g \in d => g \in doomed'[t]
          BY <2>4
        <4> QED
          BY <4>1, <3>1, <2>2, <2>3 DEF Referred, Reach
      <3>2. ASSUME NEW q \in Places \ {r}, g \in place[q]
            PROVE  Referred(g)'
        BY <3>2, <2>4 DEF Referred, InPlace
      <3>3. ASSUME NEW u \in Threads, g \in Reach(u)
            PROVE  Referred(g)'
        BY <3>3, <2>2, <2>4 DEF Referred, Reach
      <3> QED
        BY <2>5, <3>1, <3>2, <3>3 DEF Referred, InPlace
    <2>6. \A g \in Tasks : Alive(g)' => Alive(g)
      BY <2>2, <2>4 DEF Alive, Threads
    <2>7. DoomedBusy' /\ MainEmpty'
      BY <2>2, <2>4 DEF DoomedBusy, MainEmpty, Threads
    <2> QED
      BY <2>5, <2>6, <2>7, <1>0 DEF Loosens
  <1>10. ASSUME NEW t \in Threads, NEW r \in References, RaceRef(t, r)
         PROVE  EndInv'
    BY <1>10 DEF RaceRef, AliveReferred, Alive, Referred, InPlace, Reach, DoomedBusy,
                 MainEmpty
  <1>11. ASSUME NEW t \in Threads, NEW q \in Places, pc[t] = "running",
                holds' = [holds EXCEPT ![t] = @ \cup place[q]],
                place' = place \/ place' = [place EXCEPT ![q] = {}],
                UNCHANGED <<pc, doomed, valid>>
         PROVE  EndInv'
    <2>1. /\ holds'[t] = holds[t] \cup place[q]
          /\ \A u \in Threads \ {t} : holds'[u] = holds[u]
          /\ \A m \in Places \ {q} : place'[m] = place[m]
      BY <1>11 DEF TypeOK
    <2>2. \A g \in Tasks : Referred(g) => Referred(g)'
      BY <1>11, <2>1 DEF Referred, InPlace, Reach
    <2>3. \A g \in Tasks : Alive(g)' => Alive(g)
      BY <1>11, <2>1 DEF Alive, Threads
    <2>4. DoomedBusy' /\ MainEmpty'
      BY <1>11, <2>1 DEF DoomedBusy, MainEmpty, Threads
    <2> QED
      BY <2>2, <2>3, <2>4, <1>0 DEF Loosens
  <1>12. ASSUME NEW t \in Threads, NEW r \in References, GetRef(t, r)
         PROVE  EndInv'
    BY <1>11, <1>12 DEF GetRef, Running, Places
  <1>13. ASSUME NEW t \in Threads, NEW m \in Messages, Pop(t, m)
         PROVE  EndInv'
    BY <1>11, <1>13 DEF Pop, Running, Places
  <1>14. ASSUME NEW t \in Threads, NEW m \in Messages, Push(t, m)
         PROVE  EndInv'
    <2>1. /\ m \in Places /\ place[m] = {}
          /\ \E H : place' = [place EXCEPT ![m] = H]
          /\ UNCHANGED <<pc, holds, doomed, valid>>
      BY <1>14 DEF Push, Places
    <2>2. \A q \in Places \ {m} : place'[q] = place[q]
      BY <2>1 DEF TypeOK
    <2>3. \A g \in Tasks : Referred(g) => Referred(g)'
      BY <2>1, <2>2 DEF Referred, InPlace, Reach
    <2>4. Loosens
      BY <2>1, <2>3 DEF Loosens, Alive, DoomedBusy, MainEmpty
    <2> QED
      BY <2>4, <1>0
  <1>4. ASSUME NEW t \in Threads, NEW f \in Tasks, UseInvalid(t, f)
        PROVE  EndInv'
    <2>1. /\ pc[t] = "running"
          /\ Escape(t, t)
          /\ UNCHANGED <<valid, place>>
      BY <1>4 DEF UseInvalid, Running
    <2>2. Loosens
      BY <2>1, EscapeLoosens
    <2> QED
      BY <2>2, <1>0
  <1>5. ASSUME NEW t \in Threads, AwaitReturn(t) \/ AwaitRace(t)
        PROVE  EndInv'
    <2> DEFINE f == target[t]
    <2>1. /\ pc[t] = "awaiting" /\ f \in Tasks /\ f \in Threads /\ f # Main
          /\ pc[f] = "done" /\ f # t
          /\ UNCHANGED place
      BY <1>5 DEF AwaitReturn, AwaitRace, Up, Blocking, TypeOK, Threads
    <2>2. \A g \in Tasks : valid'[g] => valid[g]
      BY <2>1, <1>5 DEF AwaitReturn, AwaitRace, TypeOK
    <2>3. Loosens
      <3>1. CASE Escape(t, f)
        BY <3>1, <2>1, <2>2, EscapeLoosens
      <3>2. CASE Escape(t, t)
        <4>1. t # Main => t \in Tasks
          BY DEF Threads
        <4> QED
          BY <3>2, <4>1, <2>1, <2>2, EscapeLoosens
      <3>3. CASE crashed' = TRUE /\ UNCHANGED <<pc, holds, doomed, escaping>>
        BY <3>3, <2>1, <2>2
        DEF Loosens, Alive, Referred, InPlace, Reach, DoomedBusy, MainEmpty
      <3>4. CASE \E carried \in SUBSET holds[f] :
                    LetGo(t, holds[t] \cup carried, holds[f], f, "dropping")
        <4>1. PICK carried \in SUBSET holds[f] :
                 LetGo(t, holds[t] \cup carried, holds[f], f, "dropping")
          BY <3>4
        <4>2. /\ holds[t] \cup carried \in SUBSET Tasks
              /\ holds[f] \in SUBSET Tasks
          BY <2>1 DEF TypeOK
        <4> QED
          BY <4>1, <4>2, <2>1, <2>2, LetGoLoosens
      <3> QED
        BY <1>5, <3>1, <3>2, <3>3, <3>4 DEF AwaitReturn, AwaitRace
    <2> QED
      BY <2>3, <1>0
  <1>6. ASSUME NEW t \in Threads, (\E f \in Tasks : Drop(t, f)) \/ End(t)
        PROVE  EndInv'
    <2>1. /\ pc[t] = "running"
          /\ UNCHANGED <<valid, place>>
      BY <1>6 DEF Drop, End, Running
    <2>2. PICK K \in SUBSET holds[t], next \in {"dropping", "ending"} :
             /\ LetGo(t, K, holds[t] \ K, t, next)
             /\ t = Main /\ next = "ending" => K = {}
      <3>1. ASSUME NEW f \in Tasks, Drop(t, f)
            PROVE  LetGo(t, holds[t] \ {f}, holds[t] \ (holds[t] \ {f}), t, "dropping")
        <4>1. holds[t] \ (holds[t] \ {f}) = {f}
          BY <3>1 DEF Drop
        <4> QED
          BY <3>1, <4>1 DEF Drop
      <3>2. ASSUME NEW f \in Tasks
            PROVE  holds[t] \ {f} \in SUBSET holds[t]
        OBVIOUS
      <3> QED
        BY <1>6, <3>1, <3>2 DEF End
    <2>3. K \in SUBSET Tasks /\ holds[t] \ K \in SUBSET Tasks
      BY DEF TypeOK
    <2>4. Loosens
      BY <2>1, <2>2, <2>3, LetGoLoosens
    <2> QED
      BY <2>4, <1>0
  <1>7. ASSUME NEW t \in Threads, NEW f \in Tasks, Destroy(t, f)
        PROVE  EndInv'
    <2> DEFINE d == Unreferenced(holds', place, holds[f])
    <2>1. /\ f \in Threads /\ f \in Reach(t)
          /\ pc[t] \in {"dropping", "ending"}
          /\ valid[f] => ready[f]
          /\ valid' = [valid EXCEPT ![f] = FALSE]
          /\ holds' = [holds EXCEPT ![f] = {}]
          /\ doomed' = [doomed EXCEPT ![t] = (@ \ {f}) \cup d]
          /\ UNCHANGED <<pc, place>>
      BY <1>7 DEF Destroy, Reach, Threads
    <2>2. pc[f] = "done"
      BY <2>1 DEF Fresh, Blocking
    <2>3. \A g \in holds[f] : g \in d \/ InPlace(g) \/ \E u \in Threads : g \in holds'[u]
      BY DEF Unreferenced, InPlace
    <2> HIDE DEF d
    <2>4. /\ holds'[f] = {} /\ ~valid'[f]
          /\ \A u \in Threads \ {f} : holds'[u] = holds[u]
          /\ \A g \in Tasks : valid'[g] => valid[g]
          /\ doomed'[t] = (doomed[t] \ {f}) \cup d
          /\ \A u \in Threads \ {t} : doomed'[u] = doomed[u]
      BY <2>1 DEF TypeOK
    <2>5. ~Alive(f)'
      BY <2>1, <2>2, <2>4 DEF Alive
    <2>6. ASSUME NEW g \in Tasks, g # f, Referred(g)
          PROVE  Referred(g)'
      <3>1. CASE InPlace(g)
        BY <3>1, <2>1 DEF Referred, InPlace
      <3>2. ASSUME NEW u \in Threads, g \in doomed[u]
            PROVE  Referred(g)'
        <4>1. g \in doomed'[u]
          BY <3>2, <2>4, <2>6
        <4> QED
          BY <4>1 DEF Referred, Reach
      <3>3. CASE g \in holds[f]
        <4>1. CASE g \in d
          <5>1. g \in doomed'[t]
            BY <4>1, <2>4
          <5> QED
            BY <5>1 DEF Referred, Reach
        <4> QED
          BY <3>3, <4>1, <2>1, <2>3 DEF Referred, InPlace, Reach
      <3>4. ASSUME NEW u \in Threads, g \in holds[u], u # f
            PROVE  Referred(g)'
        <4>1. g \in holds'[u]
          BY <3>4, <2>4
        <4> QED
          BY <4>1 DEF Referred, Reach
      <3> QED
        BY <2>6, <3>1, <3>2, <3>3, <3>4 DEF Referred, Reach
    <2>7. \A g \in Tasks : Alive(g)' => Alive(g)
      BY <2>1, <2>4, <2>5 DEF Alive, Threads
    <2>8. AliveReferred'
      BY <2>5, <2>6, <2>7 DEF AliveReferred
    <2>9. DoomedBusy'
      BY <2>1, <2>4 DEF DoomedBusy
    <2>10. MainEmpty'
      <3>1. Main \in Threads /\ Main # f
        BY DEF Threads
      <3> QED
        BY <3>1, <2>1, <2>4 DEF MainEmpty
    <2> QED
      BY <2>8, <2>9, <2>10
  <1>8. ASSUME NEW t \in Threads, DropDone(t) \/ EndDone(t)
        PROVE  EndInv'
    <2>1. /\ doomed[t] = {}
          /\ pc[t] \in {"dropping", "ending"}
          /\ \/ pc' = [pc EXCEPT ![t] = "running"]
             \/ pc' = [pc EXCEPT ![t] = "done"] /\ pc[t] = "ending"
          /\ UNCHANGED <<holds, doomed, valid, place>>
      BY <1>8 DEF DropDone, EndDone
    <2>2. /\ \A u \in Threads \ {t} : pc'[u] = pc[u]
          /\ pc'[t] = "running" \/ (pc'[t] = "done" /\ pc[t] = "ending")
      BY <2>1 DEF TypeOK
    <2>3. \A g \in Tasks : Alive(g)' => Alive(g)
      BY <2>1, <2>2 DEF Alive, Threads
    <2>4. \A g \in Tasks : Referred(g) => Referred(g)'
      BY <2>1 DEF Referred, InPlace, Reach
    <2>5. DoomedBusy' /\ MainEmpty'
      BY <2>1, <2>2 DEF DoomedBusy, MainEmpty, Threads
    <2> QED
      BY <2>3, <2>4, <2>5, <1>0 DEF Loosens
  <1> QED
    BY <1>1, <1>2, <1>3, <1>4, <1>5, <1>6, <1>7, <1>8, <1>9, <1>10, <1>12, <1>13, <1>14
    DEF Next, Step

LEMMA SpecEndInv == Spec => [](IInv /\ EndInv)
  <1>1. Init => EndInv
    BY InitEndInv
  <1>2. IInv /\ EndInv /\ [Next]_vars => EndInv'
    BY NextEndInv
  <1> QED
    BY <1>1, <1>2, SpecIInv, PTL DEF Spec

-----------------------------------------------------------------------------
\* A finite set of tasks each of which is reached by another one of the set
\* has a circle: a smallest such set is one that reaches itself.
LEMMA NoBackwardChain ==
    ASSUME NoReferenceCycle, ~shared,
           NEW A \in SUBSET Tasks,
           \A f \in A : \E g \in A : f \in Reach(g)
    PROVE  A = {}
  <1> SUFFICES ASSUME A # {} PROVE FALSE
    OBVIOUS
  <1> USE FutureAssumption
  <1> DEFINE Closed(B) == \A f \in B : \E g \in B : f \in Reach(g)
             Chains == {B \in (SUBSET Tasks) \ {{}} : Closed(B)}
  <1>1. A \in Chains
    OBVIOUS
  <1>2. Chains \subseteq FiniteSubsetsOf(Tasks)
    BY FS_FiniteSubsetsOfFinite
  <1>3. PICK B \in Chains : \A C \in Chains : ~ (<<C, B>> \in StrictSubsetOrdering(Tasks))
    <2>1. IsWellFoundedOn(StrictSubsetOrdering(Tasks), FiniteSubsetsOf(Tasks))
      BY FS_StrictSubsetOrderingWellFounded
    <2> HIDE DEF Chains
    <2> QED
      BY <1>1, <1>2, <2>1, WFMin
  <1>4. ASSUME NEW f \in B
        PROVE  Reach(f) \cap B # {}
    <2> SUFFICES ASSUME Reach(f) \cap B = {} PROVE FALSE
      OBVIOUS
    <2> DEFINE C == B \ {f}
    <2>1. Closed(C)
      OBVIOUS
    <2>2. C # {}
      OBVIOUS
    <2>3. C \in Chains
      BY <2>1, <2>2
    <2>4. <<C, B>> \in StrictSubsetOrdering(Tasks)
      BY DEF StrictSubsetOrdering
    <2> QED
      BY <2>3, <2>4, <1>3
  <1> QED
    BY <1>4 DEF NoReferenceCycle

-----------------------------------------------------------------------------
\* No task is left that nobody can wait for (builtin_async.hpp:37): whatever
\* goes out of reach, were it by overwriting a reference or by receiving a
\* message, is destroyed by the thread that had it last.
THEOREM NoneOrphaned == Spec => []NoOrphan
  <1>1. EndInv => NoOrphan
    BY DEF EndInv, AliveReferred, Alive, Referred, InPlace, Reach, NoOrphan
  <1> QED
    BY <1>1, SpecEndInv, PTL

\* When main has returned, every task has ended: a task that runs is reached
\* by one that runs, and so on, in a circle.
THEOREM MainIsLast == Spec => []MainEndsLast
  <1>1. IInv /\ EndInv => MainEndsLast
    <2> SUFFICES ASSUME IInv, EndInv, ~shared, pc[Main] = "done"
                 PROVE  \A f \in Tasks : pc[f] \in {"unborn", "done"}
      BY DEF MainEndsLast
    <2> USE DEF IInv, EndInv
    <2> DEFINE A == {f \in Tasks : Alive(f)}
    <2>1. (\A g \in Tasks : ~InPlace(g)) /\ Reach(Main) = {}
      BY DEF Blocking, InPlace, DoomedBusy, MainEmpty, Reach, Threads
    <2>2. ASSUME NEW f \in A
          PROVE  \E g \in A : f \in Reach(g)
      <3>1. PICK t \in Threads : f \in Reach(t)
        BY <2>1 DEF AliveReferred, Referred
      <3>2. t \in Tasks
        BY <3>1, <2>1 DEF Threads
      <3>3. Alive(t)
        BY <3>1, <3>2 DEF Alive, Reach, DoomedBusy
      <3> QED
        BY <3>1, <3>2, <3>3
    <2>3. A = {}
      BY <2>2, NoBackwardChain
    <2> QED
      BY <2>3 DEF Alive
  <1> QED
    BY <1>1, SpecEndInv, PTL
-----------------------------------------------------------------------------
(***************************************************************************)
(* What std::future throws takes a future that was used twice.             *)
(***************************************************************************)

\* A handle some thread can come by.
Held(f) == InPlace(f) \/ \E t \in Threads : f \in holds[t]

Awaits(t, f) == pc[t] = "awaiting" /\ target[t] = f

\* What is being destroyed nobody can come by.
Unheld == \A t \in Threads : \A f \in doomed[t] : ~Held(f)

\* Only an await makes a future invalid that somebody can come by.
HeldValid == \A f \in Tasks : Held(f) => valid[f] \/ uses[f] # "never"

\* A thread that awaits has been counted; one that comes too late is a second.
Counted ==
    \A t \in Threads : \A f \in Tasks :
        Awaits(t, f) => uses[f] # "never" /\ (valid[f] \/ uses[f] = "more")

Apart ==
    \A t \in Threads : \A u \in Threads \ {t} : \A f \in Tasks :
        Awaits(t, f) /\ Awaits(u, f) => uses[f] = "more"

OnceInv == Unheld /\ HeldValid /\ Counted /\ Apart /\ OnceIsHarmless

LEMMA InitOnceInv == Init => OnceInv
  BY FutureAssumption DEF Init, OnceInv, Unheld, HeldValid, Counted, Apart, OnceIsHarmless,
                          Held, InPlace, Awaits, Threads

\* A step that begins no await, gives nobody an invalid future, and makes one
\* invalid only by the await that was first or when nobody can come by it.
LEMMA OnceKept ==
    ASSUME OnceInv, Unheld',
           \A g \in Tasks : Held(g)' => Held(g) \/ valid'[g],
           \A u \in Threads : \A g \in Tasks : Awaits(u, g)' => Awaits(u, g),
           \A g \in Tasks : uses'[g] = uses[g] \/ uses'[g] = "more",
           \A g \in Tasks :
              valid[g] => \/ valid'[g]
                          \/ /\ uses[g] # "never"
                             /\ \A u \in Threads : Awaits(u, g)' => uses'[g] = "more"
                          \/ ~Held(g)' /\ \A u \in Threads : ~Awaits(u, g)',
           UNCHANGED <<crashed, escaping>> \/ \E g \in Tasks : uses'[g] = "more"
    PROVE  OnceInv'
  <1> USE DEF OnceInv
  <1>1. HeldValid'
    BY DEF HeldValid
  <1>2. Counted'
    BY DEF Counted
  <1>3. Apart'
    BY DEF Apart
  <1>4. OnceIsHarmless'
    BY DEF OnceIsHarmless
  <1> QED
    BY <1>1, <1>2, <1>3, <1>4

\* Letting go gives nobody anything but what was held, and what is doomed by
\* it nobody holds.
LEMMA LetGoHeld ==
    ASSUME TypeOK, Unheld, place' = place,
           NEW t \in Threads, NEW e \in Threads,
           NEW K \in SUBSET Tasks, NEW X \in SUBSET Tasks,
           NEW next \in {"dropping", "ending"},
           LetGo(t, K, X, e, next),
           K \subseteq holds[t] \cup holds[e]
    PROVE  /\ \A g \in Tasks : Held(g)' => Held(g)
           /\ Unheld'
  <1> DEFINE h == [holds EXCEPT ![t] = K, ![e] = IF e = t THEN K ELSE {}]
             d == Unreferenced(h, place, X)
  <1>1. /\ holds' = h
        /\ doomed' = [doomed EXCEPT ![t] = @ \cup d]
    BY DEF LetGo
  <1>2. \A u \in Threads : h[u] \subseteq holds[u] \cup holds[t] \cup holds[e]
    BY DEF TypeOK
  <1>3. \A g \in d : ~InPlace(g) /\ \A u \in Threads : g \notin h[u]
    BY DEF Unreferenced, InPlace
  <1>4. d \subseteq X
    BY DEF Unreferenced
  <1> HIDE DEF h, d
  <1>5. /\ doomed'[t] = doomed[t] \cup d
        /\ \A u \in Threads \ {t} : doomed'[u] = doomed[u]
    BY <1>1 DEF TypeOK
  <1>6. \A g : Held(g)' => Held(g)
    BY <1>1, <1>2 DEF Held, InPlace
  <1>7. \A g \in d : ~Held(g)'
    BY <1>1, <1>3 DEF Held, InPlace
  <1> QED
    BY <1>5, <1>6, <1>7 DEF Unheld

LEMMA EscapeHeld ==
    ASSUME TypeOK, Unheld, place' = place,
           NEW t \in Threads, NEW e \in Threads, Escape(t, e)
    PROVE  /\ \A g \in Tasks : Held(g)' => Held(g)
           /\ Unheld'
  <1>1. CASE t = Main
    BY <1>1 DEF Escape, Held, InPlace, Unheld
  <1>2. CASE t # Main
    <2>1. PICK kept \in SUBSET holds[t] :
             LetGo(t, kept, (holds[t] \cup holds[e]) \ kept, e, "ending")
      BY <1>2 DEF Escape
    <2>2. /\ kept \in SUBSET Tasks /\ kept \subseteq holds[t] \cup holds[e]
          /\ (holds[t] \cup holds[e]) \ kept \in SUBSET Tasks
      BY DEF TypeOK
    <2> QED
      BY <2>1, <2>2, LetGoHeld
  <1> QED
    BY <1>1, <1>2

\* A thread that stops running, or awaiting f, awaits nothing else instead.
LEMMA NoNewAwait ==
    ASSUME TypeOK, NEW t \in Threads,
           \A u \in Threads \ {t} : pc'[u] = pc[u] /\ target'[u] = target[u],
           pc'[t] # "awaiting" \/ target'[t] = None
    PROVE  \A u \in Threads : \A g \in Tasks : Awaits(u, g)' => Awaits(u, g) /\ u # t
  BY FutureAssumption DEF Awaits

LEMMA NextOnceInv == IInv /\ EndInv /\ OnceInv /\ [Next]_vars => OnceInv'
  <1> SUFFICES ASSUME IInv, EndInv, OnceInv, [Next]_vars
               PROVE  OnceInv'
    OBVIOUS
  <1> USE FutureAssumption
  <1>0. TypeOK /\ Unheld
    BY DEF IInv, OnceInv
  <1>1. CASE UNCHANGED vars
    BY <1>1 DEF vars, OnceInv, Unheld, HeldValid, Counted, Apart, OnceIsHarmless, Held,
                InPlace, Awaits
  <1>2. ASSUME NEW t \in Threads, NEW f \in Tasks, Async(t, f)
        PROVE  OnceInv'
    <2>1. PICK captured \in SUBSET holds[t] :
             holds' = [holds EXCEPT ![f] = captured, ![t] = @ \cup {f}]
      BY <1>2 DEF Async
    <2>2. /\ f \in Threads /\ pc[f] = "unborn" /\ pc[t] = "running"
          /\ pc' = [pc EXCEPT ![f] = "running"]
          /\ valid' = [valid EXCEPT ![f] = TRUE]
          /\ UNCHANGED <<target, doomed, escaping, place, crashed, uses>>
      BY <1>2 DEF Async, Running, Threads
    <2>3. /\ valid'[f] /\ \A g \in Tasks \ {f} : valid'[g] = valid[g]
          /\ pc'[f] = "running" /\ \A u \in Threads \ {f} : pc'[u] = pc[u]
      BY <1>0, <2>2 DEF TypeOK
    <2>4. \A u \in Threads : holds'[u] \subseteq holds[u] \cup holds[t] \cup {f}
      BY <1>0, <2>1, <2>2 DEF TypeOK
    <2>5. \A g : Held(g)' => Held(g) \/ g = f
      BY <2>2, <2>4 DEF Held, InPlace
    <2>6. \A u \in Threads : f \notin doomed[u]
      BY <2>2 DEF IInv, Fresh, Reach
    <2>7. Unheld'
      BY <1>0, <2>2, <2>5, <2>6 DEF Unheld
    <2>8. \A u \in Threads : \A g \in Tasks : Awaits(u, g)' => Awaits(u, g)
      BY <2>2, <2>3 DEF Awaits
    <2> QED
      BY <2>2, <2>3, <2>5, <2>7, <2>8, OnceKept
  <1>3. ASSUME NEW t \in Threads, NEW f \in Tasks, AwaitCall(t, f)
        PROVE  OnceInv'
    <2>1. /\ pc[t] = "running" /\ valid[f] /\ f \in Tasks
          /\ pc' = [pc EXCEPT ![t] = "awaiting"]
          /\ target' = [target EXCEPT ![t] = f]
          /\ uses' = [uses EXCEPT ![f] = IF @ = "never" THEN "once" ELSE "more"]
          /\ UNCHANGED <<holds, doomed, valid, escaping, place, crashed>>
      BY <1>3 DEF AwaitCall, Running, Use
    <2>2. /\ \A u \in Threads \ {t} : pc'[u] = pc[u] /\ target'[u] = target[u]
          /\ target'[t] = f
          /\ uses'[f] = IF uses[f] = "never" THEN "once" ELSE "more"
          /\ \A g \in Tasks \ {f} : uses'[g] = uses[g]
      BY <1>0, <2>1 DEF TypeOK
    <2>3. /\ \A g : Held(g)' <=> Held(g)
          /\ \A u \in Threads \ {t} : \A g \in Tasks : Awaits(u, g)' <=> Awaits(u, g)
          /\ \A g \in Tasks : Awaits(t, g)' => g = f
      BY <2>1, <2>2 DEF Held, InPlace, Awaits
    <2>4. /\ uses'[f] # "never" /\ (uses[f] # "never" => uses'[f] = "more")
          /\ \A g \in Tasks : uses[g] # "never" => uses'[g] # "never"
          /\ \A g \in Tasks : uses[g] = "more" => uses'[g] = "more"
      BY <2>2
    <2>5. Unheld' /\ HeldValid'
      BY <2>1, <2>3, <2>4 DEF OnceInv, Unheld, HeldValid
    <2>6. Counted'
      BY <2>1, <2>3, <2>4 DEF OnceInv, Counted
    <2>7. Apart'
      BY <2>3, <2>4 DEF OnceInv, Counted, Apart
    <2>8. OnceIsHarmless'
      BY <2>1, <2>4 DEF OnceInv, OnceIsHarmless
    <2> QED
      BY <2>5, <2>6, <2>7, <2>8 DEF OnceInv
  <1>4. ASSUME NEW t \in Threads, NEW f \in Tasks, UseInvalid(t, f)
        PROVE  OnceInv'
    <2>1. /\ pc[t] = "running" /\ f \in holds[t] /\ ~valid[f]
          /\ Escape(t, t) /\ (t # Main => t \in Tasks)
          /\ uses' = [uses EXCEPT ![f] = IF @ = "never" THEN "once" ELSE "more"]
          /\ UNCHANGED <<target, valid, place>>
      BY <1>4 DEF UseInvalid, Running, Use, Threads
    <2>2. uses[f] # "never"
      BY <2>1 DEF OnceInv, HeldValid, Held
    <2>3. uses'[f] = "more" /\ \A g \in Tasks \ {f} : uses'[g] = uses[g]
      BY <1>0, <2>1, <2>2 DEF TypeOK
    <2>4. (\A g \in Tasks : Held(g)' => Held(g)) /\ Unheld'
      BY <1>0, <2>1, EscapeHeld
    <2>5. \A u \in Threads : \A g \in Tasks : Awaits(u, g)' => Awaits(u, g)
      <3>1. /\ \A u \in Threads \ {t} : pc'[u] = pc[u]
            /\ pc'[t] \in {pc[t], "running", "dropping", "ending"}
        BY <1>0, <2>1, EscapeEffect
      <3>2. pc'[t] # "awaiting"
        BY <2>1, <3>1
      <3> QED
        BY <2>1, <3>1, <3>2 DEF Awaits
    <2> QED
      BY <2>1, <2>3, <2>4, <2>5, OnceKept
  <1>5. ASSUME NEW t \in Threads, AwaitReturn(t) \/ AwaitRace(t)
        PROVE  OnceInv'
    <2> DEFINE f == target[t]
    <2>1. /\ pc[t] = "awaiting" /\ f \in Tasks /\ f \in Threads /\ f # t
          /\ target' = [target EXCEPT ![t] = None]
          /\ UNCHANGED <<place, uses>>
      BY <1>5 DEF AwaitReturn, AwaitRace, Up, IInv, Blocking, TypeOK, Threads
    <2>2. \A g \in Tasks \ {f} : valid'[g] = valid[g]
      BY <1>0, <1>5 DEF AwaitReturn, AwaitRace, TypeOK
    <2>3. uses[f] # "never" /\ (valid[f] \/ uses[f] = "more")
      BY <2>1 DEF OnceInv, Counted, Awaits
    <2>4. \A u \in Threads \ {t} : Awaits(u, f) => uses[f] = "more"
      BY <2>1 DEF OnceInv, Apart, Awaits
    <2>5. /\ \A g \in Tasks : Held(g)' => Held(g)
          /\ Unheld'
          /\ \A u \in Threads \ {t} : pc'[u] = pc[u]
      <3>1. ASSUME NEW e \in {t, f}, Escape(t, e)
            PROVE  /\ \A g \in Tasks : Held(g)' => Held(g)
                   /\ Unheld'
                   /\ \A u \in Threads \ {t} : pc'[u] = pc[u]
        <4>1. e \in Threads /\ (t # Main => e \in Tasks)
          BY <2>1 DEF Threads
        <4>2. \A u \in Threads \ {t} : pc'[u] = pc[u]
          BY <1>0, <3>1, <4>1, EscapeEffect
        <4> QED
          BY <1>0, <2>1, <3>1, <4>1, <4>2, EscapeHeld
      <3>2. CASE UNCHANGED <<pc, holds, doomed>>
        BY <1>0, <2>1, <3>2 DEF Held, InPlace, Unheld
      <3>3. CASE \E carried \in SUBSET holds[f] :
                    LetGo(t, holds[t] \cup carried, holds[f], f, "dropping")
        <4>1. PICK carried \in SUBSET holds[f] :
                 LetGo(t, holds[t] \cup carried, holds[f], f, "dropping")
          BY <3>3
        <4>2. /\ holds[t] \cup carried \in SUBSET Tasks
              /\ holds[f] \in SUBSET Tasks
              /\ holds[t] \cup carried \subseteq holds[t] \cup holds[f]
          BY <1>0, <2>1 DEF TypeOK
        <4>3. \A u \in Threads : u # t => pc'[u] = pc[u]
          BY <1>0, <4>1, <4>2, <2>1, LetGoEffect
        <4> QED
          BY <1>0, <2>1, <4>1, <4>2, <4>3, LetGoHeld
      <3> QED
        BY <1>5, <3>1, <3>2, <3>3 DEF AwaitReturn, AwaitRace
    <2>6. \A u \in Threads : \A g \in Tasks : Awaits(u, g)' => Awaits(u, g) /\ u # t
      <3>1. target'[t] = None /\ \A u \in Threads \ {t} : target'[u] = target[u]
        BY <1>0, <2>1 DEF TypeOK
      <3> QED
        BY <1>0, <2>5, <3>1, NoNewAwait
    <2>7. UNCHANGED <<crashed, escaping>> \/ \E g \in Tasks : uses'[g] = "more"
      <3>1. CASE AwaitRace(t)
        BY <2>1, <2>3, <3>1 DEF AwaitRace
      <3>2. CASE AwaitReturn(t)
        <4>1. CASE escaping[f]
          BY <2>1, <4>1 DEF OnceInv, OnceIsHarmless
        <4>2. CASE ~escaping[f]
          BY <3>2, <4>2 DEF AwaitReturn
        <4> QED
          BY <4>1, <4>2
      <3> QED
        BY <1>5, <3>1, <3>2
    <2> QED
      BY <2>1, <2>2, <2>3, <2>4, <2>5, <2>6, <2>7, OnceKept
  <1>6. ASSUME NEW t \in Threads, (\E f \in Tasks : Drop(t, f)) \/ End(t)
        PROVE  OnceInv'
    <2>1. /\ pc[t] = "running"
          /\ UNCHANGED <<target, valid, escaping, place, crashed, uses>>
      BY <1>6 DEF Drop, End, Running
    <2>2. PICK K \in SUBSET holds[t], X \in SUBSET holds[t], next \in {"dropping", "ending"} :
             LetGo(t, K, X, t, next)
      BY <1>6 DEF Drop, End
    <2>3. K \in SUBSET Tasks /\ X \in SUBSET Tasks
      BY <1>0 DEF TypeOK
    <2>4. (\A g \in Tasks : Held(g)' => Held(g)) /\ Unheld'
      BY <1>0, <2>1, <2>2, <2>3, LetGoHeld
    <2>5. OnlyLoses(t)
      BY <1>0, <2>2, <2>3, LetGoSelf
    <2>6. \A u \in Threads : \A g \in Tasks : Awaits(u, g)' => Awaits(u, g)
      BY <2>1, <2>5 DEF OnlyLoses, Awaits
    <2> QED
      BY <2>1, <2>4, <2>6, OnceKept
  <1>7. ASSUME NEW t \in Threads, NEW f \in Tasks, Destroy(t, f)
        PROVE  OnceInv'
    <2> DEFINE d == Unreferenced(holds', place, holds[f])
    <2>1. /\ Up /\ f \in doomed[t] /\ f \in Threads
          /\ valid' = [valid EXCEPT ![f] = FALSE]
          /\ holds' = [holds EXCEPT ![f] = {}]
          /\ doomed' = [doomed EXCEPT ![t] = (@ \ {f}) \cup d]
          /\ UNCHANGED <<pc, target, escaping, place, crashed, uses>>
      BY <1>7 DEF Destroy, Threads
    <2>2. \A g \in d : ~Held(g)'
      BY <2>1 DEF Unreferenced, Held, InPlace
    <2> HIDE DEF d
    <2>3. \A u \in Threads : holds'[u] \subseteq holds[u]
      BY <1>0, <2>1 DEF TypeOK
    <2>4. \A g : Held(g)' => Held(g)
      BY <2>1, <2>3 DEF Held, InPlace
    <2>5. \A u \in Threads : \A g \in doomed'[u] : g \in doomed[u] \/ g \in d
      BY <1>0, <2>1 DEF TypeOK
    <2>6. Unheld'
      BY <1>0, <2>2, <2>4, <2>5 DEF Unheld
    <2>7. ~Held(f)
      BY <1>0, <2>1 DEF Unheld
    <2>8. \A u \in Threads : ~Awaits(u, f)
      <3>1. ASSUME NEW u \in Threads, Awaits(u, f)
            PROVE  f \in holds[u]
        BY <2>1, <3>1 DEF Awaits, IInv, Blocking, Up
      <3> QED
        BY <2>7, <3>1 DEF Held
    <2>9. /\ \A u \in Threads : \A g \in Tasks : Awaits(u, g)' <=> Awaits(u, g)
          /\ \A g \in Tasks \ {f} : valid'[g] = valid[g]
      BY <1>0, <2>1 DEF Awaits, TypeOK
    <2> QED
      BY <2>1, <2>4, <2>6, <2>7, <2>8, <2>9, OnceKept
  <1>8. ASSUME NEW t \in Threads, DropDone(t) \/ EndDone(t)
        PROVE  OnceInv'
    <2>1. /\ \E p \in {"running", "done"} : pc' = [pc EXCEPT ![t] = p]
          /\ UNCHANGED <<target, holds, doomed, valid, escaping, place, crashed, uses>>
      BY <1>8 DEF DropDone, EndDone
    <2>2. /\ \A g : Held(g)' <=> Held(g)
          /\ \A u \in Threads : \A g \in Tasks : Awaits(u, g)' => Awaits(u, g)
      BY <1>0, <2>1 DEF Held, InPlace, Awaits, TypeOK
    <2>3. Unheld'
      BY <1>0, <2>1, <2>2 DEF Unheld
    <2> QED
      BY <2>1, <2>2, <2>3, OnceKept
  <1>9. ASSUME NEW t \in Threads, NEW r \in References, SetRef(t, r)
        PROVE  OnceInv'
    <2>1. PICK H \in SUBSET holds[t] :
             /\ place' = [place EXCEPT ![r] = H]
             /\ doomed' = [doomed EXCEPT ![t] = Unreferenced(holds, place', place[r])]
      BY <1>9 DEF SetRef
    <2>2. /\ pc' = [pc EXCEPT ![t] = "dropping"] /\ r \in Places
          /\ UNCHANGED <<target, holds, valid, escaping, crashed, uses>>
      BY <1>9 DEF SetRef, Places
    <2> DEFINE d == Unreferenced(holds, place', place[r])
    <2>3. \A g \in d : ~Held(g)'
      BY <2>2 DEF Unreferenced, Held, InPlace
    <2> HIDE DEF d
    <2>4. \A q \in Places : place'[q] \subseteq place[q] \cup holds[t]
      BY <1>0, <2>1, <2>2 DEF TypeOK
    <2>5. \A g : Held(g)' => Held(g)
      BY <2>2, <2>4 DEF Held, InPlace
    <2>6. \A u \in Threads : doomed'[u] = doomed[u] \/ doomed'[u] = d
      BY <1>0, <2>1 DEF TypeOK, d
    <2>7. Unheld'
      BY <1>0, <2>3, <2>5, <2>6 DEF Unheld
    <2>8. \A u \in Threads : \A g \in Tasks : Awaits(u, g)' => Awaits(u, g)
      BY <1>0, <2>2 DEF Awaits, TypeOK
    <2> QED
      BY <2>2, <2>5, <2>7, <2>8, OnceKept
  <1>10. ASSUME NEW t \in Threads, NEW r \in References, RaceRef(t, r)
         PROVE  OnceInv'
    BY <1>10 DEF RaceRef, OnceInv, Unheld, HeldValid, Counted, Apart, OnceIsHarmless,
                 Held, InPlace, Awaits
  <1>11. ASSUME \A q \in Places : place'[q] \subseteq place[q] \/ \E u \in Threads : place'[q] \subseteq holds[u],
                \A u \in Threads : holds'[u] \subseteq holds[u]
                    \/ \E q \in Places : holds'[u] \subseteq holds[u] \cup place[q],
                UNCHANGED <<pc, target, doomed, valid, escaping, crashed, uses>>
         PROVE  OnceInv'
    <2>1. \A g : Held(g)' => Held(g)
      BY <1>11 DEF Held, InPlace
    <2>2. Unheld'
      BY <1>0, <1>11, <2>1 DEF Unheld
    <2>3. \A u \in Threads : \A g \in Tasks : Awaits(u, g)' <=> Awaits(u, g)
      BY <1>11 DEF Awaits
    <2> QED
      BY <1>11, <2>1, <2>2, <2>3, OnceKept
  <1>12. ASSUME NEW t \in Threads, NEW r \in References, GetRef(t, r)
         PROVE  OnceInv'
    <2>1. r \in Places /\ holds' = [holds EXCEPT ![t] = @ \cup place[r]] /\ place' = place
      BY <1>12 DEF GetRef, Places
    <2>2. \A u \in Threads : holds'[u] \subseteq holds[u] \cup place[r]
      BY <1>0, <2>1 DEF TypeOK
    <2> QED
      BY <1>11, <1>12, <2>1, <2>2 DEF GetRef
  <1>13. ASSUME NEW t \in Threads, NEW m \in Messages, Pop(t, m)
         PROVE  OnceInv'
    <2>1. /\ m \in Places /\ holds' = [holds EXCEPT ![t] = @ \cup place[m]]
          /\ place' = [place EXCEPT ![m] = {}]
      BY <1>13 DEF Pop, Places
    <2>2. /\ \A u \in Threads : holds'[u] \subseteq holds[u] \cup place[m]
          /\ \A q \in Places : place'[q] \subseteq place[q]
      BY <1>0, <2>1 DEF TypeOK
    <2> QED
      BY <1>11, <1>13, <2>1, <2>2 DEF Pop
  <1>14. ASSUME NEW t \in Threads, NEW m \in Messages, Push(t, m)
         PROVE  OnceInv'
    <2>1. PICK H \in SUBSET holds[t] : place' = [place EXCEPT ![m] = H]
      BY <1>14 DEF Push
    <2>2. \A q \in Places : place'[q] \subseteq place[q] \/ place'[q] \subseteq holds[t]
      BY <1>0, <2>1 DEF TypeOK
    <2> QED
      BY <1>11, <1>14, <2>2 DEF Push
  <1> QED
    BY <1>1, <1>2, <1>3, <1>4, <1>5, <1>6, <1>7, <1>8, <1>9, <1>10, <1>12, <1>13, <1>14
    DEF Next, Step

\* No C++ exception, and nothing that comes of one, unless some future is used
\* twice, whoever shares the handles through references and messages: no
\* thread comes by a future that was destroyed, and of two awaits one came
\* second.
THEOREM AwaitOnceIsSafe == Spec => []OnceIsHarmless
  <1>1. IInv /\ EndInv /\ OnceInv /\ [Next]_vars => OnceInv'
    BY NextOnceInv
  <1>2. OnceInv => OnceIsHarmless
    BY DEF OnceInv
  <1> QED
    BY <1>1, <1>2, InitOnceInv, SpecEndInv, PTL DEF Spec

-----------------------------------------------------------------------------
(***************************************************************************)
(* The threads together are never stuck.                                   *)
(***************************************************************************)

\* A thread that has a step of its own to take.
CanGoOn(t) ==
    \/ pc[t] = "running"
    \/ pc[t] = "awaiting" /\ ready[target[t]]
    \/ /\ pc[t] \in {"dropping", "ending"}
       /\ doomed[t] = {} \/ \E f \in doomed[t] : valid[f] => ready[f]

\* As long as handles travel only in closures and results, some thread goes
\* on, until all have ended or the process has.
SomeoneGoesOn ==
    ~shared /\ ~crashed /\ (\E t \in Threads : pc[t] \notin {"unborn", "done"}) =>
        \E t \in Threads : CanGoOn(t)

\* A task that has ended has a result, were it an exception.
DoneReady == \A f \in Tasks : pc[f] = "done" => ready[f]

LEMMA InitDoneReady == Init => DoneReady
  BY FutureAssumption DEF Init, DoneReady, Threads

LEMMA NextDoneReady ==
    ASSUME IInv, DoneReady, [Next]_vars
    PROVE  DoneReady'
  <1> USE FutureAssumption DEF IInv
  <1>1. ASSUME ready' = ready, \A f \in Tasks : pc'[f] = "done" => pc[f] = "done"
        PROVE  DoneReady'
    BY <1>1 DEF DoneReady
  <1>2. CASE UNCHANGED vars
    BY <1>1, <1>2 DEF vars
  <1>3. ASSUME NEW t \in Threads, NEW f \in Tasks, Destroy(t, f)
        PROVE  DoneReady'
    BY <1>1, <1>3 DEF Destroy
  <1>12. ASSUME NEW t \in Threads, NEW r \in References,
                SetRef(t, r) \/ GetRef(t, r) \/ RaceRef(t, r)
         PROVE  DoneReady'
    <2>1. /\ ready' = ready
          /\ pc' = [pc EXCEPT ![t] = "dropping"] \/ pc' = pc
      BY <1>12 DEF SetRef, GetRef, RaceRef
    <2> QED
      BY <2>1, <1>1 DEF TypeOK, Threads
  <1>13. ASSUME NEW t \in Threads, NEW m \in Messages, Push(t, m) \/ Pop(t, m)
         PROVE  DoneReady'
    BY <1>1, <1>13 DEF Push, Pop
  <1>10. ASSUME NEW t \in Threads, NEW f \in Tasks, Async(t, f) \/ AwaitCall(t, f)
        PROVE  DoneReady'
    <2>1. /\ ready' = ready
          /\ pc' = [pc EXCEPT ![f] = "running"] \/ pc' = [pc EXCEPT ![t] = "awaiting"]
      BY <1>10 DEF Async, AwaitCall
    <2> QED
      BY <2>1, <1>1 DEF TypeOK, Threads
  <1>11. ASSUME NEW t \in Threads, DropDone(t)
        PROVE  DoneReady'
    BY <1>1, <1>11 DEF DropDone, TypeOK, Threads
  <1>4. ASSUME NEW t \in Threads, NEW f \in Tasks, UseInvalid(t, f)
        PROVE  DoneReady'
    <2>1. /\ pc[t] = "running" /\ ready' = ready
          /\ Escape(t, t) /\ (t # Main => t \in Tasks)
      BY <1>4 DEF UseInvalid, Running, Threads
    <2>2. /\ pc'[t] \in {pc[t], "running", "dropping", "ending"}
          /\ \A u \in Threads \ {t} : pc'[u] = pc[u]
      BY <2>1, EscapeEffect
    <2> QED
      BY <2>1, <2>2, <1>1 DEF Threads
  <1>5. ASSUME NEW t \in Threads, NEW K \in SUBSET Tasks, NEW X \in SUBSET Tasks,
               NEW e \in Threads, NEW next \in {"dropping", "ending"},
               LetGo(t, K, X, e, next), ready' = ready
        PROVE  DoneReady'
    <2>1. /\ pc'[t] \in {"running", "dropping", "ending"}
          /\ \A u \in Threads : u # t => pc'[u] = pc[u]
      BY <1>5 DEF LetGo, TypeOK
    <2> QED
      BY <2>1, <1>1, <1>5 DEF Threads
  <1>6. ASSUME NEW t \in Threads, NEW f \in Tasks, Drop(t, f)
        PROVE  DoneReady'
    <2>1. /\ LetGo(t, holds[t] \ {f}, {f}, t, "dropping") /\ ready' = ready
          /\ holds[t] \ {f} \in SUBSET Tasks
      BY <1>6 DEF Drop, TypeOK
    <2> QED
      BY <2>1, <1>5
  <1>7. ASSUME NEW t \in Threads, End(t)
        PROVE  DoneReady'
    <2>1. PICK kept \in SUBSET holds[t] : LetGo(t, kept, holds[t] \ kept, t, "ending")
      BY <1>7 DEF End
    <2>2. ready' = ready /\ kept \in SUBSET Tasks /\ holds[t] \ kept \in SUBSET Tasks
      BY <1>7 DEF End, TypeOK
    <2> QED
      BY <2>1, <2>2, <1>5
  <1>8. ASSUME NEW t \in Threads, AwaitReturn(t) \/ AwaitRace(t)
        PROVE  DoneReady'
    <2>1. ready' = ready /\ pc[t] = "awaiting"
      BY <1>8 DEF AwaitReturn, AwaitRace
    <2>2. CASE \E e \in Threads : Escape(t, e) /\ (t # Main => e \in Tasks)
      <3>1. PICK e \in Threads : Escape(t, e) /\ (t # Main => e \in Tasks)
        BY <2>2
      <3>2. /\ pc'[t] \in {pc[t], "running", "dropping", "ending"}
            /\ \A u \in Threads \ {t} : pc'[u] = pc[u]
        BY <3>1, EscapeEffect
      <3> QED
        BY <2>1, <3>2, <1>1 DEF Threads
    <2>3. CASE pc' = pc
      BY <2>1, <2>3, <1>1
    <2>4. CASE \E carried \in SUBSET holds[target[t]] :
                  /\ target[t] \in Tasks
                  /\ LetGo(t, holds[t] \cup carried, holds[target[t]], target[t], "dropping")
      <3>1. PICK carried \in SUBSET holds[target[t]] :
                  /\ target[t] \in Tasks
                  /\ LetGo(t, holds[t] \cup carried, holds[target[t]], target[t], "dropping")
        BY <2>4
      <3>2. /\ target[t] \in Threads
            /\ holds[t] \cup carried \in SUBSET Tasks /\ holds[target[t]] \in SUBSET Tasks
        BY <3>1 DEF TypeOK, Threads
      <3> QED
        BY <3>1, <3>2, <2>1, <1>5
    <2>5. CASE AwaitReturn(t)
      <3>1. target[t] \in Tasks
        BY <2>5 DEF AwaitReturn, Up, Blocking, TypeOK
      <3>2. \/ Escape(t, target[t])
            \/ \E carried \in SUBSET holds[target[t]] :
                  LetGo(t, holds[t] \cup carried, holds[target[t]], target[t], "dropping")
        BY <2>5 DEF AwaitReturn
      <3> QED
        BY <3>1, <3>2, <2>2, <2>4 DEF Threads
    <2>6. CASE AwaitRace(t)
      <3>1. pc' = pc \/ Escape(t, t)
        BY <2>6 DEF AwaitRace
      <3> QED
        BY <3>1, <2>2, <2>3 DEF Threads
    <2> QED
      BY <1>8, <2>5, <2>6
  <1>9. ASSUME NEW t \in Threads, EndDone(t)
        PROVE  DoneReady'
    BY <1>9 DEF EndDone, DoneReady, TypeOK, Threads
  <1> QED
    BY <1>2, <1>3, <1>4, <1>6, <1>7, <1>8, <1>9, <1>10, <1>11, <1>12, <1>13
    DEF Next, Step

\* SomeoneGoesOn, for every set of tasks: were every thread that has not
\* ended blocked, each would wait for one of them, and these would be tasks
\* that wait in a circle.
THEOREM NeverStuck == Spec => []SomeoneGoesOn
  <1>1. IInv /\ DoneReady => SomeoneGoesOn
    <2> SUFFICES ASSUME IInv, DoneReady, ~shared, ~crashed,
                        NEW t \in Threads, pc[t] \notin {"unborn", "done"},
                        \A u \in Threads : ~CanGoOn(u)
                 PROVE  FALSE
      BY DEF SomeoneGoesOn
    <2> USE DEF IInv
    <2> DEFINE S == {f \in Tasks : pc[f] \notin {"unborn", "done"}}
    <2>1. ASSUME NEW u \in Threads, pc[u] \notin {"unborn", "done"}
          PROVE  Reach(u) \cap S # {}
      <3>1. ASSUME NEW f \in Reach(u), ~ready[f]
            PROVE  f \in S
        <4>1. f \in Tasks /\ pc[f] # "unborn"
          BY <3>1 DEF TypeOK, Reach, Fresh
        <4> QED
          BY <3>1, <4>1 DEF DoneReady
      <3>2. CASE pc[u] = "awaiting"
        BY <3>1, <3>2 DEF CanGoOn, Blocking, Reach
      <3>3. CASE pc[u] \in {"dropping", "ending"}
        BY <3>1, <3>3 DEF CanGoOn, Reach
      <3> QED
        BY <2>1, <3>2, <3>3 DEF CanGoOn, TypeOK
    <2>2. S = {}
      BY <2>1 DEF NoReferenceCycle, Threads
    <2> QED
      BY <2>1, <2>2
  <1>2. IInv /\ DoneReady /\ [Next]_vars => DoneReady'
    BY NextDoneReady
  <1> QED
    BY <1>1, <1>2, InitDoneReady, SpecIInv, PTL DEF Spec
=============================================================================
