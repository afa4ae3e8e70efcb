------------------------------ MODULE EgelFuture ------------------------------
(***************************************************************************)
(* The tasks and future objects of src/src/builtin_async.hpp: any number   *)
(* of threads that start tasks, await them, poll them, let go of their     *)
(* futures and pass them on: in closures and results, in the references of *)
(* src/src/builtin_system.hpp and in messages to and from processes.       *)
(*                                                                         *)
(* A future object wraps the std::future of one task, so the task and its  *)
(* future share a name.  Three facts of std::future, external to this      *)
(* code, decide what can happen: get() consumes the result, so the future  *)
(* is no longer valid() after it; get() and wait_for() of a future that is *)
(* not valid throw std::future_error, which is no VMObjectPtr and passes   *)
(* through every catch clause of the interpreter; and the destructor of a  *)
(* valid future made by std::async blocks until its task has ended.        *)
(***************************************************************************)
EXTENDS FiniteSets, Naturals

CONSTANTS
    Tasks,        \* tasks that may be started, one future object for each
    Main,         \* the thread of the interpreter's main function
    References,   \* System::reference objects every thread can reach
    Messages,     \* bound: messages under way in the queues of processes
    MaxShared,    \* bound: tasks started in a behaviour that puts a handle
                  \* into a reference or a message
    None

Threads == Tasks \cup {Main}

\* Where a handle can be that no redex refers to.
Places == References \cup Messages

ASSUME FutureAssumption ==
    /\ IsFiniteSet(Tasks)
    /\ Main \notin Tasks
    /\ None \notin Tasks \cup References
    /\ References \cap Messages = {}

VARIABLES
    pc,        \* what each thread is doing
    target,    \* the future a thread blocks on in await
    holds,     \* the futures a thread can reach from its redex; those its
               \* shared state keeps once the task has ended
    doomed,    \* the futures whose last reference a thread is destroying
    valid,     \* _future.valid()
    ready,     \* the shared state holds a result
    escaping,  \* a C++ exception unwinds the thread, or is its task's result
    place,     \* the futures reached from each reference and each message
    setting,   \* the reference a thread is in set_ref of
    crashed,   \* std::terminate, or a null or dangling pointer was followed
    raced,     \* two threads were in one reference at once: undefined
    shared,    \* history: a handle was put into a reference or a message
    uses       \* history: how often a future was awaited, or polled after that

vars == <<pc, target, holds, doomed, valid, ready, escaping, place, setting,
          crashed, raced, shared, uses>>

TypeOK ==
    /\ pc \in [Threads -> {"unborn", "running", "awaiting", "dropping",
                           "ending", "done"}]
    /\ target \in [Threads -> Tasks \cup {None}]
    /\ holds \in [Threads -> SUBSET Tasks]
    /\ doomed \in [Threads -> SUBSET Tasks]
    /\ valid \in [Tasks -> BOOLEAN]
    /\ ready \in [Tasks -> BOOLEAN]
    /\ escaping \in [Threads -> BOOLEAN]
    /\ place \in [Places -> SUBSET Tasks]
    /\ setting \in [Threads -> References \cup {None}]
    /\ crashed \in BOOLEAN
    /\ raced \in BOOLEAN
    /\ shared \in BOOLEAN
    /\ uses \in [Tasks -> {"never", "once", "more"}]

Init ==
    /\ pc = [t \in Threads |-> IF t = Main THEN "running" ELSE "unborn"]
    /\ target = [t \in Threads |-> None]
    /\ holds = [t \in Threads |-> {}]
    /\ doomed = [t \in Threads |-> {}]
    /\ valid = [f \in Tasks |-> FALSE]
    /\ ready = [f \in Tasks |-> FALSE]
    /\ escaping = [t \in Threads |-> FALSE]
    /\ place = [p \in Places |-> {}]
    /\ setting = [t \in Threads |-> None]
    /\ crashed = FALSE /\ raced = FALSE
    /\ shared = FALSE
    /\ uses = [f \in Tasks |-> "never"]

\* Fault: what references and messages hold is not counted.
UnreferencedInRedexes(h, s, X) == {f \in X : \A u \in Threads : f \notin h[u]}

\* The futures of X nothing refers to any more when h says what threads hold
\* and s what references and messages do.
Unreferenced(h, s, X) ==
    {f \in X : (\A u \in Threads : f \notin h[u]) /\ (\A p \in Places : f \notin s[p])}

Up == ~crashed /\ ~raced

Running(t) == Up /\ pc[t] = "running"

Started == {f \in Tasks : pc[f] # "unborn"}

\* The name of the next task and of its future: which one is of no account.
NextTask == CHOOSE f \in Tasks : pc[f] = "unborn"

Use(f) == uses' = [uses EXCEPT ![f] = IF @ = "never" THEN "once" ELSE "more"]

-----------------------------------------------------------------------------
\* Fault: the new task's closure may capture the new future itself.
AsyncCapturesItself(t, f) ==
    /\ Running(t)
    /\ pc[f] = "unborn" /\ f = NextTask
    /\ shared => Cardinality(Started) < MaxShared
    /\ \E captured \in SUBSET (holds[t] \cup {f}) :
          holds' = [holds EXCEPT ![f] = captured, ![t] = @ \cup {f}]
    /\ pc' = [pc EXCEPT ![f] = "running"]
    /\ valid' = [valid EXCEPT ![f] = TRUE]
    /\ UNCHANGED <<target, doomed, ready, escaping, place, setting, crashed, raced,
                   shared, uses>>

\* Async::apply: the task's closure captures some of the handles at hand
Async(t, f) ==
    /\ Running(t)
    /\ pc[f] = "unborn" /\ f = NextTask
    /\ shared => Cardinality(Started) < MaxShared
    /\ \E captured \in SUBSET holds[t] :
          holds' = [holds EXCEPT ![f] = captured, ![t] = @ \cup {f}]
    /\ pc' = [pc EXCEPT ![f] = "running"]
    /\ valid' = [valid EXCEPT ![f] = TRUE]
    /\ UNCHANGED <<target, doomed, ready, escaping, place, setting, crashed, raced,
                   shared, uses>>

\* Fault: the value that is overwritten is not released.
SetRefLeaks(t, r) ==
    /\ Running(t)
    /\ \E H \in SUBSET holds[t] :
          /\ H # place[r]
          /\ H # {} => Cardinality(Started) <= MaxShared
          /\ place' = [place EXCEPT ![r] = H]
          /\ shared' = (shared \/ H # {})
    /\ setting' = [setting EXCEPT ![t] = r]
    /\ pc' = [pc EXCEPT ![t] = "dropping"]
    /\ UNCHANGED <<target, holds, doomed, valid, ready, escaping, crashed, raced, uses>>

\* set_ref r x: the handles in x replace those in r, whose last references go
\* while the thread is still in the assignment of _ref.  (A reference that
\* goes out of reach does what one that is set to none does.)
SetRef(t, r) ==
    /\ Running(t)
    /\ \E H \in SUBSET holds[t] :
          /\ H # place[r]
          /\ H # {} => Cardinality(Started) <= MaxShared
          /\ place' = [place EXCEPT ![r] = H]
          /\ shared' = (shared \/ H # {})
          /\ doomed' = [doomed EXCEPT ![t] = Unreferenced(holds, place', place[r])]
    /\ setting' = [setting EXCEPT ![t] = r]
    /\ pc' = [pc EXCEPT ![t] = "dropping"]
    /\ UNCHANGED <<target, holds, valid, ready, escaping, crashed, raced, uses>>

GetRef(t, r) ==
    /\ Running(t)
    /\ ~ place[r] \subseteq holds[t]
    /\ holds' = [holds EXCEPT ![t] = @ \cup place[r]]
    /\ UNCHANGED <<pc, target, doomed, valid, ready, escaping, place, setting,
                   crashed, raced, shared, uses>>

\* get_ref or set_ref while another thread is in set_ref: the shared pointer
\* _ref is read or written while it is being assigned, without a lock.  It
\* may go well (SetRef, GetRef); where it does not, nothing more is said.
RaceRef(t, r) ==
    /\ Running(t)
    /\ \E u \in Threads : setting[u] = r
    /\ raced' = TRUE
    /\ UNCHANGED <<pc, target, holds, doomed, valid, ready, escaping, place,
                   setting, crashed, shared, uses>>

\* A message with handles in it is pushed to a queue of a process, by send or
\* as an answer ...
Push(t, m) ==
    /\ Running(t)
    /\ place[m] = {}
    /\ Cardinality(Started) <= MaxShared
    /\ \E H \in (SUBSET holds[t]) \ {{}} : place' = [place EXCEPT ![m] = H]
    /\ shared' = TRUE
    /\ UNCHANGED <<pc, target, holds, doomed, valid, ready, escaping, setting,
                   crashed, raced, uses>>

\* ... and popped: the queue refers to it no more, whoever received it does.
Pop(t, m) ==
    /\ Running(t)
    /\ place[m] # {}
    /\ holds' = [holds EXCEPT ![t] = @ \cup place[m]]
    /\ place' = [place EXCEPT ![m] = {}]
    /\ UNCHANGED <<pc, target, doomed, valid, ready, escaping, setting, crashed,
                   raced, shared, uses>>

\* The thread lets go of X and keeps K; it destroys what is referred to
\* nowhere else, and goes on as next when that is done.  Every future it
\* destroys that is valid makes it wait.
LetGo(t, K, X, emptied, next) ==
    LET h == [holds EXCEPT ![t] = K, ![emptied] = IF emptied = t THEN K ELSE {}]
        d == Unreferenced(h, place, X)
    IN /\ holds' = h
       /\ doomed' = [doomed EXCEPT ![t] = @ \cup d]
       /\ pc' = [pc EXCEPT ![t] = IF d = {} /\ next = "dropping" THEN "running" ELSE next]

\* std::future_error, or the same rethrown by the get() that destroys the
\* shared state of f, leaves reduce: main has no handler for it; in a task it
\* unwinds to std::async, which makes it the task's result (and keeps what the
\* task's closure refers to).
Escape(t, f) ==
    IF t = Main
    THEN crashed' = TRUE /\ UNCHANGED <<pc, holds, doomed, escaping>>
    ELSE /\ \E kept \in SUBSET holds[t] :
               LetGo(t, kept, (holds[t] \cup holds[f]) \ kept, f, "ending")
         /\ escaping' = [escaping EXCEPT ![t] = TRUE]
         /\ UNCHANGED crashed

AwaitCall(t, f) ==
    /\ Running(t)
    /\ f \in holds[t]
    /\ valid[f]
    /\ pc' = [pc EXCEPT ![t] = "awaiting"]
    /\ target' = [target EXCEPT ![t] = f]
    /\ Use(f)
    /\ UNCHANGED <<holds, doomed, valid, ready, escaping, place, setting,
                   crashed, raced, shared>>

\* await or wait_for of a future that was already awaited
UseInvalid(t, f) ==
    /\ Running(t)
    /\ f \in holds[t]
    /\ ~valid[f]
    /\ Escape(t, t)
    /\ Use(f)
    /\ UNCHANGED <<target, valid, ready, place, setting, raced, shared>>

\* get() returns: the result and the handles in it, or its Egel exception,
\* pass to the awaiting thread, which destroys the shared state and with it
\* the handles only the task's closure kept.
AwaitReturn(t) ==
    LET f == target[t] IN
    /\ Up
    /\ pc[t] = "awaiting"
    /\ ready[f] /\ valid[f]
    /\ valid' = [valid EXCEPT ![f] = FALSE]
    /\ target' = [target EXCEPT ![t] = None]
    /\ IF escaping[f]
       THEN Escape(t, f)
       ELSE /\ \E carried \in SUBSET holds[f] :
                  LetGo(t, holds[t] \cup carried, holds[f], f, "dropping")
            /\ UNCHANGED <<escaping, crashed>>
    /\ UNCHANGED <<ready, place, setting, raced, shared, uses>>

\* Two get() calls on one std::future race: the one that comes second finds
\* a result that was moved from, a shared state that is gone or none at all.
AwaitRace(t) ==
    /\ Up
    /\ pc[t] = "awaiting"
    /\ ready[target[t]] /\ ~valid[target[t]]
    /\ target' = [target EXCEPT ![t] = None]
    /\ \/ crashed' = TRUE /\ UNCHANGED <<pc, holds, doomed, escaping>>
       \/ Escape(t, t)
    /\ UNCHANGED <<valid, ready, place, setting, raced, shared, uses>>

\* A handle goes out of reach.
Drop(t, f) ==
    /\ Running(t)
    /\ f \in holds[t]
    /\ LetGo(t, holds[t] \ {f}, {f}, t, "dropping")
    /\ UNCHANGED <<target, valid, ready, escaping, place, setting, crashed, raced,
                   shared, uses>>

\* The reduction of a thread ends: its shared state keeps the handles in the
\* result and in the task's closure; main keeps none.
End(t) ==
    /\ Running(t)
    /\ \E kept \in SUBSET holds[t] :
          /\ t = Main => kept = {}
          /\ LetGo(t, kept, holds[t] \ kept, t, "ending")
    /\ UNCHANGED <<target, valid, ready, escaping, place, setting, crashed, raced,
                   shared, uses>>

\* Fault: the future's destructor detaches the task instead of waiting.
DestroyDetaches(t, f) ==
    /\ Up
    /\ pc[t] \in {"dropping", "ending"}
    /\ f \in doomed[t]
    /\ valid' = [valid EXCEPT ![f] = FALSE]
    /\ holds' = [holds EXCEPT ![f] = IF ready[f] THEN {} ELSE @]
    /\ doomed' = [doomed EXCEPT ![t] = (@ \ {f}) \cup Unreferenced(holds', place, holds[f])]
    /\ UNCHANGED <<pc, target, ready, escaping, place, setting, crashed, raced,
                   shared, uses>>

\* ~Future of the last reference: it blocks while the task of a valid future
\* runs, then the shared state goes and the handles it kept.
Destroy(t, f) ==
    /\ Up
    /\ pc[t] \in {"dropping", "ending"}
    /\ f \in doomed[t]
    /\ valid[f] => ready[f]
    /\ valid' = [valid EXCEPT ![f] = FALSE]
    /\ holds' = [holds EXCEPT ![f] = {}]
    /\ doomed' = [doomed EXCEPT ![t] = (@ \ {f}) \cup Unreferenced(holds', place, holds[f])]
    /\ UNCHANGED <<pc, target, ready, escaping, place, setting, crashed, raced,
                   shared, uses>>

DropDone(t) ==
    /\ Up
    /\ pc[t] = "dropping" /\ doomed[t] = {}
    /\ pc' = [pc EXCEPT ![t] = "running"]
    /\ setting' = [setting EXCEPT ![t] = None]
    /\ UNCHANGED <<target, holds, doomed, valid, ready, escaping, place, crashed,
                   raced, shared, uses>>

\* Fault: a task that dies of a C++ exception leaves no result behind.
EndDoneOnlyResults(t) ==
    /\ Up
    /\ pc[t] = "ending" /\ doomed[t] = {}
    /\ pc' = [pc EXCEPT ![t] = "done"]
    /\ ready' = [f \in Tasks |-> IF f = t THEN ~escaping[t] ELSE ready[f]]
    /\ UNCHANGED <<target, holds, doomed, valid, escaping, place, setting, crashed,
                   raced, shared, uses>>

\* std::async sets the result; main returns.
EndDone(t) ==
    /\ Up
    /\ pc[t] = "ending" /\ doomed[t] = {}
    /\ pc' = [pc EXCEPT ![t] = "done"]
    /\ ready' = [f \in Tasks |-> IF f = t THEN TRUE ELSE ready[f]]
    /\ UNCHANGED <<target, holds, doomed, valid, escaping, place, setting, crashed,
                   raced, shared, uses>>

Step(t) ==
    \/ \E f \in Tasks : \/ Async(t, f) \/ AwaitCall(t, f) \/ UseInvalid(t, f)
                        \/ Drop(t, f) \/ Destroy(t, f)
    \/ \E r \in References : SetRef(t, r) \/ GetRef(t, r) \/ RaceRef(t, r)
    \/ \E m \in Messages : Push(t, m) \/ Pop(t, m)
    \/ AwaitReturn(t) \/ AwaitRace(t) \/ End(t) \/ DropDone(t) \/ EndDone(t)

Next == \E t \in Threads : Step(t)

Spec == Init /\ [][Next]_vars

\* Threads are scheduled fairly, every reduction comes to its end, and a
\* blocked thread goes on when it can.
Fairness ==
    \A t \in Threads :
        /\ WF_vars(End(t))
        /\ WF_vars(AwaitReturn(t) \/ AwaitRace(t) \/ DropDone(t) \/ EndDone(t)
                     \/ \E f \in Tasks : Destroy(t, f))

FairSpec == Spec /\ Fairness

-----------------------------------------------------------------------------
(* Properties.                                                             *)

\* What a thread cannot go on without.
BlockedOn(t) ==
    CASE pc[t] = "awaiting"               -> {target[t]}
      [] pc[t] \in {"dropping", "ending"} -> {f \in doomed[t] : valid[f]}
      [] OTHER                            -> {}

\* No tasks wait for each other in a circle, in await or in the destructor of
\* a future, as long as handles travel only in closures and results.
NoWaitCycle ==
    ~shared =>
        ~ \E S \in (SUBSET Tasks) \ {{}} : \A f \in S : BlockedOn(f) \cap S # {}

\* A task that has not ended, or whose result is still there, is referred to:
\* std::async never leaves a task behind that nobody can wait for, whatever
\* references are overwritten and messages received.
NoOrphan ==
    \A f \in Tasks :
        pc[f] \notin {"unborn", "done"} \/ holds[f] # {} =>
            \/ \E t \in Threads : f \in holds[t] \cup doomed[t]
            \/ \E p \in Places : f \in place[p]

\* When main returns, no task runs on: it would use a machine that is gone.
MainEndsLast ==
    ~shared /\ pc[Main] = "done" =>
        \A f \in Tasks : pc[f] \in {"unborn", "done"}

\* A thread that blocks in await or in a destructor goes on, as long as
\* handles travel only in closures and results.
EveryWaitEnds ==
    \A t \in Threads :
        pc[t] \in {"awaiting", "dropping", "ending"}
            ~> pc[t] \in {"running", "done"} \/ crashed \/ shared

\* Threads that await every future once get results, whoever they share them
\* with: what std::future throws, and all that comes of it, takes a future
\* that was awaited twice, or polled after it was awaited.  No handle a thread
\* can come by is that of a future that was destroyed (builtin_async.hpp:41).
OnceIsHarmless ==
    crashed \/ (\E t \in Threads : escaping[t]) => \E f \in Tasks : uses[f] = "more"
=============================================================================
