----------------------------- MODULE EgelProcess -----------------------------
(***************************************************************************)
(* One process object of src/src/builtin_process.hpp: the detached worker  *)
(* thread that executes Process::run, the trampoline of src/src/machine.hpp*)
(* it runs an application on, and the threads that call the combinators    *)
(* proc, send, recv and halt on the object.                                *)
(*                                                                         *)
(* A step is what a thread does between two accesses to state another      *)
(* thread can change: the run flag _state, read and written without the    *)
(* lock, and the two queues, each access under _lock.                      *)
(***************************************************************************)
EXTENDS Naturals, Sequences

CONSTANTS
    Clients,       \* threads that hold the process object
    Msgs,          \* values that are sent, received or thrown
    Programs,      \* values of _program
    InitProgram,   \* the argument of System::proc
    Answers,       \* Answers[<<p, m>>]: <<o, q>> such that p m may reduce to (o, q)
    Throws,        \* Throws[<<p, m>>]: values p m may raise
    Malformed,     \* the <<p, m>> that may reduce to something that is no pair
    Diverging,     \* the <<p, m>> whose reduction never ends
    MaxSends,      \* bound: messages sent in a behaviour
    MaxSteps,      \* bound: trampoline steps before the last one of a reduction
    NULL,          \* a null VMObjectPtr
    NoTuple        \* VMObjectText::create("no tuple")

Unset == [kind |-> "unset"]      \* a VMReduceResult nothing was written to

Applications == Programs \X Msgs

ASSUME ProcessAssumption ==
    /\ InitProgram \in Programs
    /\ Answers \in [Applications -> SUBSET (Msgs \X Programs)]
    /\ Throws \in [Applications -> SUBSET Msgs]
    /\ Malformed \subseteq Applications
    /\ Diverging \subseteq Applications
    /\ MaxSends \in Nat
    /\ MaxSteps \in Nat
    /\ NULL \notin Msgs
    /\ NULL # NoTuple
    /\ NoTuple \notin Msgs

\* What the reduction of an application leaves in *r: the value of a result
\* that is a triple headed by System::tuple, any other value, an exception.
Tuples     == [kind : {"tuple"}, out : Msgs, next : Programs]
Exceptions == [kind : {"exception"}, value : Msgs]
NotTuple   == [kind |-> "notuple"]

Results == Tuples \cup Exceptions \cup {NotTuple}

Outcomes(p, m) ==
    {x \in Tuples : <<x.out, x.next>> \in Answers[<<p, m>>]}
        \cup {x \in Exceptions : x.value \in Throws[<<p, m>>]}
        \cup (IF <<p, m>> \in Malformed THEN {NotTuple} ELSE {})

ASSUME OutcomeAssumption ==
    \A p \in Programs, m \in Msgs : <<p, m>> \in Diverging \/ Outcomes(p, m) # {}

VARIABLES
    program, in_queue, out_queue, exception, state,   \* the fields of Process
    pc,            \* where the worker is in run and reduce
    in, left, r,   \* its locals: the input, reduce steps to go, VMReduceResult
    cpc,           \* what each client is doing
    inputs, taken, \* history: all messages sent; how many the worker popped
    outputs, got,  \* history: all answers pushed; how many were received
    trace          \* history: trace[i] is the program that answers input i

fields  == <<program, in_queue, out_queue, exception, state>>
locals  == <<pc, in, left, r>>
history == <<inputs, taken, outputs, got, trace>>
vars    == <<fields, locals, cpc, history>>

WorkerPCs ==
    { "none",      \* proc not called yet
      "spawned",   \* std::thread made, run not entered
      "head",      \* about to test _state != HALTED
      "pop",       \* about to call in_pop
      "check",     \* at the trampoline's test of trampoline and *run
      "step",      \* about to call f->reduce(trampoline)
      "reduced",   \* reduce returned, r to be examined
      "assign",    \* answer pushed, _program to be assigned
      "failing",   \* _exception assigned, set_state(HALTED) to be called
      "done",      \* run returned
      "crashed" }  \* the interpreter died of a null dereference

TypeOK ==
    /\ program \in Programs
    /\ in_queue \in Seq(Msgs)
    /\ out_queue \in Seq(Msgs)
    /\ exception \in Msgs \cup {NULL, NoTuple}
    /\ state \in {"RUNNING", "HALTED"}
    /\ pc \in WorkerPCs
    /\ in \in Msgs \cup {NULL}
    /\ left \in 0..MaxSteps
    /\ r \in Results \cup {Unset}
    /\ cpc \in [Clients -> {"idle", "recv"}]
    /\ inputs \in Seq(Msgs)
    /\ taken \in Nat
    /\ outputs \in Seq(Msgs)
    /\ got \in Nat
    /\ trace \in Seq(Programs)

Init ==
    /\ program = InitProgram
    /\ in_queue = <<>> /\ out_queue = <<>>
    /\ exception = NULL
    /\ state = "RUNNING"
    /\ pc = "none"
    /\ in = NULL /\ left = 0 /\ r = Unset
    /\ cpc = [c \in Clients |-> "idle"]
    /\ inputs = <<>> /\ taken = 0
    /\ outputs = <<>> /\ got = 0
    /\ trace = <<InitProgram>>

\* set_state: HALTED is never replaced.  Its test and its assignment are two
\* accesses, but every caller passes HALTED, so no order of them matters.
SetState(s) == state' = IF state # "HALTED" THEN s ELSE state

Goto(from, to) == pc = from /\ pc' = to

-----------------------------------------------------------------------------
(* The clients: threads of the interpreter that reduce proc, send, recv    *)
(* and halt.                                                               *)

Running == pc \notin {"none", "crashed"}

\* Proc::apply: the object is made with _state RUNNING, its thread detached
Proc ==
    /\ Goto("none", "spawned")
    /\ UNCHANGED <<fields, in, left, r, cpc, history>>

\* Fault: in_push puts the message at the front.
SendPushesFront(c, m) ==
    /\ Running
    /\ cpc[c] = "idle"
    /\ Len(inputs) < MaxSends
    /\ in_queue' = <<m>> \o in_queue
    /\ inputs' = Append(inputs, m)
    /\ UNCHANGED <<program, out_queue, exception, state, locals, cpc,
                   taken, outputs, got, trace>>

\* Send::apply, in_push; the state of the process is not looked at
Send(c, m) ==
    /\ Running
    /\ cpc[c] = "idle"
    /\ Len(inputs) < MaxSends
    /\ in_queue' = Append(in_queue, m)
    /\ inputs' = Append(inputs, m)
    /\ UNCHANGED <<program, out_queue, exception, state, locals, cpc,
                   taken, outputs, got, trace>>

RecvCall(c) ==
    /\ Running
    /\ cpc[c] = "idle"
    /\ cpc' = [cpc EXCEPT ![c] = "recv"]
    /\ UNCHANGED <<fields, locals, history>>

\* Recv::apply, the poll that finds an answer; a poll that finds none sleeps
\* and changes nothing
RecvPop(c) ==
    /\ Running
    /\ cpc[c] = "recv"
    /\ out_queue # <<>>
    /\ out_queue' = Tail(out_queue)
    /\ got' = got + 1
    /\ cpc' = [cpc EXCEPT ![c] = "idle"]
    /\ UNCHANGED <<program, in_queue, exception, state, locals,
                   inputs, taken, outputs, trace>>

Halt(c) ==
    /\ Running
    /\ cpc[c] = "idle"
    /\ SetState("HALTED")
    /\ UNCHANGED <<program, in_queue, out_queue, exception, locals, cpc,
                   history>>

-----------------------------------------------------------------------------
(* The worker: run_process, Process::run and the loop of Machine::reduce.  *)

\* _state = RUNNING on entry, whatever it was
Start ==
    /\ Goto("spawned", "head")
    /\ state' = "RUNNING"
    /\ UNCHANGED <<program, in_queue, out_queue, exception, in, left, r, cpc,
                   history>>

LoopExit ==
    /\ Goto("head", "done")
    /\ state = "HALTED"
    /\ UNCHANGED <<fields, in, left, r, cpc, history>>

\* Fault: run loops forever, whatever _state is.
LoopEnterAlways ==
    /\ Goto("head", "pop")
    /\ UNCHANGED <<fields, in, left, r, cpc, history>>

LoopEnter ==
    /\ Goto("head", "pop")
    /\ state # "HALTED"
    /\ UNCHANGED <<fields, in, left, r, cpc, history>>

\* Fault: the worker returns when it finds no input.
PopEmptyReturns ==
    /\ Goto("pop", "done")
    /\ in_queue = <<>>
    /\ UNCHANGED <<fields, in, left, r, cpc, history>>

\* in_pop gives nullptr: sleep 25 ms and try again
PopEmpty ==
    /\ Goto("pop", "head")
    /\ in_queue = <<>>
    /\ UNCHANGED <<fields, in, left, r, cpc, history>>

\* in_pop gives an input; reduce is entered with a fresh VMReduceResult
Pop ==
    /\ Goto("pop", "check")
    /\ in_queue # <<>>
    /\ in' = Head(in_queue)
    /\ in_queue' = Tail(in_queue)
    /\ left' \in 0..MaxSteps
    /\ r' = Unset
    /\ taken' = taken + 1
    /\ UNCHANGED <<program, out_queue, exception, state, cpc,
                   inputs, outputs, got, trace>>

\* Fault: the trampoline does not look at *run.
CheckRunDeaf ==
    /\ Goto("check", "step")
    /\ UNCHANGED <<fields, in, left, r, cpc, history>>

CheckRun ==
    /\ Goto("check", "step")
    /\ state # "HALTED"
    /\ UNCHANGED <<fields, in, left, r, cpc, history>>

\* *run became HALTED while a redex is left: reduce returns, nothing in r
CheckHalted ==
    /\ Goto("check", "reduced")
    /\ state = "HALTED"
    /\ UNCHANGED <<fields, in, left, r, cpc, history>>

Diverges == <<program, in>> \in Diverging

StepMore ==
    /\ Goto("step", "check")
    /\ left > 0 \/ Diverges
    /\ left' = IF left > 0 THEN left - 1 ELSE left
    /\ UNCHANGED <<fields, in, r, cpc, history>>

\* the step that reduces VMObjectResult, which writes r and ends the loop
StepLast ==
    /\ Goto("step", "reduced")
    /\ left = 0 /\ ~Diverges
    /\ r' \in Outcomes(program, in)
    /\ UNCHANGED <<fields, in, left, cpc, history>>

\* a triple headed by System::tuple: out_push(ff[1])
Publish ==
    /\ Goto("reduced", "assign")
    /\ r \in Tuples
    /\ out_queue' = Append(out_queue, r.out)
    /\ outputs' = Append(outputs, r.out)
    /\ trace' = Append(trace, r.next)
    /\ UNCHANGED <<program, in_queue, exception, state, in, left, r, cpc,
                   inputs, taken, got>>

\* Fault: the continuation is not kept.
AssignForgotten ==
    /\ Goto("assign", "head")
    /\ UNCHANGED <<fields, in, left, r, cpc, history>>

Assign ==
    /\ Goto("assign", "head")
    /\ program' = r.next
    /\ UNCHANGED <<in_queue, out_queue, exception, state, in, left, r, cpc,
                   history>>

Reject ==
    /\ Goto("reduced", "failing")
    /\ \/ r \in Exceptions /\ exception' = r.value
       \/ r = NotTuple /\ exception' = NoTuple
    /\ UNCHANGED <<program, in_queue, out_queue, state, in, left, r, cpc,
                   history>>

\* r was never written: its result is null and its flag is indeterminate.  A
\* flag read as true makes the null the exception; one read as false makes
\* is_array follow the null pointer.
Garbage ==
    /\ r = Unset
    /\ \/ Goto("reduced", "failing") /\ exception' = NULL
       \/ Goto("reduced", "crashed") /\ UNCHANGED exception
    /\ UNCHANGED <<program, in_queue, out_queue, state, in, left, r, cpc,
                   history>>

\* Fault: a failed reduction does not halt the process.
SetHaltedForgotten ==
    /\ Goto("failing", "head")
    /\ UNCHANGED <<fields, in, left, r, cpc, history>>

SetHalted ==
    /\ Goto("failing", "head")
    /\ SetState("HALTED")
    /\ UNCHANGED <<program, in_queue, out_queue, exception, in, left, r, cpc,
                   history>>

Worker ==
    \/ Start \/ LoopExit \/ LoopEnter \/ PopEmpty \/ Pop
    \/ CheckRun \/ CheckHalted \/ StepMore \/ StepLast
    \/ Publish \/ Assign \/ Reject \/ Garbage \/ SetHalted

Client(c) ==
    \/ \E m \in Msgs : Send(c, m)
    \/ RecvCall(c) \/ RecvPop(c) \/ Halt(c)

Next == Proc \/ Worker \/ \E c \in Clients : Client(c)

Spec == Init /\ [][Next]_vars

\* The worker is a thread of its own, and a client that polls in recv keeps
\* polling: each is scheduled again and again.  No client is ever obliged to
\* call anything.
Fairness == WF_vars(Worker) /\ \A c \in Clients : WF_vars(RecvPop(c))

FairSpec == Spec /\ Fairness

-----------------------------------------------------------------------------
(* Properties.                                                             *)

\* The queues are FIFO and nothing is lost or duplicated in them: what waits
\* is exactly what was pushed and not yet popped, in the order of the pushes.
Waits(queue, pushed, popped) ==
    /\ Len(pushed) = popped + Len(queue)
    /\ \A i \in 1..Len(queue) : queue[i] = pushed[popped + i]

Fifo == Waits(in_queue, inputs, taken) /\ Waits(out_queue, outputs, got)

\* The i-th answer is an answer to the i-th message sent, given by the
\* continuation that the answer before it left, whatever the threads do: the
\* Mealy machine of examples/proc.eg:6-7.
MealyTrace ==
    /\ Len(trace) = Len(outputs) + 1
    /\ trace[1] = InitProgram
    /\ Len(outputs) <= Len(inputs)
    /\ \A i \in 1..Len(outputs) :
          <<outputs[i], trace[i + 1]>> \in Answers[<<trace[i], inputs[i]>>]

\* The worker has an input in hand and may yet answer it.
InHand == pc \in {"check", "step", "reduced"}

\* No input is dropped by a process that goes on: an input that was popped
\* and not answered is in the worker's hands, or the process has stopped, or
\* is stopping, on it.
DroppedOnlyWhenStopped ==
    taken # Len(outputs) =>
        \/ InHand
        \/ pc = "failing"
        \/ state = "HALTED" /\ pc \in {"head", "done"}
        \/ pc = "crashed"

\* An exception ends the process: the field is never replaced and nothing is
\* answered after it was set (run, the branches on r.exception and "no tuple").
ExceptionEndsProcess ==
    [][exception # NULL => exception' = exception /\ outputs' = outputs]_vars

\* A halt that finds the worker in its loop ends the loop, even when the
\* reduction under way never ends by itself.
HaltEndsWorker ==
    (state = "HALTED" /\ pc \notin {"none", "spawned"})
        ~> pc \in {"done", "crashed"}

\* Every message sent is answered, unless the process is halted (by a client
\* or by a failed reduction), the interpreter dies, or an input makes it
\* diverge.
EveryInputAnswered ==
    \A n \in 1..MaxSends :
        Len(inputs) >= n
            ~> \/ Len(outputs) >= n
               \/ state = "HALTED" \/ pc = "crashed"
               \/ InHand /\ Diverges

\* Halting a process halts it, whenever the halt comes (the docstring of
\* halt, builtin_process.hpp:230: "halt process proc").  Start refutes it.
HaltHalts == state = "HALTED" ~> pc \in {"done", "crashed"}

\* Halting a process halts that process and not the interpreter.
HaltIsHarmless == pc # "crashed"

-----------------------------------------------------------------------------
(* The process implements the Mealy machine of MealyProcess, in which a    *)
(* halt is final; the one step that does not is the store of RUNNING that  *)
(* undoes a halt (HaltHalts).                                              *)

\* An input leaves the abstract inbox when it is answered or given up.
absInbox == IF pc \in {"check", "step"} \/ (pc = "reduced" /\ r # Unset)
            THEN <<in>> \o in_queue
            ELSE in_queue

absProg == IF pc = "assign" THEN r.next ELSE program

absPhase ==
    CASE pc = "none"                             -> "unborn"
      [] pc \in {"failing", "done", "crashed"}
         \/ (pc = "reduced" /\ r = Unset)        -> "dead"
      [] pc \in {"spawned", "head", "assign"}    -> IF state = "HALTED" THEN "dead" ELSE "live"
      [] OTHER                                   -> IF state = "HALTED" THEN "halting" ELSE "live"

Mealy == INSTANCE MealyProcess WITH
    inbox <- absInbox, outbox <- out_queue, prog <- absProg, phase <- absPhase

\* Start on a process that was halted before its thread entered run.
UndoesHalt == pc = "spawned" /\ state = "HALTED" /\ state' = "RUNNING"

\* Every step of the process, whatever its threads do, is a step of the Mealy
\* machine or none, but for the store that undoes an early halt.
Refinement == Mealy!Init /\ [][Mealy!Next \/ UndoesHalt]_(Mealy!absvars)
=============================================================================
