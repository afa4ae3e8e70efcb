-------------------------- MODULE EgelProcessProofs --------------------------
(***************************************************************************)
(* Proofs about EgelProcess, for every set of clients, messages and        *)
(* programs and every behaviour of the programs.                           *)
(***************************************************************************)
EXTENDS EgelProcess, SequenceTheorems, TLAPS

(***************************************************************************)
(* Where the worker is says how the numbers of popped inputs and pushed    *)
(* answers compare, and at both ends of its life what the run flag is.     *)
(***************************************************************************)
Counts ==
    /\ pc \in {"none", "spawned"} => taken = 0 /\ outputs = <<>>
    /\ pc \in {"pop", "assign"} => taken = Len(outputs)
    /\ InHand \/ pc = "failing" => taken = Len(outputs) + 1
    /\ InHand => in = inputs[taken]
    /\ pc = "head" => taken = Len(outputs) \/ state = "HALTED"
    /\ pc = "none" => state = "RUNNING"
    /\ pc = "done" => state = "HALTED"
    /\ Len(outputs) <= taken

(***************************************************************************)
(* The program the worker will run next is the continuation the last       *)
(* answer left, and the result it examines is one that program can give.   *)
(***************************************************************************)
Continuation ==
    /\ pc = "assign" => r \in Tuples /\ r.next = trace[Len(outputs) + 1]
    /\ pc # "assign" => program = trace[Len(outputs) + 1]
    /\ pc \in {"check", "step"} => r = Unset
    /\ pc = "reduced" => r = Unset \/ r \in Outcomes(program, in)

\* A process whose exception is set is on its way out of run.
Ends ==
    exception # NULL =>
        pc = "failing" \/ (state = "HALTED" /\ pc \in {"head", "done"})

IInv == TypeOK /\ Fifo /\ MealyTrace /\ Counts /\ Continuation /\ Ends

-----------------------------------------------------------------------------
\* Appending to a sequence keeps its elements and adds the new one last.
LEMMA AppendIndex ==
    ASSUME NEW S, NEW s \in Seq(S), NEW e \in S
    PROVE  /\ Append(s, e) \in Seq(S)
           /\ Len(Append(s, e)) = Len(s) + 1
           /\ \A i \in 1..Len(s) : Append(s, e)[i] = s[i]
           /\ Append(s, e)[Len(s) + 1] = e
  BY AppendProperties

\* Removing the head of a queue shifts the rest one place forward.
LEMMA TailIndex ==
    ASSUME NEW S, NEW s \in Seq(S), s # <<>>
    PROVE  /\ Tail(s) \in Seq(S)
           /\ Len(s) \in Nat \ {0}
           /\ Len(Tail(s)) = Len(s) - 1
           /\ \A i \in 1..Len(Tail(s)) : Tail(s)[i] = s[i + 1]
           /\ Head(s) = s[1]
           /\ Head(s) \in S
  BY HeadTailProperties, EmptySeq

\* A push at the back of a queue, and a pop at its front, keep it FIFO.
LEMMA PushWaits ==
    ASSUME NEW S, NEW q \in Seq(S), NEW h \in Seq(S), NEW n \in Nat,
           NEW e \in S, Waits(q, h, n)
    PROVE  Waits(Append(q, e), Append(h, e), n)
  <1>1. Len(Append(h, e)) = n + Len(Append(q, e))
    BY AppendIndex DEF Waits
  <1>2. ASSUME NEW i \in 1..Len(Append(q, e))
        PROVE  Append(q, e)[i] = Append(h, e)[n + i]
    <2>1. CASE i \in 1..Len(q)
      <3>1. n + i \in 1..Len(h)
        BY <2>1 DEF Waits
      <3>2. Append(q, e)[i] = q[i] /\ Append(h, e)[n + i] = h[n + i]
        BY <2>1, <3>1, AppendIndex
      <3> QED
        BY <2>1, <3>2 DEF Waits
    <2>2. CASE i = Len(q) + 1
      <3>1. n + i = Len(h) + 1
        BY <2>2 DEF Waits
      <3> QED
        BY <2>2, <3>1, AppendIndex
    <2>3. Len(Append(q, e)) = Len(q) + 1 /\ Len(q) \in Nat
      BY AppendIndex
    <2>4. i \in 1..Len(q) \/ i = Len(q) + 1
      BY <2>3
    <2> QED
      BY <2>1, <2>2, <2>4
  <1> QED
    BY <1>1, <1>2 DEF Waits

LEMMA PopWaits ==
    ASSUME NEW S, NEW q \in Seq(S), NEW h \in Seq(S), NEW n \in Nat,
           q # <<>>, Waits(q, h, n)
    PROVE  /\ Waits(Tail(q), h, n + 1)
           /\ Head(q) = h[n + 1]
  <1>1. /\ Len(q) \in Nat \ {0}
        /\ Len(Tail(q)) = Len(q) - 1
        /\ \A i \in 1..Len(Tail(q)) : Tail(q)[i] = q[i + 1]
        /\ Head(q) = q[1]
    BY TailIndex
  <1>2. ASSUME NEW i \in 1..Len(Tail(q))
        PROVE  Tail(q)[i] = h[(n + 1) + i]
    <2>1. i + 1 \in 1..Len(q) /\ n + (i + 1) = (n + 1) + i
      BY <1>1
    <2> QED
      BY <1>1, <2>1 DEF Waits
  <1> QED
    BY <1>1, <1>2 DEF Waits

LEMMA UnsetIsNoResult == Unset \notin Results
  BY DEF Unset, Results, Tuples, Exceptions, NotTuple

LEMMA OutcomesAreResults ==
    ASSUME NEW p, NEW m
    PROVE  Outcomes(p, m) \subseteq Results
  BY DEF Outcomes, Results

-----------------------------------------------------------------------------
LEMMA InitIInv == Init => IInv
  <1> SUFFICES ASSUME Init PROVE IInv
    OBVIOUS
  <1> USE ProcessAssumption DEF Init
  <1>1. TypeOK
    BY DEF TypeOK, WorkerPCs
  <1>2. Fifo /\ MealyTrace
    BY DEF Fifo, Waits, MealyTrace
  <1>3. Counts /\ Continuation /\ Ends
    BY DEF Counts, Continuation, Ends, InHand
  <1> QED
    BY <1>1, <1>2, <1>3 DEF IInv

LEMMA NextIInv == IInv /\ [Next]_vars => IInv'
  <1> SUFFICES ASSUME IInv, [Next]_vars
               PROVE  IInv'
    OBVIOUS
  <1> USE ProcessAssumption
  <1> USE DEF IInv
  <1>1. CASE UNCHANGED vars
    BY <1>1 DEF vars, fields, locals, history, TypeOK, Fifo, MealyTrace,
                Counts, Continuation, Ends, InHand
  <1>2. CASE Proc
    BY <1>2 DEF Proc, Goto, fields, locals, history, WorkerPCs, TypeOK, Fifo,
                MealyTrace, Counts, Continuation, Ends, InHand
  <1>3. ASSUME NEW c \in Clients, NEW m \in Msgs, Send(c, m)
        PROVE  IInv'
    <2> USE <1>3 DEF Send, Running, fields, locals, history
    <2>1. TypeOK'
      BY AppendIndex DEF TypeOK
    <2>2. Fifo'
      BY PushWaits DEF TypeOK, Fifo
    <2>3. /\ Len(inputs') = Len(inputs) + 1
          /\ \A i \in 1..Len(inputs) : inputs'[i] = inputs[i]
      BY AppendIndex DEF TypeOK
    <2>4. Len(outputs) <= Len(inputs) /\ (InHand => taken \in 1..Len(inputs))
      <3>1. InHand => taken = Len(outputs) + 1
        BY DEF Counts
      <3>2. /\ Len(outputs) <= Len(inputs)
            /\ Len(inputs) = taken + Len(in_queue)
            /\ Len(inputs) \in Nat /\ Len(outputs) \in Nat /\ Len(in_queue) \in Nat
            /\ taken \in Nat
        BY DEF TypeOK, Fifo, Waits, MealyTrace
      <3> QED
        BY <3>1, <3>2
    <2>5. MealyTrace'
      <3>1. Len(outputs) \in Nat /\ Len(inputs) \in Nat
        BY DEF TypeOK
      <3>2. \A i \in 1..Len(outputs) : inputs'[i] = inputs[i]
        BY <2>3, <2>4, <3>1
      <3>3. Len(outputs) <= Len(inputs')
        BY <2>3, <2>4, <3>1
      <3> QED
        BY <3>2, <3>3 DEF MealyTrace
    <2>6. Counts'
      BY <2>3, <2>4 DEF TypeOK, Counts, InHand
    <2>7. Continuation' /\ Ends'
      BY DEF Continuation, Ends
    <2> QED
      BY <2>1, <2>2, <2>5, <2>6, <2>7
  <1>4. ASSUME NEW c \in Clients, RecvCall(c)
        PROVE  IInv'
    BY <1>4 DEF RecvCall, fields, locals, history, TypeOK, Fifo, MealyTrace,
                Counts, Continuation, Ends, InHand
  <1>5. ASSUME NEW c \in Clients, RecvPop(c)
        PROVE  IInv'
    <2> USE <1>5 DEF RecvPop, locals
    <2>1. TypeOK'
      BY TailIndex DEF TypeOK
    <2>2. Fifo'
      BY PopWaits DEF TypeOK, Fifo
    <2>3. MealyTrace' /\ Counts' /\ Continuation' /\ Ends'
      BY DEF MealyTrace, Counts, Continuation, Ends, InHand
    <2> QED
      BY <2>1, <2>2, <2>3
  <1>6. ASSUME NEW c \in Clients, Halt(c)
        PROVE  IInv'
    BY <1>6 DEF Halt, Running, SetState, locals, history, TypeOK, Fifo, MealyTrace,
                Counts, Continuation, Ends, InHand
  <1>7. CASE Start
    BY <1>7 DEF Start, Goto, history, WorkerPCs, TypeOK, Fifo, MealyTrace,
                Counts, Continuation, Ends, InHand
  <1>8. CASE LoopExit \/ LoopEnter \/ PopEmpty
    BY <1>8 DEF LoopExit, LoopEnter, PopEmpty, Goto, fields, history,
                WorkerPCs, TypeOK, Fifo, MealyTrace, Counts, Continuation,
                Ends, InHand
  <1>17. CASE CheckRun \/ StepMore
    <2> USE <1>17 DEF CheckRun, StepMore, Goto, fields, history
    <2>1. left' \in 0..MaxSteps
      BY DEF TypeOK
    <2>2. TypeOK'
      BY <2>1 DEF TypeOK, WorkerPCs
    <2>3. Fifo' /\ MealyTrace' /\ Counts' /\ Continuation' /\ Ends'
      BY DEF Fifo, MealyTrace, Counts, Continuation, Ends, InHand
    <2> QED
      BY <2>2, <2>3
  <1>9. CASE Pop
    <2> USE <1>9 DEF Pop, Goto
    <2>1. TypeOK'
      BY TailIndex DEF TypeOK, WorkerPCs
    <2>2. Fifo' /\ in' = inputs[taken + 1]
      BY PopWaits DEF TypeOK, Fifo
    <2>3. MealyTrace' /\ Continuation' /\ Ends'
      BY DEF MealyTrace, Continuation, Ends
    <2>4. Counts'
      BY <2>2 DEF TypeOK, Counts, InHand
    <2> QED
      BY <2>1, <2>2, <2>3, <2>4
  <1>10. CASE CheckHalted
    BY <1>10 DEF CheckHalted, Goto, fields, history, WorkerPCs, TypeOK, Fifo,
                 MealyTrace, Counts, Continuation, Ends, InHand
  <1>11. CASE StepLast
    <2> USE <1>11 DEF StepLast, Goto, fields, history
    <2>1. r' \in Results
      BY OutcomesAreResults
    <2>2. TypeOK'
      BY <2>1 DEF TypeOK, WorkerPCs
    <2>3. Fifo' /\ MealyTrace' /\ Counts' /\ Ends'
      BY DEF Fifo, MealyTrace, Counts, Ends, InHand
    <2>4. Continuation'
      BY DEF Continuation, Outcomes
    <2> QED
      BY <2>2, <2>3, <2>4
  <1>12. CASE Publish
    <2> USE <1>12 DEF Publish, Goto
    <2>1. /\ <<r.out, r.next>> \in Answers[<<program, in>>]
          /\ r.out \in Msgs /\ r.next \in Programs
      BY UnsetIsNoResult DEF Continuation, Outcomes, Tuples, Exceptions,
                             NotTuple, Results
    <2>2. TypeOK'
      BY <2>1, AppendIndex DEF TypeOK, WorkerPCs
    <2>3. Fifo'
      BY <2>1, PushWaits DEF TypeOK, Fifo
    <2>4. /\ Len(outputs') = Len(outputs) + 1
          /\ Len(trace') = Len(trace) + 1
          /\ outputs'[Len(outputs) + 1] = r.out
          /\ trace'[Len(outputs) + 2] = r.next
          /\ \A i \in 1..Len(outputs) : outputs'[i] = outputs[i]
          /\ \A i \in 1..Len(trace) : trace'[i] = trace[i]
      BY <2>1, AppendIndex DEF TypeOK, MealyTrace
    <2>5. MealyTrace'
      <3>1. Len(outputs) + 1 \in 1..Len(inputs)
        BY DEF TypeOK, Fifo, Waits, Counts, InHand
      <3>2. /\ in = inputs[Len(outputs) + 1]
            /\ program = trace[Len(outputs) + 1]
        BY DEF Counts, InHand, Continuation
      <3>3. Len(outputs) \in Nat /\ Len(trace) = Len(outputs) + 1
        BY DEF TypeOK, MealyTrace
      <3>4. ASSUME NEW i \in 1..Len(outputs')
            PROVE  <<outputs'[i], trace'[i + 1]>> \in Answers[<<trace'[i], inputs[i]>>]
        <4>1. CASE i \in 1..Len(outputs)
          <5>1. i \in 1..Len(trace) /\ i + 1 \in 1..Len(trace)
            BY <4>1, <3>3
          <5>2. /\ outputs'[i] = outputs[i]
                /\ trace'[i] = trace[i]
                /\ trace'[i + 1] = trace[i + 1]
            BY <4>1, <5>1, <2>4
          <5> QED
            BY <4>1, <5>2 DEF MealyTrace
        <4>2. CASE i = Len(outputs) + 1
          <5>1. i \in 1..Len(trace) /\ i + 1 = Len(outputs) + 2
            BY <4>2, <3>3
          <5>2. /\ outputs'[i] = r.out
                /\ trace'[i] = trace[i]
                /\ trace'[i + 1] = r.next
            BY <4>2, <5>1, <2>4
          <5> QED
            BY <4>2, <5>2, <2>1, <3>2
        <4>3. i \in 1..Len(outputs) \/ i = Len(outputs) + 1
          BY <2>4, <3>3
        <4> QED
          BY <4>1, <4>2, <4>3
      <3>5. /\ Len(trace') = Len(outputs') + 1
            /\ trace'[1] = InitProgram
            /\ Len(outputs') <= Len(inputs)
        BY <2>4, <3>1, <3>3 DEF MealyTrace
      <3> QED
        BY <3>4, <3>5 DEF MealyTrace
    <2>6. Counts' /\ Ends'
      BY <2>4 DEF TypeOK, Counts, Ends, InHand
    <2>7. Continuation'
      BY <2>4 DEF TypeOK, MealyTrace, Continuation
    <2> QED
      BY <2>2, <2>3, <2>5, <2>6, <2>7
  <1>13. CASE Assign
    BY <1>13 DEF Assign, Goto, history, WorkerPCs, Tuples, TypeOK, Fifo,
                 MealyTrace, Counts, Continuation, Ends, InHand
  <1>14. CASE Reject
    BY <1>14 DEF Reject, Goto, history, WorkerPCs, Exceptions, TypeOK, Fifo,
                 MealyTrace, Counts, Continuation, Ends, InHand
  <1>15. CASE Garbage
    BY <1>15 DEF Garbage, Goto, history, WorkerPCs, TypeOK, Fifo, MealyTrace,
                 Counts, Continuation, Ends, InHand
  <1>16. CASE SetHalted
    BY <1>16 DEF SetHalted, SetState, Goto, history, WorkerPCs, TypeOK, Fifo,
                 MealyTrace, Counts, Continuation, Ends, InHand
  <1> QED
    BY <1>1, <1>2, <1>3, <1>4, <1>5, <1>6, <1>7, <1>8, <1>9, <1>10, <1>11,
       <1>12, <1>13, <1>14, <1>15, <1>16, <1>17
    DEF Next, Worker, Client

LEMMA SpecIInv == Spec => []IInv
  <1>1. Init => IInv
    BY InitIInv
  <1>2. IInv /\ [Next]_vars => IInv'
    BY NextIInv
  <1> QED
    BY <1>1, <1>2, PTL DEF Spec

-----------------------------------------------------------------------------
\* Type correctness: every field, queue and local keeps its type.
THEOREM TypeCorrect == Spec => []TypeOK
  BY SpecIInv, PTL DEF IInv

\* No message is lost, duplicated or reordered in either queue.
THEOREM QueuesAreFifo == Spec => []Fifo
  BY SpecIInv, PTL DEF IInv

\* The answers are those of the Mealy machine, input by input.
THEOREM AnswersAreMealy == Spec => []MealyTrace
  BY SpecIInv, PTL DEF IInv

\* A process that goes on has answered every input it took.
THEOREM NoInputDropped == Spec => []DroppedOnlyWhenStopped
  <1>1. IInv => DroppedOnlyWhenStopped
    BY DEF IInv, TypeOK, WorkerPCs, Counts, InHand, DroppedOnlyWhenStopped
  <1> QED
    BY <1>1, SpecIInv, PTL

\* Nothing is answered after an exception.
THEOREM ExceptionIsLast == Spec => ExceptionEndsProcess
  <1>1. IInv /\ [Next]_vars =>
          [exception # NULL => exception' = exception /\ outputs' = outputs]_vars
    BY DEF IInv, Ends, Next, Worker, Client, Goto, Proc, Send, RecvCall,
           RecvPop, Halt, Start, LoopExit, LoopEnter, PopEmpty, Pop, CheckRun,
           CheckHalted, StepMore, StepLast, Publish, Assign, Reject, Garbage,
           SetHalted, fields, locals, history, vars
  <1> QED
    BY <1>1, SpecIInv, PTL DEF Spec, ExceptionEndsProcess

-----------------------------------------------------------------------------
\* How many steps a worker that is halted takes at most.
StepsLeft == [done |-> 0, crashed |-> 0, head |-> 1, assign |-> 2, failing |-> 2,
              reduced |-> 3, check |-> 4, step |-> 5, pop |-> 5]

\* Whatever a worker that is halted does brings it nearer to its end, and
\* nothing starts it again.
WindsDown ==
    state = "HALTED" /\ pc \notin {"none", "spawned"} =>
        /\ state' = "HALTED"
        /\ pc' = pc \/ StepsLeft[pc'] < StepsLeft[pc]

\* halt is prompt (machine.hpp:426): once run was entered, the worker takes at
\* most five more steps, one of them a reduction of the program at most, however
\* many inputs wait and however long the reduction would have taken.
THEOREM HaltIsPrompt == Spec => [][WindsDown]_vars
  <1>1. [Next]_vars => [WindsDown]_vars
    BY DEF WindsDown, StepsLeft, Next, Worker, Client, Goto, SetState, Proc, Send, RecvCall,
           RecvPop, Halt, Start, LoopExit, LoopEnter, PopEmpty, Pop, CheckRun,
           CheckHalted, StepMore, StepLast, Publish, Assign, Reject, Garbage,
           SetHalted, fields, locals, history, vars
  <1> QED
    BY <1>1, PTL DEF Spec

-----------------------------------------------------------------------------
\* Putting the head of a queue back in front of the rest gives the queue.
LEMMA HeadConsTail ==
    ASSUME NEW S, NEW q \in Seq(S), q # <<>>
    PROVE  <<Head(q)>> \o Tail(q) = q
  <1>1. /\ Tail(q) \in Seq(S)
        /\ Len(q) \in Nat \ {0}
        /\ Len(Tail(q)) = Len(q) - 1
        /\ \A i \in 1..Len(Tail(q)) : Tail(q)[i] = q[i + 1]
        /\ Head(q) = q[1] /\ Head(q) \in S
    BY TailIndex
  <1>2. /\ <<Head(q)>> \o Tail(q) \in Seq(S)
        /\ Len(<<Head(q)>> \o Tail(q)) = Len(q)
        /\ \A i \in 1..Len(q) : (<<Head(q)>> \o Tail(q))[i] = q[i]
    BY <1>1
  <1> QED
    BY <1>2, SeqEqual

\* What waits behind the input in hand.
LEMMA ConsQueue ==
    ASSUME NEW S, NEW e \in S, NEW q \in Seq(S)
    PROVE  /\ <<e>> \o q \in Seq(S)
           /\ <<e>> \o q # <<>>
           /\ Head(<<e>> \o q) = e
           /\ Tail(<<e>> \o q) = q
           /\ \A d \in S : Append(<<e>> \o q, d) = <<e>> \o Append(q, d)
  <1>1. /\ <<e>> \o q \in Seq(S)
        /\ <<e>> \o q # <<>>
        /\ Head(<<e>> \o q) = e
    OBVIOUS
  <1>2. Tail(<<e>> \o q) = q
    <2>1. Len(<<e>> \o q) = Len(q) + 1
      OBVIOUS
    <2>2. \A i \in 1..Len(q) : (<<e>> \o q)[i + 1] = q[i]
      OBVIOUS
    <2>3. /\ Tail(<<e>> \o q) \in Seq(S)
          /\ Len(Tail(<<e>> \o q)) = Len(q)
          /\ \A i \in 1..Len(q) : Tail(<<e>> \o q)[i] = q[i]
      BY <1>1, <2>1, <2>2, TailIndex
    <2> QED
      BY <2>3, SeqEqual
  <1>3. ASSUME NEW d \in S
        PROVE  Append(<<e>> \o q, d) = <<e>> \o Append(q, d)
    <2>1. Append(<<e>> \o q, d) = (<<e>> \o q) \o <<d>>
      BY <1>1, AppendIsConcat
    <2>2. Append(q, d) = q \o <<d>>
      BY AppendIsConcat
    <2>3. (<<e>> \o q) \o <<d>> = <<e>> \o (q \o <<d>>)
      BY ConcatAssociative
    <2> QED
      BY <2>1, <2>2, <2>3
  <1> QED
    BY <1>1, <1>2, <1>3

-----------------------------------------------------------------------------
LEMMA InitMaps == Init => Mealy!Init
  BY DEF Init, Mealy!Init, absInbox, absProg, absPhase

\* What waits once more while an input is in hand.
LEMMA InboxInHand ==
    ASSUME in \in Msgs, in_queue \in Seq(Msgs)
    PROVE  /\ <<in>> \o in_queue # <<>>
           /\ Head(<<in>> \o in_queue) = in
           /\ Tail(<<in>> \o in_queue) = in_queue
           /\ \A m \in Msgs : Append(<<in>> \o in_queue, m) = <<in>> \o Append(in_queue, m)
  BY ConsQueue

\* Every step of the process maps to a step of the Mealy machine or to none,
\* but for the one that undoes a halt.
LEMMA StepMaps == IInv /\ [Next]_vars => [Mealy!Next \/ UndoesHalt]_(Mealy!absvars)
  <1> SUFFICES ASSUME IInv, [Next]_vars
               PROVE  Mealy!Next \/ UndoesHalt \/ UNCHANGED Mealy!absvars
    OBVIOUS
  <1> USE ProcessAssumption
  <1> USE DEF IInv, Mealy!absvars, Mealy!Next, absInbox, absProg, absPhase, Goto
  <1>1. CASE UNCHANGED vars
    BY <1>1 DEF vars, fields, locals
  <1>2. CASE Proc
    BY <1>2 DEF Proc, fields, Counts, Mealy!Create
  <1>3. ASSUME NEW c \in Clients, NEW m \in Msgs, Send(c, m)
        PROVE  Mealy!Send
    <2> USE <1>3 DEF Send, Running, locals
    <2>1. InHand => in \in Msgs
      <3>1. InHand => taken \in 1..Len(inputs)
        BY DEF TypeOK, Fifo, Waits, Counts
      <3> QED
        BY <3>1 DEF TypeOK, Counts
    <2>2. absInbox' = Append(absInbox, m)
      <3>1. InHand => Append(<<in>> \o in_queue, m) = <<in>> \o Append(in_queue, m)
        <4>1. in_queue \in Seq(Msgs) /\ m \in Msgs
          BY DEF TypeOK
        <4> QED
          BY <2>1, <4>1, InboxInHand
      <3> QED
        BY <3>1 DEF InHand
    <2>3. UNCHANGED <<out_queue, absProg, absPhase>> /\ absPhase # "unborn"
      BY DEF TypeOK, WorkerPCs
    <2> QED
      BY <2>2, <2>3 DEF Mealy!Send
  <1>4. ASSUME NEW c \in Clients, RecvCall(c)
        PROVE  UNCHANGED Mealy!absvars
    BY <1>4 DEF RecvCall, fields, locals
  <1>5. ASSUME NEW c \in Clients, RecvPop(c)
        PROVE  Mealy!Recv
    BY <1>5 DEF RecvPop, locals, Mealy!Recv
  <1>6. ASSUME NEW c \in Clients, Halt(c)
        PROVE  Mealy!Halt \/ UNCHANGED Mealy!absvars
    BY <1>6 DEF Halt, Running, SetState, locals, Mealy!Halt, TypeOK, WorkerPCs
  <1>7. CASE Start
    BY <1>7 DEF Start, UndoesHalt, TypeOK
  <1>8. CASE LoopExit \/ LoopEnter \/ CheckRun \/ StepMore
    BY <1>8 DEF LoopExit, LoopEnter, CheckRun, StepMore, fields
  <1>9. CASE PopEmpty
    BY <1>9 DEF PopEmpty, fields, Mealy!Stop
  <1>10. CASE Pop
    <2>1. <<in'>> \o in_queue' = in_queue
      BY <1>10, HeadConsTail DEF Pop, TypeOK
    <2> QED
      BY <1>10, <2>1 DEF Pop
  <1>11. CASE CheckHalted
    <2>1. in \in Msgs /\ r = Unset
      <3>1. taken \in 1..Len(inputs)
        BY <1>11 DEF CheckHalted, InHand, TypeOK, Fifo, Waits, Counts
      <3> QED
        BY <1>11, <3>1 DEF CheckHalted, InHand, TypeOK, Counts, Continuation
    <2>2. /\ <<in>> \o in_queue # <<>>
          /\ Tail(<<in>> \o in_queue) = in_queue
      <3>1. in_queue \in Seq(Msgs)
        BY DEF TypeOK
      <3> QED
        BY <2>1, <3>1, InboxInHand
    <2> QED
      BY <1>11, <2>1, <2>2 DEF CheckHalted, fields, Mealy!Fail
  <1>12. CASE StepLast
    <2>1. r' # Unset
      BY <1>12, OutcomesAreResults, UnsetIsNoResult DEF StepLast
    <2> QED
      BY <1>12, <2>1 DEF StepLast, fields
  <1>13. CASE Publish
    <2> USE <1>13 DEF Publish
    <2>1. /\ <<r.out, r.next>> \in Answers[<<program, in>>]
          /\ r # Unset
      BY UnsetIsNoResult DEF Continuation, Outcomes, Tuples, Exceptions,
                             NotTuple, Results
    <2>2. in \in Msgs
      <3>1. taken \in 1..Len(inputs)
        BY DEF InHand, TypeOK, Fifo, Waits, Counts
      <3> QED
        BY <3>1 DEF InHand, TypeOK, Counts
    <2>3. absInbox = <<in>> \o in_queue /\ absInbox' = in_queue
      BY <2>1
    <2>4. absInbox # <<>> /\ Head(absInbox) = in /\ absInbox' = Tail(absInbox)
      <3>1. /\ <<in>> \o in_queue # <<>>
            /\ Head(<<in>> \o in_queue) = in
            /\ Tail(<<in>> \o in_queue) = in_queue
        <4>1. in_queue \in Seq(Msgs)
          BY DEF TypeOK
        <4> QED
          BY <2>2, <4>1, InboxInHand
      <3> QED
        BY <2>3, <3>1
    <2>5. \E a \in Answers[<<absProg, Head(absInbox)>>] :
             out_queue' = Append(out_queue, a[1]) /\ absProg' = a[2]
      <3>1. <<r.out, r.next>> \in Answers[<<absProg, Head(absInbox)>>]
        BY <2>1, <2>4
      <3>2. out_queue' = Append(out_queue, r.out) /\ absProg' = r.next
        OBVIOUS
      <3> QED
        BY <3>1, <3>2
    <2>6. /\ absPhase \in {"live", "halting"}
          /\ absPhase' = IF absPhase = "halting" THEN "dead" ELSE "live"
      BY <2>1
    <2> QED
      BY <2>4, <2>5, <2>6 DEF Mealy!Answer
  <1>14. CASE Assign
    BY <1>14 DEF Assign
  <1>15. CASE Reject
    <2>1. r # Unset
      BY <1>15, UnsetIsNoResult DEF Reject, Results
    <2>2. in \in Msgs
      <3>1. taken \in 1..Len(inputs)
        BY <1>15 DEF Reject, InHand, TypeOK, Fifo, Waits, Counts
      <3> QED
        BY <1>15, <3>1 DEF Reject, InHand, TypeOK, Counts
    <2>3. absInbox # <<>> /\ absInbox' = Tail(absInbox)
      <3>1. in_queue \in Seq(Msgs)
        BY DEF TypeOK
      <3>2. <<in>> \o in_queue # <<>> /\ Tail(<<in>> \o in_queue) = in_queue
        BY <2>2, <3>1, InboxInHand
      <3>3. absInbox = <<in>> \o in_queue /\ absInbox' = in_queue
        BY <1>15, <2>1 DEF Reject
      <3> QED
        BY <3>2, <3>3
    <2> QED
      BY <1>15, <2>1, <2>3 DEF Reject, Mealy!Fail
  <1>16. CASE Garbage
    BY <1>16 DEF Garbage
  <1>17. CASE SetHalted
    BY <1>17 DEF SetHalted, SetState
  <1> QED
    BY <1>1, <1>2, <1>3, <1>4, <1>5, <1>6, <1>7, <1>8, <1>9, <1>10, <1>11,
       <1>12, <1>13, <1>14, <1>15, <1>16, <1>17
    DEF Next, Worker, Client

\* The process, with its threads, locks and trampoline, is a Mealy machine, as
\* long as no halt is undone: every step but that one is one of the machine's.
THEOREM ProcessIsMealy == Spec => Refinement
  <1>1. Init => Mealy!Init
    BY InitMaps
  <1>2. IInv /\ [Next]_vars => [Mealy!Next \/ UndoesHalt]_(Mealy!absvars)
    BY StepMaps
  <1> QED
    BY <1>1, <1>2, SpecIInv, PTL DEF Spec, Refinement
=============================================================================
