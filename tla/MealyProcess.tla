---------------------------- MODULE MealyProcess ----------------------------
(***************************************************************************)
(* What System::proc promises, with no thread, lock, queue poll or         *)
(* trampoline in it.  A process is a Mealy machine: it answers its inputs  *)
(* one at a time and in order, each answer with the program that the       *)
(* previous answer left behind.  A halt is final whenever it comes: at     *)
(* most the input being worked on is still answered.                       *)
(***************************************************************************)
EXTENDS Sequences

CONSTANTS
    Msgs,          \* the values that are sent and received
    Programs,      \* what a process may have left to do
    InitProgram,   \* the argument of System::proc
    Answers        \* Answers[<<p, m>>]: the <<output, continuation>> pairs p m may give

VARIABLES inbox, outbox, prog, phase

absvars == <<inbox, outbox, prog, phase>>

Init ==
    /\ inbox = <<>>
    /\ outbox = <<>>
    /\ prog = InitProgram
    /\ phase = "unborn"

\* `proc f`
Create ==
    /\ phase = "unborn"
    /\ phase' = "live"
    /\ UNCHANGED <<inbox, outbox, prog>>

\* `send p m`: accepted whatever the process has become
Send ==
    /\ phase # "unborn"
    /\ \E m \in Msgs : inbox' = Append(inbox, m)
    /\ UNCHANGED <<outbox, prog, phase>>

\* `recv p`
Recv ==
    /\ outbox # <<>>
    /\ outbox' = Tail(outbox)
    /\ UNCHANGED <<inbox, prog, phase>>

\* One step of the machine; the last one when a halt is pending.
Answer ==
    /\ phase \in {"live", "halting"}
    /\ inbox # <<>>
    /\ \E a \in Answers[<<prog, Head(inbox)>>] :
          /\ outbox' = Append(outbox, a[1])
          /\ prog' = a[2]
    /\ inbox' = Tail(inbox)
    /\ phase' = IF phase = "halting" THEN "dead" ELSE "live"

\* The input has no answer (an exception, or something that is no triple),
\* or a pending halt cuts its reduction short: the machine ends with it.
Fail ==
    /\ phase \in {"live", "halting"}
    /\ inbox # <<>>
    /\ inbox' = Tail(inbox)
    /\ phase' = "dead"
    /\ UNCHANGED <<outbox, prog>>

\* `halt p`: the machine may be in the middle of a step
Halt ==
    /\ phase = "live"
    /\ phase' \in {"halting", "dead"}
    /\ UNCHANGED <<inbox, outbox, prog>>

\* A pending halt is noticed between two inputs.
Stop ==
    /\ phase = "halting"
    /\ phase' = "dead"
    /\ UNCHANGED <<inbox, outbox, prog>>

Next ==
    \/ Create \/ Send \/ Recv \/ Answer \/ Fail \/ Halt \/ Stop

Spec == Init /\ [][Next]_absvars
=============================================================================
