---------------------------- MODULE EgelTrampoline ----------------------------
(***************************************************************************)
(* Machine::reduce (src/src/machine.hpp) and the reduce methods of the     *)
(* objects it calls (runtime.hpp, bytecode.hpp): graph rewriting on a      *)
(* trampoline.  A redex is an array                                        *)
(*     [rt, rti, k, exc, c, args...]                                       *)
(* whose result goes to slot rti of the array rt, after which k is         *)
(* reduced; exc is the redex that handles its exceptions.  Reducing it     *)
(* returns the next redex, or nothing.                                     *)
(*                                                                         *)
(* All arrays live in one heap, redexes and values alike.  The slots from  *)
(* c on are `items', so the code's rti is 3 more than here for a redex and *)
(* 1 less for any other array.  An array nothing refers to is freed, as    *)
(* its std::shared_ptr does.  The flag that stops a reduction from outside *)
(* is modelled in EgelProcess.                                             *)
(***************************************************************************)
EXTENDS EgelTerms, Integers, Sequences, SequencesExt, FiniteSetsExt

CONSTANTS
    Programs,   \* what the code of the Users may be
    MaxHeap,    \* bound: the arrays that are alive at a time
    Main, Result, Exception

Addr == 1..MaxHeap

\* The combinators that programs name: not those that take results.
Plain == Users \cup {c \in Builtins : Def[c].kind # "result"}

\* What a body refers to: parameters, combinators, nodes.
ASSUME TrampolineAssumption ==
    /\ MaxHeap \in Nat /\ MaxHeap >= 3
    /\ {Result, Exception} \subseteq Builtins \ Plain
    /\ \A c \in Builtins \ Plain : c \in {Result, Exception}
    /\ Main \in Users
    /\ None \in Plain
    /\ Nat \cap (Combinators \cup Params \cup {Nil}) = {}

\* The parameters that patterns bind.
Bound(pats) ==
    {p \in Params : \E i \in DOMAIN pats :
        p = pats[i] \/ (pats[i] \notin Params \cup Combinators /\ p \in Range(pats[i]))}

\* The body of a rule is a sequence of nodes: redexes, in the order in which
\* they are reduced, and other arrays.  The last node, the root, is what the
\* body gives, and all others are inside it.  An item that is a redex is a
\* hole, Nil, of which that redex has the place as `to'.
IsRule(rule) ==
    LET names == Params \cup Combinators
        body == rule.body
        root == Len(body)
        Inside(n) == {m \in 1..n - 1 : ~body[m].redex}
        Fills(m, n, i) == m \in 1..n - 1 /\ body[m].redex /\ body[m].to = <<n, i>>
    IN  /\ rule.pats \in Seq(names \cup Seq(names))
        /\ body \in Seq([redex : BOOLEAN, items : Seq(names \cup {Nil} \cup Nat),
                         to : Nat \X Nat])
        /\ body # <<>>
        /\ \A n \in 1..root :
                /\ body[n].items # <<>>
                /\ Range(body[n].items) \subseteq Bound(rule.pats) \cup Plain \cup {Nil} \cup Inside(n)
                /\ \A i \in DOMAIN body[n].items :
                        body[n].items[i] = Nil => \E m \in 1..root : Fills(m, n, i)
        /\ \A m \in 1..root - 1 :
                IF body[m].redex
                THEN /\ \E n \in m + 1..root : \E i \in DOMAIN body[n].items :
                            Fills(m, n, i) /\ body[n].items[i] = Nil
                     /\ \A n \in 1..root - 1 :
                            body[n].redex /\ body[n].to = body[m].to => n = m
                ELSE \E n \in m + 1..root : m \in Range(body[n].items)
        /\ ~body[root].redex /\ Len(body[root].items) = 1
                => body[root].items[1] \in Params \cup Plain

ASSUME ProgramsAssumption ==
    \A p \in Programs :
        /\ DOMAIN p = Users
        /\ \A u \in Users :
                DOMAIN p[u] \subseteq Nat /\ \A i \in DOMAIN p[u] : IsRule(p[u][i])

VARIABLES
    code,         \* the rules of each of the Users
    heap,         \* the arrays
    trampoline,   \* the redex to be reduced, or Nil
    result        \* the VMReduceResult

vars == <<code, heap, trampoline, result>>

Values == Combinators \cup Addr \cup {Nil}

Arrays ==
    [rt : Addr \cup {Nil}, rti : Nat, k : Addr \cup {Nil},
     exc : Addr \cup {Nil}, items : Seq(Values)]

Tree(items) == [rt |-> Nil, rti |-> 0, k |-> Nil, exc |-> Nil, items |-> items]

Free == Tree(<<>>)

Unset == [value |-> Nil, exception |-> FALSE]

TypeOK ==
    /\ DOMAIN code = Users
    /\ heap \in [Addr -> Arrays]
    /\ trampoline \in Addr \cup {Nil}
    /\ result \in [value : Values, exception : BOOLEAN]

\* The redexes that take the result, the exception, and Main.
Init ==
    /\ code \in Programs
    /\ heap = [a \in Addr |->
                CASE a = 1 -> Tree(<<Result, Nil>>)
                  [] a = 2 -> Tree(<<Exception>>)
                  [] a = 3 -> [rt |-> 1, rti |-> 2, k |-> 1, exc |-> 2,
                               items |-> <<Main>>]
                  [] OTHER -> Free]
    /\ trampoline = 3
    /\ result = Unset

-----------------------------------------------------------------------------
(* The heap.                                                               *)

Refers(h, a) ==
    Addr \cap ({h[a].rt, h[a].k, h[a].exc} \cup Range(h[a].items))

\* The arrays in S, and those to which next leads from there.  (The sets of
\* one element, here and below, make TLC evaluate an expression once.)
Closure(next, S) ==
    LET closure[n \in 0..MaxHeap] ==
            IF n = 0 THEN S
            ELSE UNION {C \cup UNION {next[a] : a \in C} : C \in {closure[n - 1]}}
    IN  closure[MaxHeap]

\* What can be reached from the arrays in S.
Reachable(h, S) == Closure([a \in Addr |-> Refers(h, a)], S)

Unused == {a \in Addr : heap[a] = Free}

\* There is room for n more arrays; the i-th of them.
Room(n) == Cardinality(Unused) >= n

\* How many unused arrays come before a.
Before(a) == Cardinality({b \in Unused : b < a})

New(i) == CHOOSE a \in Unused : Before(a) = i - 1

\* The heap with these arrays at the addresses New(1), New(2), ...
Alloc(arrays) ==
    [a \in Addr |-> IF heap[a] = Free /\ Before(a) < Len(arrays)
                    THEN arrays[Before(a) + 1]
                    ELSE heap[a]]

Write(h, rt, rti, v) == [h EXCEPT ![rt].items[rti] = v]

-----------------------------------------------------------------------------
(* The redex that is reduced, and the ways in which a reduction goes on.   *)

Redex == heap[trampoline]
Head1 == Redex.items[1]
Args == Tail(Redex.items)
Beyond(n) == SubSeq(Args, n + 1, Len(Args))

\* The next redex is t, and what is then garbage is freed.
Jump(h, t) ==
    /\ trampoline' = t
    /\ \E g \in {h} : \E live \in {Reachable(g, Addr \cap {t, result.value})} :
           heap' = [a \in Addr |-> IF a \in live THEN g[a] ELSE Free]
    /\ UNCHANGED <<code, result>>

\* An array of one item is that item.
Return(items) ==
    LET Done(h, v) == Jump(Write(h, Redex.rt, Redex.rti, v), Redex.k)
    IN  IF Len(items) = 1
        THEN Done(heap, items[1])
        ELSE Room(1) /\ Done(Alloc(<<Tree(items)>>), New(1))

Become(redex) == Room(1) /\ Jump(Alloc(<<redex>>), New(1))

Reducing(kind) ==
    /\ trampoline # Nil
    /\ Head1 \in Builtins
    /\ Def[Head1].kind = kind

\* The exception handler, applied: what all but Medadic do.
Raise(e) == Become([heap[Redex.exc] EXCEPT !.items = <<@[1], None, e>>])

\* What Medadic does: the handler is applied to the exception alone.
RaiseBare(e) == Become([heap[Redex.exc] EXCEPT !.items = <<@[1], e>>])

-----------------------------------------------------------------------------
(* One action per reduce method.                                           *)

\* VMObjectLiteral, VMObjectOpaque, VMObjectData
ReduceData == Reducing("data") /\ Return(Redex.items)

\* VMObjectArray
ReduceArray ==
    /\ trampoline # Nil
    /\ Head1 \in Addr
    /\ Become([Redex EXCEPT !.items = heap[Head1].items \o Args])

\* VMThrow
ReduceThrow ==
    /\ Reducing("throw")
    /\ IF Args = <<>>
       THEN Return(Redex.items)
       ELSE Become([heap[Redex.exc] EXCEPT !.items = @ \o Args])

\* Fault: after the handler, what was tried is tried again.
ReduceHandleResumes ==
    /\ Reducing("handle")
    /\ IF Len(Args) < 2
       THEN Return(Redex.items)
       ELSE /\ Room(2)
            /\ Jump(Alloc(<<[Redex EXCEPT !.items = <<Args[1], None>>, !.k = New(2)],
                            [Redex EXCEPT !.items = <<Args[2], None>> \o Beyond(2),
                                          !.exc = New(1)]>>),
                    New(2))

\* VMHandle
ReduceHandle ==
    /\ Reducing("handle")
    /\ IF Len(Args) < 2
       THEN Return(Redex.items)
       ELSE /\ Room(2)
            /\ Jump(Alloc(<<[Redex EXCEPT !.items = <<Args[1], None>>],
                            [Redex EXCEPT !.items = <<Args[2], None>> \o Beyond(2),
                                          !.exc = New(1)]>>),
                    New(2))

\* Fault: tt[4] is returned for tt[2].
ReduceStallReturnsHead == Reducing("stall") /\ Jump(heap, Head1)

\* VMStall
ReduceStall ==
    /\ Reducing("stall")
    /\ Return(IF Args = <<>> THEN Redex.items ELSE Args)

\* Fault: the result of g goes where f is.
ReduceNappOverwrites ==
    /\ Reducing("napp")
    /\ IF Len(Args) < 2
       THEN Return(Redex.items)
       ELSE /\ Room(2)
            /\ Jump(Alloc(<<[Redex EXCEPT !.items = <<Args[1], Nil>>],
                            [Redex EXCEPT !.items = <<Args[2]>> \o Beyond(2),
                                          !.rt = New(1), !.rti = 1, !.k = New(1)]>>),
                    New(2))

\* VMNapp: napp f g x0 .. xn = f (g x0 .. xn)
ReduceNapp ==
    /\ Reducing("napp")
    /\ IF Len(Args) < 2
       THEN Return(Redex.items)
       ELSE /\ Room(2)
            /\ Jump(Alloc(<<[Redex EXCEPT !.items = <<Args[1], Nil>>],
                            [Redex EXCEPT !.items = <<Args[2]>> \o Beyond(2),
                                          !.rt = New(1), !.rti = 2, !.k = New(1)]>>),
                    New(2))

\* What the apply methods of the model give or throw: their first argument.
Operand(arity) == IF arity = 0 THEN None ELSE Args[1]

Does(outcome) == Def[Head1].does = outcome

\* Medadic, Monadic, Dyadic, Triadic: they give values, to which the
\* arguments that are left are attached.
ReduceToValue(arity) ==
    IF Len(Args) < arity
    THEN Return(Redex.items)
    ELSE \/ Does("gives") /\ Return(<<Operand(arity)>> \o Beyond(arity))
         \/ Does("raises") /\ IF arity = 0 THEN RaiseBare(None) ELSE Raise(Args[1])
         \/ /\ Does("stuck")
            /\ IF Beyond(arity) = <<>>
               THEN Return(Redex.items)
               ELSE /\ Room(2)
                    /\ Jump(Write(Alloc(<<Tree(Redex.items), Tree(<<New(1)>> \o Beyond(arity))>>),
                                  Redex.rt, Redex.rti, New(2)),
                            Redex.k)

ReduceMedadic == Reducing("medadic") /\ ReduceToValue(0)
ReduceMonadic == Reducing("monadic") /\ ReduceToValue(1)
ReduceDyadic == Reducing("dyadic") /\ ReduceToValue(2)
ReduceTriadic == Reducing("triadic") /\ ReduceToValue(3)

\* Variadic: takes all arguments there are.
ReduceVariadic ==
    /\ Reducing("variadic")
    /\ LET first == IF Args = <<>> THEN None ELSE Args[1]
       IN  \/ Does("gives") /\ Return(<<first>>)
           \/ Does("raises") /\ Raise(first)
           \/ Does("stuck") /\ Return(Redex.items)

\* Fault: arguments beyond the arity are forgotten.
ReduceFurtherDrops(arity) ==
    \/ Does("gives") /\ Become([Redex EXCEPT !.items = <<Operand(arity)>>])
    \/ Does("raises") /\ Raise(Operand(arity))
    \/ Does("stuck") /\ Return(Redex.items)

\* Unary, Binary, Ternary: the result is reduced, with the arguments that
\* are left.
ReduceFurther(arity) ==
    \/ Does("gives") /\ Become([Redex EXCEPT !.items = <<Operand(arity)>> \o Beyond(arity)])
    \/ Does("raises") /\ Raise(Operand(arity))
    \/ Does("stuck") /\ Return(Redex.items)

\* Fault: with too few arguments it becomes itself, as a Ternary does.
ReduceBinaryLoops ==
    /\ Reducing("binary")
    /\ IF Len(Args) < 2 THEN Become(Redex) ELSE ReduceFurther(2)

ReduceUnary ==
    /\ Reducing("unary")
    /\ IF Len(Args) < 1 THEN Return(Redex.items) ELSE ReduceFurther(1)

ReduceBinary ==
    /\ Reducing("binary")
    /\ IF Len(Args) < 2 THEN Return(Redex.items) ELSE ReduceFurther(2)

\* A Ternary with too few arguments is reduced again, and again.
ReduceTernary ==
    /\ Reducing("ternary")
    /\ CASE Len(Args) = 0 -> Become(Redex)
         [] Len(Args) \in 1..2 ->
                /\ Room(2)
                /\ Jump(Alloc(<<Tree(Redex.items), [Redex EXCEPT !.items = <<New(1)>>]>>),
                        New(2))
         [] Len(Args) > 2 -> ReduceFurther(3)

\* VMObjectResult: the first argument, whatever it is.
ReduceResult ==
    /\ Reducing("result")
    /\ result' = [value |-> Redex.items[2], exception |-> Head1 = Exception]
    /\ trampoline' = Nil
    /\ UNCHANGED <<code, heap>>

-----------------------------------------------------------------------------
(* Bytecode, by what the code of a rule does as a whole.                   *)

Matches(p, v) ==
    \/ p \in Params
    \/ p \in Combinators /\ v = p
    \/ /\ p \notin Params \cup Combinators
       /\ v \in Addr
       /\ Len(heap[v].items) = Len(p)
       /\ \A i \in DOMAIN p : p[i] \in Params \/ heap[v].items[i] = p[i]

Applies(rule) ==
    /\ Len(rule.pats) <= Len(Args)
    /\ \A i \in DOMAIN rule.pats : Matches(rule.pats[i], Args[i])

\* Where s is among some patterns, and which of them s is inside of.
At(pats, s) == CHOOSE i \in DOMAIN pats : pats[i] = s

Around(pats, s) ==
    CHOOSE i \in DOMAIN pats : pats[i] \notin Params \cup Combinators /\ s \in Range(pats[i])

\* The value of a slot of a node, which is a parameter, the index of
\* another node, or a value.
Slot(rule, s) ==
    LET pats == rule.pats
        i == Around(pats, s)
    IN  IF s \in Params
        THEN IF \E l \in DOMAIN pats : pats[l] = s
             THEN Args[At(pats, s)]
             ELSE heap[Args[i]].items[At(pats[i], s)]
        ELSE IF s \in 1..Len(rule.body) THEN New(s) ELSE s

\* Fault: only the first of the redexes inside the root is reduced.
NodeSkips(rule, n) ==
    LET body == rule.body
        root == Len(body)
        later == {i \in n + 1..root : body[i].redex}
        slots == [i \in DOMAIN body[n].items |-> Slot(rule, body[n].items[i])]
        items == IF n = root THEN slots \o Beyond(Len(rule.pats)) ELSE slots
    IN  IF ~body[n].redex
        THEN Tree(items)
        ELSE [rt |-> IF n = root THEN Redex.rt ELSE New(body[n].to[1]),
              rti |-> IF n = root THEN Redex.rti ELSE body[n].to[2],
              k |-> IF later = {} THEN Redex.k ELSE New(Max(later)),
              exc |-> Redex.exc,
              items |-> items]

\* The root of the body takes the arguments the rule does not.
Node(rule, n) ==
    LET body == rule.body
        root == Len(body)
        later == {i \in n + 1..root : body[i].redex}
        slots == [i \in DOMAIN body[n].items |-> Slot(rule, body[n].items[i])]
        items == IF n = root THEN slots \o Beyond(Len(rule.pats)) ELSE slots
    IN  IF ~body[n].redex
        THEN Tree(items)
        ELSE [rt |-> IF n = root THEN Redex.rt ELSE New(body[n].to[1]),
              rti |-> IF n = root THEN Redex.rti ELSE body[n].to[2],
              k |-> IF later = {} THEN Redex.k ELSE New(Min(later)),
              exc |-> Redex.exc,
              items |-> items]

\* A root that is no redex is put into place before its holes are filled.
Rewrite(rule) ==
    LET body == rule.body
        root == Len(body)
        redexes == {n \in 1..root : body[n].redex}
        built == Alloc([n \in 1..root |-> Node(rule, n)])
        items == Node(rule, root).items
        value == IF Len(items) = 1 THEN items[1] ELSE New(root)
    IN  /\ Room(root)
        /\ Jump(IF body[root].redex THEN built
                ELSE Write(built, Redex.rt, Redex.rti, value),
                IF redexes = {} THEN Redex.k ELSE New(Min(redexes)))

\* VMObjectBytecode: the first rule that applies, or the redex is a value.
ReduceBytecode ==
    /\ trampoline # Nil
    /\ Head1 \in Users
    /\ LET rules == code[Head1]
           applying == {i \in DOMAIN rules : Applies(rules[i])}
       IN  IF applying = {} THEN Return(Redex.items)
           ELSE Rewrite(rules[Min(applying)])

Next ==
    \/ ReduceData \/ ReduceArray \/ ReduceThrow \/ ReduceHandle \/ ReduceStall
    \/ ReduceNapp
    \/ ReduceMedadic \/ ReduceMonadic \/ ReduceDyadic \/ ReduceTriadic
    \/ ReduceVariadic \/ ReduceUnary \/ ReduceBinary \/ ReduceTernary
    \/ ReduceResult \/ ReduceBytecode

Spec == Init /\ [][Next]_vars

\* The loop of Machine::reduce goes on until there is no next redex.
FairSpec == Spec /\ WF_vars(Next)
-----------------------------------------------------------------------------
(* Properties.                                                             *)

\* All that is inside a value is there.
Complete(v) ==
    /\ v # Nil
    /\ v \in Addr => \A a \in Reachable(heap, {v}) : Nil \notin Range(heap[a].items)

\* No redex is reduced before all its arguments are: builtins never meet a
\* null pointer.
ArgumentsComplete ==
    trampoline # Nil => \A i \in DOMAIN Redex.items : Complete(Redex.items[i])

\* A value that is complete is never overwritten, though exceptions abandon
\* arrays that are linked already and their handlers write the same slot.
CompleteStays ==
    [][\A a \in Addr : heap[a] # Free /\ heap'[a] # Free =>
          \A i \in DOMAIN heap[a].items :
              Complete(heap[a].items[i]) => heap'[a].items[i] = heap[a].items[i]]_vars

\* What a leads to through its continuations, or through its handlers.
Konts(a) == Closure([b \in Addr |-> Addr \cap {heap[b].k}], Addr \cap {a})

Handlers(a) == Closure([b \in Addr |-> Addr \cap {heap[b].exc}], Addr \cap {a})

\* `Exceptions follow dynamic scope' (examples/exception.eg:1): a handler
\* leaves for a continuation that is still to come, and all that is to come
\* before that has the same handler.
HandlersNest ==
    \A a \in Handlers(trampoline) : heap[a].exc # Nil =>
        LET h == heap[a].exc
        IN  /\ heap[h].k \in Konts(heap[a].k) \cup {Nil}
            /\ \A b \in Konts(heap[a].k) \ Konts(heap[h].k) :
                    heap[b].exc = h \/ heap[b].k = Nil

\* Without code that calls itself a reduction ends.
Ends == <>(trampoline = Nil)

=============================================================================
