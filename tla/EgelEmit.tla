------------------------------- MODULE EgelEmit -------------------------------
(***************************************************************************)
(* Emission of bytecode (src/src/emit.hpp, and the Coder and opcodes of    *)
(* src/src/bytecode.hpp).  An instruction is a tuple, its opcode first;    *)
(* what an instruction counts in bytes is counted in instructions here.  A *)
(* constant stands in its instruction, not in the table of data.           *)
(*                                                                         *)
(* The state of the emission is a record.  An operator takes it to the one *)
(* after the method returned; out is the register the method returns.      *)
(***************************************************************************)
EXTENDS EgelLift, Integers

\* Values: literals, combinators by their names, and arrays by where they are.
Digit(c) == CHOOSE n \in 0..15 : c \in {SubSeq("0123456789abcdef", n + 1, n + 1),
                                        SubSeq("0123456789ABCDEF", n + 1, n + 1)}
NumberIn(base, s) ==
    FoldLeft(LAMBDA n, i : base * n + Digit(SubSeq(s, i, i)), 0, [i \in 1..Len(s) |-> i])
UnicodeToInt(s) ==
    CASE SubSeq(s, 1, 1) = "-" -> -NumberIn(10, SubSeq(s, 2, Len(s)))
      [] Len(s) > 2 /\ SubSeq(s, 1, 2) = "0x" -> NumberIn(16, SubSeq(s, 3, Len(s)))
      [] OTHER -> NumberIn(10, s)

Integer(n) == <<"int", n>>
Combinator(n) == <<"combinator", n>>
Literals0 == {"integer", "float", "complex", "character", "text"}
Constant(a) ==
    CASE Is(a, "integer") -> Integer(UnicodeToInt(a.names[1]))
      [] Is(a, "combinator") -> Combinator(RenderPath(a.names))
      [] OTHER -> <<a.tag, a.names[1]>>
IsConstant(a) == a.tag \in Literals0 \cup {"combinator"}

-----------------------------------------------------------------------------
(* Coder.                                                                  *)

EmitOp(s, op) == [s EXCEPT !.code = Append(@, op)]
GenerateRegisters(s, n) == [s EXCEPT !.next = @ + n]
GenerateLabel(s) == [s EXCEPT !.fail = s.labels + 1, !.labels = @ + 1]
\* emit_label, then relabel of every jump to it.
EmitLabel(s, l) ==
    [s EXCEPT !.code = [i \in DOMAIN @ |->
        IF @[i] = <<"fail", -l>> THEN <<"fail", Len(@) + 1>> ELSE @[i]]]
EmitFail(s) == EmitOp(s, <<"fail", -s.fail>>)
Panic(s) == [s EXCEPT !.ok = FALSE]

-----------------------------------------------------------------------------
(* Patterns.                                                               *)

VisitPatternConstant(s, r, v) ==
    EmitFail(EmitOp(EmitOp(GenerateRegisters(s, 1), <<"data", s.next, v>>), <<"test", r, s.next>>))

RECURSIVE VisitPattern(_, _, _)
TestTag(s, r, v) ==
    EmitFail(EmitOp(EmitOp(GenerateRegisters(s, 1), <<"data", s.next, v>>), <<"tag", r, s.next>>))
VisitPatternTag(s, r, a) ==
    IF Is(a.kids[2], "combinator")
    THEN TestTag(VisitPattern(s, r, a.kids[1]), r, Constant(a.kids[2]))
    ELSE Panic(s)

VisitPatternApplication(s, r, a) ==
    LET x == s.next
        y == x + Len(a.kids) - 1
        split == EmitFail(EmitOp(GenerateRegisters(s, Len(a.kids)), <<"split", x, y, r>>))
    IN  FoldLeft(LAMBDA t, i : VisitPattern(t, x + i - 1, a.kids[i]),
                 split, [i \in DOMAIN a.kids |-> i])

VisitPattern(s, r, a) ==
    CASE ~s.ok -> s
      [] s.ok /\ IsConstant(a) -> VisitPatternConstant(s, r, Constant(a))
      [] s.ok /\ Is(a, "tag") -> VisitPatternTag(s, r, a)
      [] s.ok /\ Is(a, "variable") -> [s EXCEPT !.variables = (a.names[1] :> r) @@ @]
      [] s.ok /\ Is(a, "application") -> VisitPatternApplication(s, r, a)
      [] OTHER -> Panic(s)

-----------------------------------------------------------------------------
(* Expressions.                                                            *)

VisitTreeConstant(s, v) ==
    [EmitOp(GenerateRegisters(s, 1), <<"data", s.next, v>>) EXCEPT !.out = s.next]

Mov(s, r) == [EmitOp(GenerateRegisters(s, 1), <<"mov", s.next, r>>) EXCEPT !.out = s.next]

\* A variable of a pattern, or that of a redex: what has to be filled in when
\* the redex is reduced.
VisitTreeVariable(s, v) ==
    IF v \in DOMAIN s.variables THEN Mov(s, s.variables[v])
    ELSE [EmitOp(GenerateRegisters(s, 1), <<"nil", s.next>>)
            EXCEPT !.out = s.next, !.redexes = (v :> s.cursor) @@ @]

RECURSIVE VisitTree(_, _)

\* The applications among the children of the array t to be, which starts at
\* index i: a state and the registers of these applications.
Unraveled(v, out, n) == [s |-> v, out |-> (n :> v.out) @@ out]
Unravel(s, t, i, aa) ==
    LET Child(u, n) ==
            IF Is(aa[n], "application")
            THEN Unraveled(VisitTree([u.s EXCEPT !.cursor = <<t, i + n - 1>>], aa[n]), u.out, n)
            ELSE u
    IN  FoldLeft(Child, [s |-> s, out |-> [n \in {} |-> 0]], [n \in DOMAIN aa |-> n])

\* Then all children, in consecutive registers.
SetUp(s, t, i, aa, children) ==
    LET Child(u, n) ==
            LET v == [u EXCEPT !.cursor = <<t, i + n - 1>>]
            IN  IF Is(aa[n], "application") THEN Mov(v, children[n]) ELSE VisitTree(v, aa[n])
    IN  FoldLeft(Child, s, [n \in DOMAIN aa |-> n])

EmitArray(s, t, x) == [EmitOp(s, <<"array", t, x, s.out>>) EXCEPT !.out = t]

\* The array t of the children aa, of which u has the applications.
FillArray(u, t, aa) == EmitArray(SetUp(u.s, t, 0, aa, u.out), t, u.s.next)

VisitTreeApplication(s, a) ==
    FillArray(Unravel(GenerateRegisters(s, 1), s.next, 0, a.kids), s.next, a.kids)

VisitTree(s, a) ==
    CASE ~s.ok -> s
      [] s.ok /\ IsConstant(a) -> VisitTreeConstant(s, Constant(a))
      [] s.ok /\ Is(a, "variable") -> VisitTreeVariable(s, a.names[1])
      [] s.ok /\ Is(a, "application") -> VisitTreeApplication(s, a)
      [] OTHER -> Panic(s)

\* The link registers of a redex: where its result goes, what is next, and
\* the handler of its exceptions.
Link(s) == Mov(Mov(Mov(Mov(s, s.rt), s.rti), s.k), s.exc)

VisitRedexSmall(s, r) ==
    LET t == Mov(Link(s), r)
    IN  [EmitOp(GenerateRegisters(t, 1), <<"array", t.next, s.next, t.out>>)
            EXCEPT !.out = t.next, !.k = t.next]

\* The same with the links before the children.
FillRedex(u, t, aa) == EmitArray(SetUp(Link(u.s), t, 4, aa, u.out), t, u.s.next)

VisitRedexApplication(s, a) ==
    [FillRedex(Unravel(GenerateRegisters(s, 1), s.next, 4, a.kids), s.next, a.kids)
        EXCEPT !.k = s.next]

VisitRedex(s, a) ==
    CASE ~s.ok -> s
      [] s.ok /\ Is(a, "combinator") ->
            LET t == VisitTreeConstant(s, Constant(a)) IN VisitRedexSmall(t, t.out)
      [] s.ok /\ Is(a, "variable") /\ a.names[1] \in DOMAIN s.variables ->
            VisitRedexSmall(s, s.variables[a.names[1]])
      [] s.ok /\ Is(a, "application") -> VisitRedexApplication(s, a)
      [] OTHER -> Panic(s)

RECURSIVE IsRedex(_, _), VisitRoot(_, _, _)
IsRedex(data, a) ==
    CASE Is(a, "combinator") -> IsCombinatorRedex(data, a)
      [] Is(a, "application") -> IsRedex(data, a.kids[1])
      [] OTHER -> Is(a, "variable")

\* Fault: the arguments of the match are taken again.
ConcatxAll(s) == EmitOp(s, <<"concatx", s.out, s.out, s.frame, 5>>)

\* A root takes what the thunk has beyond the arguments of the match.
Concatx(s) == EmitOp(s, <<"concatx", s.out, s.out, s.frame, 5 + s.arity>>)

EmitSet(s) == EmitOp(s, <<"set", s.rt, s.rti, s.out>>)
VisitRootTree(s, a) == EmitSet(Concatx(VisitTree(s, a)))

VisitRootRedex(s, a) == Concatx(VisitRedex(s, a))

\* What is reduced first is emitted last.
VisitBinding(s, place, a) ==
    LET t == VisitTreeConstant(s, Integer(place[2]))
    IN  VisitRedex([t EXCEPT !.rt = place[1], !.rti = t.out], a)
VisitBindingOf(s, v, a) == IF s.ok THEN VisitBinding(s, s.redexes[v], a) ELSE s
VisitRootLet(data, s, a) ==
    IF Is(a.kids[1], "variable")
    THEN VisitBindingOf(VisitRoot(data, s, Result(a)), a.kids[1].names[1], Guard(a))
    ELSE Panic(s)

VisitRoot(data, s, a) ==
    CASE ~s.ok -> s
      [] s.ok /\ Is(a, "let") -> VisitRootLet(data, s, a)
      [] s.ok /\ a.tag \in Literals0 -> VisitRootTree(s, a)
      [] s.ok /\ a.tag \in {"variable", "application", "combinator"} ->
            IF IsRedex(data, a) THEN VisitRootRedex(s, a) ELSE VisitRootTree(s, a)
      [] OTHER -> Panic(s)

-----------------------------------------------------------------------------
(* Definitions.                                                            *)

EmitReturn(s) == EmitOp(s, <<"return", s.k>>)

VisitMatch(data, s, a) ==
    LET patterns == Patterns(a)
        n == Len(patterns)
        x == s.next
        t == [GenerateRegisters(GenerateLabel(s), n) EXCEPT !.arity = n]
        takex == IF n = 0 THEN t
                 ELSE EmitFail(EmitOp(t, <<"takex", x, x + n - 1, s.frame, 5>>))
        matched == FoldLeft(LAMBDA u, i : VisitPattern(u, x + i - 1, patterns[i]),
                            takex, [i \in 1..n |-> i])
    IN  [EmitLabel(EmitReturn(VisitRoot(data, matched, Result(a))), s.labels + 1)
            EXCEPT !.next = x]

\* Fault: a match goes on with the link registers of the one before it.
VisitBlockOn(data, s, mm) == FoldLeft(LAMBDA t, m : VisitMatch(data, t, m), s, mm)

\* Every match starts with the link registers of the block.
VisitBlock(data, s, mm) ==
    LET Alternative(t, m) ==
            VisitMatch(data, [t EXCEPT !.rt = s.rt, !.rti = s.rti, !.k = s.k, !.exc = s.exc], m)
    IN  FoldLeft(Alternative, s, mm)

\* When no match applies the thunk without its links is the value.
EndDefinition(s, n) ==
    LET em == s.next
        r == em + 1
        ops == <<<<"array", em, 2, 1>>, <<"concatx", r, em, s.frame, 4>>,
                 <<"set", 1, 2, r>>, <<"return", 3>>>>
    IN  IF s.ok
        THEN [s EXCEPT !.bytecode = (n :> (s.code \o ops)) @@ @,
                       !.rt = 1, !.rti = 2, !.k = 3, !.exc = 4]
        ELSE s

\* The thunk is in register 0, its links follow.
VisitDefinition(data, s, a) ==
    LET start == [s EXCEPT !.code = <<>>, !.next = 6, !.labels = 1, !.fail = 1, !.arity = 0]
        takex == EmitFail(EmitOp(start, <<"takex", 1, 5, s.frame, 0>>))
    IN  EndDefinition(EmitLabel(VisitBlock(data, takex, a.kids[3].kids), 1),
                      RenderPath(a.kids[1].names))

RECURSIVE VisitDeclarations(_, _, _)
VisitDeclarations(data, s, a) ==
    CASE Declares(a) -> VisitDefinition(data, s, a)
      [] Is(a, "wrapper") -> FoldLeft(LAMBDA t, d : VisitDeclarations(data, t, d), s, a.kids)
      [] OTHER -> s

\* EmitCode; the bindings of variables outlive their match and definition.
EmitCode(data, a) ==
    VisitDeclarations(data,
        [code |-> <<>>, next |-> 0, labels |-> 0, fail |-> 0, frame |-> 0, rt |-> 1, rti |-> 2,
         k |-> 3, exc |-> 4, arity |-> 0, variables |-> <<>>, redexes |-> <<>>,
         cursor |-> <<0, 0>>, out |-> 0, ok |-> TRUE, bytecode |-> [n \in {} |-> <<>>]], a)

\* EmitData: the names that the data declarations of a tree introduce.
EmitData(a) ==
    UNION {{RenderPath(d.kids[i].names) : i \in 2..Len(d.kids)} :
              d \in {b \in Nodes(a) : Is(b, "data")}}

=============================================================================
