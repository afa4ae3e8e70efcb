----------------------------- MODULE EgelCompile -----------------------------
(***************************************************************************)
(* A module from its text to the result of its main: the phases of the     *)
(* module manager (src/src/modules.hpp) for one module, with everything    *)
(* they call, and the reduction of main by either engine.                  *)
(***************************************************************************)
EXTENDS EgelLexer, EgelParser, EgelScopes, EgelDesugar, EgelSemantics, EgelBytecode

VARIABLES
    stage,    \* the phase that is next, or how compilation ended
    walk,     \* the state of a phase between two declarations
    parsed,   \* the tree as it was parsed
    tree,     \* the tree by now
    pass,     \* the number of the next pass or declaration of a phase
    names,    \* the global names
    data      \* the combinators that are data

compileVars == <<lexVars, machineVars, stage, walk, parsed, tree, pass, names, data>>
midVars == <<lexVars, machineVars, parsed>>

\* The names the machine has before any module is loaded: those of the
\* runtime that the model knows.
RuntimeData == {"System::" \o n : n \in {"int", "float", "complex", "char", "text", "none", "true",
                                        "false", "tuple", "nil", "cons"}}
RuntimeNames == RuntimeData \cup Builtins

Init ==
    /\ LexInit
    /\ MachineInit
    /\ stage = "read"
    /\ walk = Parse(<<>>)
    /\ parsed = AstEmpty
    /\ tree = AstEmpty
    /\ pass = 1
    /\ names = RuntimeNames
    /\ data = RuntimeData

Lex == LexNext /\ UNCHANGED <<machineVars, stage, walk, parsed, tree, pass, names, data>>

\* syntactical, a declaration a step.
Syntactical ==
    /\ \/ /\ stage = "read" /\ lexing = "done"
          /\ stage' = "parse"
          /\ walk' = ParseDocstringOption(Parse(Sanitize(tokens)))
          /\ tokens' = <<>>
          /\ UNCHANGED <<parsed, tree>>
       \/ /\ stage = "parse" /\ walk.ok /\ Tag(walk) # "eof"
          /\ walk' \in {ParseDeclOrDirective(walk)}
          /\ stage' = IF walk'.ok THEN "parse" ELSE "rejected"
          /\ UNCHANGED <<tokens, parsed, tree>>
       \/ /\ stage = "parse" /\ walk.ok /\ Tag(walk) = "eof"
          /\ stage' = "declare"
          /\ tree' = AstWrapper(walk.trees)
          /\ parsed' = AstWrapper(walk.trees)
          /\ walk' = Pass(GlobalScope(names))
          /\ UNCHANGED tokens
    /\ UNCHANGED <<text, at, lexing, machineVars, pass, names, data>>

\* declarations, one a step.
Declarations ==
    /\ stage = "declare"
    /\ \/ /\ pass <= Len(tree.kids)
          /\ walk' \in {Declare(walk, <<>>, tree.kids[pass])}
          /\ stage' = IF walk'.ok THEN "declare" ELSE "misnamed"
          /\ pass' = pass + 1
          /\ UNCHANGED names
       \/ /\ pass > Len(tree.kids)
          /\ stage' = "identify"
          /\ names' = DOMAIN walk.scopes[1].names
          /\ walk' = Pass(EnterScope(GlobalScope(names')))
          /\ pass' = 1
    /\ UNCHANGED <<midVars, tree, data>>

\* semantical, a declaration a step.
Semantical ==
    /\ stage = "identify"
    /\ \/ /\ pass <= Len(tree.kids)
          /\ walk' \in {Identify(walk, tree.kids[pass])}
          /\ stage' = IF walk'.ok THEN "identify" ELSE "misnamed"
          /\ pass' = pass + 1
          /\ UNCHANGED tree
       \/ /\ pass > Len(tree.kids)
          /\ stage' = "desugar"
          /\ tree' = AstWrapper(walk.declarations)
          /\ walk' = Parse(<<>>)
          /\ pass' = 1
    /\ UNCHANGED <<midVars, names, data>>

\* desugar
Desugar ==
    /\ stage = "desugar"
    /\ \/ /\ pass <= Len(DesugarPasses)
          /\ tree' = DesugarPass(DesugarPasses[pass], tree)
          /\ pass' = pass + 1
          /\ UNCHANGED <<stage, data>>
       \/ /\ pass > Len(DesugarPasses)
          /\ data' = data \cup EmitData(tree)
          /\ stage' = "lift"
          /\ pass' = 1
          /\ UNCHANGED tree
    /\ UNCHANGED <<midVars, walk, names>>

\* lift
Lift ==
    /\ stage = "lift"
    /\ \/ /\ pass <= Len(LiftPasses)
          /\ tree' = LiftPass(LiftPasses[pass], data, tree)
          /\ pass' = pass + 1
          /\ UNCHANGED stage
       \/ /\ pass > Len(LiftPasses)
          /\ stage' = "emit"
          /\ UNCHANGED <<tree, pass>>
    /\ UNCHANGED <<midVars, walk, names, data>>

\* A build with native code replaces what was emitted by it.
TryCompile == engine' \in {"bytecode", "native"}

\* emit_code, and then main.
Emit ==
    /\ stage = "emit"
    /\ \E s \in {EmitCode(data, tree)} :
        IF s.ok THEN stage' = "run" /\ bytecode' = s.bytecode
        ELSE stage' = "panicked" /\ UNCHANGED bytecode
    /\ TryCompile
    /\ heap' = StartArrays(CombinatorObject("main"))
    /\ trampoline' = IF stage' = "run" THEN 3 ELSE 0
    /\ UNCHANGED <<lexVars, call, result, wild, walk, parsed, tree, pass, names, data>>

Run ==
    /\ stage = "run"
    /\ MachineNext
    /\ UNCHANGED <<lexVars, stage, walk, parsed, tree, pass, names, data>>

\* The only states without another step.
Ended ==
    \/ lexing = "failed" \/ stage \in {"rejected", "misnamed", "panicked"}
    \/ stage = "run" /\ (MachineEnded \/ wild)
Stay == Ended /\ UNCHANGED compileVars

Next ==
    \/ Lex \/ Syntactical \/ Declarations \/ Semantical \/ Desugar \/ Lift \/ Emit
    \/ Run \/ Stay

Spec == Init /\ [][Next]_compileVars

-----------------------------------------------------------------------------
Meant(lazy) == Program(RuntimeNames, parsed, lazy)

\* Two names of which one is a namespace that the other one starts with,
\* though not as a namespace: environment.hpp:165 takes it for one.
Confusing(P) ==
    \E i, j \in DOMAIN P.declarations :
        LET space == RenderPath(Last(P.declarations[i].frames).space)
            n == P.declarations[j].name
        IN  StartsWith(n, space) /\ space # "" /\ ~StartsWith(n, space \o "::")

\* The declarations of a name that a using before them imports as well.
Captured(P) ==
    {i \in DOMAIN P.declarations :
        LET d == P.declarations[i]
            f == Last(d.frames)
            n == Without(d.name, IF f.space = <<>> THEN 0 ELSE Len(RenderPath(f.space)) + 2)
        IN  \E j \in DOMAIN f.usings : Imported(P.names, f.usings[j], n) # {}}

Used(a) == {b.names : b \in {c \in Nodes(a) : Is(c, "combinator")}}
Uses(P, i) ==
    LET d == P.declarations[i]
    IN  {<<Standing(P, d.frames, b)>> : b \in {c \in Nodes(d.tree.kids[3]) : Is(c, "combinator")}}

\* The scopes that semantical.hpp enters, leaves and fills while it walks the
\* tree give every name what the namespaces and usings around it say, and
\* reject a module only if a name is unknown, ambiguous or declared twice.
UsesResolve ==
    LET P == Meant(FALSE)
        defined == SelectSeq(P.declarations, LAMBDA d : ~Is(d.tree, "data"))
        rewritten == SelectSeq(tree.kids, LAMBDA d : ~Is(d, "data"))
        using == \E i \in DOMAIN P.declarations :
                    \E j \in DOMAIN P.declarations[i].frames :
                        P.declarations[i].frames[j].usings # <<>>
    IN  /\ stage = "desugar" /\ pass = 1 /\ Captured(P) = {} =>
            /\ WellNamedProgram(P)
            /\ \A i \in DOMAIN rewritten :
                Used(rewritten[i].kids[3]) = Uses([P EXCEPT !.declarations = defined], i)
        /\ stage = "misnamed" => using \/ Confusing(P) \/ ~WellNamedProgram(P)

\* A declaration is one of the name it declares, or of another one's, if a
\* using has given it this name before (semantical.hpp:349): then what it was
\* has no code, and what the using has imported is defined anew.
DeclaredIsDefined ==
    stage = "desugar" /\ pass = 1 =>
        LET P == Meant(FALSE)
            written == FlattenSeq([i \in DOMAIN tree.kids |->
                            IF Is(tree.kids[i], "data") THEN Tail(tree.kids[i].kids)
                            ELSE <<tree.kids[i].kids[1]>>])
        IN  \A i \in DOMAIN P.declarations \ Captured(P) :
                RenderPath(written[i].names) = P.declarations[i].name

\* Names in what they are used for, and in what they define.
NamesResolve == UsesResolve /\ DeclaredIsDefined

\* The variables of a lifted definition are those of its patterns, and the
\* ones that name its redexes: eta has made every variable of a block that is
\* bound outside of it a pattern, whatever was bound or shadowed around it,
\* before the block is moved to where these bindings are not
\* (lift.hpp:16, transform.hpp:1399).
RECURSIVE Bound(_, _)
Bound(vv, a) ==
    CASE Is(a, "variable") -> a.names[1] \in vv
      [] a.tag \in {"match", "let"} ->
            /\ Is(a, "let") => Bound(vv, Guard(a))
            /\ Bound(vv \cup Variables(Patterns(a)), Result(a))
      [] OTHER -> \A i \in DOMAIN a.kids : Bound(vv, a.kids[i])

LiftedClosed ==
    stage = "lift" /\ pass > 3 =>
        \A d \in Nodes(tree) : Declares(d) =>
            /\ Bound({}, d.kids[3])
            /\ \A b \in Nodes(d.kids[3]) : Is(b, "block") => b = d.kids[3]

\* Every block gets a combinator of its own.  The number of a block is put
\* after the name of its definition (lift.hpp:154), so that the eleventh
\* block of f has the name of the first one of f1.
LiftedApart ==
    stage = "emit" =>
        LET dd == {d \in Nodes(tree) : Declares(d)}
            locals == {d \in dd : Path(d.kids[1]) # <<>>}
        IN  (Cardinality(locals) <= 10 /\ Captured(Meant(FALSE)) = {}) =>
                Cardinality({d.kids[1] : d \in dd}) = Cardinality(dd)

\* A block can be moved out of its definition: it takes everything it needs
\* along, and to a place of its own.
LiftingSound == LiftedClosed /\ LiftedApart

\* What the passes have made of a tree that has its names is one that emission
\* has a case for: no PANIC of emit.hpp or of the passes is met.
NoPanic == stage # "panicked"

\* Every jump goes forward and stays in the code, which ends with a return,
\* and is made on a flag that the instruction before has set: native code
\* starts with whatever its stack has for a flag (lightning.hpp:830).
CodeJumps ==
    stage = "run" /\ heap = StartArrays(CombinatorObject("main")) =>
        \A n \in DOMAIN bytecode :
            LET code == bytecode[n]
            IN  /\ Last(code)[1] = "return"
                /\ \A i \in DOMAIN code : code[i][1] = "fail" =>
                    /\ code[i][2] \in (i + 1)..Len(code)
                    /\ i > 1 /\ code[i - 1][1] \in {"takex", "split", "test", "tag"}

\* The registers an instruction reads.
Reads ==
    CASE Op[1] \in {"nil", "data", "fail"} -> {}
      [] Op[1] = "mov" -> {Op[3]}
      [] Op[1] \in {"set"} -> {Op[2], Op[3], Op[4]}
      [] Op[1] \in {"takex", "split"} -> {Op[4]}
      [] Op[1] = "array" -> Op[3]..Op[4]
      [] Op[1] = "concatx" -> {Op[3], Op[4]}
      [] Op[1] \in {"test", "tag"} -> {Op[2], Op[3]}
      [] Op[1] = "return" -> {Op[2]}

\* No instruction reads a register that was not written in the same call:
\* the bindings of variables and of redexes that emission keeps from one
\* alternative to the next (emit.hpp:159) are never those of another one.
RegistersDefined == stage = "run" /\ Running => Reads \subseteq DOMAIN call.reg

\* The code reads no register, and jumps on no flag, that it has not written,
\* in whichever engine runs it.
CodeSound == CodeJumps /\ RegistersDefined

\* A function is shown as that only: the compiler names it, the meaning has
\* its environment.
RECURSIVE Shown(_)
Shown(v) ==
    CASE v[1] = "array" ->
            LET vv == [i \in DOMAIN v[2] |-> Shown(v[2][i])]
            IN  IF vv[1] = <<"function", "">> THEN vv[1] ELSE <<"array", vv>>
      [] v[1] = "closure" -> <<"function", "">>
      [] v[1] = "combinator" ->
            IF v[2] \in DOMAIN bytecode \ names THEN <<"function", "">> ELSE v
      [] OTHER -> v

Means(m) ==
    /\ result.exception = m.thrown
    /\ ~m.thrown => Shown(Readback(result.value)) = Shown(m.value)
    /\ m.thrown /\ result.value # SystemNone =>
        Shown(Readback(result.value)) = Shown(m.value[1])

\* The result of main is what the text means.  For an exception of a builtin,
\* machine.hpp:181 has none in its place.
ResultIsMeaning ==
    stage = "run" /\ MachineEnded =>
        Captured(Meant(FALSE)) # {} \/ Means(Meaning(Meant(FALSE)))

\* `&&` and `||` evaluate their second operand only if they have to.
ShortCircuits ==
    stage = "run" /\ MachineEnded => Means(Meaning(Meant(TRUE)))

=============================================================================
