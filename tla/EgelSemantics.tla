---------------------------- MODULE EgelSemantics ----------------------------
(***************************************************************************)
(* What a program means, by its tree as it was parsed: no passes, no       *)
(* registers and no heap.  Names are looked up where they are used,        *)
(* functions are closures.  The compiler and the machine are compared with *)
(* this.                                                                   *)
(*                                                                         *)
(* A value is a literal, a combinator, an application (tagged "array"), or *)
(* a closure: its matches, the environment and the namespaces around it.   *)
(* The meaning of an expression is a value, or the arguments of a throw.   *)
(***************************************************************************)
EXTENDS EgelEmit

Value(v) == [thrown |-> FALSE, value |-> v]
Thrown(vv) == [thrown |-> TRUE, value |-> vv]
Beyond(vv, n) == SubSeq(vv, n + 1, Len(vv))
Applied(vv) == IF Len(vv) = 1 THEN vv[1] ELSE <<"array", vv>>
Closure(mm, env, frames) == <<"closure", mm, env, frames>>
Absolute(n) == AstExprCombinator(<<>>, n)

-----------------------------------------------------------------------------
(* Names.  A frame is a namespace that is open, and the usings in it.      *)

Open(space) == [space |-> space, usings |-> <<>>]

\* The declarations of a sequence of trees, after the frames they are in.
RECURSIVE Collected(_, _)
Collected(frames, dd) ==
    LET Declaration(n, d) ==
            [name |-> RenderPath(Last(frames).space \o n.names), frames |-> frames, tree |-> d]
        Rest(u) == [frames EXCEPT ![Len(frames)].usings = @ \o u.kids]
        d == Head(dd)
    IN
    CASE dd = <<>> -> <<>>
      [] dd # <<>> /\ Is(d, "using") -> Collected(Rest(d), Tail(dd))
      [] dd # <<>> /\ Is(d, "namespace") ->
            Collected(Append(frames, Open(Last(frames).space \o d.names)), d.kids)
            \o Collected(frames, Tail(dd))
      [] dd # <<>> /\ Is(d, "data") ->
            [i \in 1..(Len(d.kids) - 1) |-> Declaration(d.kids[i + 1], d)]
            \o Collected(frames, Tail(dd))
      [] dd # <<>> /\ Declares(d) -> <<Declaration(d.kids[1], d)>> \o Collected(frames, Tail(dd))
      [] OTHER -> Collected(frames, Tail(dd))

Side(a, i) == IF Is(a, "alias") THEN a.kids[i] ELSE a

\* What a using makes of the name n.
Imported(names, u, n) ==
    LET space == Side(u.kids[1], 2).names
        prefix == IF Is(u.kids[1], "alias") THEN Join(Side(u.kids[1], 1).names, "::") \o "::" ELSE ""
        whole == {m \in names : \E k \in 1..Len(m) :
                    /\ SubSeq(m, 1, k) = Join(space, "::") \o "::"
                    /\ n = prefix \o SubSeq(m, k + 1, Len(m))}
        some == {RenderPath(space \o Side(t, 2).names) :
                    t \in {t \in Range(Tail(u.kids)) : n = prefix \o RenderPath(Side(t, 1).names)}}
    IN  IF Len(u.kids) = 1 THEN whole ELSE some \cap names

\* What a name can stand for in the innermost frame that knows it.
RECURSIVE Resolve(_, _, _)
Resolve(names, frames, n) ==
    LET f == Last(frames)
        here == ({RenderPath(Append(f.space, n))} \cap names)
                \cup UNION {Imported(names, f.usings[i], n) : i \in DOMAIN f.usings}
    IN  CASE frames = <<>> -> {}
          [] frames # <<>> /\ here # {} -> here
          [] OTHER -> Resolve(names, Front(frames), n)

\* A program: its declarations, and the names the machine has already.
Program(machineNames, tree, lazy) ==
    LET dd == Collected(<<Open(<<>>)>>, tree.kids)
    IN  [declarations |-> dd, lazy |-> lazy,
         names |-> machineNames \cup {dd[i].name : i \in DOMAIN dd}]

Standing(P, frames, c) == CHOOSE n \in Resolve(P.names, frames, RenderPath(c.names)) : TRUE

-----------------------------------------------------------------------------
(* Which programs have a meaning: every name stands for exactly one thing, *)
(* is declared once, and variables are bound, once in a match.             *)

\* The variables of a tree, as often as they occur.
RECURSIVE Occurrences(_)
Occurrences(a) ==
    IF Is(a, "variable") THEN a.names
    ELSE FlattenSeq([i \in DOMAIN a.kids |-> Occurrences(a.kids[i])])

RECURSIVE WellNamed(_, _, _, _)
WellNamed(P, frames, bound, a) ==
    LET All(bb, aa) == \A i \in DOMAIN aa : WellNamed(P, frames, bb, aa[i])
        occurrences == Occurrences(AstWrapper(Patterns(a)))
        vv == Range(occurrences)
    IN
    CASE Is(a, "variable") -> a.names[1] \in bound
      [] Is(a, "combinator") -> Cardinality(Resolve(P.names, frames, RenderPath(a.names))) = 1
      [] a.tag \in {"match", "let"} ->
            /\ Len(occurrences) = Cardinality(vv)
            /\ All(vv, Patterns(a))
            /\ All(IF Is(a, "let") THEN bound ELSE bound \cup vv, <<Guard(a)>>)
            /\ All(bound \cup vv, <<Result(a)>>)
      [] OTHER -> All(bound, a.kids)

WellNamedProgram(P) ==
    /\ IsInjective([i \in DOMAIN P.declarations |-> P.declarations[i].name])
    /\ \A i \in DOMAIN P.declarations :
        LET d == P.declarations[i]
        IN  Is(d.tree, "data") \/ WellNamed(P, d.frames, {}, d.tree.kids[3])

-----------------------------------------------------------------------------
(* Patterns.                                                               *)

\* An application and the applications that are its head, as one.
RECURSIVE Spine(_)
Spine(a) == IF Is(a, "application") THEN Spine(Head(a.kids)) \o Tail(a.kids) ELSE <<a>>

\* A tuple or a list is an application, or the combinator nil.
AsApplication(a) ==
    CASE Is(a, "tuple") -> AstExprApplication(<<Absolute("System::tuple")>> \o a.kids)
      [] Is(a, "list") /\ a.kids # <<>> ->
            IF HasTail(a) /\ Len(a.kids) = 2
            THEN AstExprApplication(<<Absolute("System::cons")>> \o a.kids)
            ELSE AstExprApplication(<<Absolute("System::cons"), Head(a.kids),
                                      [a EXCEPT !.kids = Tail(@)]>>)
      [] Is(a, "list") /\ a.kids = <<>> -> Absolute("System::nil")
      [] OTHER -> a

TypeName(v) ==
    CASE v[1] = "combinator" -> v[2]
      [] v[1] = "character" -> "System::char"
      [] OTHER -> "System::" \o v[1]

\* Whether a value is one of a pattern, and the environment with its parts.
RECURSIVE Matched(_, _, _, _, _)
Matched(P, frames, b, pattern, v) ==
    LET p == AsApplication(pattern)
        parts == Spine(p)
        If(c) == [b EXCEPT !.ok = c]
        Part(t, i) == Matched(P, frames, t, parts[i], v[2][i])
    IN
    CASE ~b.ok \/ Is(p, "wildcard") -> b
      [] b.ok /\ Is(p, "variable") -> [b EXCEPT !.env = (p.names[1] :> v) @@ @]
      [] b.ok /\ p.tag \in Literals0 -> If(v = Constant(p))
      [] b.ok /\ Is(p, "combinator") -> If(v = Combinator(Standing(P, frames, p)))
      [] b.ok /\ Is(p, "tag") ->
            IF TypeName(v) = Standing(P, frames, p.kids[2])
            THEN Matched(P, frames, b, p.kids[1], v) ELSE If(FALSE)
      [] b.ok /\ Is(p, "application") ->
            IF v[1] = "array" /\ Len(v[2]) = Len(parts)
            THEN FoldLeft(Part, b, [i \in DOMAIN parts |-> i]) ELSE If(FALSE)

AllMatched(P, frames, env, patterns, vv) ==
    FoldLeft(LAMBDA b, i : Matched(P, frames, b, patterns[i], vv[i]),
             [ok |-> Len(patterns) <= Len(vv), env |-> env],
             [i \in 1..(IF Len(patterns) <= Len(vv) THEN Len(patterns) ELSE 0) |-> i])

-----------------------------------------------------------------------------
(* Expressions.                                                            *)

\* What is evaluated before an expression itself, from left to right.
Operands(a) ==
    CASE a.tag \in {"tuple", "list"} -> a.kids
      [] a.tag \in {"if", "throw", "statement"} -> <<a.kids[1]>>
      [] Is(a, "let") -> <<Guard(a)>>
      [] OTHER -> <<>>

\* do f |> g: the first function of the pipe gets the variable x.
RECURSIVE Fed(_, _, _, _)
Fed(P, frames, e, x) ==
    IF /\ Is(e, "application") /\ Len(e.kids) = 3 /\ Is(e.kids[1], "combinator")
       /\ Standing(P, frames, e.kids[1]) = "System::|>"
    THEN [e EXCEPT !.kids[2] = Fed(P, frames, @, x)]
    ELSE AstExprApplication(<<e, x>>)

\* The matches of an expression that is a function.
Functional(a) == a.tag \in {"block", "lambda", "do"}
Matches(P, frames, a) ==
    LET x == AstExprVariable("do") IN
    IF Is(a, "do") THEN <<AstExprMatch(<<x>>, AstEmpty, Fed(P, frames, a.kids[1], x))>>
    ELSE a.kids

Lazily(P, frames, parts) ==
    /\ P.lazy
    /\ Len(parts) = 3 /\ Is(parts[1], "combinator")
    /\ Standing(P, frames, parts[1]) \in {"System::&&", "System::||"}

RECURSIVE Apply1(_, _, _), Evaluate(_, _, _, _, _)

\* The first match that applies; the value itself if none does.
ApplyMatches(P, itself, frames, env, mm, vv) ==
    LET tried == [i \in DOMAIN mm |-> AllMatched(P, frames, env, Patterns(mm[i]), vv)]
        applying == {i \in DOMAIN mm : tried[i].ok}
        m == mm[Min(applying)]
    IN  IF applying = {} THEN Value(Applied(<<itself>> \o vv))
        ELSE Evaluate(P, frames, tried[Min(applying)].env, Result(m),
                      Beyond(vv, Len(Patterns(m))))

ApplyDefinition(P, f, d, vv) ==
    LET e == d.tree.kids[3] IN
    CASE Is(d.tree, "data") -> Value(Applied(<<f>> \o vv))
      [] ~Is(d.tree, "data") /\ Functional(e) ->
            ApplyMatches(P, f, d.frames, <<>>, Matches(P, d.frames, e), vv)
      [] OTHER -> Evaluate(P, d.frames, <<>>, e, vv)

\* What a handler makes of what was tried.
Handled(P, h, tried) ==
    IF tried.thrown THEN Apply1(P, h, <<Combinator("System::none")>> \o tried.value) ELSE tried

ApplyBuiltin(P, f, vv) ==
    LET itself == Value(Applied(<<f>> \o vv))
        bad == Thrown(<<<<"array", <<<<"text", f[2]>>, vv[1], vv[2]>>>>>>)
        integers == vv[1][1] = "int" /\ vv[2][1] = "int"
        Answer(v) == Value(Applied(<<v>> \o Beyond(vv, 2)))
    IN
    CASE f = Combinator("System::throw") -> IF vv = <<>> THEN itself ELSE Thrown(vv)
      [] f[2] \in {"System::handle", "System::+", "System::-", "System::=="} /\ Len(vv) < 2 ->
            itself
      [] f = Combinator("System::handle") /\ Len(vv) > 1 ->
            Handled(P, vv[1], Apply1(P, vv[2], <<Combinator("System::none")>> \o Beyond(vv, 2)))
      [] f = Combinator("System::+") /\ Len(vv) > 1 ->
            IF integers THEN Answer(<<"int", vv[1][2] + vv[2][2]>>) ELSE bad
      [] f = Combinator("System::-") /\ Len(vv) > 1 ->
            IF integers THEN Answer(<<"int", vv[1][2] - vv[2][2]>>) ELSE bad
      [] f = Combinator("System::==") /\ Len(vv) > 1 ->
            Answer(Combinator(IF vv[1] = vv[2] THEN "System::true" ELSE "System::false"))
      [] OTHER -> itself

\* A value, applied to values.
Apply1(P, f, vv) ==
    LET defined == {i \in DOMAIN P.declarations : f = Combinator(P.declarations[i].name)} IN
    CASE f[1] = "array" -> Apply1(P, Head(f[2]), Tail(f[2]) \o vv)
      [] f[1] = "closure" -> ApplyMatches(P, f, f[4], f[3], f[2], vv)
      [] f[1] = "combinator" ->
            IF defined = {} THEN ApplyBuiltin(P, f, vv)
            ELSE ApplyDefinition(P, f, P.declarations[Min(defined)], vv)
      [] OTHER -> Value(Applied(<<f>> \o vv))

\* The values of expressions, up to the first that throws.
EvaluateAll(P, frames, env, ee) ==
    LET Prefixed(vv, v) == IF v.thrown THEN v ELSE Value(Append(vv, v.value))
        Next1(t, e) ==
            IF t.thrown THEN t ELSE Prefixed(t.value, Evaluate(P, frames, env, e, <<>>))
    IN  FoldLeft(Next1, Value(<<>>), ee)

\* The value of an expression without its operands, applied to theirs.
EvaluateHead(P, frames, env, a, vv) ==
    LET Pair(v, l) == <<"array", <<Combinator("System::cons"), v, l>>>>
        n == Len(a.kids)
        list == IF HasTail(a) THEN FoldRight(Pair, SubSeq(vv, 1, n - 1), vv[n])
                ELSE FoldRight(Pair, SubSeq(vv, 1, n), Combinator("System::nil"))
        Caught(tried) ==
            IF tried.thrown THEN Evaluate(P, frames, env, a.kids[2], tried.value) ELSE tried
    IN
    CASE a.tag \in Literals0 -> Value(Applied(<<Constant(a)>> \o vv))
      [] Is(a, "variable") -> Apply1(P, env[a.names[1]], vv)
      [] Is(a, "combinator") -> Apply1(P, Combinator(Standing(P, frames, a)), vv)
      [] Functional(a) ->
            Apply1(P, Closure(Matches(P, frames, a), env, frames), vv)
      [] Is(a, "tuple") -> Value(<<"array", <<Combinator("System::tuple")>> \o vv>>)
      [] Is(a, "list") -> Apply1(P, list, Beyond(vv, n))
      [] Is(a, "if") ->
            Evaluate(P, frames, env,
                     IF Head(vv) = Combinator("System::false") THEN a.kids[3] ELSE a.kids[2], Tail(vv))
      [] Is(a, "let") ->
            Apply1(P, Closure(<<AstExprMatch(Patterns(a), AstEmpty, Result(a))>>, env, frames), vv)
      [] Is(a, "statement") -> Evaluate(P, frames, env, a.kids[2], Tail(vv))
      [] Is(a, "throw") -> Thrown(vv)
      [] Is(a, "try") -> Caught(Evaluate(P, frames, env, a.kids[1], vv))

\* The value of an expression, applied to vv.
Evaluate(P, frames, env, a, vv) ==
    LET parts == Spine(a)
        head == Head(parts)
        delayed == AstExprBlock(<<AstExprMatch(<<AstExprWildcard("_")>>, AstEmpty, Last(parts))>>)
        arguments == IF Lazily(P, frames, parts) THEN <<parts[2], delayed>> ELSE Tail(parts)
        Headed(operands) ==
            IF operands.thrown THEN operands
            ELSE EvaluateHead(P, frames, env, head, operands.value \o vv)
    IN  Headed(EvaluateAll(P, frames, env, Operands(head) \o arguments))

Meaning(P) == Apply1(P, Combinator("main"), <<>>)

=============================================================================
