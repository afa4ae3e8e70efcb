----------------------------- MODULE EgelDesugar -----------------------------
(***************************************************************************)
(* Desugaring (src/src/desugar.hpp): small passes, each of which rewrites  *)
(* one form of expression into simpler ones.                               *)
(***************************************************************************)
EXTENDS EgelTransform

System(n) == AstExprCombinator(<<"System">>, n)
Match(patterns, e) == AstExprMatch(patterns, AstEmpty, e)
Apply(aa) == AstExprApplication(aa)
Wild == AstExprWildcard("_")
Lambdify(e) == AstExprBlock(<<Match(<<AstExprVariable("WILD0")>>, e)>>)

RECURSIVE PassCondition(_), RewriteWildcard(_, _), PassTuple(_), PassList(_), AddVar(_, _),
          RewriteDo(_, _), PassStatement(_), PassLet(_), PassLambda(_), PassThrow(_), PassTry(_),
          PassLazyOp(_), PassMonmin(_)

\* if i then t else e -> [ false -> e | _ -> t ] i
PassCondition(a) ==
    LET b == Rewrite(PassCondition, a)
        i == b.kids[1]  t == b.kids[2]  e == b.kids[3]
    IN  IF Is(a, "if")
        THEN Apply(<<AstExprBlock(<<Match(<<System("false")>>, e), Match(<<Wild>>, t)>>), i>>)
        ELSE b

RewriteWildcard(s, a) ==
    IF Is(a, "wildcard")
    THEN [Push(s, AstExprVariable("WILD" \o ToString(s.tick))) EXCEPT !.tick = @ + 1]
    ELSE RewriteTicking(RewriteWildcard, s, a)
PassWildcard(a) == RewriteWildcard(Ticking, a).trees[1]

\* (e0, .., en) -> (tuple e0) .. en
PassTuple(a) ==
    LET b == Rewrite(PassTuple, a)
    IN  IF Is(a, "tuple")
        THEN FoldLeft(LAMBDA t, e : Apply(<<t, e>>), System("tuple"), b.kids)
        ELSE b

\* Fault: what is inside of a list is left as it is.
PassListOuter(a) ==
    LET b == IF Is(a, "list") THEN a ELSE Rewrite(PassList, a)
        end == IF HasTail(b) THEN Last(b.kids) ELSE System("nil")
    IN  IF Is(a, "list")
        THEN FoldRight(LAMBDA e, l : Apply(<<System("cons"), e, l>>), Content(b), end)
        ELSE b

\* {e0, .., en|l} -> cons e0 (.. (cons en l))
PassList(a) ==
    LET b == Rewrite(PassList, a)
        end == IF HasTail(b) THEN Last(b.kids) ELSE System("nil")
    IN  IF Is(a, "list")
        THEN FoldRight(LAMBDA e, l : Apply(<<System("cons"), e, l>>), Content(b), end)
        ELSE b

\* The first of the functions of a pipe gets the variable.
AddVar(e, v) ==
    IF /\ Is(e, "application") /\ Len(e.kids) > 2
       /\ Is(e.kids[1], "combinator") /\ RenderPath(e.kids[1].names) = "System::|>"
    THEN [e EXCEPT !.kids[2] = AddVar(@, v)]
    ELSE Apply(<<e, v>>)

\* do f |> g -> [ x -> f x |> g ]
RewriteDo(s, a) ==
    LET t == RewriteDo(s, a.kids[1])
        x == AstExprVariable("DOVAR" \o ToString(t.tick))
    IN  IF Is(a, "do")
        THEN [Built(t, Height(s), AstExprBlock(<<Match(<<x>>, AddVar(Last(t.trees), x))>>))
                EXCEPT !.tick = @ + 1]
        ELSE RewriteTicking(RewriteDo, s, a)
PassDo(a) == RewriteDo(Ticking, a).trees[1]

\* r; l -> let _ = r in l
PassStatement(a) ==
    LET b == Rewrite(PassStatement, a)
    IN  IF Is(a, "statement") THEN AstExprLet(<<Wild>>, b.kids[1], b.kids[2]) ELSE b

\* let l = r in b -> [ l -> b ] r
PassLet(a) ==
    LET b == Rewrite(PassLet, a)
    IN  IF Is(a, "let")
        THEN Apply(<<AstExprBlock(<<Match(Patterns(a), Result(b))>>), Guard(b)>>)
        ELSE b

PassLambda(a) ==
    LET b == Rewrite(PassLambda, a)
    IN  IF Is(a, "lambda") THEN AstExprBlock(b.kids) ELSE b

PassThrow(a) ==
    LET b == Rewrite(PassThrow, a)
    IN  IF Is(a, "throw") THEN Apply(<<System("throw"), b.kids[1]>>) ELSE b

\* try t catch c -> handle [ _ -> c ] [ _ -> t ]
PassTry(a) ==
    LET b == Rewrite(PassTry, a)
        Delayed(e) == AstExprBlock(<<Match(<<Wild>>, e)>>)
    IN  IF Is(a, "try")
        THEN Apply(<<System("handle"), Delayed(b.kids[2]), Delayed(b.kids[1])>>)
        ELSE b

\* Whether an application is one of an operator to n arguments.
Operates(a, names, n) ==
    /\ Is(a, "application") /\ Len(a.kids) = n + 1
    /\ Is(a.kids[1], "combinator") /\ RenderPath(a.kids[1].names) \in names

\* e0 && e1 -> e0 && [ _ -> e1 ], were it not for the name the code compares
\* with, which no combinator has.
PassLazyOp(a) ==
    LET b == Rewrite(PassLazyOp, a)
    IN  IF Operates(a, {"System:&&", "System:||"}, 2)
        THEN Apply(<<a.kids[1], b.kids[2], Lambdify(b.kids[3])>>)
        ELSE b

\* (- x) -> -x, for which the same holds.
PassMonmin(a) ==
    IF Operates(a, {"System:!-"}, 1) /\ Is(a.kids[2], "integer")
    THEN AstExprInteger("-" \o a.kids[2].names[1])
    ELSE Rewrite(PassMonmin, a)

\* The passes, in their order.
DesugarPasses ==
    <<"condition", "wildcard", "tuple", "list", "do", "statement", "let", "lambda",
      "throw", "try", "lazyop", "monmin", "wildcards">>

DesugarPass(pass, a) ==
    CASE pass = "condition" -> PassCondition(a)
      [] pass \in {"wildcard", "wildcards"} -> PassWildcard(a)
      [] pass = "tuple" -> PassTuple(a)
      [] pass = "list" -> PassList(a)
      [] pass = "do" -> PassDo(a)
      [] pass = "statement" -> PassStatement(a)
      [] pass = "let" -> PassLet(a)
      [] pass = "lambda" -> PassLambda(a)
      [] pass = "throw" -> PassThrow(a)
      [] pass = "try" -> PassTry(a)
      [] pass = "lazyop" -> PassLazyOp(a)
      [] pass = "monmin" -> PassMonmin(a)

=============================================================================
