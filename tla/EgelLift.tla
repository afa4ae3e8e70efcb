------------------------------- MODULE EgelLift -------------------------------
(***************************************************************************)
(* Lifting (src/src/lift.hpp): blocks become combinators of their own, and *)
(* the redexes inside of the result of a match get variables, in the order *)
(* in which they are to be reduced.                                        *)
(***************************************************************************)
EXTENDS EgelTransform

RECURSIVE PassEta(_), PassDeapply(_), RewriteLift(_, _), PassRelambda(_), RewriteRedex(_, _, _)

PushFvFront(fv, m) == AstExprMatch(fv \o Patterns(m), Guard(m), Result(m))

\* Fault: only the first match takes them.
PassEtaFirst(a) ==
    LET block == Rewrite(PassEta, a)
        names == Listed(FreeVars(block))
        fv == [i \in DOMAIN names |-> AstExprVariable(names[i])]
        mm == [block.kids EXCEPT ![1] = PushFvFront(fv, @)]
    IN  IF Is(a, "block") THEN AstExprApplication(<<AstExprBlock(mm)>> \o fv) ELSE block

\* A block takes its free variables as arguments.  (The code has them in the
\* order of their names.)
PassEta(a) ==
    LET block == Rewrite(PassEta, a)
        names == Listed(FreeVars(block))
        fv == [i \in DOMAIN names |-> AstExprVariable(names[i])]
        mm == [i \in DOMAIN block.kids |-> PushFvFront(fv, block.kids[i])]
    IN  IF Is(a, "block") THEN AstExprApplication(<<AstExprBlock(mm)>> \o fv) ELSE block

\* An application of an application, or of nothing.
PassDeapply(a) ==
    CASE Is(a, "application") /\ Is(a.kids[1], "application") ->
            PassDeapply(AstExprApplication(a.kids[1].kids \o Tail(a.kids)))
      [] Is(a, "application") /\ ~Is(a.kids[1], "application") /\ Len(a.kids) = 1 ->
            PassDeapply(a.kids[1])
      [] OTHER -> Rewrite(PassDeapply, a)

\* The name of a block inside of the definition of a combinator.
CombinatorExpand(c, n) ==
    AstExprCombinator(Append(Path(c), "Local"), Last(c.names) \o ToString(n))

Declares(a) == a.tag \in {"definition", "value", "operator"}

LiftDeclaration(s, a) ==
    LET body == a.kids[3]
        start == [s EXCEPT !.scope = a.kids[1], !.tick = 0, !.lifted = <<>>]
        t == IF Is(body, "block") THEN RewriteTicking(RewriteLift, start, body)
             ELSE RewriteLift(start, body)
        d == [a EXCEPT !.kids[3] = Last(t.trees)]
    IN  Built(t, Height(s), IF t.lifted = <<>> THEN d ELSE AstWrapper(Append(t.lifted, d)))

LiftBlock(s, a) ==
    LET t == RewriteTicking(RewriteLift, s, a)
        c == CombinatorExpand(t.scope, t.tick)
        d == AstDeclDefinition(c, AstDocstring(""), Last(t.trees))
    IN  [Built(t, Height(s), c) EXCEPT !.tick = @ + 1, !.lifted = Append(@, d)]

RewriteLift(s, a) ==
    CASE Declares(a) -> LiftDeclaration(s, a)
      [] Is(a, "block") -> LiftBlock(s, a)
      [] OTHER -> RewriteTicking(RewriteLift, s, a)
PassLift(a) == RewriteLift(Ticking @@ [scope |-> AstEmpty, lifted |-> <<>>], a).trees[1]

\* What is no block becomes one without patterns.
PassRelambda(a) ==
    IF Declares(a)
    THEN IF Is(a.kids[3], "block") THEN a
         ELSE [a EXCEPT !.kids[3] = AstExprBlock(<<AstExprMatch(<<>>, AstEmpty, @)>>)]
    ELSE Rewrite(PassRelambda, a)

-----------------------------------------------------------------------------
(* Redexes; data are the combinators that are data by now.                 *)

IsCombinatorRedex(data, a) == Is(a, "combinator") /\ RenderPath(a.names) \notin data
IsHeadRedex(data, a) == Is(a, "variable") \/ IsCombinatorRedex(data, a)

\* The last tree is a redex: a new variable takes its place.
RedexesPush(t, s) ==
    LET v == AstExprVariable("R_" \o ToString(t.tick))
    IN  [Built(t, Height(s), v) EXCEPT !.tick = @ + 1, !.redexes = Append(@, <<v, Last(t.trees)>>)]

RedexApplication(data, s, a) ==
    LET inside == [s EXCEPT !.root = FALSE]
        RewriteArgument(t, e) == RewriteRedex(data, t, e)
        arguments == FoldLeft(RewriteArgument, Push(inside, a.kids[1]), Tail(a.kids))
    IN  CASE IsHeadRedex(data, a.kids[1]) /\ s.root -> Rebuilt(arguments, s, a)
          [] IsHeadRedex(data, a.kids[1]) /\ ~s.root -> RedexesPush(Rebuilt(arguments, s, a), s)
          [] OTHER -> Rebuilt(FoldLeft(RewriteArgument, inside, a.kids), s, a)

\* The redexes of a match, the first one outermost.
RedexMatch(data, s, a) ==
    LET start == [s EXCEPT !.root = TRUE, !.tick = 0, !.redexes = <<>>]
        t == RewriteRedex(data, start, Result(a))
        e == FoldRight(LAMBDA r, body : AstExprLet(<<r[1]>>, r[2], body), t.redexes, Last(t.trees))
    IN  Built(t, Height(s), AstExprMatch(Patterns(a), Guard(a), e))

RedexDeclaration(data, s, a) ==
    LET t == RewriteRedex(data, s, a.kids[3])
    IN  Built(t, Height(s), [a EXCEPT !.kids[3] = Last(t.trees)])

RewriteRedex(data, s, a) ==
    CASE Is(a, "combinator") ->
            IF ~s.root /\ IsCombinatorRedex(data, a) THEN RedexesPush(Push(s, a), s) ELSE Push(s, a)
      [] Is(a, "application") -> RedexApplication(data, s, a)
      [] Is(a, "match") -> RedexMatch(data, s, a)
      [] Declares(a) -> RedexDeclaration(data, s, a)
      [] Is(a, "data") -> Push(s, a)
      [] OTHER -> Rebuilt(FoldLeft(LAMBDA t, e : RewriteRedex(data, t, e), s, a.kids), s, a)
PassReredex(data, a) ==
    RewriteRedex(data, Ticking @@ [root |-> TRUE, redexes |-> <<>>], a).trees[1]

LiftPasses == <<"eta", "deapply", "lift", "relambda", "reredex">>

LiftPass(pass, data, a) ==
    CASE pass = "eta" -> PassEta(a)
      [] pass = "deapply" -> PassDeapply(a)
      [] pass = "lift" -> PassLift(a)
      [] pass = "relambda" -> PassRelambda(a)
      [] pass = "reredex" -> PassReredex(data, a)

=============================================================================
