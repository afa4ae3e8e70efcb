---------------------------- MODULE EgelTransform ----------------------------
(***************************************************************************)
(* Rewriting and visiting of trees (src/src/transform.hpp).  A pass that   *)
(* needs no state is an operator on trees; one that numbers what it makes  *)
(* takes a state with its tick to the one after the rewriting.             *)
(***************************************************************************)
EXTENDS EgelAst, TLC

\* What a pass has no method for is made again of its rewritten children.
Rewritten(a, kids) == [a EXCEPT !.kids = kids]
Rewrite(pass(_), a) == Rewritten(a, [i \in DOMAIN a.kids |-> pass(a.kids[i])])

Ticking == [trees |-> <<>>, ok |-> TRUE, tick |-> 0]
RewriteTicking(pass(_, _), s, a) == Rebuilt(FoldLeft(pass, s, a.kids), s, a)

\* The variables that occur in trees.
Variables(aa) == {b.names[1] : b \in {c \in UNION {Nodes(a) : a \in Range(aa)} : Is(c, "variable")}}

RECURSIVE VisitFreeVars(_, _)
\* FreeVars: one set for the whole visit; the patterns of a match remove
\* their variables from all that was found so far.
VisitFreeVars(found, a) ==
    CASE Is(a, "variable") -> found \cup {a.names[1]}
      [] a.tag \in {"match", "let"} ->
            VisitFreeVars(VisitFreeVars(found, Guard(a)), Result(a)) \ Variables(Patterns(a))
      [] OTHER -> FoldLeft(VisitFreeVars, found, a.kids)

FreeVars(a) == VisitFreeVars({}, a)

=============================================================================
