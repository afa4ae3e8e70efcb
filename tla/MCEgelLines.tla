----------------------------- MODULE MCEgelLines -----------------------------
(* A small instance of EgelLines: one name, in two namespaces or in none.   *)
EXTENDS EgelLines, TLC

CONSTANTS A, B, f

Line(tag, n, m) == [tag |-> tag, name |-> n, mentions |-> m, bound |-> TRUE]
Global == <<Top, f>>
Plain(tag, n) == Line(tag, n, None)

MCLines ==
    {Plain("using", <<A, f>>), Plain("using", <<B, f>>), Plain("import", <<B, f>>),
     Plain("definition", <<A, f>>), Line("definition", Global, Global), Plain("data", Global),
     Line("value", Global, <<A, f>>), Line("expression", Global, Global)}
    \cup {[Plain("definition", Global) EXCEPT !.bound = FALSE]}

\* The evaluators are all alike, and nothing but safety is asked of them.
Alike == Permutations(Evaluators)
=============================================================================
