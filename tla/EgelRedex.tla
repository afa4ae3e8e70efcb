------------------------------ MODULE EgelRedex ------------------------------
(***************************************************************************)
(* From an expression to the body of a rule of EgelTrampoline: the last    *)
(* pass of lift (src/src/lift.hpp) names every redex inside an expression  *)
(* with a let, innermost and leftmost first, and emission (emit.hpp) turns *)
(* lets, applications and variables into arrays with holes.                *)
(*                                                                         *)
(* An expression is a combinator, a parameter, or an application, which is *)
(* a sequence of expressions that starts with one of these two.            *)
(***************************************************************************)
EXTENDS EgelTerms, Sequences, SequencesExt

IsAtom(e) == e \in Combinators \cup Params

\* is_head_redex, is_redex
IsRedex(e) == ~IsConstructor(IF IsAtom(e) THEN e ELSE e[1])

\* A node whose items are known; holes[i] is the node that fills item i.
AddNode(nodes, redex, items, holes) ==
    LET n == Len(nodes) + 1
        fill(m) == {i \in DOMAIN holes : holes[i] = m}
    IN  Append([m \in DOMAIN nodes |->
                   IF fill(m) = {} THEN nodes[m]
                   ELSE [nodes[m] EXCEPT !.to = <<n, CHOOSE i \in fill(m) : TRUE>>]],
               [redex |-> redex, items |-> items, to |-> <<0, 0>>])

\* A redex is not visible where it stands, but fills a hole there.
Standing(nodes, redex) ==
    [nodes |-> nodes,
     item |-> IF redex THEN Nil ELSE Len(nodes),
     hole |-> IF redex THEN Len(nodes) ELSE 0]

\* The nodes of e after those there are already, and what stands for e in the
\* node that has it as a part.
RECURSIVE Flatten(_, _)
Flatten(e, nodes) ==
    IF IsAtom(e)
    THEN IF e \in Params \/ ~IsRedex(e)
         THEN [nodes |-> nodes, item |-> e, hole |-> 0]
         ELSE Standing(AddNode(nodes, TRUE, <<e>>, <<0>>), TRUE)
    ELSE LET Part(acc, p) ==
                LET q == Flatten(p, acc.nodes)
                IN  [nodes |-> q.nodes, items |-> Append(acc.items, q.item),
                     holes |-> Append(acc.holes, q.hole)]
             parts == FoldLeft(Part, [nodes |-> nodes, items |-> <<e[1]>>, holes |-> <<0>>],
                               Tail(e))
         IN  Standing(AddNode(parts.nodes, IsRedex(e), parts.items, parts.holes), IsRedex(e))

\* The body of a rule: the root is a node, even if it is an atom.
Body(e) ==
    IF IsAtom(e) THEN <<[redex |-> IsRedex(e), items |-> <<e>>, to |-> <<0, 0>>]>>
    ELSE Flatten(e, <<>>).nodes

=============================================================================
