------------------------------ MODULE EgelFront ------------------------------
(***************************************************************************)
(* The front of the interpreter: a text is lexed and parsed (the options   *)
(* --tokens and --unparse of src/src/egel.cpp), the tree is rendered, and  *)
(* what was rendered is lexed and parsed once more.                        *)
(***************************************************************************)
EXTENDS EgelLexer, EgelParser

CONSTANT
    Lines       \* the texts that are lines of the interactive mode

VARIABLES
    stage,      \* "read", "parsed", "rejected", "reread", "reparsed" or "unreadable"
    source,     \* the text that was given
    wide,       \* whether the rendering was broken over lines
    tree,       \* the tree of the text
    again       \* the tree of the rendering

frontVars == <<lexVars, stage, source, wide, tree, again>>

\* parse and parse_line
Parsed(tt) == IF source \in Lines THEN ParseLine(tt) ELSE ParseModule(tt)

Init ==
    /\ LexInit
    /\ stage = "read"
    /\ source = text
    /\ wide = FALSE
    /\ tree = AstEmpty
    /\ again = AstEmpty

Lex ==
    /\ LexNext
    /\ UNCHANGED <<stage, source, wide, tree, again>>

ReadTree ==
    /\ stage = "read" /\ lexing = "done"
    /\ \E s \in {Parsed(Sanitize(tokens))} :
        IF s.ok THEN stage' = "parsed" /\ tree' = s.trees[1]
        ELSE stage' = "rejected" /\ UNCHANGED tree
    /\ UNCHANGED <<lexVars, source, wide, again>>

\* The lines of a rendering are broken if they are long: either may be.
Unparse ==
    /\ stage = "parsed"
    /\ stage' = "reread"
    /\ wide' \in BOOLEAN
    /\ text' = Render(wide', tree)
    /\ at' = 1
    /\ tokens' = <<>>
    /\ lexing' = "reading"
    /\ UNCHANGED <<source, tree, again>>

RereadTree ==
    /\ stage = "reread" /\ lexing = "done"
    /\ \E s \in {Parsed(Sanitize(tokens))} :
        IF s.ok THEN stage' = "reparsed" /\ again' = s.trees[1]
        ELSE stage' = "unreadable" /\ UNCHANGED again
    /\ UNCHANGED <<lexVars, source, wide, tree>>

Ended == lexing = "failed" \/ stage \in {"rejected", "reparsed", "unreadable"}

\* The only states without another step.
Stay == Ended /\ UNCHANGED frontVars

Next == Lex \/ ReadTree \/ Unparse \/ RereadTree \/ Stay

Spec == Init /\ [][Next]_frontVars

-----------------------------------------------------------------------------
\* The chains of operands and infix operators, and their trees.

\* Of the operators from l to r the one that binds weakest, the first of
\* these if they associate to the right, else the last.
Weakest(ops, l, r) ==
    LET weak == {i \in l..r : \A j \in l..r : ~OperatorLess(ops[j], ops[i])}
    IN  IF OperatorIsRightAssociative(ops[Min(weak)]) THEN Min(weak) ELSE Max(weak)

\* The tree of operands l to r + 1 by the table alone.
RECURSIVE ByTable(_, _, _, _)
ByTable(operands, ops, l, r) ==
    LET w == Weakest(ops, l, r)
    IN  IF l > r THEN operands[l]
        ELSE AstExprApplication(<<AstExprCombinator(<<>>, ops[w]),
                                  ByTable(operands, ops, l, w - 1),
                                  ByTable(operands, ops, w + 1, r)>>)

\* The tokens of a chain, if that is what the text is.
ChainTokens == Front(Sanitize(tokens))
IsChain ==
    /\ Len(ChainTokens) % 2 = 1
    /\ \A i \in DOMAIN ChainTokens :
        IF i % 2 = 1 THEN ChainTokens[i].tag = "lowercase" /\ ChainTokens[i].text # "_"
        ELSE ChainTokens[i].tag = "operator" /\ OperatorIsInfix(ChainTokens[i].text)

\* An arithmetic expression is read as the table of operators.hpp says:
\* the loops of parse_arithmetic_expression_1, which take an operand and then
\* extend it, give the tree with the weakest operator at its root.
PrecedenceIsTable ==
    (stage = "parsed" /\ source \in Lines /\ IsChain) =>
        LET n == Len(ChainTokens) \div 2
            operands == [i \in 1..(n + 1) |-> AstExprCombinator(<<>>, ChainTokens[2 * i - 1].text)]
            ops == [i \in 1..n |-> ChainTokens[2 * i].text]
        IN  tree.kids[1] = ByTable(operands, ops, 1, n)

-----------------------------------------------------------------------------
\* Trees without the forms whose rendering cannot be read: if and operators,
\* those that end with an expression and get no parentheses, documentation
\* that is not rendered, and in broken lines several patterns of a let.
Operational(a) == Is(a, "combinator") /\ SubSeq(Last(a.names), 1, 1) \in OperatorChars
Documented(a) == \E i \in DOMAIN a.kids : Is(a.kids[i], "docstring") /\ a.kids[i].names[1] # ""
Legible(a) ==
    \A b \in Nodes(a) :
        /\ b.tag \notin {"if", "lambda", "try", "throw", "statement", "complex"}
        /\ ~Operational(b)
        /\ b.tag = "value" \/ (b.tag = "definition" /\ wide) => ~Documented(b)
        /\ b.tag = "let" /\ wide => Len(Patterns(b)) < 2
        /\ b # AstExprInteger("-")      \* see LongestMatch

\* What is rendered is a text of the language again, and of the same tree:
\* the rendering of ast.hpp puts its parentheses where the parser of
\* syntactical.hpp needs them, for every tree without the forms above.
\* The commands of a line are rendered without their separator.
UnparseReads ==
    (/\ stage \in {"reparsed", "unreadable"}
     /\ Legible(tree)
     /\ source \in Lines => Len(tree.kids) = 1)
    => stage = "reparsed" /\ again = tree

\* Whatever the module manager is to load or to evaluate it gets: the visitors
\* of syntactical.hpp:1070, 1108 find every import and every val of a module,
\* in whatever namespace it is.
ImportsFound ==
    (stage = "parsed" /\ source \notin Lines) =>
        LET Count(tag) == Len(SelectSeq(Sanitize(tokens), LAMBDA t : t.tag = tag))
        IN  Len(Imports(tree)) = Count("import") /\ Len(Values(tree)) = Count("val")

=============================================================================
