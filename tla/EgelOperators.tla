---------------------------- MODULE EgelOperators ----------------------------
(***************************************************************************)
(* The precedence of operators (src/src/operators.hpp): it is read off the *)
(* characters of an operator, by their place in a table.                   *)
(***************************************************************************)
EXTENDS Integers, Sequences, FiniteSetsExt

\* operators[], from the weakest to the strongest.
Operators ==
    <<"=", "!", "&", "|", "<", ">", "+", "-", "/", "*", "^", "#", "%", "~", "$", "@", ".">>

RightAssoc == {"<", ">", "#", "%", "@"}
Prefix == {"!", "+", "-", "~"}
Infix == {Operators[i] : i \in DOMAIN Operators} \ {"!"}

OPERATOR_BOTTOM == "="

\* operator_char_entry; the characters without an entry come before all others.
OperatorCharEntry(c) ==
    IF \E i \in DOMAIN Operators : Operators[i] = c
    THEN CHOOSE i \in DOMAIN Operators : Operators[i] = c
    ELSE IF c = "?" THEN -1 ELSE 0      \* ? before \, by their code points

OperatorChar(o, i) == SubSeq(o, i, i)

\* operator_compare(o0, o1) < 0: character by character, then by length.
OperatorLess(o0, o1) ==
    LET differ == {i \in 1..Min({Len(o0), Len(o1)}) :
                    OperatorCharEntry(OperatorChar(o0, i)) # OperatorCharEntry(OperatorChar(o1, i))}
        i == Min(differ)
    IN  IF differ = {} THEN Len(o0) < Len(o1)
        ELSE OperatorCharEntry(OperatorChar(o0, i)) < OperatorCharEntry(OperatorChar(o1, i))

\* The attributes of an operator are those of its first character.
OperatorIsInfix(o) == OperatorChar(o, 1) \in Infix
OperatorIsPrefix(o) == OperatorChar(o, 1) \in Prefix
OperatorIsRightAssociative(o) == OperatorChar(o, 1) \in RightAssoc

=============================================================================
