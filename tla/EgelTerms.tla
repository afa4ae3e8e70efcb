------------------------------ MODULE EgelTerms ------------------------------
(***************************************************************************)
(* The combinators a model of the machine computes with, by the classes of *)
(* runtime.hpp they are objects of.                                        *)
(***************************************************************************)
EXTENDS Naturals

CONSTANTS
    Builtins,   \* the combinators that are not written in Egel
    Users,      \* the combinators that are
    Def,        \* Def[c]: what the builtin combinator c does
    Params,     \* the variables of rules
    None,       \* the combinator System::none
    Nil         \* no object (nullptr)

Combinators == Builtins \cup Users

\* What a C++ apply does: give a value, give none (nullptr), or throw.
Outcomes == {"gives", "stuck", "raises"}

\* The classes for combinators written in C++, and the number of arguments
\* their apply takes.
Arity ==
    [medadic |-> 0, monadic |-> 1, dyadic |-> 2, triadic |-> 3,
     unary |-> 1, binary |-> 2, ternary |-> 3, variadic |-> 0]

Kinds ==
    [kind : {"data", "throw", "handle", "stall", "napp", "result"}]
    \cup [kind : DOMAIN Arity, does : Outcomes]

IsConstructor(c) == c \in Builtins /\ Def[c].kind = "data"

ASSUME TermsAssumption ==
    /\ Def \in [Builtins -> Kinds]
    /\ None \in Builtins
    /\ Builtins \cap Users = {}
    /\ Params \cap Combinators = {}
    /\ Nil \notin Combinators \cup Params

=============================================================================
