----------------------------- MODULE MCEgelFront -----------------------------
(* Small instances of EgelFront.                                            *)
EXTENDS EgelFront

\* All texts of two characters, and of three out of a few.
Alphabet == Chars("-1.xe0:;'\"\\aB_ (+j") \cup {"\n", "\f", "~"}
Few == Chars("-1.x0:'\"\\ j")
ShortTexts ==
    {""} \cup Alphabet \cup {a \o b : a, b \in Alphabet} \cup {a \o b \o c : a, b, c \in Few}

\* Numbers, characters and texts that need more.
Literal ==
    {"0x1f", "-1.5e-3", "1.5e-", "2.0i", "1.0+2.0j", "1.0 - 2.0i", "1.0 -2.0i", "1.0-2.0i", "1.e5j",
     "1.5 2", "'a'", "'\\n'", "'\\q'", "\"a\\\"b\\\\\"", "\"a\\qb\"", "a#b\nc", "# only", "f 'x' \"y\"",
     "f \"\"\"\na\tb\"c\"\"\" ", "\"\"\"\nab", "\"\"\"\nab\"\"\"", "a_B1 2", "f (1,2)", "x - 1", "x -1", "x-", "\"\""}

ChainOperators == {"+", "-", "*", "<", ">", "==", "<=", "&&", "||", "|>", "^", "#", "%", "$", "@", "."}
Chains ==
    {"a " \o p \o " b " \o q \o " c " \o r \o " d" :
        p, q, r \in {"+", "-", "<", "<=", "==", "||", "|>", "*"}}
    \cup {"a " \o p \o " b " \o q \o " c" : p, q \in ChainOperators}

Expressions ==
    {"f x Y", "(f x) Y", "f (g X) (h X Y)", "- a b", "- - a", "! a", "A::b C::D::e", "(+) 1 2",
     "A::(+) 1", "A::+ b", "a A::+ b", "(A::+)", "{}", "{1,2}", "{1,2|X}", "(1,2)", "()", "f {} (X,{Y})",
     "[X -> X]", "[0 -> 1 | X Y -> X | -> 0]", "[(cons X XX) {Y|YY} (A,B) _ -> X]", "[X:int _:a::b -> X]",
     "[X:A::int -> 1]", "[{} {X,Y} -> 1]", "[(f:int) -> 2]", "[1 2.0 'c' \"t\" -> 1]", "[(+) -> 1]",
     "[X f]", "\\X -> f X", "\\X -> X | Y -> Y", "f (\\X -> X) a", "if a then b else c",
     "let X = 1 in f X", "let X Y = f in X", "let (a X) = b in let Y = X in Y", "let = 1 in 2",
     "try f catch g", "throw a b", "a; b; c", "(a; b) c", "do f", "(do f |> g) a", "f (do g) [X -> X] {a}",
     "let F = async [ _ -> fib 35 ] in await F", "f [X ->]", "f ]", "(f", "(f, g", "[X -> 1", "{1,2", "{1|2,3}",
     "let X = 1", "if a then b", "try f", "f,", "1 + ", "+ + 1 2", "X::Y", "a ? b", "f = g", "_ a",
     "using A", "using A::B, C", "using A = B", "using A (b, c = d, +)", "using a", "import \"x\"", "import x",
     "def f = 1", "def + = f", "def A::f = [X -> X]", "def 1 = 2", "val x = 1", "val + = 1",
     "data a, b", "data a b", "def f = @\"doc\" 1", "1;; 2", "1;;", "def f = 1;; f", "namespace A ()"}

Modules ==
    {"@\"doc\" import \"p.eg\" using System def main = f X",
     "namespace A::B ( data @\"d\" leaf, branch  def f = [X -> X]  namespace C ( val v = f ) )",
     "namespace A ( def f = 1", "namespace a ()", "def a = 1 def + = [X Y -> X] val b = @\"d\" a",
     "using A (b = c) data d  f", "namespace A ( import \"y\" using B )  import \"z\"", "# nothing\n"}

\* A form feed stands for the mathematical symbols; memory with nothing, a digit or a quote.
MCMathChars == {"\f"}
MCGarbage == {"", "0", "\""}

MCLines == ShortTexts \cup Literal \cup Chains \cup Expressions
MCTexts == MCLines \cup Modules
=============================================================================
