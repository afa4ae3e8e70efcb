---------------------------- MODULE MCEgelCompile ----------------------------
(* Small programs for EgelCompile.                                          *)
EXTENDS EgelCompile

\* Programs in which System is open.
Programs ==
    {"def main = 1 + 2",
     "def main = f 2 def f = [0 -> 0 | N -> N + f (N - 1)]",
     "def main = let X = 1 in let X = X + 1 in (X, X)",
     "def main = [X -> [Y -> X - Y]] 5 3",
     "def main = [X Y -> [X -> (X, Y)] (X + 1)] 1 2",
     "def main = if 1 == 1 then 2 else 3",
     "def main = {1 + 1, 2}",
     "def main = [{X | Y} -> (Y, X)] {1, 2 | {}}",
     "def main = [(X, {Y}) -> Y] (1, {2})",
     "def main = try throw (1 + 1) catch [X -> X + 1]",
     "def main = throw (f 1) def f = [X -> {X}]",
     "def main = 1 + a data a",
     "def main = try 1 + nil catch [X -> X]",
     "def main = try (try throw 1 catch [X -> throw (X + 1)]) catch [X -> X]",
     "def main = f 1 2 3 def f = [X -> X]",
     "def main = f 1 def f = [X Y -> X]",
     "def main = f (g 1) (g 2) def g = [X -> throw X] def f = [_ _ -> 0]",
     "def main = [X:int -> 1 | _ -> 2] 1",
     "def main = [X:c -> 1 | X -> X] (f c) data b, c def f = [X -> b]",
     "def main = [(a X) -> X | X -> 0] (a 1) data a",
     "def main = [(a X) -> X | X -> 0] 1 data a",
     "def main = [(a X:int 0) -> X | (a X (a Y)) -> Y] (a 1 (a 2)) data a",
     "def main = f 1; 2 def f = [X -> X]",
     "def main = (\\X Y -> X + Y) 2 3",
     "val v = 1 + 1 def main = (v, v)",
     "def <+ = [X Y -> X - Y] def main = 3 <+ 2 <+ 1",
     "def main = (f 1) 2 def f = [X -> [Y -> (X, Y)]]",
     "def main = g [X -> X] def g = [F -> F (F 1)]",
     "def main = f [-> 1] def f = [F -> (F 0, 2)]",
     "def main = c 1 (f 2) data c def f = [X -> X]",
     "def main = f 1 2 def f = [0 X -> X | X 0 -> X | X Y -> (Y, X)]",
     "def main = ([0 -> 1] 2, f) def f = 'c'",
     "def main = [\"t\" -> 1 | 'c' -> 2 | 1.5 -> 3 | nil -> 4] 1.5",
     "def main = (do f) 1 def f = [X -> X + 1]",
     "def main = (+) 1 2",
     "def main = throw 1 2",
     "def main = f def f = g def g = 1",
     "def main = [X -> [0 -> 1 | Y -> (X, Y)]] 1 2"}

\* Programs that define what the prelude of the language does.
Preludes ==
    {"namespace System ( def |> = [X F -> F X] ) using System "
        \o "def main = (do f |> f) 1 def f = [X -> X + 1]",
     "namespace System ( def && = [true F -> F none | false F -> false] ) using System "
        \o "def main = (1 == 2) && f def f = [_ -> true]",
     "namespace System ( def !- = [X -> 0 - X] ) using System def main = - 2"}

\* Namespaces, renaming and names that do not resolve.
Namespaces ==
    {"namespace A ( def f = 1 ) namespace B ( using A def g = f ) def main = B::g",
     "namespace A ( data c def f = c ) using A (g = f) using D = A def main = g D::c",
     "namespace A::B ( def f = 1 ) namespace A ( def g = B::f ) def main = A::g",
     "namespace A ( def f = 1 ) namespace B ( def f = 2 ) using A using B def main = f",
     "namespace A ( def f = 1 ) using A (g) def main = g",
     "namespace A::C ( def x = 1 ) namespace ABBC ( def x = 2 ) namespace A ( def f = 1 ) def main = 1",
     "namespace A ( def f = 1 ) def f = 2 namespace A ( def g = f ) def main = A::g",
     "namespace A ( def f = 1 ) using A def f = 2 def main = f",
     "namespace A ( def f = 1 ) using A (g = f) def f = 2 def main = (f, g)",
     "namespace A ( def f = 1 ) using A data f, c namespace B ( def f = 3 ) def main = c",
     "namespace A ( def f = 1 namespace B ( def f = 2 def g = f ) def h = (f, B::g) ) def main = A::h",
     "namespace A ( def f = 1 namespace B ( def f = 2 ) ) def main = (A::f, A::B::f)",
     "def main = f", "def main = X", "def main = 1 def main = 2", "def main = [X X -> X]",
     "def main = let X = X in X", "def main = ", "def main = [X -> ", "def main = 1 'ab"}

MCTexts == {"using System " \o p : p \in Programs} \cup Preludes \cup Namespaces
\* Where only one operand should be evaluated.
MCLazyTexts ==
    {"namespace System ( def && = [true F -> F none | false F -> false] ) using System "
        \o "def main = (1 == 2) && (throw 3)",
     "namespace System ( def && = [true F -> F none | false F -> false] ) using System "
        \o "def main = (1 == 1) && (1 == 2)"}
MCMathChars == {"\f"}
MCGarbage == {""}
=============================================================================
