----------------------------- MODULE MCEgelModules -----------------------------
(* Small instances of EgelModules: three files, each with a name of its     *)
(* own, which is a val, and code that uses the names of its imports.        *)
EXTENDS EgelModules

CONSTANTS a, b, c, x, y, z

Own == (a :> x) @@ (b :> y) @@ (c :> z)

File(p, good, imports) ==
    [good |-> good, dynamic |-> FALSE, imports |-> imports, defs |-> {Own[p]},
     uses |-> {Own[q] : q \in {p} \cup Range(imports)}, vals |-> <<Own[p]>>]

Compiled(p) ==
    [good |-> TRUE, dynamic |-> TRUE, imports |-> <<>>, defs |-> {Own[p]},
     uses |-> {Own[p]}, vals |-> <<>>]

\* Up to two imports, of other files or of the file itself.
ImportLists == {s \in UNION {[1..k -> {a, b, c}] : k \in 0..2} : IsInjective(s)}

\* The disks whose files have contents in v.
DisksOf(v) ==
    {(a :> d[1]) @@ (b :> d[2]) @@ (c :> d[3]) : d \in v[a] \X v[b] \X v[c]}

\* Every import graph over the three files, or files that are missing.
GraphDisks ==
    DisksOf([p \in {a, b, c} |-> {File(p, TRUE, s) : s \in ImportLists} \cup {Absent}])

\* Two files that are wrong in every way a file can be, and a third that may
\* use a name it does not import, or declare one it should not.
FaultyDisks ==
    DisksOf(
      (a :> {File(a, TRUE, <<b>>), [File(a, TRUE, <<b, c>>) EXCEPT !.uses = {x}],
             File(a, FALSE, <<>>)})
      @@ (b :> {File(b, TRUE, <<>>), File(b, TRUE, <<a>>), Compiled(b), Absent})
      @@ (c :> {File(c, TRUE, <<>>), [File(c, TRUE, <<>>) EXCEPT !.uses = {z, y}],
                [File(c, TRUE, <<b>>) EXCEPT !.defs = {z, x}]}))

AllDisks == GraphDisks \cup FaultyDisks

=============================================================================
