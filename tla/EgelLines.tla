------------------------------- MODULE EgelLines -------------------------------
(***************************************************************************)
(* The evaluation of lines (src/src/eval.hpp) by any number of threads,    *)
(* with the symbol and data tables of the machine (src/src/machine.hpp)    *)
(* that they share.  The interactive loop is one evaluator; every task     *)
(* that calls System::eval is another.  Nothing of this is locked, but for *)
(* the increment of a counter.                                             *)
(*                                                                         *)
(* A name is a namespace and a local part.  What a line is made of is what *)
(* matters to names: the name it defines, as it is written, and the name   *)
(* its body mentions, if any.                                              *)
(***************************************************************************)
EXTENDS Integers, Sequences

CONSTANTS
    Evaluators,
    Spaces,       \* namespaces
    Locals,       \* names in a namespace
    Top,          \* no namespace
    Dummy,        \* where the names of expressions are
    Lines,        \* the lines there may be
    MaxLines,     \* bound: how many lines are evaluated
    None

Numbers == 0..MaxLines
GlobalNames == (Spaces \cup {Top}) \X Locals
DummyNames == {Dummy} \X Nat
Names == GlobalNames \cup DummyNames
Tags == {"using", "import", "definition", "data", "value", "expression"}

\* A line; bound says that its variables are, otherwise it is erroneous.
ASSUME LinesAssumption ==
    /\ Top \notin Spaces /\ Dummy \notin Spaces \cup {Top}
    /\ MaxLines \in Nat
    /\ None \notin Names
    /\ Lines \subseteq [tag : Tags, name : GlobalNames, mentions : GlobalNames \cup {None},
                        bound : BOOLEAN]

VARIABLES
    env,        \* the declared names
    usings,     \* the namespaces in use
    symbols,    \* SymbolTable: the names by their numbers
    numbers,    \* SymbolTable: the numbers by their names
    objects,    \* DataTable: the combinators by their indices
    indices,    \* DataTable: the indices by their symbols
    counter,
    pc,         \* where each evaluator is
    line,       \* its line
    fresh,      \* the number of its expression
    todo,       \* what it has yet to enter in the tables
    pushed,     \* the number of the symbol it enters
    index,      \* the index of the combinator it enters
    started,    \* how many lines were started
    own,        \* which of them is its line
    drawn,      \* history: the numbers of expressions, by who has had them
    overlapped, \* history: two lines were evaluated at the same time
    clash,      \* history: two evaluators have taken the size of a table
                \* before either has put something at its end
    grown,      \* history: a namespace in use got a name
    spoiled     \* history: names declared by lines that gave them no code

tables == <<symbols, numbers, objects, indices>>
entering == <<todo, pushed, index>>
history == <<drawn, overlapped, clash, grown, spoiled>>
vars == <<env, usings, tables, counter, pc, line, fresh, entering, started, own, history>>

\* A combinator: what it is, and the line it is from.  A stub is what stands
\* for a name that is mentioned or looked up and has no combinator yet.
Kinds == {"stub", "code", "data", "module", "value"}
Object(s, kind, k) == [symbol |-> s, kind |-> kind, line |-> k]

\* A name to enter, with a stub (DataTable::enter) or the combinator that is
\* defined for it (DataTable::define).
Entry(n, kind) == [name |-> n, kind |-> kind]

Init ==
    /\ env = {}
    /\ usings = <<>>
    /\ symbols = <<>>
    /\ numbers = [n \in {} |-> 0]
    /\ objects = <<>>
    /\ indices = [n \in {} |-> 0]
    /\ counter = 0
    /\ pc = [e \in Evaluators |-> "idle"]
    /\ line = [e \in Evaluators |-> None]
    /\ fresh = [e \in Evaluators |-> -1]
    /\ todo = [e \in Evaluators |-> <<>>]
    /\ pushed = [e \in Evaluators |-> 0]
    /\ index = [e \in Evaluators |-> 0]
    /\ started = 0
    /\ own = [e \in Evaluators |-> 0]
    /\ drawn = {}
    /\ overlapped = FALSE
    /\ clash = FALSE
    /\ grown = FALSE
    /\ spoiled = {}

-----------------------------------------------------------------------------
(* Names.                                                                  *)

\* The usings before every line can be identified: none makes a name stand
\* for a second thing.
UsingsResolve(ee, uu) ==
    \A i, j \in DOMAIN uu : \A l \in Locals :
        i # j => <<uu[i], l>> \notin ee \/ <<uu[j], l>> \notin ee

\* What a name stands for: usings come before the global scope.
Standing(ee, uu, n) ==
    {<<uu[i], n[2]>> : i \in {i \in DOMAIN uu : n[1] = Top /\ <<uu[i], n[2]>> \in ee}}
Resolve(ee, uu, n) ==
    IF Standing(ee, uu, n) # {} THEN CHOOSE m \in Standing(ee, uu, n) : TRUE
    ELSE IF n \in ee THEN n ELSE None

\* The name a line defines, as it is written.
Written(e) == IF line[e].tag = "expression" THEN <<Dummy, fresh[e]>> ELSE line[e].name
Target(e) == Resolve(env, usings, Written(e))
Identifies(e) ==
    /\ UsingsResolve(env, usings)
    /\ line[e].bound
    /\ line[e].mentions # None => Resolve(env, usings, line[e].mentions) # None

Declared(new) ==
    /\ env' = env \cup new
    /\ grown' = (grown \/ \E n \in new \ env : \E i \in DOMAIN usings : usings[i] = n[1])

At(e, here) == pc[e] = here
Goto(e, there) == pc' = [pc EXCEPT ![e] = there]

-----------------------------------------------------------------------------
(* Lines.                                                                  *)

First(tag) ==
    CASE tag = "using" -> "using"
      [] tag = "import" -> "import"
      [] tag = "expression" -> "fresh"
      [] OTHER -> "declare"

\* eval_line
Start(e, l) ==
    /\ At(e, "idle")
    /\ started < MaxLines
    /\ started' = started + 1
    /\ own' = [own EXCEPT ![e] = started + 1]
    /\ line' = [line EXCEPT ![e] = l]
    /\ Goto(e, First(l.tag))
    /\ overlapped' = (overlapped \/ \E f \in Evaluators \ {e} : ~At(f, "idle"))
    /\ UNCHANGED <<env, usings, tables, counter, fresh, entering, drawn, clash, grown, spoiled>>

\* handle_using: the new one is kept first, and dropped if it is wrong.
PushUsing(e) ==
    /\ At(e, "using")
    /\ usings' = Append(usings, line[e].name[1])
    /\ Goto(e, "check")
    /\ UNCHANGED <<env, tables, counter, line, fresh, entering, started, own, history>>

\* Fault: a using that is wrong is kept.
CheckUsingKeeps(e) ==
    /\ At(e, "check")
    /\ Goto(e, "idle")
    /\ UNCHANGED <<env, usings, tables, counter, line, fresh, entering, started, own, history>>

CheckUsing(e) ==
    /\ At(e, "check")
    /\ usings' = IF UsingsResolve(env, usings) THEN usings
                 ELSE SubSeq(usings, 1, Len(usings) - 1)
    /\ Goto(e, "idle")
    /\ UNCHANGED <<env, tables, counter, line, fresh, entering, started, own, history>>

\* handle_import: a module with one name; errors are reported only.
Import(e) ==
    /\ At(e, "import")
    /\ IF line[e].name \in env
       THEN Goto(e, "idle") /\ UNCHANGED <<env, grown, todo>>
       ELSE /\ Declared({line[e].name})
            /\ todo' = [todo EXCEPT ![e] = <<Entry(line[e].name, "module")>>]
            /\ Goto(e, "symbol")
    /\ UNCHANGED <<usings, tables, counter, line, fresh, pushed, index, started, own, drawn,
                   overlapped, clash, spoiled>>

\* generate_fresh_combinator: only the increment is locked.
ReadCounter(e) ==
    /\ At(e, "fresh")
    /\ fresh' = [fresh EXCEPT ![e] = counter]
    /\ drawn' = drawn \cup {<<counter, e>>}
    /\ Goto(e, "increment")
    /\ UNCHANGED <<env, usings, tables, counter, line, entering, started, own, overlapped,
                   clash, grown, spoiled>>

\* Fault: what the lock protects is a copy of the counter.
IncrementCopy(e) ==
    /\ At(e, "increment")
    /\ Goto(e, "declare")
    /\ UNCHANGED <<env, usings, tables, counter, line, fresh, entering, started, own, history>>

Increment(e) ==
    /\ At(e, "increment")
    /\ counter' = counter + 1
    /\ Goto(e, "declare")
    /\ UNCHANGED <<env, usings, tables, line, fresh, entering, started, own, history>>

\* handle_definition, handle_data: the name is declared before anything else
\* is known about the line.  A val is a definition first.
Redeclare(e) ==
    /\ At(e, "declare")
    /\ Declared({Written(e)})
    /\ Goto(e, "identify")
    /\ UNCHANGED <<usings, tables, counter, line, fresh, entering, started, own, drawn,
                   overlapped, clash, spoiled>>

\* The combinator that a name has by now.
HasCode(n) ==
    /\ n \in DOMAIN numbers /\ numbers[n] \in DOMAIN indices
    /\ objects[indices[numbers[n]]].kind # "stub"

\* What a line leaves without code.
Bare(n) == IF HasCode(n) THEN {} ELSE {n}

\* What a line enters: the name in its body before the combinator itself,
\* and last what handle_expression and handle_value look up to reduce it,
\* the name as it is written.
Mentioned(e) ==
    IF line[e].mentions = None THEN <<>>
    ELSE <<Entry(Resolve(env, usings, line[e].mentions), "stub")>>
Defined(e) == <<Entry(Target(e), IF line[e].tag = "data" THEN "data" ELSE "code")>>
LookedUp(e) ==
    IF line[e].tag \in {"expression", "value"} THEN <<Entry(Written(e), "stub")>> ELSE <<>>

\* identify; an error ends the line.
Identify(e) ==
    /\ At(e, "identify")
    /\ IF Identifies(e)
       THEN /\ todo' = [todo EXCEPT ![e] = Mentioned(e) \o Defined(e) \o LookedUp(e)]
            /\ Goto(e, "symbol")
            /\ spoiled' = (spoiled \cup Bare(Written(e))) \ {Target(e)}
       ELSE /\ Goto(e, "idle")
            /\ spoiled' = spoiled \cup Bare(Written(e))
            /\ UNCHANGED todo
    /\ UNCHANGED <<env, usings, tables, counter, line, fresh, pushed, index, started, own, drawn,
                   overlapped, clash, grown>>

-----------------------------------------------------------------------------
(* The tables.  What a table has for a name stays, so that to find a name  *)
(* and to read what is there for it is one step; to find none, to take the *)
(* size of the vector, to put something at its end and to store where that *)
(* is in the map are four.                                                 *)

Mapped(f, x, v) == [y \in DOMAIN f \cup {x} |-> IF y = x THEN v ELSE f[y]]

\* Another evaluator has taken the size of the same table and not used it yet.
Clashes(e, here) == clash' = (clash \/ \E f \in Evaluators \ {e} : At(f, here))

\* Fault: a name gets a number whether it has one or not.
CountSymbolNever(e) ==
    /\ At(e, "symbol")
    /\ Goto(e, "size")
    /\ UNCHANGED <<env, usings, tables, counter, line, fresh, entering, started, own, history>>

\* SymbolTable::enter
CountSymbol(e) ==
    /\ At(e, "symbol")
    /\ LET n == Head(todo[e]).name IN
        IF n \in DOMAIN numbers
        THEN Goto(e, "object") /\ pushed' = [pushed EXCEPT ![e] = numbers[n]]
        ELSE Goto(e, "size") /\ UNCHANGED pushed
    /\ UNCHANGED <<env, usings, tables, counter, line, fresh, todo, index, started, own, history>>

SizeSymbols(e) ==
    /\ At(e, "size")
    /\ pushed' = [pushed EXCEPT ![e] = Len(symbols) + 1]
    /\ Clashes(e, "push")
    /\ Goto(e, "push")
    /\ UNCHANGED <<env, usings, tables, counter, line, fresh, todo, index, started, own, drawn,
                   overlapped, grown, spoiled>>

PushSymbol(e) ==
    /\ At(e, "push")
    /\ symbols' = Append(symbols, Head(todo[e]).name)
    /\ Goto(e, "map")
    /\ UNCHANGED <<env, usings, numbers, objects, indices, counter, line, fresh, entering, started,
                   own, history>>

\* Fault: the number is counted when it is stored with the name.
MapSymbolCounts(e) ==
    /\ At(e, "map")
    /\ numbers' = Mapped(numbers, Head(todo[e]).name, Len(symbols))
    /\ Goto(e, "object")
    /\ UNCHANGED <<env, usings, symbols, objects, indices, counter, line, fresh, entering, started,
                   own, history>>

MapSymbol(e) ==
    /\ At(e, "map")
    /\ numbers' = Mapped(numbers, Head(todo[e]).name, pushed[e])
    /\ Goto(e, "object")
    /\ UNCHANGED <<env, usings, symbols, objects, indices, counter, line, fresh, entering, started,
                   own, history>>

\* The combinator that an evaluator enters.
Entered(e) ==
    LET kind == Head(todo[e]).kind
    IN  Object(pushed[e], kind, IF kind = "stub" THEN 0 ELSE own[e])

\* What is next: what was looked up last is reduced.
Leave(e) ==
    /\ todo' = [todo EXCEPT ![e] = Tail(@)]
    /\ Goto(e, IF Len(todo[e]) > 1 THEN "symbol"
               ELSE IF Head(todo[e]).kind = "stub" THEN "reduce" ELSE "idle")

\* DataTable::enter keeps what there is for a symbol, DataTable::define
\* replaces it; if there is nothing define calls enter, which counts again.
CountObject(e) ==
    /\ At(e, "object")
    /\ IF pushed[e] \in DOMAIN indices
       THEN /\ index' = [index EXCEPT ![e] = indices[pushed[e]]]
            /\ IF Head(todo[e]).kind = "stub" THEN Leave(e) ELSE Goto(e, "store") /\ UNCHANGED todo
       ELSE /\ Goto(e, IF Head(todo[e]).kind = "stub" THEN "sizeobject" ELSE "again")
            /\ UNCHANGED <<todo, index>>
    /\ UNCHANGED <<env, usings, tables, counter, line, fresh, pushed, started, own, history>>

CountAgain(e) ==
    /\ At(e, "again")
    /\ IF pushed[e] \in DOMAIN indices
       THEN index' = [index EXCEPT ![e] = indices[pushed[e]]] /\ Leave(e)
       ELSE Goto(e, "sizeobject") /\ UNCHANGED <<todo, index>>
    /\ UNCHANGED <<env, usings, tables, counter, line, fresh, pushed, started, own, history>>

SizeObjects(e) ==
    /\ At(e, "sizeobject")
    /\ index' = [index EXCEPT ![e] = Len(objects) + 1]
    /\ Clashes(e, "pushobject")
    /\ Goto(e, "pushobject")
    /\ UNCHANGED <<env, usings, tables, counter, line, fresh, todo, pushed, started, own, drawn,
                   overlapped, grown, spoiled>>

PushObject(e) ==
    /\ At(e, "pushobject")
    /\ objects' = Append(objects, Entered(e))
    /\ Goto(e, "mapobject")
    /\ UNCHANGED <<env, usings, symbols, numbers, indices, counter, line, fresh, entering, started,
                   own, history>>

\* Fault: the index is counted when it is stored with the symbol.
MapObjectCounts(e) ==
    /\ At(e, "mapobject")
    /\ indices' = Mapped(indices, pushed[e], Len(objects))
    /\ Leave(e)
    /\ UNCHANGED <<env, usings, symbols, numbers, objects, counter, line, fresh, pushed, index,
                   started, own, history>>

MapObject(e) ==
    /\ At(e, "mapobject")
    /\ indices' = Mapped(indices, pushed[e], index[e])
    /\ Leave(e)
    /\ UNCHANGED <<env, usings, symbols, numbers, objects, counter, line, fresh, pushed, index,
                   started, own, history>>

\* Fault: what is there is kept.
StoreObjectKeeps(e) ==
    /\ At(e, "store")
    /\ Leave(e)
    /\ UNCHANGED <<env, usings, tables, counter, line, fresh, pushed, index, started, own, history>>

\* Fault: what is defined again is put at the end.
StoreObjectMoves(e) ==
    /\ At(e, "store")
    /\ objects' = Append(SubSeq(objects, 1, index[e] - 1)
                            \o SubSeq(objects, index[e] + 1, Len(objects)), Entered(e))
    /\ indices' = Mapped(indices, pushed[e], Len(objects))
    /\ Leave(e)
    /\ UNCHANGED <<env, usings, symbols, numbers, counter, line, fresh, pushed, index, started,
                   own, history>>

StoreObject(e) ==
    /\ At(e, "store")
    /\ objects' = [objects EXCEPT ![index[e]] = Entered(e)]
    /\ Leave(e)
    /\ UNCHANGED <<env, usings, symbols, numbers, indices, counter, line, fresh, pushed, index,
                   started, own, history>>

\* handle_expression reduces what it has looked up, unless that is a stub;
\* handle_value defines the symbol of it as the result.
Reduce(e) ==
    /\ At(e, "reduce")
    /\ IF line[e].tag = "value" /\ objects[index[e]].kind # "stub"
       THEN /\ todo' = [todo EXCEPT ![e] = <<Entry(Written(e), "value")>>]
            /\ pushed' = [pushed EXCEPT ![e] = objects[index[e]].symbol]
            /\ Goto(e, "object")
       ELSE Goto(e, "idle") /\ UNCHANGED <<todo, pushed>>
    /\ UNCHANGED <<env, usings, tables, counter, line, fresh, index, started, own, history>>

Step(e) ==
    \/ \E l \in Lines : Start(e, l)
    \/ PushUsing(e) \/ CheckUsing(e) \/ Import(e)
    \/ ReadCounter(e) \/ Increment(e) \/ Redeclare(e) \/ Identify(e)
    \/ CountSymbol(e) \/ SizeSymbols(e) \/ PushSymbol(e) \/ MapSymbol(e)
    \/ CountObject(e) \/ CountAgain(e) \/ SizeObjects(e) \/ PushObject(e) \/ MapObject(e)
    \/ StoreObject(e) \/ Reduce(e)

Next == \E e \in Evaluators : Step(e)

Spec == Init /\ [][Next]_vars

-----------------------------------------------------------------------------
(* Properties.                                                             *)

\* The type of the state.
TypeOK ==
    /\ env \subseteq Names
    /\ usings \in Seq(Spaces \cup {Top})
    /\ symbols \in Seq(Names)
    /\ DOMAIN numbers \subseteq Names
    /\ \A n \in DOMAIN numbers : numbers[n] \in DOMAIN symbols
    /\ objects \in Seq([symbol : Nat, kind : Kinds, line : Numbers])
    /\ \A i \in DOMAIN objects : objects[i].symbol \in DOMAIN symbols
    /\ DOMAIN indices \subseteq DOMAIN symbols
    /\ \A s \in DOMAIN indices : indices[s] \in DOMAIN objects
    /\ counter \in Nat
    /\ pc \in [Evaluators -> {"idle", "using", "check", "import", "fresh", "increment", "declare",
                              "identify", "symbol", "size", "push", "map", "object", "again",
                              "sizeobject", "pushobject", "mapobject", "store", "reduce"}]
    /\ line \in [Evaluators -> Lines \cup {None}]
    /\ fresh \in [Evaluators -> Nat \cup {-1}]
    /\ todo \in [Evaluators -> Seq([name : Names, kind : Kinds])]
    /\ pushed \in [Evaluators -> Nat]
    /\ index \in [Evaluators -> Nat]
    /\ started \in Numbers
    /\ own \in [Evaluators -> Numbers]
    /\ drawn \subseteq Nat \X Evaluators
    /\ overlapped \in BOOLEAN
    /\ clash \in BOOLEAN
    /\ grown \in BOOLEAN
    /\ spoiled \subseteq Names

Idle == \A e \in Evaluators : At(e, "idle")

\* As long as lines are evaluated one after another, a name has one number:
\* two combinators of one name that differ in it are not the same in a
\* pattern (machine.hpp:57).
OneNumber ==
    ~overlapped => \A i, j \in DOMAIN symbols : symbols[i] = symbols[j] => i = j

\* A name leads to an object that has this name for its symbol, or to none;
\* what runtime.hpp:460 relies on the containers for.
TablesConsistent ==
    /\ \A n \in DOMAIN numbers : symbols[numbers[n]] = n
    /\ \A s \in DOMAIN indices : objects[indices[s]].symbol = s

\* However lines are interleaved, a name leads to its object as long as no
\* two evaluators have taken the size of a table at the same time
\* (machine.hpp:59, 115).
TablesAgree == ~clash => TablesConsistent

\* The index of an object is in the code that mentions it: whatever is
\* defined again is so at its index (machine.hpp:132), however lines are
\* interleaved but for two that have taken the size of a table together.
IndexKept ==
    [][~clash' => \A i \in DOMAIN objects :
        i \in DOMAIN objects' /\ objects'[i].symbol = objects[i].symbol]_vars

\* A using that is wrong is in the way of no later line (eval.hpp:230), as
\* long as the namespaces in use stay as they were.
UsingsHold == ~overlapped /\ ~grown /\ Idle => UsingsResolve(env, usings)

\* A number that was drawn and counted is never drawn again (eval.hpp:312).
FreshLater ==
    [][\A e, f \in Evaluators :
        At(e, "fresh") /\ pc'[e] = "increment" /\ ~At(f, "increment") =>
            fresh'[e] # fresh[f]]_vars

\* No other evaluator has had the number of e's expression.
Alone(e) == \A f \in Evaluators \ {e} : <<fresh[e], f>> \notin drawn

\* An evaluator reduces the expression of its own line, whatever the others
\* define, if no other one has had the same number (eval.hpp:312) and no two
\* have taken the size of a table together (machine.hpp:59, 115).
ReducesOwn ==
    \A e \in Evaluators :
        ~clash /\ At(e, "reduce") /\ line[e].tag = "expression" /\ Alone(e) =>
            /\ objects[index[e]].kind = "code"
            /\ objects[index[e]].line = own[e]

\* A declared name has code, unless the line that declared it failed or has
\* defined the name of a namespace in use instead (eval.hpp:252): what is
\* mentioned before it is defined gets its code when it is.
NamesHaveCode ==
    ~overlapped /\ Idle => \A n \in env : HasCode(n) \/ n \in spoiled

=============================================================================
