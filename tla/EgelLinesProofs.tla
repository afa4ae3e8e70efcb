---------------------------- MODULE EgelLinesProofs ----------------------------
(***************************************************************************)
(* Proofs about EgelLines, for every number of evaluators and of lines.    *)
(***************************************************************************)
EXTENDS EgelLines, SequenceTheorems, TLAPS

\* Where an evaluator has names to enter; where it has put the number it is
\* to use in its table, and the index.
Entering == {"symbol", "size", "push", "map", "object", "again", "sizeobject", "pushobject",
             "mapobject", "store"}
Having == {"map", "object", "again", "sizeobject", "pushobject", "mapobject", "store"}
Holding == {"mapobject", "store", "reduce"}

Entries == [name : Names, kind : Kinds]
Last(e) == todo[e][Len(todo[e])]
DummyName(e) == <<Dummy, fresh[e]>>
Expression(e) == line[e].tag = "expression"

\* What an evaluator knows of its line where it is.
Lined(e) ==
    /\ ~At(e, "idle") => line[e] \in Lines
    /\ pc[e] \in {"fresh", "increment"} => Expression(e)
    /\ pc[e] \in {"using", "check", "import"} => ~Expression(e)
    /\ pc[e] \notin {"idle", "fresh"} /\ Expression(e) => fresh[e] \in Nat
    /\ At(e, "identify") => Written(e) \in env

\* ... and of the tables, whatever the others do.
Placed(e) ==
    /\ pc[e] \in Entering <=> todo[e] # <<>>
    /\ At(e, "push") => pushed[e] \in 1..Len(symbols) + 1
    /\ pc[e] \in Having \cup {"reduce"} => pushed[e] \in DOMAIN symbols
    /\ At(e, "pushobject") => index[e] \in 1..Len(objects) + 1
    /\ pc[e] \in Holding => index[e] \in DOMAIN objects
    /\ pc[e] \in Having \ {"map"} => Head(todo[e]).name \in DOMAIN numbers
    /\ pc[e] \in {"again", "store"} => Head(todo[e]).kind # "stub"
    /\ pc[e] \in Entering /\ Last(e).kind = "stub" => Last(e).name = Written(e)
    /\ At(e, "reduce") => Written(e) \in DOMAIN numbers

Ready == \A e \in Evaluators : Lined(e) /\ Placed(e)
TypeInv == TypeOK /\ Ready

-----------------------------------------------------------------------------
\* A name that resolves is a name, and that of an expression is its own.
LEMMA Resolved ==
    ASSUME TypeOK, NEW n \in Names
    PROVE  /\ Resolve(env, usings, n) \in Names \cup {None}
           /\ n \in GlobalNames => Resolve(env, usings, n) \in GlobalNames \cup {None}
           /\ n \in DummyNames => Resolve(env, usings, n) \in {n, None}
           /\ n \in env => Resolve(env, usings, n) # None
  <1> DEFINE S == Standing(env, usings, n)
  <1>1. \A i \in DOMAIN usings : usings[i] \in Spaces \cup {Top}
    BY DEF TypeOK
  <1>2. n \in GlobalNames \/ n \in DummyNames
    BY DEF Names
  <1>3. n \in DummyNames => n[1] = Dummy
    BY DEF DummyNames
  <1>4. n \in GlobalNames => n[2] \in Locals
    BY DEF GlobalNames
  <1>5. n \in DummyNames => S = {}
    BY <1>3, LinesAssumption DEF Standing
  <1>6. n \in GlobalNames => S \subseteq GlobalNames
    <2> SUFFICES ASSUME n \in GlobalNames, NEW i \in DOMAIN usings
                 PROVE  <<usings[i], n[2]>> \in GlobalNames
      BY DEF Standing
    <2>1. usings[i] \in Spaces \cup {Top} /\ n[2] \in Locals
      BY <1>1, <1>4
    <2> QED
      BY <2>1 DEF GlobalNames
  <1>7. None \notin Names
    BY LinesAssumption
  <1>8. None \notin env
    BY <1>7 DEF TypeOK
  <1>9. CASE S # {}
    <2> DEFINE m == CHOOSE k \in S : TRUE
    <2>1. m \in S
      BY <1>9
    <2>2. Resolve(env, usings, n) = m
      BY <1>9 DEF Resolve
    <2> HIDE DEF S, m
    <2> QED
      BY <1>2, <1>5, <1>6, <1>7, <1>8, <1>9, <2>1, <2>2 DEF Names
  <1>10. CASE S = {}
    BY <1>2, <1>8, <1>10 DEF Resolve, Names
  <1> QED
    BY <1>9, <1>10

LEMMA InitTypeInv == Init => TypeInv
  <1> SUFFICES ASSUME Init PROVE TypeInv
    OBVIOUS
  <1> USE DEF Init
  <1>1. TypeOK
    <2>1. 0 \in Numbers
      BY LinesAssumption DEF Numbers
    <2>2. DOMAIN numbers = {} /\ DOMAIN indices = {}
      OBVIOUS
    <2>3. /\ symbols \in Seq(Names)
          /\ usings \in Seq(Spaces \cup {Top})
          /\ objects \in Seq([symbol : Nat, kind : Kinds, line : Numbers])
          /\ DOMAIN objects = {}
      OBVIOUS
    <2>4. /\ pc \in [Evaluators -> {"idle"}] /\ line \in [Evaluators -> Lines \cup {None}]
          /\ fresh \in [Evaluators -> Nat \cup {-1}] /\ pushed \in [Evaluators -> Nat]
          /\ index \in [Evaluators -> Nat] /\ own \in [Evaluators -> Numbers]
          /\ todo \in [Evaluators -> Seq([name : Names, kind : Kinds])]
      BY <2>1
    <2> QED
      BY <2>1, <2>2, <2>3, <2>4 DEF TypeOK
  <1>2. Ready
    BY DEF Ready, Lined, Placed, At, Entering, Having, Holding
  <1> QED
    BY <1>1, <1>2 DEF TypeInv

\* What a line is made of.
LEMMA LineParts ==
    ASSUME NEW l \in Lines
    PROVE  /\ l.tag \in Tags
           /\ l.name \in GlobalNames
           /\ l.mentions \in GlobalNames \cup {None}
           /\ l.bound \in BOOLEAN
  BY LinesAssumption

\* What an evaluator that has a line writes is a name.
LEMMA WrittenName ==
    ASSUME TypeInv, NEW e \in Evaluators, pc[e] \notin {"idle", "fresh"}
    PROVE  /\ Written(e) \in Names
           /\ Expression(e) => Written(e) = DummyName(e) /\ Written(e) \in DummyNames
           /\ ~Expression(e) => Written(e) \in GlobalNames
  <1>1. line[e] \in Lines /\ (Expression(e) => fresh[e] \in Nat)
    BY DEF TypeInv, Ready, Lined, At
  <1>2. line[e].name \in GlobalNames
    BY <1>1, LineParts
  <1>3. Expression(e) => <<Dummy, fresh[e]>> \in DummyNames
    BY <1>1 DEF DummyNames
  <1> QED
    BY <1>2, <1>3 DEF Written, Expression, DummyName, Names

-----------------------------------------------------------------------------
(* The type of the tables, and that of the rest.                           *)

TypedTables ==
    /\ symbols \in Seq(Names)
    /\ DOMAIN numbers \subseteq Names
    /\ \A n \in DOMAIN numbers : numbers[n] \in DOMAIN symbols
    /\ objects \in Seq([symbol : Nat, kind : Kinds, line : Numbers])
    /\ \A i \in DOMAIN objects : objects[i].symbol \in DOMAIN symbols
    /\ DOMAIN indices \subseteq DOMAIN symbols
    /\ \A s \in DOMAIN indices : indices[s] \in DOMAIN objects

TypedRest ==
    /\ env \subseteq Names
    /\ usings \in Seq(Spaces \cup {Top})
    /\ counter \in Nat
    /\ pc \in [Evaluators -> {"idle", "using", "check", "import", "fresh", "increment", "declare",
                              "identify", "symbol", "size", "push", "map", "object", "again",
                              "sizeobject", "pushobject", "mapobject", "store", "reduce"}]
    /\ line \in [Evaluators -> Lines \cup {None}]
    /\ fresh \in [Evaluators -> Nat \cup {-1}]
    /\ todo \in [Evaluators -> Seq(Entries)]
    /\ pushed \in [Evaluators -> Nat]
    /\ index \in [Evaluators -> Nat]
    /\ started \in Numbers
    /\ own \in [Evaluators -> Numbers]
    /\ drawn \subseteq Nat \X Evaluators
    /\ overlapped \in BOOLEAN
    /\ clash \in BOOLEAN
    /\ grown \in BOOLEAN
    /\ spoiled \subseteq Names

LEMMA TypeParts == (TypeOK <=> TypedTables /\ TypedRest) /\ (TypeOK' <=> TypedTables' /\ TypedRest')
  BY DEF TypeOK, TypedTables, TypedRest, Entries

LEMMA TablesStay ==
    ASSUME TypedTables, UNCHANGED tables
    PROVE  TypedTables'
  BY DEF TypedTables, tables

-----------------------------------------------------------------------------
(* What a step leaves alone.                                               *)

\* The locals of the others.
LEMMA StepOthers ==
    ASSUME TypeOK, NEW e \in Evaluators, Step(e), NEW g \in Evaluators \ {e}
    PROVE  UNCHANGED <<pc[g], line[g], fresh[g], todo[g], pushed[g], index[g], own[g]>>
  <1> USE DEF TypeOK, Goto, Leave, entering
  <1>1. ASSUME NEW l \in Lines, Start(e, l)
        PROVE  UNCHANGED <<pc[g], line[g], fresh[g], todo[g], pushed[g], index[g], own[g]>>
    BY <1>1 DEF Start
  <1>2. CASE PushUsing(e) \/ CheckUsing(e) \/ Import(e) \/ ReadCounter(e) \/ Increment(e)
                \/ Redeclare(e) \/ Identify(e)
    BY <1>2 DEF PushUsing, CheckUsing, Import, ReadCounter, Increment, Redeclare, Identify
  <1>3. CASE CountSymbol(e) \/ SizeSymbols(e) \/ PushSymbol(e) \/ MapSymbol(e)
    BY <1>3 DEF CountSymbol, SizeSymbols, PushSymbol, MapSymbol
  <1>4. CASE CountObject(e) \/ CountAgain(e)
    BY <1>4 DEF CountObject, CountAgain
  <1>5. CASE SizeObjects(e) \/ PushObject(e) \/ MapObject(e) \/ StoreObject(e) \/ Reduce(e)
    BY <1>5 DEF SizeObjects, PushObject, MapObject, StoreObject, Reduce
  <1> QED
    BY <1>1, <1>2, <1>3, <1>4, <1>5 DEF Step

\* The tables, but for the steps that are there to change them.
LEMMA StepTables ==
    ASSUME NEW e \in Evaluators, Step(e)
    PROVE  \/ UNCHANGED tables
           \/ PushSymbol(e) \/ MapSymbol(e) \/ PushObject(e) \/ MapObject(e) \/ StoreObject(e)
  BY DEF Step, Start, PushUsing, CheckUsing, Import, ReadCounter, Increment, Redeclare, Identify,
         CountSymbol, SizeSymbols, CountObject, CountAgain, SizeObjects, Reduce

\* The tables only grow.
LEMMA StepGrows ==
    ASSUME TypeOK, NEW e \in Evaluators, Step(e)
    PROVE  /\ Len(symbols') \in Nat /\ Len(symbols) \in Nat
           /\ \A i \in DOMAIN symbols : i \in DOMAIN symbols' /\ symbols'[i] = symbols[i]
           /\ Len(symbols) <= Len(symbols')
           /\ Len(objects') \in Nat /\ Len(objects) \in Nat
           /\ DOMAIN objects \subseteq DOMAIN objects' /\ Len(objects) <= Len(objects')
           /\ DOMAIN numbers \subseteq DOMAIN numbers'
           /\ DOMAIN indices \subseteq DOMAIN indices'
  <1>0. symbols \in Seq(Names) /\ \E S : objects \in Seq(S)
    BY DEF TypeOK
  <1>1. CASE UNCHANGED tables
    BY <1>0, <1>1 DEF tables
  <1>2. CASE PushSymbol(e)
    <2> DEFINE n == Head(todo[e]).name
    <2>1. symbols' = Append(symbols, n) /\ UNCHANGED <<numbers, objects, indices>>
      BY <1>2 DEF PushSymbol
    <2> HIDE DEF n
    <2>2. symbols \in Seq(Names \cup {n}) /\ n \in Names \cup {n}
      BY <1>0
    <2>3. /\ Len(symbols') = Len(symbols) + 1 /\ DOMAIN symbols' = 1..Len(symbols) + 1
          /\ \A i \in 1..Len(symbols) : symbols'[i] = symbols[i]
          /\ DOMAIN symbols = 1..Len(symbols) /\ Len(symbols) \in Nat
      BY <2>1, <2>2
    <2> QED
      BY <1>0, <2>1, <2>3
  <1>3. CASE MapSymbol(e)
    BY <1>0, <1>3 DEF MapSymbol, Mapped
  <1>4. CASE PushObject(e)
    <2> DEFINE o == Entered(e)
    <2>1. objects' = Append(objects, o) /\ UNCHANGED <<symbols, numbers, indices>>
      BY <1>4 DEF PushObject
    <2> HIDE DEF o
    <2>2. PICK S : objects \in Seq(S)
      BY <1>0
    <2>3. objects \in Seq(S \cup {o}) /\ o \in S \cup {o}
      BY <2>2
    <2>4. /\ Len(objects') = Len(objects) + 1 /\ DOMAIN objects' = 1..Len(objects) + 1
          /\ DOMAIN objects = 1..Len(objects) /\ Len(objects) \in Nat
      BY <2>1, <2>3
    <2> QED
      BY <1>0, <2>1, <2>4
  <1>5. CASE MapObject(e)
    BY <1>0, <1>5 DEF MapObject, Mapped
  <1>6. CASE StoreObject(e)
    <2> DEFINE o == Entered(e)
    <2>1. objects' = [objects EXCEPT ![index[e]] = o] /\ UNCHANGED <<symbols, numbers, indices>>
      BY <1>6 DEF StoreObject
    <2> HIDE DEF o
    <2>2. PICK S : objects \in Seq(S)
      BY <1>0
    <2>3. /\ DOMAIN objects' = DOMAIN objects /\ Len(objects') = Len(objects)
          /\ Len(objects) \in Nat
      BY <2>1, <2>2
    <2> QED
      BY <1>0, <2>1, <2>3
  <1> QED
    BY <1>1, <1>2, <1>3, <1>4, <1>5, <1>6, StepTables

\* ... so that the others stay ready.
LEMMA OthersReady ==
    ASSUME TypeInv, NEW e \in Evaluators, Step(e), NEW g \in Evaluators \ {e}
    PROVE  Lined(g)' /\ Placed(g)'
  <1>1. UNCHANGED <<pc[g], line[g], fresh[g], todo[g], pushed[g], index[g], own[g]>>
    BY StepOthers DEF TypeInv
  <1>2. /\ Len(symbols') \in Nat /\ Len(symbols) \in Nat /\ Len(symbols) <= Len(symbols')
        /\ DOMAIN symbols \subseteq DOMAIN symbols'
        /\ Len(objects') \in Nat /\ Len(objects) \in Nat /\ Len(objects) <= Len(objects')
        /\ DOMAIN objects \subseteq DOMAIN objects'
        /\ DOMAIN numbers \subseteq DOMAIN numbers'
    BY StepGrows DEF TypeInv
  <1>3. env \subseteq env'
    BY DEF Step, Start, PushUsing, CheckUsing, Import, ReadCounter, Increment, Redeclare, Identify,
           CountSymbol, SizeSymbols, PushSymbol, MapSymbol, CountObject, CountAgain, SizeObjects,
           PushObject, MapObject, StoreObject, Reduce, Declared
  <1>4. Lined(g) /\ Placed(g)
    BY DEF TypeInv, Ready
  <1>5. Lined(g)'
    BY <1>1, <1>3, <1>4 DEF Lined, At, Expression, Written
  <1>6. Placed(g)'
    BY <1>1, <1>2, <1>4 DEF Placed, At, Written, Last
  <1> QED
    BY <1>5, <1>6

-----------------------------------------------------------------------------
(* The steps of a line before it enters anything.                          *)

LEMMA StartTypeInv ==
    ASSUME TypeInv, NEW e \in Evaluators, NEW l \in Lines, Start(e, l)
    PROVE  TypeOK' /\ Lined(e)' /\ Placed(e)'
  <1> USE DEF Start, At, Goto, entering
  <1>1. l.tag \in Tags
    BY LineParts
  <1>2. TypeOK'
    <2>1. started' \in Numbers
      BY LinesAssumption DEF TypeInv, TypeOK, Numbers
    <2>2. First(l.tag) \in {"using", "import", "fresh", "declare"}
      BY <1>1 DEF First
    <2> QED
      BY <2>1, <2>2 DEF TypeInv, TypeOK, tables
  <1>3. Lined(e)'
    BY <1>1 DEF TypeInv, TypeOK, Lined, Expression, First
  <1>4. Placed(e)'
    <2>1. pc'[e] \in {"using", "import", "fresh", "declare"} /\ todo'[e] = <<>>
      BY <1>1 DEF TypeInv, TypeOK, Ready, Placed, Entering, First
    <2> QED
      BY <2>1 DEF Placed, Entering, Having, Holding
  <1> QED
    BY <1>2, <1>3, <1>4

LEMMA BeforeTypeInv ==
    ASSUME TypeInv, NEW e \in Evaluators,
           PushUsing(e) \/ CheckUsing(e) \/ ReadCounter(e) \/ Increment(e) \/ Redeclare(e)
    PROVE  TypeOK' /\ Lined(e)' /\ Placed(e)'
  <1> USE DEF At, Goto
  <1>1. TypedTables /\ TypedRest /\ Lined(e) /\ Placed(e)
    BY TypeParts DEF TypeInv, Ready
  <1>2. CASE PushUsing(e)
    <2>1. line[e].name[1] \in Spaces \cup {Top}
      BY <1>1, <1>2, LineParts DEF Lined, GlobalNames, PushUsing
    <2>2. TypedRest'
      BY <1>1, <1>2, <2>1 DEF TypedRest, PushUsing, entering, history
    <2>3. UNCHANGED tables
      BY <1>2 DEF PushUsing
    <2>4. Lined(e)' /\ Placed(e)'
      BY <1>1, <1>2 DEF TypedRest, PushUsing, entering, Lined, Placed, Entering, Having,
                         Holding, Expression, Written
    <2> QED
      BY <1>1, <2>2, <2>3, <2>4, TablesStay, TypeParts
  <1>3. CASE CheckUsing(e)
    <2>1. usings' \in Seq(Spaces \cup {Top})
      BY <1>1, <1>3 DEF TypedRest, CheckUsing
    <2>2. TypedRest'
      BY <1>1, <1>3, <2>1 DEF TypedRest, CheckUsing, entering, history
    <2>3. UNCHANGED tables
      BY <1>3 DEF CheckUsing
    <2>4. Lined(e)' /\ Placed(e)'
      BY <1>1, <1>3 DEF TypedRest, CheckUsing, entering, Lined, Placed, Entering, Having,
                         Holding, Expression, Written
    <2> QED
      BY <1>1, <2>2, <2>3, <2>4, TablesStay, TypeParts
  <1>4. CASE ReadCounter(e)
    <2>1. TypedRest'
      BY <1>1, <1>4 DEF TypedRest, ReadCounter, entering, history
    <2>2. UNCHANGED tables
      BY <1>4 DEF ReadCounter
    <2>3. Lined(e)' /\ Placed(e)'
      BY <1>1, <1>4 DEF TypedRest, ReadCounter, entering, Lined, Placed, Entering, Having,
                         Holding, Expression, Written
    <2> QED
      BY <1>1, <2>1, <2>2, <2>3, TablesStay, TypeParts
  <1>5. CASE Increment(e)
    <2>1. TypedRest'
      BY <1>1, <1>5 DEF TypedRest, Increment, entering, history
    <2>2. UNCHANGED tables
      BY <1>5 DEF Increment
    <2>3. Lined(e)' /\ Placed(e)'
      BY <1>1, <1>5 DEF TypedRest, Increment, entering, Lined, Placed, Entering, Having,
                         Holding, Expression, Written
    <2> QED
      BY <1>1, <2>1, <2>2, <2>3, TablesStay, TypeParts
  <1>6. CASE Redeclare(e)
    <2>1. Written(e) \in Names
      BY <1>6, WrittenName DEF Redeclare
    <2>2. TypedRest'
      BY <1>1, <1>6, <2>1 DEF TypedRest, Redeclare, Declared, entering, history
    <2>3. UNCHANGED tables
      BY <1>6 DEF Redeclare
    <2>4. Lined(e)' /\ Placed(e)'
      BY <1>1, <1>6 DEF TypedRest, Redeclare, Declared, entering, Lined, Placed, Entering, Having,
                         Holding, Expression, Written
    <2> QED
      BY <1>1, <2>2, <2>3, <2>4, TablesStay, TypeParts
  <1> QED
    BY <1>2, <1>3, <1>4, <1>5, <1>6

\* What a line enters: the name in its body, its own, and that name as it is
\* written if it is reduced.
LEMMA Identified ==
    ASSUME TypeInv, NEW e \in Evaluators, Identify(e), Identifies(e)
    PROVE  /\ Target(e) \in Names
           /\ Expression(e) => Target(e) = DummyName(e)
           /\ ~Expression(e) => Target(e) \in GlobalNames
           /\ todo'[e] = Mentioned(e) \o Defined(e) \o LookedUp(e)
           /\ \E k \in {"code", "data"} : Defined(e) = <<Entry(Target(e), k)>>
           /\ Expression(e) => Defined(e) = <<Entry(DummyName(e), "code")>>
           /\ LookedUp(e) \in {<<>>, <<Entry(Written(e), "stub")>>}
           /\ Expression(e) => LookedUp(e) = <<Entry(DummyName(e), "stub")>>
           /\ \/ Mentioned(e) = <<>>
              \/ \E n \in GlobalNames : Mentioned(e) = <<Entry(n, "stub")>>
  <1> DEFINE w == Written(e)
             m == line[e].mentions
             r == Resolve(env, usings, m)
  <1>1. At(e, "identify") /\ line[e] \in Lines
    BY DEF Identify, TypeInv, Ready, Lined, At
  <1>2. w \in env /\ w \in Names
    BY <1>1, WrittenName DEF TypeInv, Ready, Lined, At
  <1>3. TypeOK
    BY DEF TypeInv
  <1>4. Target(e) \in Names
    BY <1>2, <1>3, Resolved DEF Target
  <1>5. Expression(e) => Target(e) = DummyName(e) /\ w = DummyName(e)
    BY <1>1, <1>2, <1>3, <1>4, Resolved, WrittenName, LinesAssumption DEF Target, At
  <1>6. ~Expression(e) => Target(e) \in GlobalNames
    BY <1>1, <1>2, <1>3, <1>4, Resolved, WrittenName, LinesAssumption DEF Target, At
  <1>7. m # None => r \in GlobalNames
    <2> SUFFICES ASSUME m # None PROVE r \in GlobalNames
      OBVIOUS
    <2>1. m \in GlobalNames
      BY <1>1, LineParts
    <2>2. m \in Names
      BY <2>1 DEF Names
    <2>3. r # None
      BY DEF Identifies
    <2> QED
      BY <1>3, <2>1, <2>2, <2>3, Resolved
  <1>8. \/ Mentioned(e) = <<>>
        \/ \E n \in GlobalNames : Mentioned(e) = <<Entry(n, "stub")>>
    BY <1>7 DEF Mentioned
  <1>9. /\ \E k \in {"code", "data"} : Defined(e) = <<Entry(Target(e), k)>>
        /\ Expression(e) => Defined(e) = <<Entry(DummyName(e), "code")>>
    BY <1>5 DEF Defined, Expression
  <1>10. /\ LookedUp(e) \in {<<>>, <<Entry(w, "stub")>>}
         /\ Expression(e) => LookedUp(e) = <<Entry(DummyName(e), "stub")>>
    BY <1>5 DEF LookedUp, Expression
  <1>11. todo'[e] = Mentioned(e) \o Defined(e) \o LookedUp(e)
    BY <1>3 DEF TypeOK, Identify
  <1> QED
    BY <1>4, <1>5, <1>6, <1>8, <1>9, <1>10, <1>11

\* Three sequences in a row, none but the middle one longer than one.
LEMMA InARow ==
    ASSUME NEW S, NEW p \in Seq(S), NEW x \in S, NEW q \in Seq(S), Len(p) \in {0, 1},
           Len(q) \in {0, 1}, NEW t, t = p \o <<x>> \o q
    PROVE  /\ t \in Seq(S) /\ t # <<>> /\ Len(t) = Len(p) + 1 + Len(q)
           /\ Len(p) = 1 => t[1] = p[1]
           /\ t[Len(p) + 1] = x
           /\ Len(q) = 1 => t[Len(t)] = q[1]
           /\ \A i \in 1..Len(t) :
                i = Len(p) + 1 \/ (Len(p) = 1 /\ i = 1) \/ (Len(q) = 1 /\ i = Len(t))
  <1>1. <<x>> \in Seq(S) /\ Len(<<x>>) = 1 /\ <<x>>[1] = x
    OBVIOUS
  <1>2. /\ p \o <<x>> \in Seq(S) /\ Len(p \o <<x>>) = Len(p) + 1
        /\ Len(p) = 1 => (p \o <<x>>)[1] = p[1]
        /\ (p \o <<x>>)[Len(p) + 1] = x
    BY <1>1, ConcatProperties
  <1> DEFINE u == p \o <<x>>
  <1> HIDE DEF u
  <1>3. u \in Seq(S) /\ Len(u) \in Nat /\ Len(u) = Len(p) + 1 /\ t = u \o q
    BY <1>2 DEF u
  <1>4. /\ t \in Seq(S) /\ Len(t) = Len(u) + Len(q)
        /\ \A i \in 1..Len(u) : t[i] = u[i]
        /\ Len(q) = 1 => t[Len(u) + 1] = q[1]
    BY <1>3, ConcatProperties
  <1>5. t # <<>>
    BY <1>3, <1>4
  <1>6. \A i \in 1..Len(t) :
            i = Len(p) + 1 \/ (Len(p) = 1 /\ i = 1) \/ (Len(q) = 1 /\ i = Len(t))
    <2>1. Len(t) = Len(p) + 1 + Len(q)
      BY <1>3, <1>4
    <2> QED
      BY <2>1
  <1> QED
    BY <1>2, <1>3, <1>4, <1>5, <1>6 DEF u

\* ... and where the last two are, if there is one at the end.
LEMMA AtTheEnd ==
    ASSUME NEW p \in {0, 1}, NEW q \in {0, 1}, NEW t, t = p + 1 + q, q = 1
    PROVE  t - 1 = p + 1 /\ t > 1 /\ t \in 1..3 /\ (t = 3 => p = 1)
  OBVIOUS

LEMMA ImportTypeInv ==
    ASSUME TypeInv, NEW e \in Evaluators, Import(e)
    PROVE  TypeOK' /\ Lined(e)' /\ Placed(e)'
  <1> DEFINE x == Entry(line[e].name, "module")
  <1> USE DEF At, Goto
  <1>1. TypedTables /\ TypedRest /\ Lined(e) /\ Placed(e)
    BY TypeParts DEF TypeInv, Ready
  <1>2. line[e].name \in Names
    BY <1>1, LineParts DEF Import, Lined, Names
  <1>3. x \in Entries /\ x.kind # "stub"
    BY <1>2 DEF Entries, Entry, Kinds
  <1> HIDE DEF x
  <1>4. /\ <<x>> \in Seq(Entries) /\ <<x>> # <<>> /\ <<x>>[Len(<<x>>)] = x
    BY <1>3
  <1>5. /\ \/ todo' = todo /\ pc' = [pc EXCEPT ![e] = "idle"]
           \/ todo' = [todo EXCEPT ![e] = <<x>>] /\ pc' = [pc EXCEPT ![e] = "symbol"]
        /\ UNCHANGED <<usings, tables, counter, line, fresh, pushed, index, started, own, drawn,
                       overlapped, clash, spoiled>>
        /\ env' \in {env, env \cup {line[e].name}}
        /\ grown' \in BOOLEAN
        /\ At(e, "import")
    BY <1>1 DEF Import, Declared, TypedRest, x
  <1>6. TypedRest'
    <2>1. env' \subseteq Names
      BY <1>1, <1>2, <1>5 DEF TypedRest
    <2>2. todo' \in [Evaluators -> Seq(Entries)]
      BY <1>1, <1>4, <1>5 DEF TypedRest
    <2>3. pc' = [pc EXCEPT ![e] = pc'[e]] /\ pc'[e] \in {"idle", "symbol"}
      BY <1>1, <1>5 DEF TypedRest
    <2> QED
      BY <1>1, <1>5, <2>1, <2>2, <2>3 DEF TypedRest
  <1>7. Lined(e)'
    BY <1>1, <1>5 DEF TypedRest, Lined, Expression
  <1>8. Placed(e)'
    BY <1>1, <1>3, <1>4, <1>5 DEF TypedRest, Placed, Entering, Having, Holding, Last
  <1> QED
    BY <1>1, <1>5, <1>6, <1>7, <1>8, TablesStay, TypeParts

LEMMA IdentifyTypeInv ==
    ASSUME TypeInv, NEW e \in Evaluators, Identify(e)
    PROVE  TypeOK' /\ Lined(e)' /\ Placed(e)'
  <1> USE DEF At, Goto
  <1>1. TypedTables /\ TypedRest /\ Lined(e) /\ Placed(e) /\ At(e, "identify")
    BY TypeParts DEF TypeInv, Ready, Identify
  <1>2. Written(e) \in Names
    BY <1>1, WrittenName
  <1>3. UNCHANGED <<env, usings, tables, counter, line, fresh, pushed, index, started, own, drawn,
                    overlapped, clash, grown>>
    BY DEF Identify
  <1>4. spoiled' \subseteq Names
    BY <1>1, <1>2 DEF TypedRest, Identify, Bare
  <1>5. CASE Identifies(e)
    <2>1. PICK k \in {"code", "data"} : Defined(e) = <<Entry(Target(e), k)>>
      BY <1>5, Identified
    <2> DEFINE x == Entry(Target(e), k)
               w == Entry(Written(e), "stub")
               p == Mentioned(e)
               q == LookedUp(e)
    <2>2. x \in Entries /\ x.kind # "stub"
      BY <1>5, Identified DEF Entries, Entry, Kinds
    <2>3. w \in Entries /\ w.name = Written(e)
      BY <1>2 DEF Entries, Entry, Kinds
    <2>4. \A n \in GlobalNames : Entry(n, "stub") \in Entries
      BY DEF Entries, Entry, Kinds, Names
    <2> HIDE DEF x, w
    <2>5. /\ p \in Seq(Entries) /\ Len(p) \in {0, 1}
          /\ q \in Seq(Entries) /\ Len(q) \in {0, 1} /\ (Len(q) = 1 => q[1] = w)
      <3>1. q = <<>> \/ q = <<w>>
        BY <1>5, Identified DEF w
      <3>2. p = <<>> \/ \E y \in Entries : p = <<y>>
        BY <1>5, <2>4, Identified
      <3> HIDE DEF p, q
      <3>3. <<>> \in Seq(Entries) /\ Len(<<>>) = 0
        BY EmptySeq
      <3>4. \A y \in Entries : <<y>> \in Seq(Entries) /\ Len(<<y>>) = 1 /\ <<y>>[1] = y
        OBVIOUS
      <3>5. p \in Seq(Entries) /\ Len(p) \in {0, 1}
        BY <3>2, <3>3, <3>4
      <3>6. q \in Seq(Entries) /\ Len(q) \in {0, 1} /\ (Len(q) = 1 => q[1] = w)
        <4>1. CASE q = <<>>
          BY <3>3, <4>1
        <4>2. CASE q = <<w>>
          BY <2>3, <3>4, <4>2
        <4> QED
          BY <3>1, <4>1, <4>2
      <3> QED
        BY <3>5, <3>6
    <2>6. todo'[e] = p \o <<x>> \o q
      BY <1>5, <2>1, Identified DEF x
    <2> DEFINE t == todo'[e]
    <2> HIDE DEF p, q, t
    <2>7. /\ t \in Seq(Entries) /\ t # <<>> /\ Len(t) = Len(p) + 1 + Len(q)
          /\ t[Len(p) + 1] = x
          /\ Len(q) = 1 => t[Len(t)] = q[1]
      <3>1. t = p \o <<x>> \o q
        BY <2>6 DEF t
      <3> QED
        BY <2>2, <2>5, <3>1, InARow
    <2>8. t[Len(t)] = x \/ t[Len(t)] = w
      BY <2>5, <2>7
    <2>9. todo' = [todo EXCEPT ![e] = t] /\ pc' = [pc EXCEPT ![e] = "symbol"]
      BY <1>1, <1>5 DEF Identify, TypedRest, t
    <2>10. TypedRest'
      BY <1>1, <1>3, <1>4, <2>7, <2>9 DEF TypedRest
    <2>11. Lined(e)'
      BY <1>1, <1>3, <2>9 DEF TypedRest, Lined, Expression
    <2>12. Placed(e)'
      <3>1. pc'[e] = "symbol" /\ todo'[e] = t /\ Written(e)' = Written(e)
        BY <1>1, <1>3, <2>9 DEF TypedRest, Written
      <3> QED
        BY <2>2, <2>3, <2>7, <2>8, <3>1 DEF Placed, Entering, Having, Holding, Last
    <2> QED
      BY <1>1, <1>3, <2>10, <2>11, <2>12, TablesStay, TypeParts
  <1>6. CASE ~Identifies(e)
    <2>1. todo' = todo /\ pc' = [pc EXCEPT ![e] = "idle"]
      BY <1>6 DEF Identify
    <2>2. TypedRest'
      BY <1>1, <1>3, <1>4, <2>1 DEF TypedRest
    <2>3. Lined(e)' /\ Placed(e)'
      BY <1>1, <1>3, <2>1 DEF TypedRest, Lined, Expression, Placed, Entering, Having, Holding
    <2> QED
      BY <1>1, <1>3, <2>2, <2>3, TablesStay, TypeParts
  <1> QED
    BY <1>5, <1>6

-----------------------------------------------------------------------------
(* The steps of a line in the tables.                                      *)

\* The rest of what there is to enter.
LEMMA Rest ==
    ASSUME NEW S, NEW t \in Seq(S), t # <<>>
    PROVE  /\ Len(t) \in Nat \ {0} /\ Head(t) = t[1] /\ Head(t) \in S
           /\ Tail(t) \in Seq(S) /\ Len(Tail(t)) = Len(t) - 1
           /\ \A i \in 1..Len(t) - 1 : Tail(t)[i] = t[i + 1]
           /\ Len(t) > 1 => Tail(t) # <<>> /\ Tail(t)[Len(Tail(t))] = t[Len(t)]
           /\ Len(t) = 1 => Tail(t) = <<>>
           /\ Len(t) > 1 \/ Len(t) = 1
  <1>1. /\ Len(t) \in Nat \ {0} /\ Head(t) = t[1] /\ Head(t) \in S
        /\ Tail(t) \in Seq(S) /\ Len(Tail(t)) = Len(t) - 1
        /\ \A i \in 1..Len(t) - 1 : Tail(t)[i] = t[i + 1]
    BY EmptySeq, HeadTailProperties
  <1> DEFINE u == Tail(t)
  <1> HIDE DEF u
  <1>2. Len(t) > 1 => u # <<>> /\ u[Len(u)] = t[Len(t)]
    BY <1>1 DEF u
  <1>3. Len(t) = 1 => u = <<>>
    <2>1. u \in Seq(S) /\ Len(u) = Len(t) - 1
      BY <1>1 DEF u
    <2> QED
      BY <2>1, EmptySeq
  <1>4. Len(t) > 1 \/ Len(t) = 1
    BY <1>1
  <1> QED
    BY <1>1, <1>2, <1>3, <1>4 DEF u

LEMMA LeavePlaced ==
    ASSUME TypedTables, TypedRest, NEW e \in Evaluators, Placed(e), Leave(e),
           pc[e] \in {"object", "again", "mapobject", "store"},
           pushed'[e] = pushed[e], UNCHANGED <<line, fresh>>,
           index'[e] \in DOMAIN objects',
           DOMAIN symbols \subseteq DOMAIN symbols', DOMAIN numbers \subseteq DOMAIN numbers'
    PROVE  /\ todo' \in [Evaluators -> Seq(Entries)]
           /\ pc' \in [Evaluators -> {"idle", "using", "check", "import", "fresh", "increment",
                              "declare", "identify", "symbol", "size", "push", "map", "object",
                              "again", "sizeobject", "pushobject", "mapobject", "store", "reduce"}]
           /\ pc'[e] \in {"symbol", "reduce", "idle"}
           /\ Placed(e)'
  <1> DEFINE t == todo[e]
  <1> USE DEF At, Goto
  <1>1. t \in Seq(Entries) /\ t # <<>>
    BY DEF TypedRest, Placed, Entering
  <1> HIDE DEF t
  <1>2. /\ Tail(t) \in Seq(Entries) /\ Len(t) \in Nat \ {0} /\ Head(t) = t[1]
        /\ Len(t) > 1 => Tail(t) # <<>> /\ Tail(t)[Len(Tail(t))] = t[Len(t)]
        /\ Len(t) = 1 => Tail(t) = <<>>
    BY <1>1, Rest
  <1>3. /\ todo'[e] = Tail(t) /\ todo' = [todo EXCEPT ![e] = Tail(t)]
        /\ pc'[e] = IF Len(t) > 1 THEN "symbol"
                    ELSE IF Head(t).kind = "stub" THEN "reduce" ELSE "idle"
    BY DEF Leave, TypedRest, t
  <1>4. /\ pushed[e] \in DOMAIN symbols /\ Head(t).name \in DOMAIN numbers
        /\ t[Len(t)].kind = "stub" => t[Len(t)].name = Written(e)
        /\ Written(e)' = Written(e)
    BY DEF Placed, Entering, Having, Last, Written, t
  <1>5. ASSUME Len(t) > 1 PROVE Placed(e)'
    <2>1. pc'[e] = "symbol" /\ todo'[e] # <<>> /\ Last(e)' = t[Len(t)]
      BY <1>2, <1>3, <1>5 DEF Last
    <2> QED
      BY <1>4, <2>1 DEF Placed, Entering, Having, Holding
  <1>6. ASSUME Len(t) = 1 PROVE Placed(e)'
    <2>1. /\ todo'[e] = <<>>
          /\ \/ pc'[e] = "idle"
             \/ pc'[e] = "reduce" /\ t[Len(t)].kind = "stub" /\ t[Len(t)].name \in DOMAIN numbers
      BY <1>2, <1>3, <1>4, <1>6
    <2>2. CASE pc'[e] = "idle"
      BY <2>1, <2>2 DEF Placed, Entering, Having, Holding
    <2>3. CASE pc'[e] = "reduce"
      <3>1. Written(e)' \in DOMAIN numbers'
        BY <1>4, <2>1, <2>3
      <3>2. pushed'[e] \in DOMAIN symbols'
        BY <1>4
      <3> QED
        BY <2>1, <2>3, <3>1, <3>2 DEF Placed, Entering, Having, Holding
    <2> QED
      BY <2>1, <2>2, <2>3
  <1>7. pc'[e] \in {"symbol", "reduce", "idle"}
    BY <1>3
  <1>8. todo' \in [Evaluators -> Seq(Entries)]
    BY <1>2, <1>3 DEF TypedRest
  <1>9. pc' = [pc EXCEPT ![e] = pc'[e]]
    BY DEF TypedRest, Leave
  <1>10. Len(t) > 1 \/ Len(t) = 1
    BY <1>1, Rest
  <1> QED
    BY <1>5, <1>6, <1>7, <1>8, <1>9, <1>10 DEF TypedRest

LEMMA EnteringLined ==
    ASSUME NEW e \in Evaluators, Lined(e), pc[e] \in Entering \cup {"reduce"},
           pc'[e] \in Entering \cup {"reduce", "idle"}, UNCHANGED <<line, fresh>>
    PROVE  Lined(e)'
  BY DEF Lined, At, Expression, Entering

\* In a state where an evaluator has something to enter.
LEMMA EnteringFacts ==
    ASSUME TypeInv, NEW e \in Evaluators, pc[e] \in Entering
    PROVE  /\ TypedTables /\ TypedRest /\ Lined(e) /\ Placed(e)
           /\ todo[e] \in Seq(Entries) /\ todo[e] # <<>>
           /\ Head(todo[e]) \in Entries
           /\ Head(todo[e]).name \in Names /\ Head(todo[e]).kind \in Kinds
           /\ symbols \in Seq(Names) /\ DOMAIN symbols = 1..Len(symbols)
           /\ Len(symbols) \in Nat /\ Len(objects) \in Nat
           /\ DOMAIN objects = 1..Len(objects)
  <1>1. TypedTables /\ TypedRest /\ Lined(e) /\ Placed(e)
    BY TypeParts DEF TypeInv, Ready
  <1>2. todo[e] \in Seq(Entries) /\ todo[e] # <<>>
    BY <1>1 DEF TypedRest, Placed
  <1>3. Head(todo[e]) \in Entries
    BY <1>2, Rest
  <1>4. Head(todo[e]).name \in Names /\ Head(todo[e]).kind \in Kinds
    BY <1>3 DEF Entries
  <1>5. symbols \in Seq(Names) /\ DOMAIN symbols = 1..Len(symbols) /\ Len(symbols) \in Nat
    BY <1>1 DEF TypedTables
  <1>6. Len(objects) \in Nat /\ DOMAIN objects = 1..Len(objects)
    BY <1>1 DEF TypedTables
  <1> QED
    BY <1>1, <1>2, <1>3, <1>4, <1>5, <1>6

\* What stays ready when an evaluator goes on with the same entry.
LEMMA OnPlaced ==
    ASSUME NEW e \in Evaluators, Placed(e), pc[e] \in Entering, pc'[e] \in Entering,
           todo'[e] = todo[e], UNCHANGED <<line, fresh>>,
           pc'[e] = "push" => pushed'[e] \in 1..Len(symbols') + 1,
           pc'[e] \in Having => pushed'[e] \in DOMAIN symbols',
           pc'[e] = "pushobject" => index'[e] \in 1..Len(objects') + 1,
           pc'[e] \in Holding => index'[e] \in DOMAIN objects',
           pc'[e] \in Having \ {"map"} => Head(todo[e]).name \in DOMAIN numbers',
           pc'[e] \in {"again", "store"} => Head(todo[e]).kind # "stub"
    PROVE  Placed(e)'
  BY DEF Placed, At, Entering, Having, Holding, Last, Written

LEMMA CountSymbolTypeInv ==
    ASSUME TypeInv, NEW e \in Evaluators, CountSymbol(e)
    PROVE  TypeOK' /\ Lined(e)' /\ Placed(e)'
  <1> DEFINE n == Head(todo[e]).name
  <1> USE DEF At, Goto, Entering
  <1>1. TypedTables /\ TypedRest /\ Lined(e) /\ Placed(e) /\ pc[e] = "symbol"
    BY EnteringFacts DEF CountSymbol
  <1> HIDE DEF n
  <1>2. /\ UNCHANGED <<env, usings, tables, counter, line, fresh, todo, index, started, own, history>>
        /\ \/ /\ n \in DOMAIN numbers
              /\ pushed' = [pushed EXCEPT ![e] = numbers[n]]
              /\ pc' = [pc EXCEPT ![e] = "object"]
           \/ pushed' = pushed /\ pc' = [pc EXCEPT ![e] = "size"]
    BY DEF CountSymbol, n
  <1>3. n \in DOMAIN numbers => numbers[n] \in DOMAIN symbols /\ numbers[n] \in Nat
    BY <1>1 DEF TypedTables
  <1>4. TypedRest'
    BY <1>1, <1>2, <1>3 DEF TypedRest, history
  <1>5. pc'[e] \in {"object", "size"}
    BY <1>1, <1>2 DEF TypedRest
  <1>6. Lined(e)'
    BY <1>1, <1>2, <1>5, EnteringLined
  <1>7. pc'[e] = "object" => n \in DOMAIN numbers /\ pushed'[e] \in DOMAIN symbols
    BY <1>1, <1>2, <1>3 DEF TypedRest
  <1>8. Placed(e)'
    BY <1>1, <1>2, <1>5, <1>7, OnPlaced DEF Having, Holding, tables, n
  <1> QED
    BY <1>1, <1>2, <1>4, <1>6, <1>8, TablesStay, TypeParts

LEMMA SizeSymbolsTypeInv ==
    ASSUME TypeInv, NEW e \in Evaluators, SizeSymbols(e)
    PROVE  TypeOK' /\ Lined(e)' /\ Placed(e)'
  <1> USE DEF At, Goto, Entering
  <1>1. /\ TypedTables /\ TypedRest /\ Lined(e) /\ Placed(e) /\ pc[e] = "size"
        /\ Len(symbols) \in Nat
    BY EnteringFacts DEF SizeSymbols
  <1>2. /\ UNCHANGED <<env, usings, tables, counter, line, fresh, todo, index, started, own, drawn,
                       overlapped, grown, spoiled>>
        /\ pushed' = [pushed EXCEPT ![e] = Len(symbols) + 1]
        /\ pc' = [pc EXCEPT ![e] = "push"]
    BY DEF SizeSymbols
  <1>3. clash' \in BOOLEAN
    BY <1>1 DEF SizeSymbols, Clashes, TypedRest
  <1>4. Len(symbols) + 1 \in Nat /\ Len(symbols) + 1 \in 1..Len(symbols) + 1
    BY <1>1
  <1>5. TypedRest'
    BY <1>1, <1>2, <1>3, <1>4 DEF TypedRest
  <1>6. pc'[e] = "push" /\ pushed'[e] = Len(symbols) + 1 /\ symbols' = symbols
    BY <1>1, <1>2 DEF TypedRest, tables
  <1>7. Lined(e)'
    BY <1>1, <1>2, <1>6, EnteringLined
  <1>8. Placed(e)'
    BY <1>1, <1>2, <1>4, <1>6, OnPlaced DEF Having, Holding
  <1> QED
    BY <1>1, <1>2, <1>5, <1>7, <1>8, TablesStay, TypeParts

LEMMA PushSymbolTypeInv ==
    ASSUME TypeInv, NEW e \in Evaluators, PushSymbol(e)
    PROVE  TypeOK' /\ Lined(e)' /\ Placed(e)'
  <1> DEFINE n == Head(todo[e]).name
  <1> USE DEF At, Goto, Entering
  <1>1. /\ TypedTables /\ TypedRest /\ Lined(e) /\ Placed(e) /\ pc[e] = "push"
        /\ symbols \in Seq(Names) /\ n \in Names
    BY EnteringFacts DEF PushSymbol
  <1> HIDE DEF n
  <1>2. /\ UNCHANGED <<env, usings, numbers, objects, indices, counter, line, fresh, entering,
                       started, own, history>>
        /\ symbols' = Append(symbols, n)
        /\ pc' = [pc EXCEPT ![e] = "map"]
    BY DEF PushSymbol, n
  <1>3. symbols' \in Seq(Names) /\ DOMAIN symbols' = 1..Len(symbols) + 1
        /\ DOMAIN symbols \subseteq DOMAIN symbols'
    BY <1>1, <1>2
  <1>4. TypedTables'
    BY <1>1, <1>2, <1>3 DEF TypedTables
  <1>5. TypedRest'
    BY <1>1, <1>2 DEF TypedRest, entering, history
  <1>6. pc'[e] = "map" /\ pushed' = pushed /\ pushed[e] \in 1..Len(symbols) + 1
    BY <1>1, <1>2 DEF TypedRest, entering, Placed
  <1>7. Lined(e)'
    BY <1>1, <1>2, <1>6, EnteringLined
  <1>8. todo' = todo
    BY <1>2 DEF entering
  <1>9. Placed(e)'
    BY <1>1, <1>2, <1>3, <1>6, <1>8, OnPlaced DEF Having, Holding
  <1> QED
    BY <1>4, <1>5, <1>7, <1>9, TypeParts

LEMMA MapSymbolTypeInv ==
    ASSUME TypeInv, NEW e \in Evaluators, MapSymbol(e)
    PROVE  TypeOK' /\ Lined(e)' /\ Placed(e)'
  <1> DEFINE n == Head(todo[e]).name
  <1> USE DEF At, Goto, Entering
  <1>1. /\ TypedTables /\ TypedRest /\ Lined(e) /\ Placed(e) /\ pc[e] = "map"
        /\ n \in Names
    BY EnteringFacts DEF MapSymbol
  <1> HIDE DEF n
  <1>2. /\ UNCHANGED <<env, usings, symbols, objects, indices, counter, line, fresh, entering,
                       started, own, history>>
        /\ numbers' = Mapped(numbers, n, pushed[e])
        /\ pc' = [pc EXCEPT ![e] = "object"]
    BY DEF MapSymbol, n
  <1>3. pushed[e] \in DOMAIN symbols
    BY <1>1 DEF Placed, Having
  <1>4. /\ DOMAIN numbers' = DOMAIN numbers \cup {n}
        /\ numbers'[n] = pushed[e]
        /\ \A m \in DOMAIN numbers \ {n} : numbers'[m] = numbers[m]
    <2>1. numbers' = Mapped(numbers, n, pushed[e])
      BY <1>2
    <2> QED
      BY <2>1 DEF Mapped
  <1>5. TypedTables'
    BY <1>1, <1>2, <1>3, <1>4 DEF TypedTables
  <1>6. TypedRest'
    BY <1>1, <1>2 DEF TypedRest, entering, history
  <1>7. pc'[e] = "object" /\ pushed' = pushed /\ todo' = todo
    BY <1>1, <1>2 DEF TypedRest, entering
  <1>8. Lined(e)'
    BY <1>1, <1>2, <1>7, EnteringLined
  <1>9. n \in DOMAIN numbers' /\ pushed'[e] \in DOMAIN symbols'
    BY <1>2, <1>3, <1>4, <1>7
  <1>10. Placed(e)'
    BY <1>1, <1>2, <1>7, <1>9, OnPlaced DEF Having, Holding, n
  <1> QED
    BY <1>5, <1>6, <1>8, <1>10, TypeParts

LEMMA CountObjectTypeInv ==
    ASSUME TypeInv, NEW e \in Evaluators, CountObject(e)
    PROVE  TypeOK' /\ Lined(e)' /\ Placed(e)'
  <1> USE DEF At, Goto, Entering
  <1>1. TypedTables /\ TypedRest /\ Lined(e) /\ Placed(e) /\ pc[e] = "object"
    BY EnteringFacts DEF CountObject
  <1>2. UNCHANGED <<env, usings, tables, counter, line, fresh, pushed, started, own, history>>
    BY DEF CountObject
  <1>3. UNCHANGED <<symbols, numbers, objects, indices>> /\ pushed'[e] = pushed[e]
    BY <1>2 DEF tables
  <1>4. /\ pushed[e] \in DOMAIN symbols /\ Head(todo[e]).name \in DOMAIN numbers
        /\ pushed[e] \in DOMAIN indices =>
              indices[pushed[e]] \in DOMAIN objects /\ indices[pushed[e]] \in Nat
    BY <1>1 DEF Placed, Having, TypedTables
  <1>5. ASSUME pushed[e] \in DOMAIN indices, index' = [index EXCEPT ![e] = indices[pushed[e]]],
               Leave(e)
        PROVE  TypeOK' /\ Lined(e)' /\ Placed(e)'
    <2>1. index' \in [Evaluators -> Nat] /\ index'[e] \in DOMAIN objects'
      BY <1>1, <1>3, <1>4, <1>5 DEF TypedRest
    <2>2. Placed(e)' /\ pc'[e] \in {"symbol", "reduce", "idle"}
      BY <1>1, <1>2, <1>3, <1>5, <2>1, LeavePlaced
    <2>3. TypedRest'
      BY <1>1, <1>2, <1>3, <1>5, <2>1, LeavePlaced DEF TypedRest, history
    <2>4. Lined(e)'
      BY <1>1, <1>2, <2>2, EnteringLined
    <2> QED
      BY <1>1, <1>2, <2>2, <2>3, <2>4, TablesStay, TypeParts
  <1>6. ASSUME NEW there \in {"store", "again", "sizeobject"}, Goto(e, there), todo' = todo,
               there = "store" =>
                    /\ index' = [index EXCEPT ![e] = indices[pushed[e]]]
                    /\ pushed[e] \in DOMAIN indices,
               there # "store" => index' = index,
               there # "sizeobject" => Head(todo[e]).kind # "stub"
        PROVE  TypeOK' /\ Lined(e)' /\ Placed(e)'
    <2>1. index' \in [Evaluators -> Nat] /\ (there = "store" => index'[e] \in DOMAIN objects')
      BY <1>1, <1>3, <1>4, <1>6 DEF TypedRest
    <2>2. pc' = [pc EXCEPT ![e] = there] /\ pc'[e] = there
      BY <1>1, <1>6 DEF TypedRest
    <2>3. TypedRest'
      BY <1>1, <1>2, <1>6, <2>1, <2>2 DEF TypedRest, history
    <2>4. Lined(e)'
      BY <1>1, <1>2, <1>6, <2>2, EnteringLined
    <2>5. Placed(e)'
      BY <1>1, <1>2, <1>3, <1>4, <1>6, <2>1, <2>2, OnPlaced DEF Having, Holding
    <2> QED
      BY <1>1, <1>2, <2>3, <2>4, <2>5, TablesStay, TypeParts
  <1>7. CASE pushed[e] \in DOMAIN indices /\ Head(todo[e]).kind = "stub"
    BY <1>5, <1>7 DEF CountObject
  <1>8. CASE pushed[e] \in DOMAIN indices /\ Head(todo[e]).kind # "stub"
    BY <1>6, <1>8 DEF CountObject
  <1>9. CASE pushed[e] \notin DOMAIN indices
    BY <1>6, <1>9 DEF CountObject
  <1> QED
    BY <1>7, <1>8, <1>9

LEMMA CountAgainTypeInv ==
    ASSUME TypeInv, NEW e \in Evaluators, CountAgain(e)
    PROVE  TypeOK' /\ Lined(e)' /\ Placed(e)'
  <1> USE DEF At, Goto, Entering
  <1>1. TypedTables /\ TypedRest /\ Lined(e) /\ Placed(e) /\ pc[e] = "again"
    BY EnteringFacts DEF CountAgain
  <1>2. UNCHANGED <<env, usings, tables, counter, line, fresh, pushed, started, own, history>>
    BY DEF CountAgain
  <1>3. UNCHANGED <<symbols, numbers, objects, indices>> /\ pushed'[e] = pushed[e]
    BY <1>2 DEF tables
  <1>4. /\ pushed[e] \in DOMAIN symbols /\ Head(todo[e]).name \in DOMAIN numbers
        /\ pushed[e] \in DOMAIN indices =>
              indices[pushed[e]] \in DOMAIN objects /\ indices[pushed[e]] \in Nat
    BY <1>1 DEF Placed, Having, TypedTables
  <1>5. CASE pushed[e] \in DOMAIN indices
    <2>1. Leave(e) /\ index' = [index EXCEPT ![e] = indices[pushed[e]]]
      BY <1>5 DEF CountAgain
    <2>2. index' \in [Evaluators -> Nat] /\ index'[e] \in DOMAIN objects'
      BY <1>1, <1>3, <1>4, <1>5, <2>1 DEF TypedRest
    <2>3. Placed(e)' /\ pc'[e] \in {"symbol", "reduce", "idle"}
      BY <1>1, <1>2, <1>3, <2>1, <2>2, LeavePlaced
    <2>4. TypedRest'
      BY <1>1, <1>2, <1>3, <2>1, <2>2, LeavePlaced DEF TypedRest, history
    <2>5. Lined(e)'
      BY <1>1, <1>2, <2>3, EnteringLined
    <2> QED
      BY <1>1, <1>2, <2>3, <2>4, <2>5, TablesStay, TypeParts
  <1>6. CASE pushed[e] \notin DOMAIN indices
    <2>1. pc' = [pc EXCEPT ![e] = "sizeobject"] /\ pc'[e] = "sizeobject" /\ todo' = todo
          /\ index' = index
      BY <1>1, <1>6 DEF CountAgain, TypedRest
    <2>2. TypedRest'
      BY <1>1, <1>2, <2>1 DEF TypedRest, history
    <2>3. Lined(e)'
      BY <1>1, <1>2, <2>1, EnteringLined
    <2>4. Placed(e)'
      BY <1>1, <1>2, <1>3, <1>4, <2>1, OnPlaced DEF Having, Holding
    <2> QED
      BY <1>1, <1>2, <2>2, <2>3, <2>4, TablesStay, TypeParts
  <1> QED
    BY <1>5, <1>6

LEMMA SizeObjectsTypeInv ==
    ASSUME TypeInv, NEW e \in Evaluators, SizeObjects(e)
    PROVE  TypeOK' /\ Lined(e)' /\ Placed(e)'
  <1> USE DEF At, Goto, Entering
  <1>1. /\ TypedTables /\ TypedRest /\ Lined(e) /\ Placed(e) /\ pc[e] = "sizeobject"
        /\ Len(objects) \in Nat
    BY EnteringFacts DEF SizeObjects
  <1>2. /\ UNCHANGED <<env, usings, tables, counter, line, fresh, todo, pushed, started, own, drawn,
                       overlapped, grown, spoiled>>
        /\ index' = [index EXCEPT ![e] = Len(objects) + 1]
        /\ pc' = [pc EXCEPT ![e] = "pushobject"]
    BY DEF SizeObjects
  <1>3. clash' \in BOOLEAN
    BY <1>1 DEF SizeObjects, Clashes, TypedRest
  <1>4. Len(objects) + 1 \in Nat /\ Len(objects) + 1 \in 1..Len(objects) + 1
    BY <1>1
  <1>5. TypedRest'
    BY <1>1, <1>2, <1>3, <1>4 DEF TypedRest
  <1>6. /\ pc'[e] = "pushobject" /\ index'[e] = Len(objects) + 1
        /\ UNCHANGED <<symbols, numbers, objects>>
    BY <1>1, <1>2 DEF TypedRest, tables
  <1>7. Lined(e)'
    BY <1>1, <1>2, <1>6, EnteringLined
  <1>8. pushed[e] \in DOMAIN symbols /\ Head(todo[e]).name \in DOMAIN numbers
    BY <1>1 DEF Placed, Having
  <1>9. Placed(e)'
    BY <1>1, <1>2, <1>4, <1>6, <1>8, OnPlaced DEF Having, Holding
  <1> QED
    BY <1>1, <1>2, <1>5, <1>7, <1>9, TablesStay, TypeParts

\* The combinator that is entered.
LEMMA EnteredTyped ==
    ASSUME TypeInv, NEW e \in Evaluators, pc[e] \in {"pushobject", "store"}
    PROVE  /\ Entered(e) \in [symbol : Nat, kind : Kinds, line : Numbers]
           /\ Entered(e).symbol = pushed[e] /\ Entered(e).symbol \in DOMAIN symbols
           /\ Entered(e).kind = Head(todo[e]).kind
           /\ Entered(e).kind # "stub" => Entered(e).line = own[e]
  <1> DEFINE k == Head(todo[e]).kind
             j == IF k = "stub" THEN 0 ELSE own[e]
  <1>1. TypedRest /\ Placed(e) /\ k \in Kinds
    BY EnteringFacts DEF Entering
  <1>2. pushed[e] \in DOMAIN symbols /\ pushed[e] \in Nat
    BY <1>1 DEF Placed, Having, TypedRest
  <1>3. 0 \in Numbers
    BY LinesAssumption DEF Numbers
  <1>4. j \in Numbers
    BY <1>1, <1>3 DEF TypedRest
  <1>5. Entered(e) = [symbol |-> pushed[e], kind |-> k, line |-> j]
    BY DEF Entered, Object
  <1>6. k # "stub" => j = own[e]
    OBVIOUS
  <1> HIDE DEF k, j
  <1> QED
    BY <1>1, <1>2, <1>4, <1>5, <1>6 DEF k

LEMMA PushObjectTypeInv ==
    ASSUME TypeInv, NEW e \in Evaluators, PushObject(e)
    PROVE  TypeOK' /\ Lined(e)' /\ Placed(e)'
  <1> DEFINE o == Entered(e)
  <1> USE DEF At, Goto, Entering
  <1>1. /\ TypedTables /\ TypedRest /\ Lined(e) /\ Placed(e) /\ pc[e] = "pushobject"
        /\ Len(objects) \in Nat
    BY EnteringFacts DEF PushObject
  <1>2. o \in [symbol : Nat, kind : Kinds, line : Numbers] /\ o.symbol \in DOMAIN symbols
    BY <1>1, EnteredTyped
  <1> HIDE DEF o
  <1>3. /\ UNCHANGED <<env, usings, symbols, numbers, indices, counter, line, fresh, entering,
                       started, own, history>>
        /\ objects' = Append(objects, o)
        /\ pc' = [pc EXCEPT ![e] = "mapobject"]
    BY DEF PushObject, o
  <1>4. /\ objects' \in Seq([symbol : Nat, kind : Kinds, line : Numbers])
        /\ DOMAIN objects' = 1..Len(objects) + 1 /\ DOMAIN objects = 1..Len(objects)
        /\ objects'[Len(objects) + 1] = o
        /\ \A i \in DOMAIN objects : objects'[i] = objects[i]
    <2> DEFINE R == [symbol : Nat, kind : Kinds, line : Numbers]
    <2>1. objects \in Seq(R) /\ o \in R
      BY <1>1, <1>2 DEF TypedTables
    <2> HIDE DEF R
    <2>2. /\ objects' \in Seq(R)
          /\ DOMAIN objects' = 1..Len(objects) + 1 /\ DOMAIN objects = 1..Len(objects)
          /\ objects'[Len(objects) + 1] = o
          /\ \A i \in DOMAIN objects : objects'[i] = objects[i]
      BY <1>3, <2>1
    <2> QED
      BY <2>2 DEF R
  <1>5. \A i \in DOMAIN objects' : objects'[i].symbol \in DOMAIN symbols
    <2>1. \A i \in DOMAIN objects' : i \in DOMAIN objects \/ i = Len(objects) + 1
      BY <1>1, <1>4
    <2> QED
      BY <1>1, <1>2, <1>4, <2>1 DEF TypedTables
  <1>6. DOMAIN objects \subseteq DOMAIN objects'
    BY <1>1, <1>4
  <1>7. TypedTables'
    BY <1>1, <1>3, <1>4, <1>5, <1>6 DEF TypedTables
  <1>8. TypedRest'
    BY <1>1, <1>3 DEF TypedRest, entering, history
  <1>9. pc'[e] = "mapobject" /\ UNCHANGED <<pushed, index, todo>>
    BY <1>1, <1>3 DEF TypedRest, entering
  <1>10. Lined(e)'
    BY <1>1, <1>3, <1>9, EnteringLined
  <1>11. /\ pushed[e] \in DOMAIN symbols /\ Head(todo[e]).name \in DOMAIN numbers
         /\ index'[e] \in DOMAIN objects'
    BY <1>1, <1>4, <1>9 DEF Placed, Having
  <1>12. Placed(e)'
    BY <1>1, <1>3, <1>9, <1>11, OnPlaced DEF Having, Holding
  <1> QED
    BY <1>7, <1>8, <1>10, <1>12, TypeParts

LEMMA MapObjectTypeInv ==
    ASSUME TypeInv, NEW e \in Evaluators, MapObject(e)
    PROVE  TypeOK' /\ Lined(e)' /\ Placed(e)'
  <1> USE DEF At, Goto, Entering
  <1>1. TypedTables /\ TypedRest /\ Lined(e) /\ Placed(e) /\ pc[e] = "mapobject"
    BY EnteringFacts DEF MapObject
  <1>2. /\ UNCHANGED <<env, usings, symbols, numbers, objects, counter, line, fresh, pushed, index,
                       started, own, history>>
        /\ indices' = Mapped(indices, pushed[e], index[e])
        /\ Leave(e)
    BY DEF MapObject
  <1>3. pushed[e] \in DOMAIN symbols /\ index[e] \in DOMAIN objects
    BY <1>1 DEF Placed, Having, Holding
  <1>4. /\ DOMAIN indices' = DOMAIN indices \cup {pushed[e]}
        /\ indices'[pushed[e]] = index[e]
        /\ \A s \in DOMAIN indices \ {pushed[e]} : indices'[s] = indices[s]
    <2>1. indices' = Mapped(indices, pushed[e], index[e])
      BY <1>2
    <2> QED
      BY <2>1 DEF Mapped
  <1>5. TypedTables'
    BY <1>1, <1>2, <1>3, <1>4 DEF TypedTables
  <1>6. index'[e] \in DOMAIN objects' /\ pushed'[e] = pushed[e]
    BY <1>2, <1>3
  <1>7. Placed(e)' /\ pc'[e] \in {"symbol", "reduce", "idle"}
    BY <1>1, <1>2, <1>6, LeavePlaced
  <1>8. TypedRest'
    BY <1>1, <1>2, <1>6, LeavePlaced DEF TypedRest, history
  <1>9. Lined(e)'
    BY <1>1, <1>2, <1>7, EnteringLined
  <1> QED
    BY <1>5, <1>7, <1>8, <1>9, TypeParts

LEMMA StoreObjectTypeInv ==
    ASSUME TypeInv, NEW e \in Evaluators, StoreObject(e)
    PROVE  TypeOK' /\ Lined(e)' /\ Placed(e)'
  <1> DEFINE o == Entered(e)
  <1> USE DEF At, Goto, Entering
  <1>1. TypedTables /\ TypedRest /\ Lined(e) /\ Placed(e) /\ pc[e] = "store"
    BY EnteringFacts DEF StoreObject
  <1>2. o \in [symbol : Nat, kind : Kinds, line : Numbers] /\ o.symbol \in DOMAIN symbols
    BY <1>1, EnteredTyped
  <1> HIDE DEF o
  <1>3. /\ UNCHANGED <<env, usings, symbols, numbers, indices, counter, line, fresh, pushed, index,
                       started, own, history>>
        /\ objects' = [objects EXCEPT ![index[e]] = o]
        /\ Leave(e)
    BY DEF StoreObject, o
  <1>4. /\ objects' \in Seq([symbol : Nat, kind : Kinds, line : Numbers])
        /\ DOMAIN objects' = DOMAIN objects
        /\ \A i \in DOMAIN objects : objects'[i] \in {o, objects[i]}
    <2> DEFINE R == [symbol : Nat, kind : Kinds, line : Numbers]
    <2>1. objects \in Seq(R) /\ o \in R
      BY <1>1, <1>2 DEF TypedTables
    <2> HIDE DEF R
    <2>2. objects' = [objects EXCEPT ![index[e]] = o] /\ index[e] \in DOMAIN objects
      BY <1>1, <1>3 DEF Placed, Holding
    <2>3. objects' \in Seq(R) /\ DOMAIN objects' = DOMAIN objects
      BY <2>1, <2>2
    <2>4. \A i \in DOMAIN objects : objects'[i] = IF i = index[e] THEN o ELSE objects[i]
      BY <2>2
    <2> QED
      BY <2>3, <2>4 DEF R
  <1>5. TypedTables'
    BY <1>1, <1>2, <1>3, <1>4 DEF TypedTables
  <1>6. index'[e] \in DOMAIN objects' /\ pushed'[e] = pushed[e]
    BY <1>1, <1>3, <1>4 DEF Placed, Holding
  <1>7. Placed(e)' /\ pc'[e] \in {"symbol", "reduce", "idle"}
    BY <1>1, <1>3, <1>6, LeavePlaced
  <1>8. TypedRest'
    BY <1>1, <1>3, <1>6, LeavePlaced DEF TypedRest, history
  <1>9. Lined(e)'
    BY <1>1, <1>3, <1>7, EnteringLined
  <1> QED
    BY <1>5, <1>7, <1>8, <1>9, TypeParts

LEMMA ReduceTypeInv ==
    ASSUME TypeInv, NEW e \in Evaluators, Reduce(e)
    PROVE  TypeOK' /\ Lined(e)' /\ Placed(e)'
  <1> DEFINE x == Entry(Written(e), "value")
             s == objects[index[e]].symbol
  <1> USE DEF At, Goto
  <1>1. TypedTables /\ TypedRest /\ Lined(e) /\ Placed(e) /\ pc[e] = "reduce"
    BY TypeParts DEF TypeInv, Ready, Reduce
  <1>2. s \in DOMAIN symbols /\ s \in Nat
    BY <1>1 DEF TypedTables, Placed, Holding
  <1>3. Written(e) \in Names /\ Written(e) \in DOMAIN numbers
    BY <1>1 DEF TypedTables, Placed
  <1>4. x \in Entries /\ x.kind # "stub" /\ x.name = Written(e)
    BY <1>3 DEF Entries, Entry, Kinds
  <1> HIDE DEF x, s
  <1>5. <<x>> \in Seq(Entries) /\ <<x>> # <<>> /\ Head(<<x>>) = x /\ <<x>>[Len(<<x>>)] = x
    BY <1>4
  <1>6. UNCHANGED <<env, usings, tables, counter, line, fresh, index, started, own, history>>
    BY DEF Reduce
  <1>7. \/ /\ todo' = [todo EXCEPT ![e] = <<x>>] /\ pushed' = [pushed EXCEPT ![e] = s]
           /\ pc' = [pc EXCEPT ![e] = "object"]
        \/ UNCHANGED <<todo, pushed>> /\ pc' = [pc EXCEPT ![e] = "idle"]
    BY DEF Reduce, x, s
  <1>8. TypedRest'
    BY <1>1, <1>2, <1>5, <1>6, <1>7 DEF TypedRest, history
  <1>9. pc'[e] \in {"object", "idle"}
    BY <1>1, <1>7 DEF TypedRest
  <1>10. Lined(e)'
    BY <1>1, <1>6, <1>9, EnteringLined DEF Entering
  <1>11. Placed(e)'
    <2>1. CASE pc'[e] = "idle"
      <3>1. todo' = todo /\ todo[e] = <<>>
        BY <1>1, <1>7, <2>1 DEF TypedRest, Placed, Entering
      <3> QED
        BY <2>1, <3>1 DEF Placed, Entering, Having, Holding
    <2>2. CASE pc'[e] = "object"
      <3>1. todo'[e] = <<x>> /\ pushed'[e] = s
        BY <1>1, <1>7, <2>2 DEF TypedRest
      <3>2. UNCHANGED <<symbols, numbers, objects, line, fresh>>
        BY <1>6 DEF tables
      <3> QED
        BY <1>2, <1>3, <1>4, <1>5, <2>2, <3>1, <3>2
        DEF Placed, Entering, Having, Holding, Last, Written
    <2> QED
      BY <1>9, <2>1, <2>2
  <1> QED
    BY <1>1, <1>6, <1>8, <1>10, <1>11, TablesStay, TypeParts

LEMMA NextTypeInv ==
    ASSUME TypeInv, [Next]_vars
    PROVE  TypeInv'
  <1>1. ASSUME NEW e \in Evaluators, Step(e)
        PROVE  TypeInv'
    <2>1. TypeOK' /\ Lined(e)' /\ Placed(e)'
      BY <1>1, StartTypeInv, BeforeTypeInv, ImportTypeInv, IdentifyTypeInv, CountSymbolTypeInv,
         SizeSymbolsTypeInv, PushSymbolTypeInv, MapSymbolTypeInv, CountObjectTypeInv,
         CountAgainTypeInv, SizeObjectsTypeInv, PushObjectTypeInv, MapObjectTypeInv,
         StoreObjectTypeInv, ReduceTypeInv DEF Step
    <2>2. \A g \in Evaluators \ {e} : Lined(g)' /\ Placed(g)'
      BY <1>1, OthersReady
    <2> QED
      BY <2>1, <2>2 DEF TypeInv, Ready
  <1>2. CASE UNCHANGED vars
    BY <1>2 DEF vars, tables, entering, history, TypeInv, TypeOK, Ready, Lined, Placed, At, Last,
       Expression, Written
  <1> QED
    BY <1>1, <1>2 DEF Next

-----------------------------------------------------------------------------
\* The type of the state: what is in the maps is in the vectors, even when two
\* evaluators take the same place in one.
THEOREM TablesTyped == Spec => []TypeOK
  <1>1. Spec => []TypeInv
    BY InitTypeInv, NextTypeInv, PTL DEF Spec
  <1> QED
    BY <1>1, PTL DEF TypeInv

-----------------------------------------------------------------------------
(* What the tables hold together, as long as no two evaluators have taken  *)
(* the size of a table before either has put something at its end: then    *)
(* the size is that of the table until its evaluator uses it.              *)

Settled(e) ==
    /\ At(e, "push") =>
          /\ pushed[e] = Len(symbols) + 1
          /\ \A f \in Evaluators \ {e} : ~At(f, "push")
    /\ pc[e] \in Having => symbols[pushed[e]] = Head(todo[e]).name
    /\ At(e, "pushobject") =>
          /\ index[e] = Len(objects) + 1
          /\ \A f \in Evaluators \ {e} : ~At(f, "pushobject")
    /\ pc[e] \in Holding => objects[index[e]].symbol = pushed[e]
    /\ At(e, "reduce") => symbols[pushed[e]] = Written(e)

Consistent == TablesConsistent /\ \A e \in Evaluators : Settled(e)
NameInv == TypeInv /\ (~clash => Consistent)

\* Who takes a size, and that what has clashed has.
LEMMA StepSizes ==
    ASSUME TypeOK, NEW e \in Evaluators, Step(e)
    PROVE  /\ pc'[e] = "push" => SizeSymbols(e)
           /\ pc'[e] = "pushobject" => SizeObjects(e)
           /\ ~clash' => ~clash
  <1> USE DEF TypeOK, At, Goto, Leave, entering, history
  <1>1. ASSUME NEW l \in Lines, Start(e, l)
        PROVE  pc'[e] \notin {"push", "pushobject"} /\ clash' = clash
    BY <1>1 DEF Start, First
  <1>2. ASSUME \/ PushUsing(e) \/ CheckUsing(e) \/ Import(e) \/ ReadCounter(e) \/ Increment(e)
               \/ Redeclare(e) \/ Identify(e)
        PROVE  pc'[e] \notin {"push", "pushobject"} /\ clash' = clash
    BY <1>2 DEF PushUsing, CheckUsing, Import, ReadCounter, Increment, Redeclare, Identify
  <1>3. ASSUME CountSymbol(e) \/ PushSymbol(e) \/ MapSymbol(e)
        PROVE  pc'[e] \notin {"push", "pushobject"} /\ clash' = clash
    BY <1>3 DEF CountSymbol, PushSymbol, MapSymbol
  <1>4. ASSUME CountObject(e) \/ CountAgain(e)
        PROVE  pc'[e] \notin {"push", "pushobject"} /\ clash' = clash
    BY <1>4 DEF CountObject, CountAgain
  <1>5. ASSUME PushObject(e) \/ MapObject(e) \/ StoreObject(e) \/ Reduce(e)
        PROVE  pc'[e] \notin {"push", "pushobject"} /\ clash' = clash
    BY <1>5 DEF PushObject, MapObject, StoreObject, Reduce
  <1>6. SizeSymbols(e) => pc'[e] = "push" /\ (clash => clash')
    BY DEF SizeSymbols, Clashes
  <1>7. SizeObjects(e) => pc'[e] = "pushobject" /\ (clash => clash')
    BY DEF SizeObjects, Clashes
  <1> QED
    BY <1>1, <1>2, <1>3, <1>4, <1>5, <1>6, <1>7 DEF Step

\* Objects keep their symbols.
LEMMA ObjectsKept ==
    ASSUME TypeInv, Consistent, NEW e \in Evaluators, Step(e), NEW i \in DOMAIN objects
    PROVE  i \in DOMAIN objects' /\ objects'[i].symbol = objects[i].symbol
  <1>1. i \in DOMAIN objects'
    BY StepGrows DEF TypeInv
  <1>2. CASE UNCHANGED objects
    BY <1>1, <1>2
  <1>3. CASE PushObject(e)
    <2> DEFINE o == Entered(e)
    <2>1. objects' = Append(objects, o)
      BY <1>3 DEF PushObject
    <2> HIDE DEF o
    <2>2. PICK S : objects \in Seq(S)
      BY DEF TypeInv, TypeOK
    <2>3. objects \in Seq(S \cup {o}) /\ o \in S \cup {o}
      BY <2>2
    <2>4. objects'[i] = objects[i]
      BY <2>1, <2>3
    <2> QED
      BY <1>1, <2>4
  <1>4. CASE StoreObject(e)
    <2> DEFINE o == Entered(e)
    <2>1. o.symbol = pushed[e] /\ objects[index[e]].symbol = pushed[e]
      BY <1>4, EnteredTyped DEF StoreObject, At, Consistent, Settled, Holding
    <2>2. objects' = [objects EXCEPT ![index[e]] = o]
      BY <1>4 DEF StoreObject
    <2> HIDE DEF o
    <2> QED
      BY <1>1, <2>1, <2>2
  <1>5. UNCHANGED objects \/ PushObject(e) \/ StoreObject(e)
    BY StepTables DEF tables, PushSymbol, MapSymbol, MapObject
  <1> QED
    BY <1>2, <1>3, <1>4, <1>5

LEMMA StepConsistent ==
    ASSUME TypeInv, Consistent, NEW e \in Evaluators, Step(e)
    PROVE  TablesConsistent'
  <1>1. /\ TypedTables /\ TablesConsistent /\ Settled(e) /\ Placed(e)
        /\ \A i \in DOMAIN symbols : i \in DOMAIN symbols' /\ symbols'[i] = symbols[i]
        /\ \A i \in DOMAIN objects : i \in DOMAIN objects' /\ objects'[i].symbol = objects[i].symbol
    BY TypeParts, StepGrows, ObjectsKept DEF TypeInv, Consistent, Ready
  <1>2. CASE UNCHANGED tables
    BY <1>1, <1>2 DEF tables, TablesConsistent
  <1>3. CASE PushSymbol(e)
    BY <1>1, <1>3 DEF PushSymbol, TablesConsistent, TypedTables
  <1>4. CASE MapSymbol(e)
    <2> DEFINE n == Head(todo[e]).name
    <2>1. /\ numbers' = Mapped(numbers, n, pushed[e]) /\ UNCHANGED <<symbols, objects, indices>>
          /\ symbols[pushed[e]] = n
      BY <1>1, <1>4 DEF MapSymbol, Settled, Having, At
    <2> HIDE DEF n
    <2>2. /\ DOMAIN numbers' = DOMAIN numbers \cup {n} /\ numbers'[n] = pushed[e]
          /\ \A m \in DOMAIN numbers \ {n} : numbers'[m] = numbers[m]
      BY <2>1 DEF Mapped
    <2> QED
      BY <1>1, <2>1, <2>2 DEF TablesConsistent
  <1>5. CASE PushObject(e) \/ StoreObject(e)
    <2>1. UNCHANGED <<symbols, numbers, indices>>
      BY <1>5 DEF PushObject, StoreObject
    <2> QED
      BY <1>1, <2>1 DEF TablesConsistent, TypedTables
  <1>6. CASE MapObject(e)
    <2>1. /\ indices' = Mapped(indices, pushed[e], index[e]) /\ UNCHANGED <<symbols, numbers, objects>>
          /\ objects[index[e]].symbol = pushed[e]
      BY <1>1, <1>6 DEF MapObject, Settled, Holding, At
    <2>2. /\ DOMAIN indices' = DOMAIN indices \cup {pushed[e]} /\ indices'[pushed[e]] = index[e]
          /\ \A s \in DOMAIN indices \ {pushed[e]} : indices'[s] = indices[s]
      BY <2>1 DEF Mapped
    <2> QED
      BY <1>1, <2>1, <2>2 DEF TablesConsistent
  <1> QED
    BY <1>2, <1>3, <1>4, <1>5, <1>6, StepTables

LEMMA OthersSettled ==
    ASSUME TypeInv, Consistent, NEW e \in Evaluators, Step(e), ~clash',
           NEW g \in Evaluators \ {e}
    PROVE  Settled(g)'
  <1> USE DEF At
  <1>1. UNCHANGED <<pc[g], line[g], fresh[g], todo[g], pushed[g], index[g]>>
    BY StepOthers DEF TypeInv
  <1>2. \A f \in Evaluators \ {e} : pc'[f] = pc[f]
    BY StepOthers DEF TypeInv
  <1>3. Settled(g) /\ Placed(g)
    BY DEF Consistent, TypeInv, Ready
  <1>4. pc[g] = "push" => symbols' = symbols /\ pc'[e] # "push"
    <2>1. pc[g] = "push" => pc[e] # "push"
      BY DEF Consistent, Settled
    <2>2. SizeSymbols(e) => pc[g] # "push"
      BY DEF SizeSymbols, Clashes
    <2>3. pc[e] # "push" => symbols' = symbols
      BY StepTables DEF tables, PushSymbol, MapSymbol, PushObject, MapObject, StoreObject
    <2> QED
      BY <2>1, <2>2, <2>3, StepSizes DEF TypeInv
  <1>5. pc[g] = "pushobject" => Len(objects') = Len(objects) /\ pc'[e] # "pushobject"
    <2>1. pc[g] = "pushobject" => pc[e] # "pushobject"
      BY DEF Consistent, Settled
    <2>2. SizeObjects(e) => pc[g] # "pushobject"
      BY DEF SizeObjects, Clashes
    <2>3. pc[e] # "pushobject" => objects' = objects \/ StoreObject(e)
      BY StepTables DEF tables, PushSymbol, MapSymbol, PushObject, MapObject
    <2>4. StoreObject(e) => Len(objects') = Len(objects)
      <3> DEFINE o == Entered(e)
      <3> HIDE DEF o
      <3>1. StoreObject(e) => objects' = [objects EXCEPT ![index[e]] = o]
        BY DEF StoreObject, o
      <3>2. \E S : objects \in Seq(S)
        BY DEF TypeInv, TypeOK
      <3> QED
        BY <3>1, <3>2
    <2> QED
      BY <2>1, <2>2, <2>3, <2>4, StepSizes DEF TypeInv
  <1>6. /\ \A i \in DOMAIN symbols : symbols'[i] = symbols[i]
        /\ \A i \in DOMAIN objects : objects'[i].symbol = objects[i].symbol
    BY StepGrows, ObjectsKept DEF TypeInv
  <1>7. (pc[g] = "push" => pushed[g] = Len(symbols) + 1 /\ \A f \in Evaluators \ {g} : pc[f] # "push")'
    BY <1>1, <1>2, <1>3, <1>4 DEF Settled
  <1>8. (pc[g] = "pushobject" =>
            index[g] = Len(objects) + 1 /\ \A f \in Evaluators \ {g} : pc[f] # "pushobject")'
    BY <1>1, <1>2, <1>3, <1>5 DEF Settled
  <1>9. (pc[g] \in Having => symbols[pushed[g]] = Head(todo[g]).name)'
    BY <1>1, <1>3, <1>6 DEF Settled, Placed
  <1>10. (pc[g] \in Holding => objects[index[g]].symbol = pushed[g])'
    BY <1>1, <1>3, <1>6 DEF Settled, Placed
  <1>11. (pc[g] = "reduce" => symbols[pushed[g]] = Written(g))'
    BY <1>1, <1>3, <1>6 DEF Settled, Placed, Written
  <1> QED
    BY <1>7, <1>8, <1>9, <1>10, <1>11 DEF Settled

\* An evaluator that leaves an entry, with what is to be reduced at the end.
LEMMA LeaveSettled ==
    ASSUME TypeInv, NEW e \in Evaluators, Leave(e), UNCHANGED <<line, fresh>>,
           pc[e] \in {"object", "again", "mapobject", "store"},
           pushed'[e] = pushed[e], symbols' = symbols, Settled(e),
           objects'[index'[e]].symbol = pushed[e]
    PROVE  Settled(e)'
  <1> USE DEF At, Goto
  <1>1. TypedRest /\ Placed(e) /\ todo[e] \in Seq(Entries) /\ todo[e] # <<>>
    BY EnteringFacts DEF Entering
  <1>2. /\ Head(todo[e]) = todo[e][1]
        /\ Len(todo[e]) > 1 \/ Len(todo[e]) = 1
    BY <1>1, Rest
  <1>3. /\ pc'[e] \in {"symbol", "reduce", "idle"}
        /\ pc'[e] = "reduce" => Len(todo[e]) = 1 /\ Head(todo[e]).kind = "stub"
    BY <1>1, <1>2 DEF Leave, TypedRest
  <1>4. pc'[e] = "reduce" => Head(todo[e]).name = Written(e)
    BY <1>1, <1>2, <1>3 DEF Placed, Last, Entering
  <1>5. symbols[pushed[e]] = Head(todo[e]).name /\ Written(e)' = Written(e)
    BY DEF Settled, Having, Written
  <1> QED
    BY <1>3, <1>4, <1>5 DEF Settled, Having, Holding

LEMMA OwnSettled ==
    ASSUME TypeInv, Consistent, NEW e \in Evaluators, Step(e), ~clash'
    PROVE  Settled(e)'
  <1> USE DEF At, Goto
  <1>1. TypeOK /\ TypedTables /\ TypedRest /\ TablesConsistent /\ Settled(e) /\ Placed(e)
    BY TypeParts DEF Consistent, TypeInv, Ready
  <1>2. \A f \in Evaluators \ {e} : pc'[f] = pc[f]
    BY StepOthers DEF TypeInv
  <1>3. ASSUME pc'[e] \notin Having \cup Holding \cup {"push", "pushobject"}
        PROVE  Settled(e)'
    BY <1>3 DEF Settled, Holding
  <1>4. CASE CountSymbol(e)
    <2> DEFINE n == Head(todo[e]).name
    <2>1. /\ pc'[e] \in {"size", "object"} /\ UNCHANGED <<symbols, todo>>
          /\ pc'[e] = "object" => n \in DOMAIN numbers /\ pushed'[e] = numbers[n]
      BY <1>1, <1>4 DEF CountSymbol, TypedRest, tables
    <2>2. n \in DOMAIN numbers => symbols[numbers[n]] = n
      BY <1>1 DEF TablesConsistent
    <2> QED
      BY <2>1, <2>2 DEF Settled, Having, Holding
  <1>5. CASE SizeSymbols(e)
    <2>1. /\ pc'[e] = "push" /\ symbols' = symbols /\ pushed'[e] = Len(symbols) + 1
          /\ \A f \in Evaluators \ {e} : pc[f] # "push"
      BY <1>1, <1>5 DEF SizeSymbols, Clashes, TypedRest, tables
    <2> QED
      BY <1>2, <2>1 DEF Settled, Having, Holding
  <1>6. CASE PushSymbol(e)
    <2> DEFINE n == Head(todo[e]).name
    <2>1. /\ pc'[e] = "map" /\ symbols' = Append(symbols, n) /\ UNCHANGED <<pushed, todo>>
          /\ pushed[e] = Len(symbols) + 1 /\ symbols \in Seq(Names) /\ n \in Names
      BY <1>1, <1>6, EnteringFacts DEF PushSymbol, TypedRest, entering, Settled, Entering
    <2> HIDE DEF n
    <2>2. symbols'[pushed[e]] = n
      BY <2>1
    <2> QED
      BY <2>1, <2>2 DEF Settled, Having, Holding, n
  <1>7. CASE MapSymbol(e)
    <2>1. /\ pc'[e] = "object" /\ UNCHANGED <<symbols, pushed, todo>> /\ pc[e] = "map"
      BY <1>1, <1>7 DEF MapSymbol, TypedRest, entering
    <2> QED
      BY <1>1, <2>1 DEF Settled, Having, Holding
  <1>8. CASE CountObject(e)
    <2>1. /\ UNCHANGED <<symbols, objects, line, fresh>> /\ pushed'[e] = pushed[e]
          /\ pc[e] = "object"
      BY <1>8 DEF CountObject, tables
    <2>2. CASE pushed[e] \in DOMAIN indices
      <3>1. index'[e] = indices[pushed[e]] /\ objects[indices[pushed[e]]].symbol = pushed[e]
        BY <1>1, <1>8, <2>2 DEF CountObject, TablesConsistent, TypedRest
      <3>2. CASE Leave(e)
        BY <1>1, <2>1, <3>1, <3>2, LeaveSettled
      <3>3. CASE pc' = [pc EXCEPT ![e] = "store"] /\ todo' = todo
        <4>1. pc'[e] = "store"
          BY <1>1, <3>3 DEF TypedRest
        <4> QED
          BY <1>1, <2>1, <3>1, <3>3, <4>1 DEF Settled, Having, Holding
      <3> QED
        BY <1>8, <2>2, <3>2, <3>3 DEF CountObject
    <2>3. CASE pushed[e] \notin DOMAIN indices
      <3>1. pc'[e] \in {"sizeobject", "again"} /\ todo' = todo
        BY <1>1, <1>8, <2>3 DEF CountObject, TypedRest
      <3> QED
        BY <1>1, <2>1, <3>1 DEF Settled, Having, Holding
    <2> QED
      BY <2>2, <2>3
  <1>9. CASE CountAgain(e)
    <2>1. /\ UNCHANGED <<symbols, objects, line, fresh>> /\ pushed'[e] = pushed[e]
          /\ pc[e] = "again"
      BY <1>9 DEF CountAgain, tables
    <2>2. CASE pushed[e] \in DOMAIN indices
      <3>1. /\ index'[e] = indices[pushed[e]] /\ objects[indices[pushed[e]]].symbol = pushed[e]
            /\ Leave(e)
        BY <1>1, <1>9, <2>2 DEF CountAgain, TablesConsistent, TypedRest
      <3> QED
        BY <1>1, <2>1, <3>1, LeaveSettled
    <2>3. CASE pushed[e] \notin DOMAIN indices
      <3>1. pc'[e] = "sizeobject" /\ todo' = todo
        BY <1>1, <1>9, <2>3 DEF CountAgain, TypedRest
      <3> QED
        BY <1>1, <2>1, <3>1 DEF Settled, Having, Holding
    <2> QED
      BY <2>2, <2>3
  <1>10. CASE SizeObjects(e)
    <2>1. /\ pc'[e] = "pushobject" /\ UNCHANGED <<symbols, objects, todo, pushed>>
          /\ index'[e] = Len(objects) + 1 /\ pc[e] = "sizeobject"
          /\ \A f \in Evaluators \ {e} : pc[f] # "pushobject"
      BY <1>1, <1>10 DEF SizeObjects, Clashes, TypedRest, tables
    <2> QED
      BY <1>1, <1>2, <2>1 DEF Settled, Having, Holding
  <1>11. CASE PushObject(e)
    <2> DEFINE o == Entered(e)
    <2>1. /\ pc'[e] = "mapobject" /\ objects' = Append(objects, o)
          /\ UNCHANGED <<symbols, pushed, index, todo>> /\ pc[e] = "pushobject"
          /\ index[e] = Len(objects) + 1 /\ o.symbol = pushed[e]
      BY <1>1, <1>11, EnteredTyped DEF PushObject, TypedRest, entering, Settled
    <2> HIDE DEF o
    <2>2. objects'[index[e]] = o
      <3>1. PICK S : objects \in Seq(S)
        BY <1>1 DEF TypedTables
      <3>2. objects \in Seq(S \cup {o}) /\ o \in S \cup {o}
        BY <3>1
      <3> QED
        BY <2>1, <3>2
    <2> QED
      BY <1>1, <2>1, <2>2 DEF Settled, Having, Holding
  <1>12. CASE MapObject(e)
    <2>1. /\ UNCHANGED <<symbols, objects, line, fresh, pushed, index>> /\ Leave(e)
          /\ pc[e] = "mapobject"
      BY <1>12 DEF MapObject
    <2>2. objects'[index'[e]].symbol = pushed[e]
      BY <1>1, <2>1 DEF Settled, Holding
    <2> QED
      BY <1>1, <2>1, <2>2, LeaveSettled
  <1>13. CASE StoreObject(e)
    <2>1. /\ UNCHANGED <<symbols, line, fresh, pushed, index>> /\ Leave(e)
          /\ pc[e] = "store"
      BY <1>13 DEF StoreObject
    <2>2. index[e] \in DOMAIN objects /\ objects[index[e]].symbol = pushed[e]
      BY <1>1, <2>1 DEF Settled, Placed, Holding
    <2>3. objects'[index'[e]].symbol = pushed[e]
      BY <2>1, <2>2, ObjectsKept
    <2> QED
      BY <1>1, <2>1, <2>3, LeaveSettled
  <1>14. CASE Reduce(e)
    <2>1. /\ UNCHANGED <<symbols, objects, line, fresh, index>> /\ pc[e] = "reduce"
          /\ pc'[e] \in {"object", "idle"}
          /\ pc'[e] = "object" =>
                /\ todo'[e] = <<Entry(Written(e), "value")>>
                /\ pushed'[e] = objects[index[e]].symbol
      BY <1>1, <1>14 DEF Reduce, TypedRest, tables
    <2>2. objects[index[e]].symbol = pushed[e] /\ symbols[pushed[e]] = Written(e)
      BY <1>1, <2>1 DEF Settled, Holding
    <2>3. Head(<<Entry(Written(e), "value")>>).name = Written(e)
      BY DEF Entry
    <2> QED
      BY <2>1, <2>2, <2>3 DEF Settled, Having, Holding
  <1>15. ASSUME NEW l \in Lines, Start(e, l)
         PROVE  Settled(e)'
    BY <1>1, <1>3, <1>15 DEF Start, First, TypedRest, Having, Holding
  <1>16. CASE PushUsing(e) \/ CheckUsing(e) \/ Import(e) \/ ReadCounter(e) \/ Increment(e)
                \/ Redeclare(e) \/ Identify(e)
    <2>1. pc'[e] \notin Having \cup Holding \cup {"push", "pushobject"}
      BY <1>1, <1>16 DEF PushUsing, CheckUsing, Import, ReadCounter, Increment, Redeclare, Identify,
                         TypedRest, Having, Holding
    <2> QED
      BY <1>3, <2>1
  <1> QED
    BY <1>4, <1>5, <1>6, <1>7, <1>8, <1>9, <1>10, <1>11, <1>12, <1>13, <1>14, <1>15, <1>16 DEF Step

LEMMA InitNameInv == Init => NameInv
  BY InitTypeInv DEF Init, NameInv, Consistent, TablesConsistent, Settled, At, Having, Holding

LEMMA NextNameInv ==
    ASSUME NameInv, [Next]_vars
    PROVE  NameInv'
  <1>1. TypeInv'
    BY NextTypeInv DEF NameInv
  <1>2. ASSUME NEW e \in Evaluators, Step(e), ~clash'
        PROVE  Consistent'
    <2>1. Consistent /\ TypeInv
      BY <1>2, StepSizes DEF NameInv, TypeInv
    <2>2. TablesConsistent'
      BY <1>2, <2>1, StepConsistent
    <2>3. ASSUME NEW g \in Evaluators PROVE Settled(g)'
      BY <1>2, <2>1, OwnSettled, OthersSettled
    <2> QED
      BY <2>2, <2>3 DEF Consistent
  <1>3. CASE UNCHANGED vars
    <2>1. Consistent => Consistent'
      BY <1>3 DEF vars, tables, entering, history, Consistent, TablesConsistent, Settled, At,
                  Having, Holding, Written
    <2> QED
      BY <1>1, <1>3, <2>1 DEF NameInv, vars, history
  <1> QED
    BY <1>1, <1>2, <1>3 DEF Next, NameInv

\* However lines are interleaved, a name leads to its object as long as no
\* two evaluators have taken the size of a table at the same time
\* (machine.hpp:59, 115).
THEOREM TablesKept == Spec => []TablesAgree
  <1>1. NameInv => TablesAgree
    BY DEF NameInv, Consistent, TablesAgree
  <1> QED
    BY <1>1, InitNameInv, NextNameInv, PTL DEF Spec

\* The index of an object is in the code that mentions it: whatever is
\* defined again is so at its index (machine.hpp:132), as long as no two
\* evaluators have taken the size of a table at the same time.
THEOREM IndicesKept == Spec => IndexKept
  <1>1. NameInv /\ [Next]_vars =>
            [~clash' => \A i \in DOMAIN objects :
                i \in DOMAIN objects' /\ objects'[i].symbol = objects[i].symbol]_vars
    <2> SUFFICES ASSUME NameInv, NEW e \in Evaluators, Step(e), ~clash', NEW i \in DOMAIN objects
                 PROVE  i \in DOMAIN objects' /\ objects'[i].symbol = objects[i].symbol
      BY DEF Next
    <2>1. TypeInv /\ Consistent
      BY StepSizes DEF NameInv, TypeInv
    <2> QED
      BY <2>1, ObjectsKept
  <1> QED
    BY <1>1, InitNameInv, NextNameInv, PTL DEF Spec, IndexKept

-----------------------------------------------------------------------------
\* A number that was drawn is below the counter, or yet to be counted.
Counting ==
    \A e \in Evaluators :
        fresh[e] <= counter /\ (~At(e, "increment") => fresh[e] < counter)

\* The steps that draw no number, and those that do.
LEMMA Drawing ==
    ASSUME TypeInv, NEW e \in Evaluators, Step(e)
    PROVE  /\ \A f \in Evaluators \ {e} : pc'[f] = pc[f]
           /\ \/ ReadCounter(e)
              \/ Increment(e)
              \/ UNCHANGED <<fresh, counter, drawn>> /\ ~At(e, "increment") /\ ~At(e, "fresh")
  <1> USE DEF At, Goto
  <1>1. \A f \in Evaluators \ {e} : pc'[f] = pc[f]
    BY StepOthers DEF TypeInv
  <1>2. \/ ReadCounter(e)
        \/ Increment(e)
        \/ UNCHANGED <<fresh, counter, drawn>> /\ ~At(e, "increment") /\ ~At(e, "fresh")
    BY DEF Step, Start, PushUsing, CheckUsing, Import, Redeclare, Identify, CountSymbol, SizeSymbols,
           PushSymbol, MapSymbol, CountObject, CountAgain, SizeObjects, PushObject, MapObject,
           StoreObject, Reduce, history
  <1> QED
    BY <1>1, <1>2

LEMMA NextCounting ==
    ASSUME TypeInv, Counting, [Next]_vars
    PROVE  Counting'
  <1> USE DEF At, Goto
  <1>1. ASSUME NEW e \in Evaluators, ReadCounter(e)
        PROVE  Counting'
    BY <1>1 DEF ReadCounter, Counting, TypeInv, TypeOK
  <1>2. ASSUME NEW e \in Evaluators, Increment(e)
        PROVE  Counting'
    <2>1. counter' = counter + 1 /\ fresh' = fresh
      BY <1>2 DEF Increment
    <2>2. \A f \in Evaluators : fresh[f] <= counter /\ fresh[f] \in Int /\ counter \in Int
      BY DEF Counting, TypeInv, TypeOK
    <2> QED
      BY <2>1, <2>2 DEF Counting
  <1>3. ASSUME NEW e \in Evaluators, Step(e), UNCHANGED <<fresh, counter>>, ~At(e, "increment")
        PROVE  Counting'
    <2>1. \A f \in Evaluators \ {e} : pc'[f] = pc[f]
      BY <1>3, Drawing
    <2> QED
      BY <1>3, <2>1 DEF Counting
  <1>4. CASE UNCHANGED vars
    BY <1>4 DEF vars, Counting
  <1> QED
    BY <1>1, <1>2, <1>3, <1>4, Drawing DEF Next

\* A number that was drawn and counted is never drawn again (eval.hpp:312).
THEOREM NumbersFresh == Spec => FreshLater
  <1> DEFINE A == \A e, f \in Evaluators :
                    At(e, "fresh") /\ pc'[e] = "increment" /\ ~At(f, "increment") =>
                        fresh'[e] # fresh[f]
  <1>1. Init => TypeInv /\ Counting
    BY InitTypeInv DEF Init, Counting, At
  <1>2. TypeInv /\ Counting /\ [Next]_vars => TypeInv' /\ Counting'
    BY NextTypeInv, NextCounting
  <1>3. TypeInv /\ Counting /\ [Next]_vars => [A]_vars
    <2> SUFFICES ASSUME TypeInv, Counting, NEW d \in Evaluators, Step(d)
                 PROVE  A
      BY DEF Next
    <2> SUFFICES ASSUME NEW e \in Evaluators, NEW f \in Evaluators,
                        At(e, "fresh"), pc'[e] = "increment", ~At(f, "increment")
                 PROVE  fresh'[e] # fresh[f]
      OBVIOUS
    <2>1. d = e /\ ReadCounter(e)
      BY Drawing DEF At, Increment
    <2>2. fresh'[e] = counter
      BY <2>1 DEF ReadCounter, TypeInv, TypeOK
    <2>3. fresh[f] < counter /\ fresh[f] \in Nat \cup {-1} /\ counter \in Nat
      BY DEF Counting, TypeInv, TypeOK
    <2> QED
      BY <2>2, <2>3
  <1>4. Spec => [](TypeInv /\ Counting)
    BY <1>1, <1>2, PTL DEF Spec
  <1> QED
    BY <1>3, <1>4, PTL DEF Spec, FreshLater

-----------------------------------------------------------------------------
(* Why an evaluator reduces its own expression: as long as it shares its   *)
(* number with nobody, no one else enters or defines its name.             *)

\* The names of expressions that an evaluator enters are that of its own:
\* with its combinator first, and then to look it up.
Claims(e) ==
    /\ pc[e] \notin {"idle", "fresh"} /\ Expression(e) => <<fresh[e], e>> \in drawn
    /\ \A i \in 1..Len(todo[e]) :
        todo[e][i].name \in DummyNames => Expression(e) /\ todo[e][i].name = DummyName(e)
    /\ Expression(e) /\ pc[e] \in Entering =>
        /\ Last(e) = Entry(DummyName(e), "stub")
        /\ Len(todo[e]) > 1 => todo[e][Len(todo[e]) - 1] = Entry(DummyName(e), "code")
        /\ Len(todo[e]) \in 1..3
        /\ Len(todo[e]) = 3 => todo[e][1].name \notin DummyNames

\* What an evaluator with a number of its own has in the tables: the number
\* of its name, the combinator it is about to put there, and the one it has
\* put there.
Numbered(e) ==
    pc[e] \in Having \ {"map"} /\ Head(todo[e]).name = DummyName(e) =>
        numbers[DummyName(e)] = pushed[e]

Making(e) ==
    Head(todo[e]) = Entry(DummyName(e), "code") =>
        /\ pc[e] \in {"again", "sizeobject", "pushobject", "mapobject"} =>
              pushed[e] \notin DOMAIN indices
        /\ At(e, "mapobject") => objects[index[e]] = Object(pushed[e], "code", own[e])
        /\ At(e, "store") => pushed[e] \in DOMAIN indices /\ indices[pushed[e]] = index[e]

Made(e) ==
    (pc[e] \in Entering /\ Len(todo[e]) = 1) \/ At(e, "reduce") =>
        LET n == DummyName(e) IN
        /\ n \in DOMAIN numbers /\ numbers[n] \in DOMAIN indices
        /\ objects[indices[numbers[n]]].kind = "code"
        /\ objects[indices[numbers[n]]].line = own[e]
        /\ pc[e] \in {"symbol", "object", "reduce"}
        /\ At(e, "reduce") => index[e] = indices[numbers[n]]

Owns(e) == ~clash /\ Expression(e) /\ Alone(e) => Numbered(e) /\ Making(e) /\ Made(e)

Inv == NameInv /\ \A e \in Evaluators : Claims(e) /\ Owns(e)

LEMMA GlobalsApart == \A n \in GlobalNames : n \notin DummyNames
  BY LinesAssumption DEF GlobalNames, DummyNames

\* The claims of the others are theirs.
LEMMA OthersClaim ==
    ASSUME TypeInv, NEW e \in Evaluators, NEW g \in Evaluators \ {e}, Step(e)
    PROVE  /\ drawn \subseteq drawn'
           /\ Alone(g)' => Alone(g)
           /\ Claims(g) => Claims(g)'
  <1>1. UNCHANGED <<pc[g], line[g], fresh[g], todo[g], pushed[g], index[g], own[g]>>
    BY StepOthers DEF TypeInv
  <1>2. drawn \subseteq drawn'
    BY Drawing DEF ReadCounter, Increment, history
  <1>3. Alone(g)' => Alone(g)
    BY <1>1, <1>2 DEF Alone
  <1>4. Claims(g) => Claims(g)'
    BY <1>1, <1>2 DEF Claims, Expression, DummyName, At, Last
  <1> QED
    BY <1>2, <1>3, <1>4

\* What a line enters is what its evaluator claims.
LEMMA IdentifiedClaims ==
    ASSUME TypeInv, NEW e \in Evaluators, Identify(e), Identifies(e)
    PROVE  LET t == todo'[e] IN
           /\ \A i \in 1..Len(t) :
                t[i].name \in DummyNames => Expression(e) /\ t[i].name = DummyName(e)
           /\ Expression(e) =>
                /\ t[Len(t)] = Entry(DummyName(e), "stub")
                /\ Len(t) > 1 /\ t[Len(t) - 1] = Entry(DummyName(e), "code")
                /\ Len(t) \in 1..3
                /\ Len(t) = 3 => t[1].name \notin DummyNames
  <1> DEFINE t == todo'[e]
             p == Mentioned(e)
             q == LookedUp(e)
             w == Entry(Written(e), "stub")
  <1>1. TypedRest /\ At(e, "identify")
    BY TypeParts DEF TypeInv, Identify
  <1>2. /\ Written(e) \in Names
        /\ Expression(e) => Written(e) = DummyName(e)
        /\ ~Expression(e) => Written(e) \in GlobalNames
    BY <1>1, WrittenName DEF At
  <1>3. PICK k \in {"code", "data"} :
            /\ Defined(e) = <<Entry(Target(e), k)>>
            /\ Expression(e) => Entry(Target(e), k) = Entry(DummyName(e), "code")
    <2>1. PICK k \in {"code", "data"} : Defined(e) = <<Entry(Target(e), k)>>
      BY Identified
    <2>2. Expression(e) => <<Entry(Target(e), k)>> = <<Entry(DummyName(e), "code")>>
      BY <2>1, Identified
    <2>3. Expression(e) => Entry(Target(e), k) = Entry(DummyName(e), "code")
      BY <2>2
    <2> QED
      BY <2>1, <2>3
  <1> DEFINE x == Entry(Target(e), k)
  <1>4. /\ x \in Entries /\ w \in Entries
        /\ x.name = Target(e) /\ w.name = Written(e)
        /\ \A n \in GlobalNames : Entry(n, "stub") \in Entries /\ Entry(n, "stub").name = n
    BY <1>2, Identified DEF Entries, Entry, Kinds, Names
  <1>5. /\ x.name \in DummyNames => Expression(e) /\ x.name = DummyName(e)
        /\ w.name \in DummyNames => Expression(e) /\ w.name = DummyName(e)
    BY <1>2, <1>4, GlobalsApart, Identified
  <1>6. Expression(e) => x = Entry(DummyName(e), "code") /\ w = Entry(DummyName(e), "stub")
    BY <1>2, <1>3
  <1>7. t = p \o <<x>> \o q
    BY <1>3, Identified
  <1>8. /\ q = <<>> \/ q = <<w>>
        /\ Expression(e) => q = <<w>>
    BY <1>2, Identified
  <1>9. p = <<>> \/ \E y \in Entries : p = <<y>> /\ y.name \notin DummyNames
    BY <1>4, GlobalsApart, Identified
  <1> HIDE DEF t, p, q, w, x
  <1>10. /\ <<>> \in Seq(Entries) /\ Len(<<>>) = 0
         /\ \A y \in Entries : <<y>> \in Seq(Entries) /\ Len(<<y>>) = 1 /\ <<y>>[1] = y
    BY EmptySeq
  <1>11. p \in Seq(Entries) /\ Len(p) \in {0, 1} /\ (Len(p) = 1 => p[1].name \notin DummyNames)
    <2>1. CASE p = <<>>
      BY <1>10, <2>1
    <2>2. CASE p # <<>>
      <3>1. PICK y \in Entries : p = <<y>> /\ y.name \notin DummyNames
        BY <1>9, <2>2
      <3> QED
        BY <1>10, <3>1
    <2> QED
      BY <2>1, <2>2
  <1>12. /\ q \in Seq(Entries) /\ Len(q) \in {0, 1} /\ (Len(q) = 1 => q[1] = w)
         /\ Expression(e) => Len(q) = 1
    <2>1. CASE q = <<>>
      <3>1. <<>> # <<w>>
        OBVIOUS
      <3> QED
        BY <1>8, <1>10, <2>1, <3>1
    <2>2. CASE q = <<w>>
      BY <1>4, <1>10, <2>2
    <2> QED
      BY <1>8, <2>1, <2>2
  <1>13. /\ Len(t) = Len(p) + 1 + Len(q)
         /\ Len(p) = 1 => t[1] = p[1]
         /\ t[Len(p) + 1] = x
         /\ Len(q) = 1 => t[Len(t)] = q[1]
         /\ \A i \in 1..Len(t) :
                i = Len(p) + 1 \/ (Len(p) = 1 /\ i = 1) \/ (Len(q) = 1 /\ i = Len(t))
    BY <1>4, <1>7, <1>11, <1>12, InARow
  <1>14. \A i \in 1..Len(t) :
            t[i].name \in DummyNames => Expression(e) /\ t[i].name = DummyName(e)
    <2> TAKE i \in 1..Len(t)
    <2>1. CASE i = Len(p) + 1
      BY <1>5, <1>13, <2>1
    <2>2. CASE Len(p) = 1 /\ i = 1
      BY <1>11, <1>13, <2>2
    <2>3. CASE Len(q) = 1 /\ i = Len(t)
      BY <1>5, <1>12, <1>13, <2>3
    <2> QED
      BY <1>13, <2>1, <2>2, <2>3
  <1>15. ASSUME Expression(e)
         PROVE  /\ t[Len(t)] = w /\ Len(t) > 1 /\ t[Len(t) - 1] = x
                /\ Len(t) \in 1..3
                /\ Len(t) = 3 => t[1].name \notin DummyNames
    <2>1. Len(q) = 1
      BY <1>12, <1>15
    <2>2. Len(t) - 1 = Len(p) + 1 /\ Len(t) > 1 /\ Len(t) \in 1..3 /\ (Len(t) = 3 => Len(p) = 1)
      BY <1>11, <1>12, <1>13, <2>1, AtTheEnd
    <2> QED
      BY <1>11, <1>12, <1>13, <2>1, <2>2
  <1> QED
    BY <1>6, <1>14, <1>15 DEF t

\* Who has nothing to enter claims nothing.
LEMMA NothingClaimed ==
    ASSUME NEW e \in Evaluators, todo[e] = <<>>, pc[e] \notin Entering,
           pc[e] \notin {"idle", "fresh"} /\ Expression(e) => <<fresh[e], e>> \in drawn
    PROVE  Claims(e)
  <1>1. 1..Len(todo[e]) = {}
    BY EmptySeq
  <1> QED
    BY <1>1 DEF Claims

LEMMA NothingClaimedNext ==
    ASSUME NEW e \in Evaluators, todo'[e] = <<>>, pc'[e] \notin Entering,
           (pc[e] \notin {"idle", "fresh"} /\ Expression(e) => <<fresh[e], e>> \in drawn)'
    PROVE  Claims(e)'
  <1>1. 1..Len(todo'[e]) = {}
    BY EmptySeq
  <1> QED
    BY <1>1 DEF Claims

\* A single entry that is of no expression.
LEMMA OneClaimed ==
    ASSUME NEW e \in Evaluators, NEW n \in GlobalNames, NEW k, todo'[e] = <<Entry(n, k)>>,
           ~Expression(e)'
    PROVE  Claims(e)'
  <1>1. Len(todo'[e]) = 1 /\ todo'[e][1] = Entry(n, k)
    OBVIOUS
  <1>2. \A i \in 1..Len(todo'[e]) : todo'[e][i].name \notin DummyNames
    BY <1>1, GlobalsApart DEF Entry
  <1> QED
    BY <1>2 DEF Claims

\* What is left of a claim is one.
LEMMA RestClaimed ==
    ASSUME TypeInv, NEW e \in Evaluators, Claims(e), pc[e] \in Entering,
           todo'[e] = Tail(todo[e]), UNCHANGED <<line, fresh, drawn>>,
           pc'[e] \in Entering <=> Len(todo[e]) > 1
    PROVE  Claims(e)'
  <1> DEFINE t == todo[e]
             u == todo'[e]
             d == DummyName(e)
  <1>1. /\ t \in Seq(Entries) /\ t # <<>>
    BY EnteringFacts
  <1>2. /\ Len(t) \in Nat \ {0} /\ Len(u) = Len(t) - 1
        /\ \A i \in 1..Len(t) - 1 : u[i] = t[i + 1]
        /\ Len(t) > 1 => u[Len(u)] = t[Len(t)]
    BY <1>1, Rest
  <1>3. /\ Expression(e)' = Expression(e) /\ d' = d
        /\ pc[e] \notin {"idle", "fresh"}
    BY DEF Expression, DummyName, Entering
  <1>4. /\ \A i \in 1..Len(t) : t[i].name \in DummyNames => Expression(e) /\ t[i].name = d
        /\ Expression(e) =>
              /\ <<fresh[e], e>> \in drawn
              /\ t[Len(t)] = Entry(d, "stub")
              /\ Len(t) > 1 => t[Len(t) - 1] = Entry(d, "code")
              /\ Len(t) \in 1..3
              /\ Len(t) = 3 => t[1].name \notin DummyNames
    BY <1>3 DEF Claims, Last
  <1> HIDE DEF t, u, d
  <1>5. \A i \in 1..Len(u) : i + 1 \in 1..Len(t) /\ u[i] = t[i + 1]
    BY <1>2
  <1>6. \A i \in 1..Len(u) : u[i].name \in DummyNames => Expression(e) /\ u[i].name = d
    BY <1>4, <1>5
  <1>7. ASSUME Len(t) > 1, Expression(e)
        PROVE  /\ u[Len(u)] = Entry(d, "stub")
               /\ Len(u) > 1 => u[Len(u) - 1] = Entry(d, "code")
               /\ Len(u) \in 1..3
               /\ Len(u) # 3
    <2>1. Len(u) \in 1..2 /\ (Len(u) > 1 => Len(u) - 1 \in 1..Len(t) - 1 /\ Len(u) - 1 + 1 = Len(t) - 1)
      BY <1>2, <1>4, <1>7
    <2>2. Len(u) > 1 => u[Len(u) - 1] = t[Len(t) - 1]
      BY <1>2, <2>1
    <2> QED
      BY <1>2, <1>4, <1>7, <2>1, <2>2
  <1> QED
    BY <1>3, <1>4, <1>6, <1>7 DEF Claims, Last, t, u, d

LEMMA OwnClaims ==
    ASSUME TypeInv, NEW e \in Evaluators, Step(e), Claims(e)
    PROVE  Claims(e)'
  <1> USE DEF At, Goto
  <1>1. TypedTables /\ TypedRest /\ Lined(e) /\ Placed(e)
    BY TypeParts DEF TypeInv, Ready
  <1>2. ASSUME pc[e] \notin Entering, todo' = todo, pc'[e] \notin Entering,
               (pc[e] \notin {"idle", "fresh"} /\ Expression(e) => <<fresh[e], e>> \in drawn)'
        PROVE  Claims(e)'
    <2>1. todo'[e] = <<>>
      BY <1>1, <1>2 DEF Placed
    <2> QED
      BY <1>2, <2>1, NothingClaimedNext
  <1>3. pc[e] \notin {"idle", "fresh"} /\ Expression(e) => <<fresh[e], e>> \in drawn
    BY DEF Claims
  <1>4. ASSUME NEW l \in Lines, Start(e, l)
        PROVE  Claims(e)'
    <2>1. /\ pc[e] = "idle" /\ todo' = todo
          /\ pc'[e] = First(l.tag) /\ line'[e] = l
      BY <1>1, <1>4 DEF Start, TypedRest, entering
    <2>2. pc'[e] \in {"using", "import", "fresh", "declare"}
          /\ (l.tag = "expression" => pc'[e] = "fresh")
      BY <2>1, LineParts DEF First
    <2> QED
      BY <1>2, <2>1, <2>2 DEF Entering, Expression
  <1>5. CASE PushUsing(e) \/ CheckUsing(e) \/ Increment(e) \/ Redeclare(e)
    <2>1. /\ pc[e] \in {"using", "check", "increment", "declare"} /\ todo' = todo
          /\ UNCHANGED <<line, fresh, drawn>>
          /\ pc'[e] \in {"check", "idle", "declare", "identify"}
      BY <1>1, <1>5 DEF PushUsing, CheckUsing, Increment, Redeclare, entering, history, TypedRest
    <2> QED
      BY <1>2, <1>3, <2>1 DEF Entering, Expression
  <1>6. CASE ReadCounter(e)
    <2>1. /\ pc[e] = "fresh" /\ todo' = todo /\ pc'[e] = "increment"
          /\ fresh'[e] = counter /\ <<counter, e>> \in drawn'
      BY <1>1, <1>6 DEF ReadCounter, entering, TypedRest
    <2> QED
      BY <1>2, <2>1 DEF Entering
  <1>7. CASE Import(e)
    <2>1. pc[e] = "import" /\ UNCHANGED <<line, fresh>> /\ ~Expression(e)
      BY <1>1, <1>7 DEF Import, Lined
    <2>2. line[e].name \in GlobalNames
      BY <1>1, <2>1, LineParts DEF Lined
    <2>3. CASE line[e].name \in env
      <3>1. todo' = todo /\ pc'[e] = "idle"
        BY <1>1, <1>7, <2>3 DEF Import, TypedRest
      <3> QED
        BY <1>2, <2>1, <3>1 DEF Entering
    <2>4. CASE line[e].name \notin env
      <3>1. todo'[e] = <<Entry(line[e].name, "module")>>
        BY <1>1, <1>7, <2>4 DEF Import, TypedRest
      <3> QED
        BY <2>1, <2>2, <3>1, OneClaimed DEF Expression
    <2> QED
      BY <2>3, <2>4
  <1>8. CASE Identify(e)
    <2>1. pc[e] = "identify" /\ UNCHANGED <<line, fresh, drawn>>
      BY <1>8 DEF Identify
    <2>2. CASE Identifies(e)
      <3> DEFINE t == todo'[e]
      <3>1. /\ \A i \in 1..Len(t) :
                t[i].name \in DummyNames => Expression(e) /\ t[i].name = DummyName(e)
            /\ Expression(e) =>
                /\ t[Len(t)] = Entry(DummyName(e), "stub")
                /\ Len(t) > 1 /\ t[Len(t) - 1] = Entry(DummyName(e), "code")
                /\ Len(t) \in 1..3
                /\ Len(t) = 3 => t[1].name \notin DummyNames
        BY <1>8, <2>2, IdentifiedClaims
      <3>2. Expression(e)' = Expression(e) /\ DummyName(e)' = DummyName(e)
        BY <2>1 DEF Expression, DummyName
      <3>3. Expression(e) => <<fresh'[e], e>> \in drawn'
        BY <1>3, <2>1
      <3> QED
        BY <3>1, <3>2, <3>3 DEF Claims, Last
    <2>3. CASE ~Identifies(e)
      <3>1. todo' = todo /\ pc'[e] = "idle"
        BY <1>1, <1>8, <2>3 DEF Identify, TypedRest
      <3> QED
        BY <1>2, <2>1, <3>1 DEF Entering
    <2> QED
      BY <2>2, <2>3
  <1>9. ASSUME pc[e] \in Entering, pc'[e] \in Entering, todo'[e] = todo[e],
               UNCHANGED <<line, fresh, drawn>>
        PROVE  Claims(e)'
    BY <1>9 DEF Claims, Expression, DummyName, Last, Entering
  <1>10. CASE CountSymbol(e) \/ SizeSymbols(e) \/ PushSymbol(e) \/ MapSymbol(e) \/ SizeObjects(e)
                \/ PushObject(e)
    <2>1. /\ pc[e] \in Entering /\ pc'[e] \in Entering /\ todo' = todo
          /\ UNCHANGED <<line, fresh, drawn>>
      BY <1>1, <1>10 DEF CountSymbol, SizeSymbols, PushSymbol, MapSymbol, SizeObjects, PushObject,
                         entering, history, TypedRest, Entering
    <2> QED
      BY <1>9, <2>1
  <1>11. ASSUME Leave(e), pc[e] \in {"object", "again", "mapobject", "store"},
                UNCHANGED <<line, fresh, drawn>>
         PROVE  Claims(e)'
    <2>1. /\ todo'[e] = Tail(todo[e])
          /\ pc'[e] = IF Len(todo[e]) > 1 THEN "symbol"
                      ELSE IF Head(todo[e]).kind = "stub" THEN "reduce" ELSE "idle"
      BY <1>1, <1>11 DEF Leave, TypedRest
    <2>2. pc'[e] \in Entering <=> Len(todo[e]) > 1
      BY <2>1 DEF Entering
    <2>3. pc[e] \in Entering
      BY <1>11 DEF Entering
    <2> HIDE DEF Goto
    <2> QED
      BY <1>11, <2>1, <2>2, <2>3, RestClaimed
  <1>12. CASE CountObject(e) \/ CountAgain(e)
    <2>1. /\ pc[e] \in {"object", "again"} /\ UNCHANGED <<line, fresh, drawn>>
          /\ \/ Leave(e)
             \/ todo' = todo /\ \E v \in {"again", "sizeobject", "store"} : pc' = [pc EXCEPT ![e] = v]
      BY <1>12 DEF CountObject, CountAgain, history
    <2>2. ASSUME todo' = todo, NEW v \in {"again", "sizeobject", "store"}, pc' = [pc EXCEPT ![e] = v]
          PROVE  Claims(e)'
      <3>1. pc'[e] = v
        BY <1>1, <2>2 DEF TypedRest
      <3> QED
        BY <1>9, <2>1, <2>2, <3>1 DEF Entering
    <2> QED
      BY <1>11, <2>1, <2>2
  <1>13. CASE MapObject(e) \/ StoreObject(e)
    <2>1. pc[e] \in {"mapobject", "store"} /\ Leave(e) /\ UNCHANGED <<line, fresh, drawn>>
      BY <1>13 DEF MapObject, StoreObject, history
    <2> QED
      BY <1>11, <2>1
  <1>14. CASE Reduce(e)
    <2>1. pc[e] = "reduce" /\ UNCHANGED <<line, fresh, drawn>>
      BY <1>14 DEF Reduce, history
    <2>2. CASE line[e].tag = "value" /\ objects[index[e]].kind # "stub"
      <3>1. /\ todo'[e] = <<Entry(Written(e), "value")>> /\ ~Expression(e)
            /\ Written(e) \in GlobalNames
        BY <1>1, <1>14, <2>1, <2>2, WrittenName DEF Reduce, Expression, TypedRest
      <3> QED
        BY <2>1, <3>1, OneClaimed DEF Expression
    <2>3. CASE ~(line[e].tag = "value" /\ objects[index[e]].kind # "stub")
      <3>1. todo' = todo /\ pc'[e] = "idle"
        BY <1>1, <1>14, <2>3 DEF Reduce, TypedRest
      <3> QED
        BY <1>2, <2>1, <3>1 DEF Entering
    <2> QED
      BY <2>2, <2>3
  <1> QED
    BY <1>4, <1>5, <1>6, <1>7, <1>8, <1>10, <1>12, <1>13, <1>14 DEF Step

\* What the others enter has not the name of who shares its number with nobody.
LEMMA OthersEnter ==
    ASSUME TypeInv, NEW e \in Evaluators, NEW g \in Evaluators \ {e}, Claims(e), Alone(g),
           Expression(g), pc[g] \in Entering \cup {"reduce"}, pc[e] \in Entering
    PROVE  Head(todo[e]).name # DummyName(g)
  <1> SUFFICES ASSUME Head(todo[e]).name = DummyName(g) PROVE FALSE
    OBVIOUS
  <1>1. fresh[g] \in Nat
    BY DEF TypeInv, Ready, Lined, At, Entering
  <1>2. DummyName(g) \in DummyNames
    BY <1>1 DEF DummyName, DummyNames
  <1>3. todo[e] \in Seq(Entries) /\ todo[e] # <<>>
    BY EnteringFacts
  <1>4. Len(todo[e]) \in Nat \ {0} /\ Head(todo[e]) = todo[e][1]
    BY <1>3, Rest
  <1>5. 1 \in 1..Len(todo[e])
    BY <1>4
  <1>6. Expression(e) /\ DummyName(g) = DummyName(e)
    BY <1>2, <1>4, <1>5 DEF Claims
  <1>7. <<fresh[e], e>> \in drawn
    BY <1>6 DEF Claims, Entering
  <1>8. fresh[g] = fresh[e]
    BY <1>6 DEF DummyName
  <1> QED
    BY <1>7, <1>8 DEF Alone

\* What there is for a name is left alone by whoever enters another.
LEMMA OthersKeep ==
    ASSUME TypeInv, Consistent, NEW e \in Evaluators, Step(e), NEW n,
           pc[e] \in Entering => Head(todo[e]).name # n
    PROVE  /\ n \in DOMAIN numbers' <=> n \in DOMAIN numbers
           /\ n \in DOMAIN numbers => numbers'[n] = numbers[n]
           /\ \A s \in DOMAIN symbols : symbols[s] = n =>
                /\ s \in DOMAIN indices' <=> s \in DOMAIN indices
                /\ s \in DOMAIN indices => indices'[s] = indices[s]
           /\ \A i \in DOMAIN objects : symbols[objects[i].symbol] = n => objects'[i] = objects[i]
  <1> USE DEF At
  <1>1. CASE UNCHANGED tables
    BY <1>1 DEF tables
  <1>2. CASE PushSymbol(e)
    BY <1>2 DEF PushSymbol
  <1>3. CASE MapSymbol(e)
    <2> DEFINE m == Head(todo[e]).name
    <2>1. /\ numbers' = Mapped(numbers, m, pushed[e]) /\ UNCHANGED <<symbols, objects, indices>>
          /\ m # n
      BY <1>3 DEF MapSymbol, Entering
    <2> HIDE DEF m
    <2>2. /\ DOMAIN numbers' = DOMAIN numbers \cup {m}
          /\ \A k \in DOMAIN numbers \ {m} : numbers'[k] = numbers[k]
      BY <2>1 DEF Mapped
    <2> QED
      BY <2>1, <2>2
  <1>4. CASE PushObject(e)
    <2> DEFINE o == Entered(e)
    <2>1. objects' = Append(objects, o) /\ UNCHANGED <<symbols, numbers, indices>>
      BY <1>4 DEF PushObject
    <2> HIDE DEF o
    <2>2. PICK S : objects \in Seq(S)
      BY DEF TypeInv, TypeOK
    <2>3. objects \in Seq(S \cup {o}) /\ o \in S \cup {o}
      BY <2>2
    <2>4. \A i \in DOMAIN objects : objects'[i] = objects[i]
      BY <2>1, <2>3
    <2> QED
      BY <2>1, <2>4
  <1>5. CASE MapObject(e)
    <2>1. /\ indices' = Mapped(indices, pushed[e], index[e])
          /\ UNCHANGED <<symbols, numbers, objects>>
      BY <1>5 DEF MapObject
    <2>2. symbols[pushed[e]] # n
      BY <1>5 DEF MapObject, Entering, Consistent, Settled, Having
    <2>3. /\ DOMAIN indices' = DOMAIN indices \cup {pushed[e]}
          /\ \A s \in DOMAIN indices \ {pushed[e]} : indices'[s] = indices[s]
      BY <2>1 DEF Mapped
    <2> QED
      BY <2>1, <2>2, <2>3
  <1>6. CASE StoreObject(e)
    <2> DEFINE o == Entered(e)
    <2>1. objects' = [objects EXCEPT ![index[e]] = o] /\ UNCHANGED <<symbols, numbers, indices>>
      BY <1>6 DEF StoreObject
    <2>2. symbols[pushed[e]] # n /\ objects[index[e]].symbol = pushed[e]
      BY <1>6 DEF StoreObject, Entering, Consistent, Settled, Having, Holding
    <2> HIDE DEF o
    <2> QED
      BY <2>1, <2>2
  <1> QED
    BY <1>1, <1>2, <1>3, <1>4, <1>5, <1>6, StepTables

LEMMA OthersOwn ==
    ASSUME TypeInv, Consistent, NEW e \in Evaluators, Step(e), ~clash, ~clash', Claims(e),
           NEW g \in Evaluators \ {e}, Owns(g)
    PROVE  Owns(g)'
  <1> DEFINE n == DummyName(g)
  <1> USE DEF At
  <1>1. UNCHANGED <<pc[g], line[g], fresh[g], todo[g], pushed[g], index[g], own[g]>>
    BY StepOthers DEF TypeInv
  <1>2. n' = n /\ Expression(g)' = Expression(g)
    BY <1>1 DEF DummyName, Expression
  <1>3. CASE pc[g] \notin Entering \cup {"reduce"}
    BY <1>1, <1>3 DEF Owns, Numbered, Making, Made, Having, Entering
  <1>4. CASE pc[g] \in Entering \cup {"reduce"}
    <2> SUFFICES ASSUME Expression(g), Alone(g)' PROVE (Numbered(g) /\ Making(g) /\ Made(g))'
      BY <1>2 DEF Owns
    <2>1. Alone(g) /\ Numbered(g) /\ Making(g) /\ Made(g)
      BY OthersClaim DEF Owns
    <2>2. pc[e] \in Entering => Head(todo[e]).name # n
      BY <1>4, <2>1, OthersEnter
    <2>3. Placed(g) /\ Settled(g) /\ TypedTables /\ TablesConsistent
      BY TypeParts DEF TypeInv, Ready, Consistent
    <2> HIDE DEF n
    <2>4. /\ n \in DOMAIN numbers => n \in DOMAIN numbers' /\ numbers'[n] = numbers[n]
          /\ \A s \in DOMAIN symbols : symbols[s] = n =>
                /\ s \in DOMAIN indices' <=> s \in DOMAIN indices
                /\ s \in DOMAIN indices => indices'[s] = indices[s]
          /\ \A i \in DOMAIN objects : symbols[objects[i].symbol] = n => objects'[i] = objects[i]
      BY <2>2, OthersKeep
    <2>5. pc[g] \in Having => pushed[g] \in DOMAIN symbols /\ symbols[pushed[g]] = Head(todo[g]).name
      BY <2>3 DEF Placed, Settled
    <2>6. Numbered(g)'
      BY <1>1, <1>2, <2>1, <2>3, <2>4 DEF Numbered, Placed, n
    <2>7. Making(g)'
      <3> SUFFICES ASSUME Head(todo[g]) = Entry(n, "code"),
                          pc[g] \in {"again", "sizeobject", "pushobject", "mapobject", "store"}
                   PROVE  /\ pc[g] \in {"again", "sizeobject", "pushobject", "mapobject"} =>
                                pushed[g] \notin DOMAIN indices'
                          /\ pc[g] = "mapobject" =>
                                objects'[index[g]] = Object(pushed[g], "code", own[g])
                          /\ pc[g] = "store" =>
                                pushed[g] \in DOMAIN indices' /\ indices'[pushed[g]] = index[g]
        BY <1>1, <1>2 DEF Making, n
      <3>1. pushed[g] \in DOMAIN symbols /\ symbols[pushed[g]] = n
        BY <2>5 DEF Having, Entry
      <3>2. pc[g] = "mapobject" =>
              index[g] \in DOMAIN objects /\ objects[index[g]].symbol = pushed[g]
        BY <2>3 DEF Placed, Settled, Holding
      <3> QED
        BY <2>1, <2>4, <3>1, <3>2 DEF Making, n
    <2>8. Made(g)'
      <3> SUFFICES ASSUME (pc[g] \in Entering /\ Len(todo[g]) = 1) \/ pc[g] = "reduce"
                   PROVE  /\ n \in DOMAIN numbers' /\ numbers'[n] \in DOMAIN indices'
                          /\ objects'[indices'[numbers'[n]]].kind = "code"
                          /\ objects'[indices'[numbers'[n]]].line = own[g]
                          /\ pc[g] \in {"symbol", "object", "reduce"}
                          /\ pc[g] = "reduce" => index[g] = indices'[numbers'[n]]
        BY <1>1, <1>2 DEF Made, n
      <3>1. /\ n \in DOMAIN numbers /\ numbers[n] \in DOMAIN indices
            /\ objects[indices[numbers[n]]].kind = "code"
            /\ objects[indices[numbers[n]]].line = own[g]
            /\ pc[g] \in {"symbol", "object", "reduce"}
            /\ pc[g] = "reduce" => index[g] = indices[numbers[n]]
        BY <2>1 DEF Made, n
      <3>2. /\ numbers[n] \in DOMAIN symbols /\ symbols[numbers[n]] = n
            /\ indices[numbers[n]] \in DOMAIN objects
            /\ objects[indices[numbers[n]]].symbol = numbers[n]
        BY <2>3, <3>1 DEF TypedTables, TablesConsistent
      <3>3. /\ n \in DOMAIN numbers' /\ numbers'[n] = numbers[n]
            /\ numbers[n] \in DOMAIN indices' /\ indices'[numbers[n]] = indices[numbers[n]]
        BY <2>4, <3>1, <3>2
      <3>4. objects'[indices[numbers[n]]] = objects[indices[numbers[n]]]
        BY <2>4, <3>2
      <3> QED
        BY <3>1, <3>3, <3>4
    <2> QED
      BY <2>6, <2>7, <2>8
  <1> QED
    BY <1>3, <1>4

\* Which entry of an expression an evaluator is at, by how many it has.
LEMMA OwnHead ==
    ASSUME TypeInv, NEW e \in Evaluators, Claims(e), Expression(e), pc[e] \in Entering
    PROVE  /\ Len(todo[e]) \in {1, 2, 3}
           /\ Len(todo[e]) > 1 <=> Len(todo[e]) # 1
           /\ Len(todo[e]) = 1 => Head(todo[e]) = Entry(DummyName(e), "stub")
           /\ Len(todo[e]) = 2 => Head(todo[e]) = Entry(DummyName(e), "code")
           /\ Len(Tail(todo[e])) = 1 => Len(todo[e]) = 2
  <1> DEFINE t == todo[e]
  <1>1. t \in Seq(Entries) /\ t # <<>>
    BY EnteringFacts
  <1>2. /\ t[Len(t)] = Entry(DummyName(e), "stub")
        /\ Len(t) > 1 => t[Len(t) - 1] = Entry(DummyName(e), "code")
        /\ Len(t) \in 1..3
    BY DEF Claims, Last
  <1> HIDE DEF t
  <1>3. Head(t) = t[1] /\ Len(Tail(t)) = Len(t) - 1
    BY <1>1, Rest
  <1>4. Len(t) \in {1, 2, 3} /\ (Len(t) > 1 <=> Len(t) # 1) /\ (Len(Tail(t)) = 1 => Len(t) = 2)
    BY <1>2, <1>3
  <1>5. Len(t) = 2 => Len(t) - 1 = 1 /\ Len(t) > 1
    OBVIOUS
  <1> QED
    BY <1>2, <1>3, <1>4, <1>5 DEF t

\* Where a line is before it enters anything, or at its end, nothing is owned.
LEMMA NothingOwned ==
    ASSUME NEW e \in Evaluators, pc'[e] \notin Entering \cup {"reduce"}
    PROVE  Owns(e)'
  BY DEF Owns, Numbered, Making, Made, At, Having, Entering

\* An evaluator that is done with an entry owns what that has left.
LEMMA LeaveOwns ==
    ASSUME TypeInv, NEW e \in Evaluators, Leave(e), Claims(e), Expression(e),
           UNCHANGED <<line, fresh, own>>, pc[e] \in {"object", "again", "mapobject", "store"},
           Len(todo[e]) # 3 =>
                LET n == DummyName(e) IN
                /\ n \in DOMAIN numbers' /\ numbers'[n] \in DOMAIN indices'
                /\ objects'[indices'[numbers'[n]]].kind = "code"
                /\ objects'[indices'[numbers'[n]]].line = own[e]
                /\ index'[e] = indices'[numbers'[n]]
    PROVE  Owns(e)'
  <1> DEFINE n == DummyName(e)
  <1> USE DEF At, Goto
  <1>1. /\ pc[e] \in Entering /\ TypedRest
    BY EnteringFacts DEF Entering
  <1>2. /\ Len(todo[e]) \in {1, 2, 3}
        /\ Len(todo[e]) > 1 <=> Len(todo[e]) # 1
        /\ Len(todo'[e]) = 1 => Len(todo[e]) = 2
        /\ todo'[e] = Tail(todo[e])
    BY <1>1, OwnHead DEF Leave, TypedRest
  <1>3. pc'[e] = IF Len(todo[e]) > 1 THEN "symbol"
                 ELSE IF Head(todo[e]).kind = "stub" THEN "reduce" ELSE "idle"
    BY <1>1 DEF Leave, TypedRest
  <1>4. /\ pc'[e] \in {"symbol", "reduce", "idle"}
        /\ pc'[e] = "reduce" => Len(todo[e]) # 3
        /\ Len(todo'[e]) = 1 => Len(todo[e]) # 3
    BY <1>2, <1>3
  <1>5. Numbered(e)' /\ Making(e)'
    BY <1>4 DEF Numbered, Making, Having
  <1>6. Made(e)'
    <2>1. n' = n
      BY DEF DummyName
    <2> QED
      BY <1>4, <2>1 DEF Made, Entering
  <1> QED
    BY <1>5, <1>6 DEF Owns

LEMMA OwnOwns ==
    ASSUME TypeInv, Consistent, NEW e \in Evaluators, Step(e), ~clash, ~clash', Claims(e), Owns(e)
    PROVE  Owns(e)'
  <1> DEFINE n == DummyName(e)
             h == Head(todo[e])
  <1> USE DEF At, Goto
  <1>1. TypedTables /\ TypedRest /\ Lined(e) /\ Placed(e) /\ Settled(e) /\ TablesConsistent
    BY TypeParts DEF TypeInv, Ready, Consistent
  <1>2. ASSUME NEW l \in Lines, Start(e, l)
        PROVE  Owns(e)'
    <2>1. pc'[e] \in {"using", "import", "fresh", "declare"}
      BY <1>1, <1>2, LineParts DEF Start, First, TypedRest
    <2> QED
      BY <2>1, NothingOwned DEF Entering
  <1>3. CASE PushUsing(e) \/ CheckUsing(e) \/ ReadCounter(e) \/ Increment(e) \/ Redeclare(e)
    <2>1. pc'[e] \in {"check", "idle", "increment", "declare", "identify"}
      BY <1>1, <1>3 DEF PushUsing, CheckUsing, ReadCounter, Increment, Redeclare, TypedRest
    <2> QED
      BY <2>1, NothingOwned DEF Entering
  <1>4. CASE Import(e)
    <2>1. ~Expression(e) /\ line' = line
      BY <1>1, <1>4 DEF Import, Lined
    <2> QED
      BY <2>1 DEF Owns, Expression
  <1>5. CASE Identify(e)
    <2>1. CASE Identifies(e)
      <3>1. pc'[e] = "symbol" /\ line' = line
        BY <1>1, <1>5, <2>1 DEF Identify, TypedRest
      <3> DEFINE k == Len(todo'[e])
      <3>2. Expression(e) => k > 1 /\ k \in 1..3
        BY <1>5, <2>1, IdentifiedClaims
      <3> HIDE DEF k
      <3>3. Expression(e) => k # 1
        BY <3>2
      <3>4. Expression(e)' = Expression(e)
        BY <3>1 DEF Expression
      <3> QED
        BY <3>1, <3>3, <3>4 DEF Owns, Numbered, Making, Made, Having, k
    <2>2. CASE ~Identifies(e)
      <3>1. pc'[e] = "idle"
        BY <1>1, <1>5, <2>2 DEF Identify, TypedRest
      <3> QED
        BY <3>1, NothingOwned DEF Entering
    <2> QED
      BY <2>1, <2>2
  <1>6. CASE Reduce(e)
    <2>1. CASE Expression(e)
      <3>1. pc'[e] = "idle"
        BY <1>1, <1>6, <2>1 DEF Reduce, Expression, TypedRest
      <3> QED
        BY <3>1, NothingOwned DEF Entering
    <2>2. CASE ~Expression(e)
      <3>1. line' = line
        BY <1>6 DEF Reduce
      <3> QED
        BY <2>2, <3>1 DEF Owns, Expression
    <2> QED
      BY <2>1, <2>2
  <1>7. ASSUME \/ CountSymbol(e) \/ SizeSymbols(e) \/ PushSymbol(e) \/ MapSymbol(e)
               \/ CountObject(e) \/ CountAgain(e) \/ SizeObjects(e) \/ PushObject(e)
               \/ MapObject(e) \/ StoreObject(e)
        PROVE  Owns(e)'
    <2>1. pc[e] \in Entering /\ UNCHANGED <<line, fresh, own, drawn>>
      BY <1>7 DEF CountSymbol, SizeSymbols, PushSymbol, MapSymbol, CountObject, CountAgain,
                  SizeObjects, PushObject, MapObject, StoreObject, entering, history, Entering
    <2>2. Alone(e)' = Alone(e) /\ Expression(e)' = Expression(e) /\ n' = n
      BY <2>1 DEF Alone, Expression, DummyName
    <2> SUFFICES ASSUME Expression(e), Alone(e) PROVE Owns(e)'
      BY <2>2 DEF Owns
    <2>3. Numbered(e) /\ Making(e) /\ Made(e)
      BY DEF Owns
    <2>4. /\ Len(todo[e]) \in {1, 2, 3}
          /\ Len(todo[e]) = 1 => h = Entry(n, "stub")
          /\ Len(todo[e]) = 2 => h = Entry(n, "code")
      BY <2>1, OwnHead
    <2>5. /\ h.kind = "stub" => h # Entry(n, "code") /\ Len(todo[e]) # 2
          /\ h.kind # "stub" => Len(todo[e]) # 1
      BY <2>4 DEF Entry
    <2> HIDE DEF n, h
    <2>6. CASE CountSymbol(e)
      <3>1. /\ todo' = todo /\ UNCHANGED tables /\ pc[e] = "symbol"
            /\ \/ /\ h.name \in DOMAIN numbers
                  /\ pc'[e] = "object" /\ pushed'[e] = numbers[h.name]
               \/ h.name \notin DOMAIN numbers /\ pc'[e] = "size"
        BY <1>1, <2>6 DEF CountSymbol, TypedRest, h
      <3>2. Numbered(e)' /\ Making(e)'
        BY <2>2, <3>1 DEF Numbered, Making, Having, tables, n, h
      <3>3. pc'[e] = "size" => Len(todo[e]) # 1
        BY <2>1, <2>3, <2>4, <3>1 DEF Made, Entry, n
      <3>4. Made(e)'
        BY <2>1, <2>2, <2>3, <3>1, <3>3 DEF Made, Entering, tables, n
      <3> QED
        BY <3>2, <3>4 DEF Owns
    <2>7. CASE SizeSymbols(e) \/ PushSymbol(e)
      <3>1. pc[e] \in {"size", "push"} /\ pc'[e] \in {"push", "map"} /\ todo' = todo
        BY <1>1, <2>7 DEF SizeSymbols, PushSymbol, TypedRest, entering
      <3>2. Len(todo[e]) # 1
        BY <2>1, <2>3, <3>1 DEF Made
      <3> QED
        BY <3>1, <3>2 DEF Owns, Numbered, Making, Made, Having
    <2>8. CASE MapSymbol(e)
      <3>1. /\ pc[e] = "map" /\ pc'[e] = "object" /\ UNCHANGED <<todo, pushed>>
            /\ numbers' = Mapped(numbers, h.name, pushed[e])
        BY <1>1, <2>8 DEF MapSymbol, TypedRest, entering, h
      <3>2. Len(todo[e]) # 1
        BY <2>1, <2>3, <3>1 DEF Made
      <3>3. numbers'[h.name] = pushed[e]
        BY <3>1 DEF Mapped
      <3> QED
        BY <2>2, <3>1, <3>2, <3>3 DEF Owns, Numbered, Making, Made, Having, n, h
    <2>9. h.name = n /\ pc[e] \in Having \ {"map"} =>
              n \in DOMAIN numbers /\ numbers[n] = pushed[e]
      BY <1>1, <2>3 DEF Numbered, Placed, n, h
    <2>10. CASE CountObject(e)
      <3>1. /\ pc[e] = "object" /\ UNCHANGED tables /\ pushed' = pushed
        BY <2>10 DEF CountObject
      <3>2. CASE pushed[e] \in DOMAIN indices
        <4>1. index'[e] = indices[pushed[e]]
          BY <1>1, <2>10, <3>2 DEF CountObject, TypedRest
        <4>2. CASE h.kind = "stub"
          <5>1. Leave(e)
            BY <2>10, <3>2, <4>2 DEF CountObject, h
          <5>2. Len(todo[e]) # 3 => Len(todo[e]) = 1 /\ h.name = n
            BY <2>4, <2>5, <4>2 DEF Entry
          <5>3. Len(todo[e]) # 3 =>
                  /\ n \in DOMAIN numbers /\ numbers[n] \in DOMAIN indices
                  /\ objects[indices[numbers[n]]].kind = "code"
                  /\ objects[indices[numbers[n]]].line = own[e]
                  /\ index'[e] = indices[numbers[n]]
            BY <2>1, <2>3, <2>9, <3>1, <4>1, <5>2 DEF Made, Having, n
          <5> QED
            BY <2>1, <3>1, <5>1, <5>3, LeaveOwns DEF tables, n
        <4>3. CASE h.kind # "stub"
          <5>1. pc'[e] = "store" /\ todo' = todo
            BY <1>1, <2>10, <3>2, <4>3 DEF CountObject, TypedRest, h
          <5>2. Numbered(e)'
            BY <2>2, <2>9, <3>1, <5>1 DEF Numbered, Having, tables, n, h
          <5>3. Making(e)'
            BY <3>1, <3>2, <4>1, <5>1 DEF Making, tables
          <5>4. Made(e)'
            BY <2>5, <4>3, <5>1 DEF Made
          <5> QED
            BY <5>2, <5>3, <5>4 DEF Owns
        <4> QED
          BY <4>2, <4>3
      <3>3. CASE pushed[e] \notin DOMAIN indices
        <4>1. /\ todo' = todo
              /\ pc'[e] = IF h.kind = "stub" THEN "sizeobject" ELSE "again"
          BY <1>1, <2>10, <3>3 DEF CountObject, TypedRest, h
        <4>2. Len(todo[e]) # 1
          BY <2>1, <2>3, <2>4, <2>9, <3>1, <3>3 DEF Made, Having, Entry, n
        <4>3. Numbered(e)'
          BY <2>2, <2>9, <3>1, <4>1 DEF Numbered, Having, tables, n, h
        <4>4. Making(e)'
          BY <3>1, <3>3, <4>1 DEF Making, tables
        <4>5. Made(e)'
          BY <4>1, <4>2 DEF Made
        <4> QED
          BY <4>3, <4>4, <4>5 DEF Owns
      <3> QED
        BY <3>2, <3>3
    <2>11. ASSUME pc[e] \in {"again", "sizeobject", "pushobject", "mapobject", "store"}
           PROVE  Len(todo[e]) # 1
      BY <2>1, <2>3, <2>11 DEF Made
    <2>12. CASE CountAgain(e)
      <3>1. /\ pc[e] = "again" /\ UNCHANGED tables /\ pushed' = pushed
        BY <2>12 DEF CountAgain
      <3>2. CASE pushed[e] \in DOMAIN indices
        <4>1. Leave(e)
          BY <2>12, <3>2 DEF CountAgain
        <4>2. Len(todo[e]) = 3
          BY <2>3, <2>4, <2>11, <3>1, <3>2 DEF Making, n, h
        <4> QED
          BY <2>1, <3>1, <4>1, <4>2, LeaveOwns
      <3>3. CASE pushed[e] \notin DOMAIN indices
        <4>1. todo' = todo /\ pc'[e] = "sizeobject"
          BY <1>1, <2>12, <3>3 DEF CountAgain, TypedRest
        <4>2. Numbered(e)'
          BY <2>2, <2>9, <3>1, <4>1 DEF Numbered, Having, tables, n, h
        <4>3. Making(e)'
          BY <3>1, <3>3, <4>1 DEF Making, tables
        <4>4. Made(e)'
          BY <2>11, <3>1, <4>1 DEF Made
        <4> QED
          BY <4>2, <4>3, <4>4 DEF Owns
      <3> QED
        BY <3>2, <3>3
    <2>13. CASE SizeObjects(e)
      <3>1. /\ pc[e] = "sizeobject" /\ pc'[e] = "pushobject"
            /\ UNCHANGED <<symbols, numbers, objects, indices, todo, pushed>>
        BY <1>1, <2>13 DEF SizeObjects, TypedRest, tables
      <3>2. Numbered(e)'
        BY <2>2, <2>9, <3>1 DEF Numbered, Having, n, h
      <3>3. Making(e)'
        BY <2>2, <2>3, <3>1 DEF Making, n
      <3>4. Made(e)'
        BY <2>11, <3>1 DEF Made
      <3> QED
        BY <3>2, <3>3, <3>4 DEF Owns
    <2>14. Entered(e) = Object(pushed[e], h.kind, IF h.kind = "stub" THEN 0 ELSE own[e])
      BY DEF Entered, h
    <2>15. h = Entry(n, "code") => Entered(e) = Object(pushed[e], "code", own[e])
      BY <2>14 DEF Entry
    <2>16. CASE PushObject(e)
      <3> DEFINE o == Entered(e)
      <3>1. /\ pc[e] = "pushobject" /\ pc'[e] = "mapobject" /\ objects' = Append(objects, o)
            /\ UNCHANGED <<symbols, numbers, indices, todo, pushed, index>>
            /\ index[e] = Len(objects) + 1
        BY <1>1, <2>16 DEF PushObject, TypedRest, entering, Settled
      <3> HIDE DEF o
      <3>2. objects'[index[e]] = o
        <4>1. PICK S : objects \in Seq(S)
          BY <1>1 DEF TypedTables
        <4>2. objects \in Seq(S \cup {o}) /\ o \in S \cup {o}
          BY <4>1
        <4> QED
          BY <3>1, <4>2
      <3>3. Numbered(e)'
        BY <2>2, <2>9, <3>1 DEF Numbered, Having, n, h
      <3>4. Making(e)'
        BY <2>1, <2>2, <2>3, <2>15, <3>1, <3>2 DEF Making, n, h, o
      <3>5. Made(e)'
        BY <2>11, <3>1 DEF Made
      <3> QED
        BY <3>3, <3>4, <3>5 DEF Owns
    <2>17. CASE MapObject(e)
      <3>1. /\ pc[e] = "mapobject" /\ Leave(e)
            /\ UNCHANGED <<symbols, numbers, objects, index, pushed>>
            /\ indices' = Mapped(indices, pushed[e], index[e])
        BY <2>17 DEF MapObject
      <3>2. pushed[e] \in DOMAIN indices' /\ indices'[pushed[e]] = index[e]
        BY <3>1 DEF Mapped
      <3>3. Len(todo[e]) # 3 => h = Entry(n, "code")
        BY <2>4, <2>11, <3>1
      <3>4. Len(todo[e]) # 3 => n \in DOMAIN numbers /\ numbers[n] = pushed[e]
        BY <2>9, <3>1, <3>3 DEF Entry, Having
      <3>5. Len(todo[e]) # 3 => objects[index[e]].kind = "code" /\ objects[index[e]].line = own[e]
        BY <2>3, <3>1, <3>3 DEF Making, Object, n, h
      <3> QED
        BY <2>1, <3>1, <3>2, <3>4, <3>5, LeaveOwns DEF n
    <2>18. CASE StoreObject(e)
      <3> DEFINE o == Entered(e)
      <3>1. /\ pc[e] = "store" /\ Leave(e)
            /\ UNCHANGED <<symbols, numbers, indices, index, pushed>>
            /\ objects' = [objects EXCEPT ![index[e]] = o]
        BY <2>18 DEF StoreObject
      <3>2. index[e] \in DOMAIN objects
        BY <1>1, <3>1 DEF Placed, Holding
      <3> HIDE DEF o
      <3>3. objects'[index[e]] = o
        BY <3>1, <3>2
      <3>4. Len(todo[e]) # 3 => h = Entry(n, "code")
        BY <2>4, <2>11, <3>1
      <3>5. Len(todo[e]) # 3 => n \in DOMAIN numbers /\ numbers[n] = pushed[e]
        BY <2>9, <3>1, <3>4 DEF Entry, Having
      <3>6. Len(todo[e]) # 3 => pushed[e] \in DOMAIN indices /\ indices[pushed[e]] = index[e]
        BY <2>3, <3>1, <3>4 DEF Making, n, h
      <3>7. Len(todo[e]) # 3 => o.kind = "code" /\ o.line = own[e]
        BY <2>15, <3>4 DEF Object, o
      <3> QED
        BY <2>1, <3>1, <3>3, <3>5, <3>6, <3>7, LeaveOwns DEF n
    <2> QED
      BY <1>7, <2>6, <2>7, <2>8, <2>10, <2>12, <2>13, <2>16, <2>17, <2>18
  <1> QED
    BY <1>2, <1>3, <1>4, <1>5, <1>6, <1>7 DEF Step

LEMMA InitInv == Init => Inv
  <1> SUFFICES ASSUME Init PROVE Inv
    OBVIOUS
  <1>1. NameInv
    BY InitNameInv
  <1>2. ASSUME NEW e \in Evaluators PROVE Claims(e) /\ Owns(e)
    <2>1. todo[e] = <<>> /\ pc[e] = "idle"
      BY DEF Init
    <2> QED
      BY <2>1, NothingClaimed DEF Owns, Numbered, Making, Made, At, Having, Entering
  <1> QED
    BY <1>1, <1>2 DEF Inv

LEMMA NextInv ==
    ASSUME Inv, [Next]_vars
    PROVE  Inv'
  <1>1. NameInv'
    BY NextNameInv DEF Inv
  <1>2. ASSUME NEW e \in Evaluators, Step(e), NEW g \in Evaluators
        PROVE  Claims(g)' /\ Owns(g)'
    <2>1. TypeInv /\ Claims(e) /\ Claims(g) /\ Owns(e) /\ Owns(g)
      BY DEF Inv, NameInv
    <2>2. Claims(g)'
      BY <1>2, <2>1, OwnClaims, OthersClaim
    <2>3. CASE clash'
      BY <2>2, <2>3 DEF Owns
    <2>4. CASE ~clash'
      <3>1. ~clash /\ Consistent
        BY <1>2, <2>1, <2>4, StepSizes DEF Inv, NameInv, TypeInv
      <3>2. g = e => Owns(g)'
        BY <1>2, <2>1, <2>4, <3>1, OwnOwns
      <3>3. g # e => Owns(g)'
        BY <1>2, <2>1, <2>4, <3>1, OthersOwn
      <3> QED
        BY <2>2, <3>2, <3>3
    <2> QED
      BY <2>2, <2>3, <2>4
  <1>3. ASSUME UNCHANGED vars, NEW g \in Evaluators
        PROVE  Claims(g)' /\ Owns(g)'
    <2>1. Claims(g) /\ Owns(g)
      BY DEF Inv
    <2>2. Claims(g)'
      BY <1>3, <2>1 DEF vars, entering, history, Claims, Expression, DummyName, Last
    <2>3. Owns(g)'
      BY <1>3, <2>1 DEF vars, tables, entering, history, Owns, Alone, Numbered, Making, Made,
                        Expression, DummyName, At
    <2> QED
      BY <2>2, <2>3
  <1> QED
    BY <1>1, <1>2, <1>3 DEF Inv, Next

\* An evaluator reduces the expression of its own line, whatever the others
\* define, if no other one has had the same number (eval.hpp:312) and no two
\* have taken the size of a table together (machine.hpp:59, 115).
THEOREM OwnReduced == Spec => []ReducesOwn
  <1>1. Inv => ReducesOwn
    BY DEF Inv, Owns, Made, Expression, At, ReducesOwn
  <1> QED
    BY <1>1, InitInv, NextInv, PTL DEF Spec

-----------------------------------------------------------------------------
(***************************************************************************)
(* As long as no two lines were evaluated at the same time: an evaluator   *)
(* that steps has the tables for itself.                                   *)
(***************************************************************************)

\* At most one evaluator is under way.
Solo == \A e, g \in Evaluators : ~At(e, "idle") /\ ~At(g, "idle") => e = g

\* A name that was entered has its number stored with it, or is about to.
Unique == \A i, j \in DOMAIN symbols : symbols[i] = symbols[j] => i = j
Stored ==
    \A i \in DOMAIN symbols :
        symbols[i] \in DOMAIN numbers \/ \E e \in Evaluators : At(e, "map") /\ pushed[e] = i

\* What an evaluator has counted still holds when it uses it.
Counted(e) ==
    /\ pc[e] \in {"size", "push", "map"} => Head(todo[e]).name \notin DOMAIN numbers
    /\ pc[e] \in {"again", "sizeobject", "pushobject", "mapobject"} =>
            pushed[e] \notin DOMAIN indices
    /\ At(e, "mapobject") => objects[index[e]].kind = Head(todo[e]).kind
    /\ At(e, "store") => pushed[e] \in DOMAIN indices /\ indices[pushed[e]] = index[e]

\* Usings are right, but for the last before it is checked.
Checked ==
    \/ UsingsResolve(env, usings)
    \/ \E e \in Evaluators :
        At(e, "check") /\ UsingsResolve(env, SubSeq(usings, 1, Len(usings) - 1))

\* An evaluator that will give the name code.
Pending(e, n) ==
    \/ At(e, "identify") /\ Written(e) = n
    \/ /\ pc[e] \in Entering
       /\ \E i \in 1..Len(todo[e]) : todo[e][i].name = n /\ todo[e][i].kind # "stub"
Promised ==
    \A n \in env : HasCode(n) \/ n \in spoiled \/ \E e \in Evaluators : Pending(e, n)

Orderly == Unique /\ Stored /\ \A e \in Evaluators : Counted(e)
AloneInv ==
    NameInv /\ (~overlapped => ~clash /\ Solo /\ Orderly /\ (~grown => Checked) /\ Promised)

LEMMA InitAloneInv == Init => AloneInv
  <1> SUFFICES ASSUME Init PROVE AloneInv
    OBVIOUS
  <1>1. NameInv /\ ~clash
    BY InitNameInv DEF Init
  <1>2. Solo /\ Unique /\ Stored /\ Promised
    BY DEF Init, Solo, Unique, Stored, Promised, At
  <1>3. \A e \in Evaluators : Counted(e)
    BY DEF Init, Counted, At
  <1>4. Checked
    BY DEF Init, Checked, UsingsResolve
  <1> QED
    BY <1>1, <1>2, <1>3, <1>4 DEF AloneInv, Orderly

\* A line that starts while another is evaluated overlaps it.
LEMMA StepSolo ==
    ASSUME TypeInv, ~overlapped => Solo, NEW e \in Evaluators, Step(e), ~overlapped'
    PROVE  /\ ~overlapped /\ Solo'
           /\ \A g \in Evaluators \ {e} : At(g, "idle") /\ At(g, "idle")'
           /\ ~clash => ~clash'
  <1>1. ASSUME NEW l \in Lines, Start(e, l)
        PROVE  ~overlapped /\ \A g \in Evaluators \ {e} : At(g, "idle")
    BY <1>1 DEF Start, TypeInv, TypeOK
  <1>2. ASSUME ~At(e, "idle"), overlapped' = overlapped
        PROVE  ~overlapped /\ \A g \in Evaluators \ {e} : At(g, "idle")
    BY <1>2 DEF Solo
  <1>3. (\E l \in Lines : Start(e, l)) \/ (~At(e, "idle") /\ overlapped' = overlapped)
    BY DEF Step, At, PushUsing, CheckUsing, Import, ReadCounter, Increment, Redeclare, Identify,
           CountSymbol, SizeSymbols, PushSymbol, MapSymbol, CountObject, CountAgain, SizeObjects,
           PushObject, MapObject, StoreObject, Reduce, history
  <1>4. ~overlapped /\ \A g \in Evaluators \ {e} : At(g, "idle")
    BY <1>1, <1>2, <1>3
  <1>5. \A g \in Evaluators \ {e} : pc'[g] = pc[g]
    BY StepOthers DEF TypeInv
  <1>6. clash' = clash \/ SizeSymbols(e) \/ SizeObjects(e)
    BY DEF Step, Start, PushUsing, CheckUsing, Import, ReadCounter, Increment, Redeclare, Identify,
           CountSymbol, PushSymbol, MapSymbol, CountObject, CountAgain, PushObject, MapObject,
           StoreObject, Reduce, history
  <1>7. ~clash => ~clash'
    BY <1>4, <1>6 DEF SizeSymbols, SizeObjects, Clashes, At
  <1> QED
    BY <1>4, <1>5, <1>7 DEF Solo, At

\* The number of the name that an evaluator enters is the one it has pushed.
LEMMA PushedOwn ==
    ASSUME TypeInv, Consistent, Unique, NEW e \in Evaluators, pc[e] \in Having \ {"map"}
    PROVE  /\ Head(todo[e]).name \in DOMAIN numbers
           /\ numbers[Head(todo[e]).name] = pushed[e]
  <1> DEFINE n == Head(todo[e]).name
  <1>1. /\ symbols[pushed[e]] = n /\ pushed[e] \in DOMAIN symbols
        /\ n \in DOMAIN numbers
    BY DEF TypeInv, Ready, Placed, Consistent, Settled
  <1>2. symbols[numbers[n]] = n /\ numbers[n] \in DOMAIN symbols
    BY <1>1 DEF TypeInv, TypeOK, Consistent, TablesConsistent
  <1> QED
    BY <1>1, <1>2 DEF Unique

LEMMA StepUnique ==
    ASSUME TypeInv, Consistent, Orderly, NEW e \in Evaluators, Step(e),
           \A g \in Evaluators \ {e} : At(g, "idle")
    PROVE  Unique' /\ Stored'
  <1> DEFINE n == Head(todo[e]).name
  <1> USE DEF At, Goto
  <1>1. TypedTables /\ TypedRest /\ Placed(e) /\ Settled(e) /\ Counted(e) /\ Unique /\ Stored
    BY TypeParts DEF TypeInv, Ready, Consistent, Orderly
  <1>2. CASE PushSymbol(e)
    <2>1. /\ symbols' = Append(symbols, n) /\ numbers' = numbers /\ pushed'[e] = Len(symbols) + 1
          /\ pc[e] = "push" /\ pc'[e] = "map" /\ n \notin DOMAIN numbers
      BY <1>1, <1>2 DEF PushSymbol, entering, TypedRest, Settled, Counted
    <2>2. \A i \in DOMAIN symbols : symbols[i] \in DOMAIN numbers
      BY <1>1, <2>1 DEF Stored
    <2> HIDE DEF n
    <2>3. /\ DOMAIN symbols' = DOMAIN symbols \cup {Len(symbols) + 1}
          /\ Len(symbols) + 1 \notin DOMAIN symbols
          /\ symbols'[Len(symbols) + 1] = n
          /\ \A i \in DOMAIN symbols : symbols'[i] = symbols[i]
      <3>1. symbols \in Seq(Names \cup {n}) /\ n \in Names \cup {n}
        BY <1>1 DEF TypedTables
      <3> QED
        BY <2>1, <3>1
    <2> QED
      BY <1>1, <2>1, <2>2, <2>3 DEF Unique, Stored
  <1>3. CASE MapSymbol(e)
    <2>1. symbols' = symbols /\ numbers' = Mapped(numbers, n, pushed[e]) /\ symbols[pushed[e]] = n
      BY <1>1, <1>3 DEF MapSymbol, Settled, Having
    <2>2. DOMAIN numbers' = DOMAIN numbers \cup {n}
      BY <2>1 DEF Mapped
    <2>3. \A i \in DOMAIN symbols : symbols[i] \in DOMAIN numbers \/ i = pushed[e]
      BY <1>1 DEF Stored
    <2> QED
      BY <1>1, <2>1, <2>2, <2>3 DEF Unique, Stored
  <1>4. ASSUME UNCHANGED <<symbols, numbers>>, pc[e] # "map"
        PROVE  Unique' /\ Stored'
    <2>1. \A i \in DOMAIN symbols : symbols[i] \in DOMAIN numbers
      BY <1>1, <1>4 DEF Stored
    <2> QED
      BY <1>1, <1>4, <2>1 DEF Unique, Stored
  <1>5. PushSymbol(e) \/ MapSymbol(e) \/ (UNCHANGED <<symbols, numbers>> /\ pc[e] # "map")
    BY DEF Step, Start, PushUsing, CheckUsing, Import, ReadCounter, Increment, Redeclare, Identify,
           CountSymbol, SizeSymbols, CountObject, CountAgain, SizeObjects, PushObject, MapObject,
           StoreObject, Reduce, tables
  <1> QED
    BY <1>2, <1>3, <1>4, <1>5

\* Where nothing is counted.
LEMMA NothingCounted ==
    ASSUME NEW e \in Evaluators, pc'[e] \notin {"size", "push", "map", "again", "sizeobject",
                                               "pushobject", "mapobject", "store"}
    PROVE  Counted(e)'
  BY DEF Counted, At

LEMMA StepCounted ==
    ASSUME TypeInv, Consistent, NEW e \in Evaluators, Counted(e), Step(e)
    PROVE  Counted(e)'
  <1> DEFINE h == Head(todo[e])
  <1> USE DEF At, Goto
  <1>1. TypedTables /\ TypedRest /\ Placed(e) /\ Settled(e)
    BY TypeParts DEF TypeInv, Ready, Consistent
  <1>2. ASSUME NEW l \in Lines, Start(e, l)
        PROVE  Counted(e)'
    <2>1. pc'[e] \in {"using", "import", "fresh", "declare"}
      BY <1>1, <1>2, LineParts DEF Start, First, TypedRest
    <2> QED
      BY <2>1, NothingCounted
  <1>3. CASE PushUsing(e) \/ CheckUsing(e) \/ Import(e) \/ ReadCounter(e) \/ Increment(e)
                \/ Redeclare(e) \/ Identify(e) \/ Reduce(e) \/ MapSymbol(e)
    <2>1. pc'[e] \in {"check", "idle", "symbol", "increment", "declare", "identify", "object"}
      BY <1>1, <1>3 DEF PushUsing, CheckUsing, Import, ReadCounter, Increment, Redeclare, Identify,
                        Reduce, MapSymbol, TypedRest
    <2> QED
      BY <2>1, NothingCounted
  <1>4. CASE Leave(e)
    <2>1. pc'[e] = IF Len(todo[e]) > 1 THEN "symbol" ELSE IF h.kind = "stub" THEN "reduce" ELSE "idle"
      BY <1>1, <1>4 DEF Leave, TypedRest
    <2>2. pc'[e] \in {"symbol", "reduce", "idle"}
      BY <2>1
    <2> QED
      BY <2>2, NothingCounted
  <1>5. CASE CountSymbol(e)
    <2>1. todo' = todo /\ numbers' = numbers
      BY <1>5 DEF CountSymbol, tables
    <2>2. CASE h.name \in DOMAIN numbers
      <3>1. pc'[e] = "object"
        BY <1>1, <1>5, <2>2 DEF CountSymbol, TypedRest
      <3> QED
        BY <3>1, NothingCounted
    <2>3. CASE h.name \notin DOMAIN numbers
      <3>1. pc'[e] = "size"
        BY <1>1, <1>5, <2>3 DEF CountSymbol, TypedRest
      <3> QED
        BY <2>1, <2>3, <3>1 DEF Counted
    <2> QED
      BY <2>2, <2>3
  <1>6. CASE SizeSymbols(e) \/ PushSymbol(e)
    <2>1. /\ todo' = todo /\ numbers' = numbers
          /\ pc[e] \in {"size", "push"} /\ pc'[e] \in {"push", "map"}
      BY <1>1, <1>6 DEF SizeSymbols, PushSymbol, tables, entering, TypedRest
    <2> QED
      BY <2>1 DEF Counted
  <1>7. CASE CountObject(e) \/ CountAgain(e)
    <2>1. /\ UNCHANGED tables /\ pushed' = pushed
          /\ \/ Leave(e)
             \/ /\ pushed[e] \notin DOMAIN indices
                /\ \E v \in {"sizeobject", "again"} : pc' = [pc EXCEPT ![e] = v]
             \/ /\ pushed[e] \in DOMAIN indices
                /\ index' = [index EXCEPT ![e] = indices[pushed[e]]]
                /\ pc' = [pc EXCEPT ![e] = "store"]
      BY <1>7 DEF CountObject, CountAgain
    <2>2. ASSUME pushed[e] \notin DOMAIN indices, NEW v \in {"sizeobject", "again"},
                 pc' = [pc EXCEPT ![e] = v]
          PROVE  Counted(e)'
      <3>1. pc'[e] = v
        BY <1>1, <2>2 DEF TypedRest
      <3> QED
        BY <2>1, <2>2, <3>1 DEF Counted, tables
    <2>3. ASSUME pushed[e] \in DOMAIN indices, index' = [index EXCEPT ![e] = indices[pushed[e]]],
                 pc' = [pc EXCEPT ![e] = "store"]
          PROVE  Counted(e)'
      <3>1. pc'[e] = "store" /\ index'[e] = indices[pushed[e]]
        BY <1>1, <2>3 DEF TypedRest
      <3> QED
        BY <2>1, <2>3, <3>1 DEF Counted, tables
    <2> QED
      BY <1>4, <2>1, <2>2, <2>3
  <1>8. CASE SizeObjects(e)
    <2>1. /\ pushed' = pushed /\ indices' = indices
          /\ pc[e] = "sizeobject" /\ pc'[e] = "pushobject"
      BY <1>1, <1>8 DEF SizeObjects, tables, TypedRest
    <2> QED
      BY <2>1 DEF Counted
  <1>9. CASE PushObject(e)
    <2> DEFINE o == Entered(e)
    <2>1. /\ UNCHANGED <<todo, pushed, index, indices>> /\ objects' = Append(objects, o)
          /\ pc[e] = "pushobject" /\ pc'[e] = "mapobject"
          /\ index[e] = Len(objects) + 1 /\ o.kind = h.kind
      BY <1>1, <1>9 DEF PushObject, entering, TypedRest, Settled, Entered, Object
    <2> HIDE DEF o, h
    <2>2. objects'[index[e]] = o
      <3>1. PICK S : objects \in Seq(S)
        BY <1>1 DEF TypedTables
      <3>2. objects \in Seq(S \cup {o}) /\ o \in S \cup {o}
        BY <3>1
      <3> QED
        BY <2>1, <3>2
    <2> QED
      BY <2>1, <2>2 DEF Counted, h
  <1>10. CASE MapObject(e) \/ StoreObject(e)
    BY <1>4, <1>10 DEF MapObject, StoreObject
  <1> QED
    BY <1>2, <1>3, <1>5, <1>6, <1>7, <1>8, <1>9, <1>10 DEF Step

-----------------------------------------------------------------------------
(* Usings.                                                                 *)

\* New names that are in no namespace in use are in the way of no using.
LEMMA DeclaredResolves ==
    ASSUME NEW new, Declared(new), ~grown', UsingsResolve(env, usings), usings' = usings
    PROVE  UsingsResolve(env', usings')
  <1> SUFFICES ASSUME NEW i \in DOMAIN usings, NEW j \in DOMAIN usings, NEW l \in Locals, i # j
               PROVE  <<usings[i], l>> \notin env' \/ <<usings[j], l>> \notin env'
    BY DEF UsingsResolve
  <1>1. env' = env \cup new /\ \A n \in new \ env : \A k \in DOMAIN usings : usings[k] # n[1]
    BY DEF Declared
  <1>2. \A k \in DOMAIN usings : <<usings[k], l>> \in env' => <<usings[k], l>> \in env
    BY <1>1
  <1> QED
    BY <1>2 DEF UsingsResolve

LEMMA StepChecked ==
    ASSUME TypeInv, ~grown => Checked, NEW e \in Evaluators, Step(e), ~grown', grown \in BOOLEAN,
           \A g \in Evaluators \ {e} : At(g, "idle")
    PROVE  Checked'
  <1> USE DEF At, Goto
  <1>1. TypeOK
    BY DEF TypeInv
  <1>2. ~grown
    BY DEF Step, Start, PushUsing, CheckUsing, Import, ReadCounter, Increment, Redeclare, Identify,
           CountSymbol, SizeSymbols, PushSymbol, MapSymbol, CountObject, CountAgain, SizeObjects,
           PushObject, MapObject, StoreObject, Reduce, history, Declared
  <1>3. pc[e] # "check" => UsingsResolve(env, usings)
    BY <1>2 DEF Checked
  <1>4. CASE PushUsing(e)
    <2> DEFINE x == line[e].name[1]
    <2>1. /\ usings' = Append(usings, x) /\ env' = env /\ pc'[e] = "check"
          /\ UsingsResolve(env, usings)
      BY <1>1, <1>3, <1>4 DEF PushUsing, TypeOK
    <2> HIDE DEF x
    <2>2. usings \in Seq(Spaces \cup {Top} \cup {x}) /\ x \in Spaces \cup {Top} \cup {x}
      BY <1>1 DEF TypeOK
    <2>3. SubSeq(usings', 1, Len(usings') - 1) = usings
      BY <2>1, <2>2
    <2> QED
      BY <2>1, <2>3 DEF Checked
  <1>5. CASE CheckUsing(e)
    <2>1. UsingsResolve(env, usings) \/ UsingsResolve(env, SubSeq(usings, 1, Len(usings) - 1))
      BY <1>2 DEF Checked
    <2> QED
      BY <1>5, <2>1 DEF CheckUsing, Checked
  <1>6. CASE Import(e)
    <2>1. usings' = usings /\ pc[e] # "check"
      BY <1>6 DEF Import
    <2>2. CASE line[e].name \in env
      BY <1>3, <1>6, <2>1, <2>2 DEF Import, Checked
    <2>3. CASE line[e].name \notin env
      <3>1. Declared({line[e].name})
        BY <1>6, <2>3 DEF Import
      <3> QED
        BY <1>3, <2>1, <3>1, DeclaredResolves DEF Checked
    <2> QED
      BY <2>2, <2>3
  <1>7. CASE Redeclare(e)
    BY <1>3, <1>7, DeclaredResolves DEF Redeclare, Checked
  <1>8. CASE UNCHANGED <<env, usings>> /\ pc[e] # "check"
    BY <1>3, <1>8 DEF Checked
  <1>9. \/ PushUsing(e) \/ CheckUsing(e) \/ Import(e) \/ Redeclare(e)
        \/ UNCHANGED <<env, usings>> /\ pc[e] # "check"
    BY DEF Step, Start, ReadCounter, Increment, Identify, CountSymbol, SizeSymbols, PushSymbol,
           MapSymbol, CountObject, CountAgain, SizeObjects, PushObject, MapObject, StoreObject, Reduce
  <1> QED
    BY <1>4, <1>5, <1>6, <1>7, <1>8, <1>9


-----------------------------------------------------------------------------
(* Code.                                                                   *)

\* Code stays code.
LEMMA CodeStays ==
    ASSUME TypeInv, Consistent, NEW e \in Evaluators, Counted(e), Step(e), NEW n, HasCode(n)
    PROVE  HasCode(n)'
  <1> DEFINE s == numbers[n]
             i == indices[numbers[n]]
  <1> USE DEF At
  <1>1. /\ TypedTables /\ Placed(e)
        /\ n \in DOMAIN numbers /\ s \in DOMAIN indices /\ i \in DOMAIN objects
        /\ objects[i].kind # "stub"
    BY TypeParts DEF TypeInv, Ready, TypedTables, HasCode
  <1>2. CASE UNCHANGED tables
    BY <1>2 DEF HasCode, tables
  <1>3. CASE PushSymbol(e)
    BY <1>3 DEF HasCode, PushSymbol
  <1>4. CASE MapSymbol(e)
    <2> DEFINE m == Head(todo[e]).name
    <2>1. /\ numbers' = Mapped(numbers, m, pushed[e]) /\ UNCHANGED <<objects, indices>>
          /\ m \notin DOMAIN numbers
      BY <1>4 DEF MapSymbol, Counted
    <2> HIDE DEF m
    <2>2. n \in DOMAIN numbers' /\ numbers'[n] = s
      BY <1>1, <2>1 DEF Mapped
    <2> QED
      BY <1>1, <2>1, <2>2 DEF HasCode
  <1>5. CASE PushObject(e)
    <2> DEFINE o == Entered(e)
    <2>1. objects' = Append(objects, o) /\ UNCHANGED <<numbers, indices>>
      BY <1>5 DEF PushObject
    <2> HIDE DEF o
    <2>2. PICK S : objects \in Seq(S)
      BY <1>1 DEF TypedTables
    <2>3. objects \in Seq(S \cup {o}) /\ o \in S \cup {o}
      BY <2>2
    <2>4. \A j \in DOMAIN objects : objects'[j] = objects[j]
      BY <2>1, <2>3
    <2> QED
      BY <1>1, <2>1, <2>4 DEF HasCode
  <1>6. CASE MapObject(e)
    <2>1. /\ indices' = Mapped(indices, pushed[e], index[e]) /\ UNCHANGED <<objects, numbers>>
          /\ pushed[e] \notin DOMAIN indices
      BY <1>6 DEF MapObject, Counted
    <2> HIDE DEF s
    <2>2. s \in DOMAIN indices' /\ indices'[s] = indices[s]
      BY <1>1, <2>1 DEF Mapped
    <2> QED
      BY <1>1, <2>1, <2>2 DEF HasCode, s
  <1>7. CASE StoreObject(e)
    <2> DEFINE o == Entered(e)
    <2>1. objects' = [objects EXCEPT ![index[e]] = o] /\ UNCHANGED <<numbers, indices>>
      BY <1>7 DEF StoreObject
    <2>2. o.kind # "stub"
      BY <1>1, <1>7 DEF StoreObject, Placed, Entered, Object
    <2> HIDE DEF o
    <2>3. objects'[i] \in {objects[i], o}
      BY <1>1, <2>1
    <2> QED
      BY <1>1, <2>1, <2>2, <2>3 DEF HasCode
  <1> QED
    BY <1>2, <1>3, <1>4, <1>5, <1>6, <1>7, StepTables

\* A name that is defined has code.
LEMMA DefinedCode ==
    ASSUME TypeInv, Consistent, Unique, NEW e \in Evaluators, Counted(e),
           CountObject(e) \/ CountAgain(e) \/ MapObject(e) \/ StoreObject(e),
           Leave(e), Head(todo[e]).kind # "stub", NEW n, n = Head(todo[e]).name
    PROVE  HasCode(n)'
  <1> DEFINE h == Head(todo[e])
             s == pushed[e]
  <1> USE DEF At
  <1>1. TypedRest /\ Placed(e) /\ pc[e] \in Having \ {"map"}
    BY TypeParts DEF TypeInv, Ready, CountObject, CountAgain, MapObject, StoreObject, Having
  <1>2. n \in DOMAIN numbers /\ numbers[n] = s
    BY <1>1, PushedOwn
  <1>3. todo'[e] # todo[e]
    <2>1. todo[e] \in Seq(Entries) /\ todo[e] # <<>> /\ todo'[e] = Tail(todo[e])
      BY <1>1, EnteringFacts DEF Leave, TypedRest, Entering, Having
    <2>2. Len(Tail(todo[e])) = Len(todo[e]) - 1 /\ Len(todo[e]) \in Nat
      BY <2>1, Rest
    <2>3. Len(Tail(todo[e])) # Len(todo[e])
      BY <2>2
    <2> QED
      BY <2>1, <2>3
  <1>4. ~CountObject(e) /\ ~CountAgain(e)
    BY <1>1, <1>3 DEF CountObject, CountAgain, Counted, TypedRest
  <1>5. CASE MapObject(e)
    <2>1. /\ numbers' = numbers /\ objects' = objects /\ index' = index
          /\ indices' = Mapped(indices, s, index[e])
          /\ objects[index[e]].kind = h.kind
      BY <1>5 DEF MapObject, Counted
    <2>2. s \in DOMAIN indices' /\ indices'[s] = index[e]
      BY <2>1 DEF Mapped
    <2> QED
      BY <1>2, <2>1, <2>2 DEF HasCode
  <1>6. CASE StoreObject(e)
    <2> DEFINE o == Entered(e)
    <2>1. /\ numbers' = numbers /\ indices' = indices
          /\ objects' = [objects EXCEPT ![index[e]] = o]
          /\ s \in DOMAIN indices /\ indices[s] = index[e]
          /\ o.kind # "stub" /\ index[e] \in DOMAIN objects
      BY <1>1, <1>6 DEF StoreObject, Counted, Entered, Object, Placed, Holding
    <2> HIDE DEF o
    <2>2. objects'[index[e]] = o
      BY <2>1
    <2> QED
      BY <1>2, <2>1, <2>2 DEF HasCode
  <1> QED
    BY <1>4, <1>5, <1>6

\* What a line identifies it will define.
LEMMA IdentifiedPending ==
    ASSUME TypeInv, NEW e \in Evaluators, Identify(e), Identifies(e)
    PROVE  Pending(e, Target(e))'
  <1> DEFINE t == todo'[e]
             p == Mentioned(e)
             q == LookedUp(e)
             m == Target(e)
  <1>1. TypedRest /\ At(e, "identify")
    BY TypeParts DEF TypeInv, Identify
  <1>2. PICK k \in {"code", "data"} : Defined(e) = <<Entry(m, k)>>
    BY Identified
  <1> DEFINE x == Entry(m, k)
  <1>3. /\ x \in Entries /\ x.name = m /\ x.kind # "stub" /\ Entry(Written(e), "stub") \in Entries
        /\ \A n \in GlobalNames : Entry(n, "stub") \in Entries
    BY <1>1, WrittenName, Identified DEF Entries, Entry, Kinds, Names, At
  <1>4. /\ t = p \o <<x>> \o q
        /\ q = <<>> \/ \E y \in Entries : q = <<y>>
        /\ p = <<>> \/ \E y \in Entries : p = <<y>>
    BY <1>2, <1>3, Identified
  <1>5. pc'[e] = "symbol"
    BY <1>1 DEF Identify, Goto, TypedRest
  <1>6. m' = m
    BY DEF Identify, Target, Written
  <1> HIDE DEF t, p, q, m, x
  <1>7. /\ p \in Seq(Entries) /\ Len(p) \in {0, 1}
        /\ q \in Seq(Entries) /\ Len(q) \in {0, 1}
    <2>1. /\ <<>> \in Seq(Entries) /\ Len(<<>>) = 0
          /\ \A y \in Entries : <<y>> \in Seq(Entries) /\ Len(<<y>>) = 1
      BY EmptySeq
    <2> QED
      BY <1>4, <2>1
  <1>8. t[Len(p) + 1] = x /\ Len(t) = Len(p) + 1 + Len(q)
    BY <1>3, <1>4, <1>7, InARow
  <1>9. Len(p) + 1 \in 1..Len(t)
    <2> DEFINE a == Len(p)
               b == Len(q)
               c == Len(t)
    <2>1. a \in {0, 1} /\ b \in {0, 1} /\ c = a + 1 + b
      BY <1>7, <1>8
    <2> HIDE DEF a, b, c
    <2>2. a + 1 \in 1..c
      BY <2>1
    <2> QED
      BY <2>2 DEF a, c
  <1> QED
    BY <1>3, <1>5, <1>6, <1>8, <1>9 DEF Pending, Entering, t, m

\* What an evaluator leaves is defined, or it is pending still.
LEMMA LeavePending ==
    ASSUME TypeInv, NEW e \in Evaluators, Leave(e), pc[e] \in Entering, NEW n, Pending(e, n)
    PROVE  Pending(e, n)' \/ (Head(todo[e]).name = n /\ Head(todo[e]).kind # "stub")
  <1> DEFINE t == todo[e]
  <1>1. /\ TypedRest /\ t \in Seq(Entries) /\ t # <<>>
    BY EnteringFacts
  <1>2. /\ todo'[e] = Tail(t)
        /\ Len(t) > 1 => pc'[e] = "symbol"
    BY <1>1 DEF Leave, Goto, TypedRest
  <1>3. PICK i \in 1..Len(t) : t[i].name = n /\ t[i].kind # "stub"
    BY DEF Pending, At, Entering
  <1> HIDE DEF t
  <1>4. /\ Head(t) = t[1] /\ Len(t) \in Nat
        /\ Len(Tail(t)) = Len(t) - 1
        /\ \A j \in 1..Len(t) - 1 : Tail(t)[j] = t[j + 1]
    BY <1>1, Rest
  <1>5. CASE i = 1
    BY <1>3, <1>4, <1>5 DEF t
  <1>6. CASE i # 1
    <2>1. i - 1 \in 1..Len(Tail(t)) /\ Tail(t)[i - 1] = t[i] /\ Len(t) > 1
      <3>1. i - 1 \in 1..Len(t) - 1 /\ i - 1 + 1 = i /\ Len(t) > 1
        BY <1>4, <1>6
      <3> QED
        BY <1>4, <3>1
    <2> QED
      BY <1>2, <1>3, <2>1 DEF Pending, Entering
  <1> QED
    BY <1>5, <1>6

LEMMA StepPromised ==
    ASSUME TypeInv, Consistent, Orderly, Promised, NEW e \in Evaluators, Step(e),
           \A g \in Evaluators \ {e} : At(g, "idle")
    PROVE  Promised'
  <1> USE DEF At, Goto
  <1>1. TypeOK /\ TypedRest /\ Unique /\ Counted(e)
    BY TypeParts DEF TypeInv, Orderly
  <1>2. \A n : HasCode(n) => HasCode(n)'
    BY <1>1, CodeStays
  <1>3. \A n \in env : HasCode(n)' \/ n \in spoiled \/ Pending(e, n)
    BY <1>2 DEF Promised, Pending, Entering
  <1>4. ASSUME env' = env, spoiled \subseteq spoiled',
               \A n \in env : Pending(e, n) => Pending(e, n)' \/ HasCode(n)'
        PROVE  Promised'
    BY <1>3, <1>4 DEF Promised
  <1>5. ASSUME UNCHANGED <<env, spoiled>>, pc[e] \notin Entering \cup {"identify"}
        PROVE  Promised'
    <2>1. \A n : ~Pending(e, n)
      BY <1>5 DEF Pending
    <2> QED
      BY <1>4, <1>5, <2>1
  <1>6. ASSUME UNCHANGED <<env, spoiled>>, pc[e] \in Entering, pc'[e] \in Entering, todo' = todo
        PROVE  Promised'
    <2>1. \A n : Pending(e, n) => Pending(e, n)'
      BY <1>6 DEF Pending, Entering
    <2> QED
      BY <1>4, <1>6, <2>1
  <1>7. CASE Import(e)
    <2>1. spoiled' = spoiled /\ pc[e] = "import" /\ \A n : ~Pending(e, n)
      BY <1>7 DEF Import, Pending, Entering
    <2>2. CASE line[e].name \in env
      BY <1>4, <1>7, <2>1, <2>2 DEF Import
    <2>3. CASE line[e].name \notin env
      <3> DEFINE m == line[e].name
      <3>1. /\ env' = env \cup {m} /\ todo'[e] = <<Entry(m, "module")>> /\ pc'[e] = "symbol"
            /\ m' = m
        BY <1>1, <1>7, <2>3 DEF Import, Declared, TypedRest
      <3> HIDE DEF m
      <3>2. /\ 1 \in 1..Len(todo'[e]) /\ todo'[e][1] = Entry(m, "module")
        BY <3>1
      <3>3. Pending(e, m)'
        BY <3>1, <3>2 DEF Pending, Entering, Entry
      <3> QED
        BY <1>3, <2>1, <3>1, <3>3 DEF Promised
    <2> QED
      BY <2>2, <2>3
  <1>8. CASE Redeclare(e)
    <2>1. /\ env' = env \cup {Written(e)} /\ spoiled' = spoiled /\ pc'[e] = "identify"
          /\ Written(e)' = Written(e)
          /\ \A n : ~Pending(e, n)
      BY <1>1, <1>8 DEF Redeclare, Declared, Written, Pending, Entering, TypedRest
    <2>2. Pending(e, Written(e))'
      BY <2>1 DEF Pending
    <2> QED
      BY <1>3, <2>1, <2>2 DEF Promised
  <1>9. CASE Identify(e)
    <2> DEFINE w == Written(e)
    <2>1. /\ env' = env /\ pc[e] = "identify" /\ \A n : Pending(e, n) => n = w
          /\ usings' = usings /\ w' = w /\ Target(e)' = Target(e)
      BY <1>9 DEF Identify, Pending, Entering, Target, Written
    <2>2. w \in Bare(w) \/ HasCode(w)'
      BY <1>2, <2>1 DEF Bare
    <2> HIDE DEF w
    <2>3. CASE Identifies(e)
      <3>1. spoiled' = (spoiled \cup Bare(w)) \ {Target(e)}
        BY <1>9, <2>3 DEF Identify, w
      <3>2. Pending(e, Target(e))'
        BY <1>9, <2>3, IdentifiedPending
      <3> QED
        BY <1>3, <2>1, <2>2, <3>1, <3>2 DEF Promised
    <2>4. CASE ~Identifies(e)
      <3>1. spoiled' = spoiled \cup Bare(w)
        BY <1>9, <2>4 DEF Identify, w
      <3> QED
        BY <1>3, <2>1, <2>2, <3>1 DEF Promised
    <2> QED
      BY <2>3, <2>4
  <1>10. ASSUME Leave(e), CountObject(e) \/ CountAgain(e) \/ MapObject(e) \/ StoreObject(e)
         PROVE  Promised'
    <2>1. UNCHANGED <<env, spoiled>> /\ pc[e] \in Entering
      BY <1>10 DEF CountObject, CountAgain, MapObject, StoreObject, history, Entering
    <2>2. ASSUME NEW n \in env, Pending(e, n) PROVE Pending(e, n)' \/ HasCode(n)'
      BY <1>1, <1>10, <2>1, <2>2, LeavePending, DefinedCode
    <2> QED
      BY <1>4, <2>1, <2>2
  <1>11. CASE CountObject(e) \/ CountAgain(e)
    <2>1. /\ UNCHANGED <<env, spoiled>> /\ pc[e] \in Entering
          /\ \/ Leave(e)
             \/ todo' = todo /\ \E v \in {"again", "sizeobject", "store"} : pc' = [pc EXCEPT ![e] = v]
      BY <1>11 DEF CountObject, CountAgain, history, Entering
    <2>2. ASSUME todo' = todo, NEW v \in {"again", "sizeobject", "store"}, pc' = [pc EXCEPT ![e] = v]
          PROVE  Promised'
      <3>1. pc'[e] = v
        BY <1>1, <2>2 DEF TypedRest
      <3> QED
        BY <1>6, <2>1, <2>2, <3>1 DEF Entering
    <2> QED
      BY <1>10, <1>11, <2>1, <2>2
  <1>12. CASE MapObject(e) \/ StoreObject(e)
    BY <1>10, <1>12 DEF MapObject, StoreObject
  <1>13. CASE CountSymbol(e) \/ SizeSymbols(e) \/ PushSymbol(e) \/ MapSymbol(e) \/ SizeObjects(e)
                \/ PushObject(e)
    <2>1. /\ UNCHANGED <<env, spoiled>> /\ todo' = todo
          /\ pc[e] \in Entering /\ pc'[e] \in Entering
      BY <1>1, <1>13 DEF CountSymbol, SizeSymbols, PushSymbol, MapSymbol, SizeObjects, PushObject,
                         entering, history, TypedRest, Entering
    <2> QED
      BY <1>6, <2>1
  <1>14. ASSUME NEW l \in Lines, Start(e, l)
         PROVE  Promised'
    BY <1>5, <1>14 DEF Start, Entering
  <1>15. CASE PushUsing(e) \/ CheckUsing(e) \/ ReadCounter(e) \/ Increment(e) \/ Reduce(e)
    <2>1. UNCHANGED <<env, spoiled>> /\ pc[e] \notin Entering \cup {"identify"}
      BY <1>15 DEF PushUsing, CheckUsing, ReadCounter, Increment, Reduce, history, Entering
    <2> QED
      BY <1>5, <2>1
  <1> QED
    BY <1>7, <1>8, <1>9, <1>11, <1>12, <1>13, <1>14, <1>15 DEF Step

-----------------------------------------------------------------------------
LEMMA NextAloneInv ==
    ASSUME AloneInv, [Next]_vars
    PROVE  AloneInv'
  <1>1. NameInv'
    BY NextNameInv DEF AloneInv
  <1>2. ASSUME NEW e \in Evaluators, Step(e), ~overlapped'
        PROVE  ~clash' /\ Solo' /\ Orderly' /\ (~grown' => Checked') /\ Promised'
    <2>1. /\ TypeInv /\ ~overlapped /\ Solo' /\ ~clash /\ ~clash'
          /\ \A g \in Evaluators \ {e} : At(g, "idle") /\ At(g, "idle")'
      BY <1>2, StepSolo DEF AloneInv, NameInv
    <2>2. /\ Consistent /\ Orderly /\ Counted(e) /\ (~grown => Checked) /\ Promised
          /\ grown \in BOOLEAN
      BY <2>1 DEF AloneInv, NameInv, Orderly, TypeInv, TypeOK
    <2>3. Unique' /\ Stored'
      BY <1>2, <2>1, <2>2, StepUnique
    <2>4. \A g \in Evaluators : Counted(g)'
      <3>1. Counted(e)'
        BY <1>2, <2>1, <2>2, StepCounted
      <3>2. \A g \in Evaluators \ {e} : Counted(g)'
        BY <2>1, NothingCounted DEF At
      <3> QED
        BY <3>1, <3>2
    <2>5. ~grown' => Checked'
      BY <1>2, <2>1, <2>2, StepChecked
    <2>6. Promised'
      BY <1>2, <2>1, <2>2, StepPromised
    <2> QED
      BY <2>1, <2>3, <2>4, <2>5, <2>6 DEF Orderly
  <1>3. CASE UNCHANGED vars
    <2>1. Orderly => Orderly'
      BY <1>3 DEF vars, tables, entering, Orderly, Unique, Stored, Counted, At
    <2>2. Checked => Checked'
      BY <1>3 DEF vars, Checked, At
    <2>3. Promised => Promised'
      BY <1>3 DEF vars, tables, entering, history, Promised, Pending, HasCode, Written, At
    <2>4. Solo => Solo'
      BY <1>3 DEF vars, Solo, At
    <2> QED
      BY <1>1, <1>3, <2>1, <2>2, <2>3, <2>4 DEF vars, history, AloneInv
  <1> QED
    BY <1>1, <1>2, <1>3 DEF AloneInv, Next

\* As long as lines are evaluated one after another, a name has one number
\* (machine.hpp:57).
THEOREM NumbersUnique == Spec => []OneNumber
  <1>1. AloneInv => OneNumber
    BY DEF AloneInv, Orderly, Unique, OneNumber
  <1> QED
    BY <1>1, InitAloneInv, NextAloneInv, PTL DEF Spec

\* A using that is wrong is in the way of no later line (eval.hpp:230).
THEOREM UsingsKept == Spec => []UsingsHold
  <1>1. AloneInv => UsingsHold
    BY DEF AloneInv, Checked, UsingsHold, Idle, At
  <1> QED
    BY <1>1, InitAloneInv, NextAloneInv, PTL DEF Spec

\* A declared name has code, unless its line failed or has defined another
\* (eval.hpp:252).
THEOREM DeclaredHaveCode == Spec => []NamesHaveCode
  <1>1. AloneInv => NamesHaveCode
    BY DEF AloneInv, Promised, Pending, Entering, NamesHaveCode, Idle, At
  <1> QED
    BY <1>1, InitAloneInv, NextAloneInv, PTL DEF Spec
=============================================================================
