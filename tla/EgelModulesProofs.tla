--------------------------- MODULE EgelModulesProofs ---------------------------
(***************************************************************************)
(* Proofs about EgelModules, for any set of files with any contents.       *)
(***************************************************************************)
EXTENDS EgelModules, FiniteSetTheorems, TLAPS

\* The inner loops run over what they should, the outer one inside _loading.
LoopsOK ==
    /\ n >= 1
    /\ phase = "preload" => pending \in Seq(Paths) /\ n <= Len(loading)
    /\ phase = "eval" => pending \in Seq(Names) /\ n <= Len(loading)

\* LoadedOnce, index by index.
Once ==
    /\ \A i, j \in 1..Len(modules) : modules[i] = modules[j] => i = j
    /\ \A i, j \in 1..Len(loading) : loading[i] = loading[j] => i = j
    /\ \A i \in 1..Len(modules), j \in 1..Len(loading) : modules[i] # loading[j]

ImportsOf(p) == Range(ast[p].imports)

\* Behind the loop of transitive_closure the imports are loaded; where it
\* stands, the rest is pending.
Frontier ==
    /\ phase \in {"parse", "preload"} =>
          \A k \in 1..Len(loading) : k < n => ImportsOf(loading[k]) \subseteq Loaded
    /\ phase = "preload" =>
          ImportsOf(loading[n]) \subseteq Loaded \cup Range(pending)
    /\ phase \notin {"parse", "preload", "idle"} =>
          \A k \in 1..Len(loading) : ImportsOf(loading[k]) \subseteq Loaded

IInv == TypeOK /\ LoopsOK /\ Once /\ Frontier /\ ImportsLoaded

-----------------------------------------------------------------------------
LEMMA SeqRange ==
    ASSUME NEW S, NEW s \in Seq(S)
    PROVE  /\ Range(s) \subseteq S
           /\ \A e : e \in Range(s) <=> \E i \in 1..Len(s) : s[i] = e
  BY DEF Range

LEMMA AppendFacts ==
    ASSUME NEW s \in Seq(Paths), NEW q \in Paths
    PROVE  /\ Append(s, q) \in Seq(Paths)
           /\ Len(Append(s, q)) = Len(s) + 1
           /\ \A i \in 1..Len(s) : Append(s, q)[i] = s[i]
           /\ Append(s, q)[Len(s) + 1] = q
           /\ Range(Append(s, q)) = Range(s) \cup {q}
  <1>1. /\ Append(s, q) \in Seq(Paths)
        /\ Len(Append(s, q)) = Len(s) + 1
        /\ \A i \in 1..Len(s) : Append(s, q)[i] = s[i]
        /\ Append(s, q)[Len(s) + 1] = q
    OBVIOUS
  <1>2. \A i \in 1..(Len(s) + 1) : i \in 1..Len(s) \/ i = Len(s) + 1
    OBVIOUS
  <1>3. /\ DOMAIN Append(s, q) = 1..(Len(s) + 1)
        /\ DOMAIN s = 1..Len(s)
        /\ \A i \in 1..Len(s) : i \in 1..(Len(s) + 1)
        /\ Len(s) + 1 \in 1..(Len(s) + 1)
    OBVIOUS
  <1>4. Range(Append(s, q)) = Range(s) \cup {q}
    BY <1>1, <1>2, <1>3 DEF Range
  <1> QED
    BY <1>1, <1>4

LEMMA HeadTailFacts ==
    ASSUME NEW S, NEW s \in Seq(S), s # <<>>
    PROVE  /\ Head(s) \in S
           /\ Tail(s) \in Seq(S)
           /\ Range(s) = {Head(s)} \cup Range(Tail(s))
  <1>1. /\ Head(s) \in S /\ Head(s) = s[1]
        /\ Tail(s) \in Seq(S)
        /\ Len(Tail(s)) = Len(s) - 1 /\ Len(s) \in Nat /\ Len(s) >= 1
        /\ \A i \in 1..Len(Tail(s)) : Tail(s)[i] = s[i + 1]
    OBVIOUS
  <1>2. ASSUME NEW i \in 1..Len(s)
        PROVE  s[i] \in {Head(s)} \cup Range(Tail(s))
    <2>1. CASE i = 1
      BY <1>1, <2>1
    <2>2. CASE i # 1
      <3>1. i - 1 \in 1..Len(Tail(s)) /\ s[i] = Tail(s)[i - 1]
        BY <1>1, <2>2
      <3> QED
        BY <3>1, <1>1, SeqRange
    <2> QED
      BY <2>1, <2>2
  <1>3. ASSUME NEW i \in 1..Len(Tail(s))
        PROVE  Tail(s)[i] \in Range(s)
    <2>1. i + 1 \in 1..Len(s) /\ Tail(s)[i] = s[i + 1]
      BY <1>1
    <2> QED
      BY <2>1, SeqRange
  <1>4. Head(s) \in Range(s)
    BY <1>1, SeqRange
  <1>5. \A e \in Range(s) : \E i \in 1..Len(s) : s[i] = e
    BY SeqRange
  <1>6. \A e \in Range(Tail(s)) : \E i \in 1..Len(Tail(s)) : Tail(s)[i] = e
    <2>1. DOMAIN Tail(s) = 1..Len(Tail(s))
      BY <1>1
    <2> QED
      BY <2>1 DEF Range
  <1>7. Range(s) = {Head(s)} \cup Range(Tail(s))
    BY <1>2, <1>3, <1>4, <1>5, <1>6
  <1> QED
    BY <1>1, <1>7

LEMMA ReverseFacts ==
    ASSUME NEW s \in Seq(Paths)
    PROVE  /\ Reverse(s) \in Seq(Paths)
           /\ Len(Reverse(s)) = Len(s)
           /\ \A i \in 1..Len(s) : /\ Len(s) - i + 1 \in 1..Len(s)
                                   /\ Reverse(s)[i] = s[Len(s) - i + 1]
           /\ Range(Reverse(s)) = Range(s)
  <1>1. /\ Reverse(s) \in Seq(Paths)
        /\ Len(Reverse(s)) = Len(s)
        /\ \A i \in 1..Len(s) : /\ Len(s) - i + 1 \in 1..Len(s)
                                /\ Reverse(s)[i] = s[Len(s) - i + 1]
    BY DEF Reverse
  <1>2. \A i \in 1..Len(s) : s[i] = Reverse(s)[Len(s) - i + 1]
    BY DEF Reverse
  <1>3. Range(Reverse(s)) = Range(s)
    <2>1. ASSUME NEW i \in 1..Len(s)
          PROVE  /\ Reverse(s)[i] \in Range(s)
                 /\ s[i] \in Range(Reverse(s))
      <3>1. Reverse(s)[i] \in Range(s)
        BY <1>1, SeqRange
      <3>2. Reverse(s)[Len(s) - i + 1] \in Range(Reverse(s))
        BY <1>1, SeqRange
      <3> QED
        BY <1>2, <3>1, <3>2
    <2>2. /\ \A e \in Range(s) : \E i \in 1..Len(s) : s[i] = e
          /\ \A e \in Range(Reverse(s)) : \E i \in 1..Len(s) : Reverse(s)[i] = e
      BY <1>1, SeqRange
    <2>3. ASSUME NEW e \in Range(Reverse(s)) PROVE e \in Range(s)
      BY <2>1, <2>2
    <2>4. ASSUME NEW e \in Range(s) PROVE e \in Range(Reverse(s))
      BY <2>1, <2>2
    <2> QED
      BY <2>3, <2>4
  <1> QED
    BY <1>1, <1>3

LEMMA ConcatFacts ==
    ASSUME NEW s \in Seq(Paths), NEW t \in Seq(Paths)
    PROVE  /\ s \o t \in Seq(Paths)
           /\ Len(s \o t) = Len(s) + Len(t)
           /\ \A i \in 1..Len(s) : (s \o t)[i] = s[i]
           /\ \A i \in 1..(Len(s) + Len(t)) :
                 i \in 1..Len(s) \/ /\ i - Len(s) \in 1..Len(t)
                                    /\ (s \o t)[i] = t[i - Len(s)]
           /\ Range(s \o t) = Range(s) \cup Range(t)
  <1>1. /\ s \o t \in Seq(Paths)
        /\ Len(s \o t) = Len(s) + Len(t)
        /\ \A i \in 1..Len(s) : (s \o t)[i] = s[i]
        /\ \A i \in 1..(Len(s) + Len(t)) :
              i \in 1..Len(s) \/ /\ i - Len(s) \in 1..Len(t)
                                 /\ (s \o t)[i] = t[i - Len(s)]
    OBVIOUS
  <1>2. \A i \in 1..Len(t) : /\ i + Len(s) \in 1..(Len(s) + Len(t))
                             /\ (s \o t)[i + Len(s)] = t[i]
    OBVIOUS
  <1>3. \A i \in 1..Len(s) : i \in 1..(Len(s) + Len(t))
    OBVIOUS
  <1>4. /\ DOMAIN (s \o t) = 1..(Len(s) + Len(t))
        /\ DOMAIN s = 1..Len(s)
        /\ DOMAIN t = 1..Len(t)
    OBVIOUS
  <1>5. Range(s) \cup Range(t) \subseteq Range(s \o t)
    <2>1. \A i \in 1..Len(s) : s[i] \in Range(s \o t)
      BY <1>1, <1>3, <1>4 DEF Range
    <2>2. \A i \in 1..Len(t) : t[i] \in Range(s \o t)
      BY <1>2, <1>4 DEF Range
    <2> QED
      BY <2>1, <2>2, <1>4 DEF Range
  <1>6. Range(s \o t) \subseteq Range(s) \cup Range(t)
    <2>1. \A i \in 1..(Len(s) + Len(t)) : (s \o t)[i] \in Range(s) \cup Range(t)
      BY <1>1, <1>4 DEF Range
    <2> QED
      BY <2>1, <1>4 DEF Range
  <1> QED
    BY <1>1, <1>5, <1>6
-----------------------------------------------------------------------------
LEMMA EmptyTyped == Empty \in Contents
  BY DEF Empty, Contents

LEMMA ContentsFields ==
    ASSUME NEW c \in Contents
    PROVE  /\ c.imports \in Seq(Paths)
           /\ c.vals \in Seq(Names)
           /\ c.defs \subseteq Names
           /\ c.dynamic \in BOOLEAN
  BY DEF Contents

LEMMA InitIInv == Init => IInv
  <1> SUFFICES ASSUME Init PROVE IInv
    OBVIOUS
  <1> USE DEF Init
  <1>1. disk \in [Paths -> Contents \cup {Absent}]
    BY ModulesAssumption
  <1>2. /\ source \in [Paths -> Contents]
        /\ ast \in [Paths -> Contents]
    BY EmptyTyped
  <1>3. /\ modules \in Seq(Paths)
        /\ loading \in Seq(Paths)
        /\ pending \in Seq(Paths) \cup Seq(Names)
    OBVIOUS
  <1>4. TypeOK
    BY <1>1, <1>2, <1>3 DEF TypeOK, Phases
  <1>5. LoopsOK /\ Once /\ Frontier /\ ImportsLoaded
    BY DEF LoopsOK, Once, Frontier, ImportsLoaded
  <1> QED
    BY <1>4, <1>5 DEF IInv

\* What preload of a file that is there does.
LEMMA PreloadEffect ==
    ASSUME TypeOK, Once, NEW q \in Paths, disk[q] # Absent, Preload(q),
           modules' = modules
    PROVE  /\ loading' \in Seq(Paths)
           /\ source' \in [Paths -> Contents]
           /\ ast' \in [Paths -> Contents]
           /\ Once'
           /\ Loaded' = Loaded \cup {q}
           /\ Len(loading') >= Len(loading)
           /\ \A k \in 1..Len(loading) : loading'[k] = loading[k]
           /\ \A p \in Loaded : ast'[p] = ast[p]
  <1>1. CASE AlreadyLoaded(q)
    <2>1. UNCHANGED <<loading, source, ast>>
      BY <1>1 DEF Preload
    <2>2. q \in Loaded
      BY <1>1 DEF AlreadyLoaded, Loaded
    <2>3. Loaded' = Loaded
      BY <2>1 DEF Loaded
    <2> QED
      BY <2>1, <2>2, <2>3 DEF TypeOK, Once
  <1>2. CASE ~AlreadyLoaded(q)
    <2>1. /\ loading' = Append(loading, q)
          /\ source' = [source EXCEPT ![q] = disk[q]]
          /\ ast' = [ast EXCEPT ![q] = IF disk[q].dynamic THEN disk[q] ELSE Empty]
      BY <1>2 DEF Preload
    <2>2. /\ loading \in Seq(Paths) /\ modules \in Seq(Paths)
          /\ disk[q] \in Contents
          /\ q \notin Range(modules) /\ q \notin Range(loading)
      BY <1>2 DEF AlreadyLoaded, TypeOK
    <2>3. /\ loading' \in Seq(Paths)
          /\ Len(loading') = Len(loading) + 1
          /\ \A i \in 1..Len(loading) : loading'[i] = loading[i]
          /\ loading'[Len(loading) + 1] = q
          /\ Range(loading') = Range(loading) \cup {q}
      BY <2>1, <2>2, AppendFacts
    <2>4. /\ source' \in [Paths -> Contents]
          /\ ast' \in [Paths -> Contents]
          /\ \A p \in Paths : p # q => ast'[p] = ast[p]
      BY <2>1, <2>2, EmptyTyped DEF TypeOK
    <2>5. Once'
      <3>1. /\ \A i \in 1..Len(modules) : modules[i] # q
            /\ \A i \in 1..Len(loading) : loading[i] # q
        BY <2>2 DEF Range
      <3>2. \A i \in 1..Len(loading') : i \in 1..Len(loading) \/ i = Len(loading) + 1
        BY <2>2, <2>3
      <3> QED
        BY <2>3, <3>1, <3>2 DEF Once
    <2>6. Loaded' = Loaded \cup {q}
      BY <2>3 DEF Loaded
    <2>7. \A p \in Loaded : ast'[p] = ast[p]
      BY <2>2, <2>4 DEF Loaded, Range
    <2> QED
      BY <2>2, <2>3, <2>4, <2>5, <2>6, <2>7
  <1> QED
    BY <1>1, <1>2

\* A step that leaves the modules and what is known of them alone.
LEMMA QuietStep ==
    ASSUME IInv, UNCHANGED <<modules, loading, ast>>
    PROVE  Once' /\ ImportsLoaded' /\ Loaded' = Loaded
  BY DEF IInv, Once, ImportsLoaded, Loaded
LEMMA NextIInv == IInv /\ [Next]_vars => IInv'
  <1> SUFFICES ASSUME IInv, [Next]_vars
               PROVE  IInv'
    OBVIOUS
  <1> USE DEF tables, request
  <1>0. /\ TypeOK /\ LoopsOK /\ Once /\ Frontier /\ ImportsLoaded
        /\ modules \in Seq(Paths) /\ loading \in Seq(Paths)
        /\ n \in Nat /\ n >= 1
    BY DEF IInv, TypeOK, LoopsOK
  <1>1. CASE UNCHANGED vars
    BY <1>0, <1>1 DEF vars, IInv, TypeOK, LoopsOK, Once, Frontier, ImportsLoaded,
       ImportsOf, Loaded
  <1>2. ASSUME NEW p \in Paths, Edit(p)
        PROVE  IInv'
    <2> USE <1>2 DEF Edit
    <2>1. disk' \in [Paths -> Contents \cup {Absent}]
      BY <1>0, ModulesAssumption DEF TypeOK
    <2>2. TypeOK' /\ LoopsOK' /\ Frontier'
      BY <1>0, <2>1 DEF TypeOK, LoopsOK, Frontier
    <2> QED
      BY <2>2, QuietStep DEF IInv
  <1>3. ASSUME NEW p \in Paths, Load(p)
        PROVE  IInv'
    <2>1. /\ modules' = modules /\ root' = p /\ disk' = disk
          /\ UNCHANGED <<env, code, evaluated>>
      BY <1>3 DEF Load
    <2>2. CASE disk[p] = Absent
      <3>1. /\ UNCHANGED <<loading, source, ast, n, undefined>>
            /\ phase' = "idle" /\ pending' = <<>> /\ status' = "error" /\ failed' = TRUE
        BY <1>3, <2>2 DEF Load, Throw
      <3>2. TypeOK' /\ LoopsOK' /\ Frontier'
        BY <1>0, <2>1, <3>1 DEF TypeOK, LoopsOK, Frontier, Phases
      <3> QED
        BY <2>1, <3>1, <3>2, QuietStep DEF IInv
    <2>3. CASE disk[p] # Absent
      <3>1. /\ Preload(p) /\ phase' = "parse" /\ status' = "loading" /\ n' = 1
            /\ undefined' \in BOOLEAN
            /\ UNCHANGED <<pending, failed>>
        BY <1>0, <1>3, <2>3 DEF Load, TypeOK
      <3>2. /\ loading' \in Seq(Paths)
            /\ source' \in [Paths -> Contents]
            /\ ast' \in [Paths -> Contents]
            /\ Once'
            /\ \A q \in Loaded : ast'[q] = ast[q]
        BY <1>0, <2>1, <2>3, <3>1, PreloadEffect
      <3>3. TypeOK' /\ LoopsOK'
        BY <1>0, <2>1, <3>1, <3>2 DEF TypeOK, LoopsOK, Phases
      <3>4. Frontier'
        BY <3>1 DEF Frontier
      <3>5. ImportsLoaded'
        <4>1. \A i \in 1..Len(modules) : modules[i] \in Loaded
          BY <1>0 DEF Loaded, Range
        <4>2. \A i \in 1..Len(modules) : ast'[modules[i]] = ast[modules[i]]
          BY <3>2, <4>1
        <4> QED
          BY <1>0, <2>1, <4>2 DEF ImportsLoaded
      <3> QED
        BY <3>2, <3>3, <3>4, <3>5 DEF IInv
    <2> QED
      BY <2>2, <2>3
  <1>4. CASE Parse
    <2> DEFINE p == loading[n]
    <2>1. /\ phase = "parse" /\ n \in 1..Len(loading) /\ p \in Paths
          /\ UNCHANGED <<disk, modules, loading, env, code, evaluated, root>>
      BY <1>0, <1>4 DEF Parse
    <2>2. CASE ~source[p].good
      <3>1. /\ UNCHANGED <<source, ast, n, undefined>>
            /\ phase' = "idle" /\ pending' = <<>> /\ status' = "error" /\ failed' = TRUE
        BY <1>4, <2>2 DEF Parse, Throw
      <3>2. TypeOK' /\ LoopsOK' /\ Frontier'
        BY <1>0, <2>1, <3>1 DEF TypeOK, LoopsOK, Frontier, Phases
      <3> QED
        BY <2>1, <3>1, <3>2, QuietStep DEF IInv
    <2>3. CASE source[p].good
      <3>1. /\ ast' = [ast EXCEPT ![p] = IF @.dynamic THEN @ ELSE source[p]]
            /\ source' = [source EXCEPT ![p] = IF ast[p].dynamic THEN @ ELSE Empty]
            /\ pending' = ast'[p].imports
            /\ phase' = "preload"
            /\ UNCHANGED <<n, status, failed, undefined>>
        BY <1>4, <2>3 DEF Parse
      <3>2. /\ ast' \in [Paths -> Contents]
            /\ source' \in [Paths -> Contents]
            /\ \A q \in Paths : q # p => ast'[q] = ast[q]
        BY <1>0, <2>1, <3>1, EmptyTyped DEF TypeOK
      <3>3. ast'[p] \in Contents
        BY <2>1, <3>2
      <3>4. pending' \in Seq(Paths)
        BY <3>1, <3>3, ContentsFields
      <3>5. TypeOK' /\ LoopsOK'
        BY <1>0, <2>1, <3>1, <3>2, <3>4 DEF TypeOK, LoopsOK, Phases
      <3>6. Once' /\ Loaded' = Loaded
        BY <1>0, <2>1 DEF Once, Loaded
      <3>7. ImportsLoaded'
        <4>1. \A i \in 1..Len(modules) : modules[i] # p /\ modules[i] \in Paths
          BY <1>0, <2>1 DEF Once
        <4> QED
          BY <1>0, <2>1, <3>2, <4>1 DEF ImportsLoaded
      <3>8. Frontier'
        <4>1. \A k \in 1..Len(loading) : k < n => loading[k] # p /\ loading[k] \in Paths
          BY <1>0, <2>1 DEF Once
        <4>2. \A k \in 1..Len(loading) :
                 k < n => ImportsOf(loading[k])' \subseteq Loaded'
          BY <1>0, <2>1, <3>2, <3>6, <4>1 DEF Frontier, ImportsOf
        <4>3. ImportsOf(loading[n])' \subseteq Loaded' \cup Range(pending')
          BY <2>1, <3>1 DEF ImportsOf
        <4> QED
          BY <2>1, <3>1, <4>2, <4>3 DEF Frontier
      <3> QED
        BY <3>5, <3>6, <3>7, <3>8 DEF IInv
    <2> QED
      BY <2>2, <2>3
  <1>5. CASE PreloadNext
    <2> DEFINE q == Head(pending)
    <2>1. /\ phase = "preload" /\ n \in 1..Len(loading)
          /\ pending \in Seq(Paths) /\ pending # <<>>
          /\ UNCHANGED <<disk, modules, env, code, evaluated, root>>
      BY <1>0, <1>5 DEF PreloadNext, LoopsOK
    <2>2. /\ q \in Paths
          /\ Tail(pending) \in Seq(Paths)
          /\ Range(pending) = {q} \cup Range(Tail(pending))
      BY <2>1, HeadTailFacts
    <2>3. CASE disk[q] = Absent
      <3>1. /\ UNCHANGED <<loading, source, ast, n, undefined>>
            /\ phase' = "idle" /\ pending' = <<>> /\ status' = "error" /\ failed' = TRUE
        BY <1>5, <2>3 DEF PreloadNext, Throw
      <3>2. TypeOK' /\ LoopsOK' /\ Frontier'
        BY <1>0, <2>1, <3>1 DEF TypeOK, LoopsOK, Frontier, Phases
      <3> QED
        BY <2>1, <3>1, <3>2, QuietStep DEF IInv
    <2>4. CASE disk[q] # Absent
      <3>1. /\ Preload(q) /\ pending' = Tail(pending)
            /\ UNCHANGED <<phase, n, status, failed, undefined>>
        BY <1>5, <2>4 DEF PreloadNext
      <3>2. /\ loading' \in Seq(Paths)
            /\ source' \in [Paths -> Contents]
            /\ ast' \in [Paths -> Contents]
            /\ Once'
            /\ Loaded' = Loaded \cup {q}
            /\ Len(loading') >= Len(loading)
            /\ \A k \in 1..Len(loading) : loading'[k] = loading[k]
            /\ \A r \in Loaded : ast'[r] = ast[r]
        BY <1>0, <2>1, <2>2, <2>4, <3>1, PreloadEffect
      <3>3. Len(loading') \in Nat /\ Len(loading) \in Nat
        BY <1>0, <3>2
      <3>4. TypeOK' /\ LoopsOK'
        BY <1>0, <2>1, <2>2, <3>1, <3>2, <3>3 DEF TypeOK, LoopsOK
      <3>5. ImportsLoaded'
        <4>1. \A i \in 1..Len(modules) : modules[i] \in Loaded
          BY <1>0 DEF Loaded, Range
        <4>2. \A i \in 1..Len(modules) : ast'[modules[i]] = ast[modules[i]]
          BY <3>2, <4>1
        <4> QED
          BY <1>0, <2>1, <4>2 DEF ImportsLoaded
      <3>6. \A k \in 1..Len(loading) :
               Range(ast'[loading'[k]].imports) = ImportsOf(loading[k])
        <4>1. \A k \in 1..Len(loading) : loading[k] \in Loaded
          BY <1>0 DEF Loaded, Range
        <4> QED
          BY <3>2, <4>1 DEF ImportsOf
      <3>7. \A k \in 1..Len(loading') :
               k < n => Range(ast'[loading'[k]].imports) \subseteq Loaded'
        <4>1. \A k \in 1..Len(loading') : k < n => k \in 1..Len(loading)
          BY <2>1, <3>3
        <4>2. \A k \in 1..Len(loading) : k < n => ImportsOf(loading[k]) \subseteq Loaded
          BY <1>0, <2>1 DEF Frontier
        <4> QED
          BY <3>2, <3>6, <4>1, <4>2
      <3>8. Range(ast'[loading'[n]].imports) \subseteq Loaded' \cup Range(pending')
        <4>1. ImportsOf(loading[n]) \subseteq Loaded \cup Range(pending)
          BY <1>0, <2>1 DEF Frontier
        <4> QED
          BY <2>1, <2>2, <3>1, <3>2, <3>6, <4>1
      <3>9. phase' = "preload" /\ n' = n
        BY <2>1, <3>1
      <3>10. Frontier'
        BY <3>7, <3>8, <3>9 DEF Frontier, ImportsOf
      <3> QED
        BY <3>2, <3>4, <3>5, <3>10 DEF IInv
    <2> QED
      BY <2>3, <2>4
  <1>6. CASE PreloadDone
    <2>1. /\ phase = "preload" /\ pending = <<>> /\ phase' = "parse" /\ n' = n + 1
          /\ n \in 1..Len(loading)
          /\ UNCHANGED <<disk, modules, loading, source, ast, env, code, evaluated,
                         pending, root, status, failed, undefined>>
      BY <1>0, <1>6 DEF PreloadDone, LoopsOK
    <2>2. TypeOK' /\ LoopsOK'
      BY <1>0, <2>1 DEF TypeOK, LoopsOK, Phases
    <2>3. Range(pending) = {}
      BY <2>1 DEF Range
    <2>4. \A k \in 1..Len(loading) : k < n + 1 => k < n \/ k = n
      BY <1>0
    <2>5. \A k \in 1..Len(loading) : k < n + 1 => ImportsOf(loading[k]) \subseteq Loaded
      BY <1>0, <2>1, <2>3, <2>4 DEF Frontier
    <2>6. Frontier'
      BY <2>1, <2>5 DEF Frontier, ImportsOf, Loaded
    <2> QED
      BY <2>1, <2>2, <2>6, QuietStep DEF IInv
  <1>7. CASE ReverseLoading
    <2>1. /\ phase = "parse" /\ n > Len(loading)
          /\ loading' = Reverse(loading) /\ phase' = "declare" /\ n' = 1
          /\ UNCHANGED <<disk, modules, source, ast, env, code, evaluated,
                         pending, root, status, failed, undefined>>
      BY <1>7 DEF ReverseLoading
    <2>2. /\ loading' \in Seq(Paths)
          /\ Len(loading') = Len(loading)
          /\ \A i \in 1..Len(loading) : /\ Len(loading) - i + 1 \in 1..Len(loading)
                                        /\ loading'[i] = loading[Len(loading) - i + 1]
          /\ Range(loading') = Range(loading)
      BY <1>0, <2>1, ReverseFacts
    <2>3. TypeOK' /\ LoopsOK'
      BY <1>0, <2>1, <2>2 DEF TypeOK, LoopsOK, Phases
    <2>4. Loaded' = Loaded
      BY <2>1, <2>2 DEF Loaded
    <2>5. Once'
      <3>1. \A i, j \in 1..Len(loading) :
               Len(loading) - i + 1 = Len(loading) - j + 1 => i = j
        BY <1>0
      <3>2. ASSUME NEW i \in 1..Len(loading), NEW j \in 1..Len(loading),
                   loading'[i] = loading'[j]
            PROVE  i = j
        BY <1>0, <2>2, <3>1, <3>2 DEF Once
      <3>3. ASSUME NEW i \in 1..Len(modules), NEW j \in 1..Len(loading)
            PROVE  modules[i] # loading'[j]
        BY <1>0, <2>2, <3>3 DEF Once
      <3> QED
        BY <1>0, <2>1, <2>2, <3>2, <3>3 DEF Once
    <2>6. ImportsLoaded'
      BY <1>0, <2>1 DEF ImportsLoaded
    <2>7. \A k \in 1..Len(loading) : ImportsOf(loading[k]) \subseteq Loaded
      <3>1. \A k \in 1..Len(loading) : k < n
        BY <1>0, <2>1
      <3> QED
        BY <1>0, <2>1, <3>1 DEF Frontier
    <2>8. Frontier'
      BY <2>1, <2>2, <2>4, <2>7 DEF Frontier, ImportsOf
    <2> QED
      BY <2>3, <2>5, <2>6, <2>8 DEF IInv
  <1>8. CASE Declare \/ Semantical \/ Codegen
    <2>1. /\ phase \in {"declare", "semantical", "codegen"} /\ n \in 1..Len(loading)
          /\ UNCHANGED <<disk, modules, loading, source, ast, evaluated, root>>
          /\ loading[n] \in Paths
      BY <1>0, <1>8 DEF Declare, Semantical, Codegen
    <2>2. ast[loading[n]] \in Contents
      BY <1>0, <2>1 DEF TypeOK
    <2>3. ast[loading[n]].defs \subseteq Names
      BY <2>2, ContentsFields
    <2>4. env' \subseteq Names /\ code' \subseteq Names
      BY <1>0, <1>8, <2>3 DEF Declare, Semantical, Codegen, TypeOK
    <2>5. \/ /\ n' = n + 1
             /\ UNCHANGED <<phase, pending, status, failed, undefined>>
          \/ Throw
      BY <1>8 DEF Declare, Semantical, Codegen
    <2>6. TypeOK' /\ LoopsOK' /\ Frontier'
      <3>1. CASE Throw
        BY <1>0, <2>1, <2>4, <3>1 DEF Throw, TypeOK, LoopsOK, Frontier, Phases
      <3>2. CASE /\ n' = n + 1
                 /\ UNCHANGED <<phase, pending, status, failed, undefined>>
        BY <1>0, <2>1, <2>4, <3>2 DEF TypeOK, LoopsOK, Frontier, ImportsOf, Loaded
      <3> QED
        BY <2>5, <3>1, <3>2
    <2> QED
      BY <2>1, <2>6, QuietStep DEF IInv
  <1>9. CASE NextPhase \/ Values \/ EvalValue \/ EvalDone
    <2>1. /\ phase \in {"declare", "semantical", "codegen", "values", "eval"}
          /\ phase' \in {"semantical", "codegen", "values", "eval"}
          /\ n' \in {1, n, n + 1}
          /\ UNCHANGED <<disk, modules, loading, source, ast, env, code,
                         root, status, failed, undefined>>
      BY <1>9 DEF NextPhase, Values, EvalValue, EvalDone, Following
    <2>2. /\ pending' \in Seq(Paths) \cup Seq(Names)
          /\ phase' = "eval" => pending' \in Seq(Names) /\ n' <= Len(loading)
          /\ evaluated' \subseteq Names
      <3>1. CASE NextPhase
        BY <1>0, <3>1 DEF NextPhase, Following, TypeOK
      <3>2. CASE Values
        <4>1. /\ n \in 1..Len(loading) /\ loading[n] \in Paths
              /\ pending' = ast[loading[n]].vals /\ evaluated' = evaluated /\ n' = n
          BY <1>0, <3>2 DEF Values
        <4>2. ast[loading[n]] \in Contents
          BY <1>0, <4>1 DEF TypeOK
        <4>3. pending' \in Seq(Names)
          BY <4>1, <4>2, ContentsFields
        <4> QED
          BY <1>0, <4>1, <4>3 DEF TypeOK
      <3>3. CASE EvalValue
        <4>1. /\ pending \in Seq(Names) /\ pending # <<>> /\ n <= Len(loading)
              /\ pending' = Tail(pending) /\ n' = n
              /\ evaluated' = evaluated \cup {Head(pending)}
          BY <1>0, <3>3 DEF EvalValue, LoopsOK
        <4>2. Head(pending) \in Names /\ Tail(pending) \in Seq(Names)
          BY <4>1, HeadTailFacts
        <4> QED
          BY <1>0, <4>1, <4>2 DEF TypeOK
      <3>4. CASE EvalDone
        BY <1>0, <3>4 DEF EvalDone, TypeOK
      <3> QED
        BY <1>9, <3>1, <3>2, <3>3, <3>4
    <2>3. TypeOK' /\ LoopsOK'
      BY <1>0, <2>1, <2>2 DEF TypeOK, LoopsOK, Phases
    <2>4. Frontier'
      BY <1>0, <2>1 DEF Frontier, ImportsOf, Loaded
    <2> QED
      BY <2>1, <2>3, <2>4, QuietStep DEF IInv
  <1>10. CASE Flush
    <2>1. /\ phase = "values" /\ modules' = modules \o loading /\ loading' = <<>>
          /\ phase' = "idle" /\ status' = "ok"
          /\ UNCHANGED <<disk, source, ast, env, code, evaluated, n, pending,
                         root, failed, undefined>>
      BY <1>10 DEF Flush
    <2>2. /\ modules' \in Seq(Paths)
          /\ Len(modules') = Len(modules) + Len(loading)
          /\ \A i \in 1..Len(modules) : modules'[i] = modules[i]
          /\ \A i \in 1..(Len(modules) + Len(loading)) :
                i \in 1..Len(modules) \/ /\ i - Len(modules) \in 1..Len(loading)
                                         /\ modules'[i] = loading[i - Len(modules)]
          /\ Range(modules') = Loaded
      BY <1>0, <2>1, ConcatFacts DEF Loaded
    <2>3. TypeOK' /\ LoopsOK' /\ Frontier'
      BY <1>0, <2>1, <2>2 DEF TypeOK, LoopsOK, Frontier, Phases
    <2>4. Once'
      <3>1. ASSUME NEW i \in 1..Len(modules'), NEW j \in 1..Len(modules'),
                   modules'[i] = modules'[j]
            PROVE  i = j
        <4>1. CASE i \in 1..Len(modules) /\ j \in 1..Len(modules)
          BY <1>0, <2>2, <3>1, <4>1 DEF Once
        <4>2. CASE i \notin 1..Len(modules) /\ j \notin 1..Len(modules)
          <5>1. i - Len(modules) = j - Len(modules)
            BY <1>0, <2>2, <3>1, <4>2 DEF Once
          <5> QED
            BY <1>0, <2>2, <5>1
        <4>3. CASE i \in 1..Len(modules) /\ j \notin 1..Len(modules)
          BY <1>0, <2>2, <3>1, <4>3 DEF Once
        <4>4. CASE i \notin 1..Len(modules) /\ j \in 1..Len(modules)
          BY <1>0, <2>2, <3>1, <4>4 DEF Once
        <4> QED
          BY <4>1, <4>2, <4>3, <4>4
      <3> QED
        BY <2>1, <3>1 DEF Once
    <2>5. ImportsLoaded'
      <3>1. ASSUME NEW i \in 1..Len(modules')
            PROVE  Range(ast'[modules'[i]].imports) \subseteq Range(modules')
        <4>1. CASE i \in 1..Len(modules)
          BY <1>0, <2>1, <2>2, <4>1 DEF ImportsLoaded, Loaded
        <4>2. CASE i \notin 1..Len(modules)
          BY <1>0, <2>1, <2>2, <4>2 DEF Frontier, ImportsOf
        <4> QED
          BY <4>1, <4>2
      <3> QED
        BY <3>1 DEF ImportsLoaded
    <2> QED
      BY <2>3, <2>4, <2>5 DEF IInv
  <1> QED
    BY <1>1, <1>2, <1>3, <1>4, <1>5, <1>6, <1>7, <1>8, <1>9, <1>10 DEF Next, Working

LEMMA SpecIInv == Spec => []IInv
  <1>1. Init => IInv
    BY InitIInv
  <1>2. IInv /\ [Next]_vars => IInv'
    BY NextIInv
  <1> QED
    BY <1>1, <1>2, PTL DEF Spec

-----------------------------------------------------------------------------
\* Type correctness of the manager.
THEOREM ManagerTyped == Spec => []TypeOK
  BY SpecIInv, PTL DEF IInv

\* No module is loaded twice: not along circular imports, not after errors,
\* not after edits.
THEOREM NoneTwice == Spec => []LoadedOnce
  <1>1. IInv => LoadedOnce
    <2> SUFFICES ASSUME IInv PROVE LoadedOnce
      OBVIOUS
    <2>1. /\ modules \in Seq(Paths) /\ loading \in Seq(Paths) /\ Once
      BY DEF IInv, TypeOK
    <2>2. /\ DOMAIN (modules \o loading) = 1..(Len(modules) + Len(loading))
          /\ \A i \in 1..Len(modules) : (modules \o loading)[i] = modules[i]
          /\ \A i \in 1..(Len(modules) + Len(loading)) :
                i \in 1..Len(modules) \/ /\ i - Len(modules) \in 1..Len(loading)
                                         /\ (modules \o loading)[i] = loading[i - Len(modules)]
      BY <2>1, ConcatFacts
    <2>3. ASSUME NEW i \in 1..(Len(modules) + Len(loading)),
                 NEW j \in 1..(Len(modules) + Len(loading)),
                 (modules \o loading)[i] = (modules \o loading)[j]
          PROVE  i = j
      <3>1. CASE i \in 1..Len(modules) /\ j \in 1..Len(modules)
        BY <2>1, <2>2, <2>3, <3>1 DEF Once
      <3>2. CASE i \notin 1..Len(modules) /\ j \notin 1..Len(modules)
        <4>1. i - Len(modules) = j - Len(modules)
          BY <2>1, <2>2, <2>3, <3>2 DEF Once
        <4> QED
          BY <2>1, <4>1
      <3>3. CASE i \in 1..Len(modules) /\ j \notin 1..Len(modules)
        BY <2>1, <2>2, <2>3, <3>3 DEF Once
      <3>4. CASE i \notin 1..Len(modules) /\ j \in 1..Len(modules)
        BY <2>1, <2>2, <2>3, <3>4 DEF Once
      <3> QED
        BY <3>1, <3>2, <3>3, <3>4
    <2> QED
      BY <2>2, <2>3 DEF LoadedOnce, IsInjective
  <1> QED
    BY <1>1, SpecIInv, PTL

\* Whatever was loaded has its imports loaded, even when earlier loads failed
\* half-way.
THEOREM ImportsComplete == Spec => []ImportsLoaded
  BY SpecIInv, PTL DEF IInv

-----------------------------------------------------------------------------
(***************************************************************************)
(* Proofs about EgelModules as long as no load failed: in which order the  *)
(* modules are evaluated, and that their code is there when they are.      *)
(***************************************************************************)

Closing == phase \in {"parse", "preload"}

\* Modules were found as the import of an earlier one that was parsed; in
\* reverse they are as ImportersLast has it.
Found ==
    /\ phase = "idle" => loading = <<>>
    /\ phase = "preload" => Range(pending) \subseteq ImportsOf(loading[n])
    /\ Closing =>
        \A i \in 2..Len(loading) : \E j \in 1..(i - 1) :
            /\ j < n \/ (phase = "preload" /\ j = n)
            /\ loading[i] \in ImportsOf(loading[j])
    /\ ~Closing =>
        \A i \in 1..(Len(loading) - 1) : \E j \in (i + 1)..Len(loading) :
            loading[i] \in ImportsOf(loading[j])

\* What is declared without code is of a module whose code is yet to be
\* generated; what modules use is declared, and later there.
Uses(p) == ast[p].uses
Bound ==
    /\ \A k \in 1..Len(modules) : Uses(modules[k]) \subseteq code
    /\ \A x \in env \ code :
        /\ phase \in {"declare", "semantical", "codegen"}
        /\ \E k \in 1..Len(loading) :
            x \in ast[loading[k]].defs /\ (phase = "codegen" => k >= n)
    /\ phase = "semantical" => \A k \in 1..Len(loading) : k < n => Uses(loading[k]) \subseteq env
    /\ phase = "codegen" => \A k \in 1..Len(loading) : Uses(loading[k]) \subseteq env
    /\ phase \in {"values", "eval"} => \A k \in 1..Len(loading) : Uses(loading[k]) \subseteq code

OrderInv == ~failed => Found /\ Bound

-----------------------------------------------------------------------------
LEMMA InitOrderInv == Init => OrderInv
  <1> SUFFICES ASSUME Init PROVE Found /\ Bound
    BY DEF OrderInv
  <1>1. Found
    BY DEF Init, Found, Closing
  <1>2. Bound
    BY DEF Init, Bound
  <1> QED
    BY <1>1, <1>2

LEMMA NextOrderInv == IInv /\ OrderInv /\ [Next]_vars => OrderInv'
  <1> SUFFICES ASSUME IInv, OrderInv, [Next]_vars, ~failed'
               PROVE  Found' /\ Bound'
    BY DEF OrderInv
  <1> USE DEF request, tables
  <1>0. /\ TypeOK /\ Once /\ LoopsOK
        /\ modules \in Seq(Paths) /\ loading \in Seq(Paths)
        /\ Len(loading) \in Nat /\ Len(modules) \in Nat /\ n \in Nat
    BY DEF IInv, TypeOK
  <1>1. ~failed /\ Found /\ Bound
    BY DEF OrderInv, Next, Working, Load, Edit, Parse, PreloadNext, PreloadDone, ReverseLoading,
           Declare, Semantical, Codegen, NextPhase, Values, EvalValue, EvalDone, Flush, Throw, vars
  <1>2. CASE UNCHANGED vars
    BY <1>1, <1>2 DEF vars, Found, Bound, Closing, ImportsOf, Uses
  <1>3. ASSUME NEW p \in Paths, Edit(p)
        PROVE  Found' /\ Bound'
    BY <1>1, <1>3 DEF Edit, Found, Bound, Closing, ImportsOf, Uses
  <1>4. ASSUME NEW p \in Paths, Load(p)
        PROVE  Found' /\ Bound'
    <2>1. /\ phase = "idle" /\ phase' = "parse" /\ loading = <<>> /\ n' = 1
          /\ UNCHANGED <<modules, env, code>>
          /\ Preload(p)
      BY <1>1, <1>4 DEF Load, Throw, Found
    <2>2. CASE AlreadyLoaded(p)
      <3>1. UNCHANGED <<loading, ast>>
        BY <2>1, <2>2 DEF Preload
      <3> QED
        BY <1>0, <1>1, <2>1, <3>1 DEF Found, Bound, Closing, Uses
    <2>3. CASE ~AlreadyLoaded(p)
      <3>1. /\ loading' = Append(loading, p) /\ p \notin Range(modules)
            /\ \A q \in Paths \ {p} : ast'[q] = ast[q]
        BY <1>0, <2>1, <2>3 DEF Preload, AlreadyLoaded, TypeOK
      <3>2. Len(loading') = 1
        BY <2>1, <3>1
      <3>3. \A k \in 1..Len(modules) : modules[k] \in Paths \ {p}
        BY <1>0, <3>1, SeqRange
      <3> QED
        BY <1>0, <1>1, <2>1, <3>1, <3>2, <3>3 DEF Found, Bound, Closing, Uses
    <2> QED
      BY <2>2, <2>3
  <1>5. CASE Parse
    <2> DEFINE p == loading[n]
    <2>1. /\ phase = "parse" /\ phase' = "preload" /\ n \in 1..Len(loading) /\ n' = n
          /\ UNCHANGED <<loading, modules, env, code>>
          /\ \A q \in Paths \ {p} : ast'[q] = ast[q]
          /\ pending' = ast'[p].imports
      BY <1>0, <1>5 DEF Parse, Throw, TypeOK, LoopsOK
    <2>2. /\ \A k \in 1..Len(modules) : modules[k] \in Paths \ {p}
          /\ \A k \in 1..Len(loading) : k # n => loading[k] \in Paths \ {p}
      BY <1>0, <2>1 DEF Once
    <2> HIDE DEF p
    <2>3. Found'
      <3>1. Range(pending') \subseteq ImportsOf(loading[n])'
        BY <2>1 DEF ImportsOf, p
      <3>2. ASSUME NEW i \in 2..Len(loading)
            PROVE  \E j \in 1..(i - 1) : j < n /\ loading[i] \in ImportsOf(loading[j])'
        <4>1. PICK j \in 1..(i - 1) : j < n /\ loading[i] \in ImportsOf(loading[j])
          BY <1>1, <2>1 DEF Found, Closing
        <4>2. j \in 1..Len(loading) /\ j # n
          BY <1>0, <4>1
        <4> QED
          BY <2>1, <2>2, <4>1, <4>2 DEF ImportsOf
      <3> QED
        BY <2>1, <3>1, <3>2 DEF Found, Closing
    <2>4. Bound'
      BY <1>1, <2>1, <2>2 DEF Bound, Uses
    <2> QED
      BY <2>3, <2>4
  <1>6. CASE PreloadNext
    <2> DEFINE q == Head(pending)
    <2>1. /\ phase = "preload" /\ phase' = phase /\ n' = n /\ n \in 1..Len(loading)
          /\ pending \in Seq(Paths) /\ pending # <<>> /\ pending' = Tail(pending)
          /\ UNCHANGED <<modules, env, code>> /\ Preload(q)
      BY <1>0, <1>6 DEF PreloadNext, Throw, LoopsOK
    <2>2. q \in Paths /\ Range(pending) = {q} \cup Range(pending')
      BY <2>1, HeadTailFacts
    <2>3. Range(pending) \subseteq ImportsOf(loading[n])
      BY <1>1, <2>1 DEF Found
    <2> HIDE DEF q
    <2>4. CASE AlreadyLoaded(q)
      <3>1. UNCHANGED <<loading, ast>>
        BY <2>1, <2>4 DEF Preload
      <3> QED
        BY <1>1, <2>1, <2>2, <2>3, <3>1 DEF Found, Bound, Closing, Uses, ImportsOf
    <2>5. CASE ~AlreadyLoaded(q)
      <3>1. /\ loading' = Append(loading, q)
            /\ q \notin Range(modules) /\ q \notin Range(loading)
            /\ \A r \in Paths \ {q} : ast'[r] = ast[r]
        BY <1>0, <2>1, <2>5 DEF Preload, AlreadyLoaded, TypeOK
      <3>2. /\ Len(loading') = Len(loading) + 1
            /\ \A i \in 1..Len(loading) : loading'[i] = loading[i]
            /\ loading'[Len(loading) + 1] = q
        BY <1>0, <2>2, <3>1, AppendFacts
      <3>3. /\ \A k \in 1..Len(modules) : modules[k] \in Paths \ {q}
            /\ \A k \in 1..Len(loading) : loading[k] \in Paths \ {q}
        BY <1>0, <3>1, SeqRange
      <3>4. \A k \in 1..Len(loading) : ImportsOf(loading[k])' = ImportsOf(loading[k])
        BY <3>1, <3>2, <3>3 DEF ImportsOf
      <3>5. Found'
        <4>1. Range(pending') \subseteq ImportsOf(loading[n])'
          BY <2>1, <2>2, <2>3, <3>4
        <4>2. ASSUME NEW i \in 2..Len(loading')
              PROVE  \E j \in 1..(i - 1) : j <= n /\ loading'[i] \in ImportsOf(loading[j])'
          <5>1. CASE i \in 2..Len(loading)
            <6>1. PICK j \in 1..(i - 1) : j <= n /\ loading[i] \in ImportsOf(loading[j])
              BY <1>0, <1>1, <2>1, <5>1 DEF Found, Closing
            <6>2. j \in 1..Len(loading) /\ i \in 1..Len(loading)
              BY <1>0, <5>1
            <6> QED
              BY <3>2, <3>4, <6>1, <6>2
          <5>2. CASE i \notin 2..Len(loading)
            <6> DEFINE m == Len(loading)
            <6>0. m \in Nat /\ n \in 1..m /\ i \in 2..(m + 1) /\ i \notin 2..m
              BY <1>0, <2>1, <3>2, <5>2
            <6> HIDE DEF m
            <6>3. i = m + 1 /\ n \in 1..(i - 1) /\ n <= n
              BY <6>0
            <6>1. i = Len(loading) + 1 /\ n \in 1..(i - 1) /\ n <= n
              BY <6>3 DEF m
            <6>2. q \in ImportsOf(loading[n])'
              BY <2>1, <2>2, <2>3, <3>4
            <6> QED
              BY <2>1, <3>2, <6>1, <6>2 DEF ImportsOf
          <5> QED
            BY <5>1, <5>2
        <4> QED
          BY <1>0, <2>1, <4>1, <4>2 DEF Found, Closing
      <3>6. Bound'
        BY <1>1, <2>1, <3>1, <3>3 DEF Bound, Uses
      <3> QED
        BY <3>5, <3>6
    <2> QED
      BY <2>4, <2>5
  <1>7. CASE PreloadDone
    <2>1. /\ phase = "preload" /\ phase' = "parse" /\ n' = n + 1
          /\ UNCHANGED <<modules, loading, ast, env, code>>
      BY <1>7 DEF PreloadDone
    <2>2. Found'
      BY <1>0, <1>1, <2>1 DEF Found, Closing, ImportsOf
    <2>3. Bound'
      BY <1>1, <2>1 DEF Bound, Uses
    <2> QED
      BY <2>2, <2>3
  <1>8. CASE ReverseLoading
    <2> DEFINE m == Len(loading)
    <2>1. /\ phase = "parse" /\ phase' = "declare"
          /\ UNCHANGED <<modules, ast, env, code>>
          /\ loading' = Reverse(loading)
      BY <1>8 DEF ReverseLoading
    <2>2. /\ Len(loading') = m
          /\ \A i \in 1..m : m - i + 1 \in 1..m /\ loading'[i] = loading[m - i + 1]
      BY <1>0, <2>1, ReverseFacts
    <2>3. m \in Nat
      BY <1>0
    <2> HIDE DEF m
    <2>4. ASSUME NEW i \in 1..(m - 1)
          PROVE  \E j \in (i + 1)..m : loading'[i] \in ImportsOf(loading'[j])
      <3>1. m - i + 1 \in 2..m
        BY <2>3
      <3>2. PICK k \in 1..(m - i) : loading[m - i + 1] \in ImportsOf(loading[k])
        BY <1>1, <2>1, <2>3, <3>1 DEF Found, Closing, m
      <3>3. m - k + 1 \in (i + 1)..m /\ m - k + 1 \in 1..m /\ m - (m - k + 1) + 1 = k /\ i \in 1..m
        BY <2>3, <3>2
      <3>4. loading'[m - k + 1] = loading[k] /\ loading'[i] = loading[m - i + 1]
        BY <2>2, <3>3
      <3> QED
        BY <3>2, <3>3, <3>4
    <2>5. Found'
      BY <2>1, <2>2, <2>4 DEF Found, Closing, ImportsOf
    <2>6. Bound'
      BY <1>1, <2>1 DEF Bound, Uses
    <2> QED
      BY <2>5, <2>6
  <1>9. ASSUME UNCHANGED <<loading, ast>>, ~Closing, phase' \notin {"idle", "parse", "preload"}
        PROVE  Found'
    BY <1>1, <1>9 DEF Found, Closing, ImportsOf
  <1>10. CASE Declare
    <2>1. /\ phase = "declare" /\ phase' = phase /\ n \in 1..Len(loading)
          /\ env' = env \cup ast[loading[n]].defs
          /\ UNCHANGED <<modules, loading, ast, code>>
      BY <1>0, <1>10 DEF Declare, Throw, LoopsOK
    <2>2. Bound'
      BY <1>1, <2>1 DEF Bound, Uses
    <2> QED
      BY <1>9, <2>1, <2>2 DEF Closing
  <1>11. CASE Semantical
    <2>1. /\ phase = "semantical" /\ phase' = phase /\ n \in 1..Len(loading) /\ n' = n + 1
          /\ Uses(loading[n]) \subseteq env
          /\ UNCHANGED <<modules, loading, ast, env, code>>
      BY <1>0, <1>11 DEF Semantical, Throw, LoopsOK, Uses
    <2>2. \A k \in 1..Len(loading) : k < n + 1 => k < n \/ k = n
      BY <1>0
    <2>3. Bound'
      BY <1>1, <2>1, <2>2 DEF Bound, Uses
    <2> QED
      BY <1>9, <2>1, <2>3 DEF Closing
  <1>12. CASE Codegen
    <2>1. /\ phase = "codegen" /\ phase' = phase /\ n \in 1..Len(loading) /\ n' = n + 1
          /\ code' = code \cup ast[loading[n]].defs
          /\ UNCHANGED <<modules, loading, ast, env>>
      BY <1>0, <1>12 DEF Codegen, LoopsOK
    <2>2. \A k \in 1..Len(loading) : k >= n => k >= n + 1 \/ k = n
      BY <1>0
    <2>3. Bound'
      BY <1>1, <2>1, <2>2 DEF Bound, Uses
    <2> QED
      BY <1>9, <2>1, <2>3 DEF Closing
  <1>13. CASE NextPhase
    <2>1. /\ phase \in {"declare", "semantical", "codegen"} /\ phase' = Following[phase]
          /\ n > Len(loading) /\ n' = 1
          /\ UNCHANGED <<modules, loading, ast, env, code>>
      BY <1>13 DEF NextPhase, Following
    <2>2. \A k \in 1..Len(loading) : k < n /\ ~(k >= n) /\ k >= 1 /\ ~(k < 1)
      BY <1>0, <2>1
    <2>3. CASE phase = "declare"
      <3>1. phase' = "semantical"
        BY <2>1, <2>3 DEF Following
      <3>2. Bound'
        BY <1>1, <2>1, <2>2, <2>3, <3>1 DEF Bound, Uses
      <3> QED
        BY <1>9, <2>1, <2>3, <3>1, <3>2 DEF Closing
    <2>4. CASE phase = "semantical"
      <3>1. phase' = "codegen"
        BY <2>1, <2>4 DEF Following
      <3>2. Bound'
        BY <1>1, <2>1, <2>2, <2>4, <3>1 DEF Bound, Uses
      <3> QED
        BY <1>9, <2>1, <2>4, <3>1, <3>2 DEF Closing
    <2>5. CASE phase = "codegen"
      <3>1. phase' = "values"
        BY <2>1, <2>5 DEF Following
      <3>2. env \subseteq code
        BY <1>1, <2>2, <2>5 DEF Bound
      <3>3. Bound'
        BY <1>1, <2>1, <2>5, <3>1, <3>2 DEF Bound, Uses
      <3> QED
        BY <1>9, <2>1, <2>5, <3>1, <3>3 DEF Closing
    <2> QED
      BY <2>1, <2>3, <2>4, <2>5
  <1>14. CASE Values \/ EvalValue \/ EvalDone
    <2>1. /\ phase \in {"values", "eval"} /\ phase' \in {"values", "eval"}
          /\ UNCHANGED <<modules, loading, ast, env, code>>
      BY <1>14 DEF Values, EvalValue, EvalDone
    <2>2. Bound'
      BY <1>1, <2>1 DEF Bound, Uses
    <2> QED
      BY <1>9, <2>1, <2>2 DEF Closing
  <1>15. CASE Flush
    <2>1. /\ phase = "values" /\ phase' = "idle" /\ loading' = <<>>
          /\ modules' = modules \o loading
          /\ UNCHANGED <<ast, env, code>>
      BY <1>15 DEF Flush
    <2>2. Found'
      BY <2>1 DEF Found, Closing
    <2>3. /\ Len(modules') = Len(modules) + Len(loading)
          /\ \A i \in 1..(Len(modules) + Len(loading)) :
                \/ i \in 1..Len(modules) /\ modules'[i] = modules[i]
                \/ /\ i - Len(modules) \in 1..Len(loading)
                   /\ modules'[i] = loading[i - Len(modules)]
      BY <1>0, <2>1, ConcatFacts
    <2>4. \A k \in 1..Len(modules') : Uses(modules'[k]) \subseteq code
      BY <1>1, <2>1, <2>3 DEF Bound
    <2>5. Bound'
      BY <1>1, <2>1, <2>4 DEF Bound, Uses
    <2> QED
      BY <2>2, <2>5
  <1> QED
    BY <1>2, <1>3, <1>4, <1>5, <1>6, <1>7, <1>8, <1>10, <1>11, <1>12, <1>13, <1>14, <1>15
       DEF Next, Working

LEMMA SpecOrderInv == Spec => [](IInv /\ OrderInv)
  BY InitIInv, NextIInv, InitOrderInv, NextOrderInv, PTL DEF Spec

\* The module asked for is evaluated last (modules.hpp:981).
THEOREM AskedForLast == Spec => []ImportersLast
  <1>1. OrderInv => ImportersLast
    BY DEF OrderInv, Found, Closing, ImportersLast, ImportsOf
  <1> QED
    BY <1>1, SpecOrderInv, PTL

\* Whenever code may run, the code it refers to is there, as long as no load
\* failed (modules.hpp:852).
THEOREM NamesBehindBindings == Spec => []CodeBehindBindings
  <1>1. IInv /\ OrderInv => CodeBehindBindings
    <2> SUFFICES ASSUME IInv, OrderInv, ~failed, phase \in {"idle", "values", "eval"},
                        NEW p \in Loaded
                 PROVE  Uses(p) \subseteq code
      BY DEF CodeBehindBindings, Uses
    <2>1. modules \in Seq(Paths) /\ loading \in Seq(Paths)
      BY DEF IInv, TypeOK
    <2>2. CASE p \in Range(modules)
      <3>1. PICK k \in 1..Len(modules) : modules[k] = p
        BY <2>1, <2>2, SeqRange
      <3> QED
        BY <3>1 DEF OrderInv, Bound
    <2>3. CASE p \in Range(loading)
      <3>1. PICK k \in 1..Len(loading) : loading[k] = p
        BY <2>1, <2>3, SeqRange
      <3>2. phase # "idle"
        BY <3>1 DEF OrderInv, Found
      <3> QED
        BY <3>1, <3>2 DEF OrderInv, Bound
    <2> QED
      BY <2>2, <2>3 DEF Loaded
  <1> QED
    BY <1>1, SpecOrderInv, PTL
-----------------------------------------------------------------------------
(***************************************************************************)
(* A load comes to its end: the passes follow each other, each goes over   *)
(* _loading once, and _loading is never longer than there are files,       *)
(* however they import each other.                                         *)
(***************************************************************************)

\* The passes of load in their order; collecting imports and evaluating
\* values are loops of loops.
Pass == [parse |-> 1, preload |-> 1, declare |-> 2, semantical |-> 3,
         codegen |-> 4, values |-> 5, eval |-> 5]

\* A step of a load leaves it, begins a later pass, goes to a later module of
\* the pass, begins with the imports or values of a module, or leaves less of
\* them.
Advance ==
    \/ "idle" \in {phase, phase'}
    \/ Pass[phase] < Pass[phase']
    \/ /\ Pass[phase] = Pass[phase']
       /\ n < n' /\ n' <= Cardinality(Paths) + 1
    \/ /\ Pass[phase] = Pass[phase'] /\ n' = n
       /\ phase \in {"parse", "values"} /\ phase' \in {"preload", "eval"}
    \/ /\ phase \in {"preload", "eval"} /\ phase' = phase /\ n' = n
       /\ Len(pending') < Len(pending)

\* A module is in _loading once, so there are no more of them than files.
LEMMA LoadingBounded ==
    ASSUME IInv, IsFiniteSet(Paths)
    PROVE  Len(loading) <= Cardinality(Paths) /\ Cardinality(Paths) \in Nat
  <1>1. loading \in Seq(Paths) /\ \A i, j \in 1..Len(loading) : loading[i] = loading[j] => i = j
    BY DEF IInv, TypeOK, Once
  <1>2. loading \in Injection(1..Len(loading), Paths)
    BY <1>1 DEF Injection, IsInjective
  <1>3. Cardinality(1..Len(loading)) <= Cardinality(Paths)
    BY <1>2, FS_Injection
  <1>4. Len(loading) \in Nat /\ Len(loading) \in Int /\ 1 \in Int
    BY <1>1
  <1> DEFINE k == Len(loading)
  <1> HIDE DEF k
  <1>5. Cardinality(1..k) = IF 1 > k THEN 0 ELSE k - 1 + 1
    BY <1>4, FS_Interval DEF k
  <1>6. Cardinality(1..Len(loading)) = Len(loading)
    BY <1>4, <1>5 DEF k
  <1> QED
    BY <1>3, <1>6, FS_CardinalityType

\* Every load ends, circular imports or not (modules.hpp:932): each of its
\* steps takes it on by a measure of which only finitely many values are left.
THEOREM LoadAdvances ==
    ASSUME IsFiniteSet(Paths)
    PROVE  Spec => [][Advance]_vars
  <1>1. IInv /\ [Next]_vars => [Advance]_vars
    <2> SUFFICES ASSUME IInv, Next, phase # "idle"
                 PROVE  Advance
      BY DEF Advance
    <2>0. /\ n \in Nat /\ loading \in Seq(Paths) /\ phase \in Phases
          /\ Len(loading) <= Cardinality(Paths) /\ Cardinality(Paths) \in Nat
          /\ phase = "preload" => pending \in Seq(Paths) /\ n <= Len(loading)
          /\ phase = "eval" => pending \in Seq(Names) /\ n <= Len(loading)
      BY LoadingBounded DEF IInv, TypeOK, LoopsOK
    <2> USE DEF Advance, Pass
    <2>1. CASE Parse \/ Values
      BY <2>1, <2>0 DEF Parse, Values, Throw
    <2>2. CASE PreloadNext \/ EvalValue
      <3>1. pending # <<>> => Len(Tail(pending)) < Len(pending)
        BY <2>0, <2>2 DEF PreloadNext, EvalValue
      <3> QED
        BY <3>1, <2>0, <2>2 DEF PreloadNext, EvalValue, Throw
    <2>3. CASE PreloadDone \/ EvalDone
      BY <2>3, <2>0 DEF PreloadDone, EvalDone
    <2>4. CASE ReverseLoading \/ NextPhase
      BY <2>4, <2>0 DEF ReverseLoading, NextPhase, Following
    <2>5. CASE Declare \/ Semantical \/ Codegen
      BY <2>5, <2>0 DEF Declare, Semantical, Codegen, Throw
    <2>6. CASE Flush
      BY <2>6 DEF Flush
    <2>7. CASE \E p \in Paths : Load(p) \/ Edit(p)
      BY <2>7 DEF Load, Edit
    <2> QED
      BY <2>1, <2>2, <2>3, <2>4, <2>5, <2>6, <2>7 DEF Next, Working
  <1> QED
    BY <1>1, SpecIInv, PTL DEF Spec
=============================================================================
