------------------------- MODULE EgelTrampolineProofs -------------------------
(***************************************************************************)
(* The steps of EgelTrampoline and its theorems.  First one lemma per way  *)
(* in which a reduction goes on and one per reduce method: the stacks of   *)
(* EgelTrampolineStack are there afterwards, and nothing is written but to *)
(* the place of the redex that is reduced.  The invariant is then that the *)
(* redex to be reduced is the last frame of a stack; what is garbage is    *)
(* freed in each step.                                                     *)
(***************************************************************************)
EXTENDS EgelTrampolineStack

\* Redex t is the last frame of a stack.  (The first frame holds a result
\* when it is to be reduced.)
Top(h, t) ==
    \E m, q, st, hs, lv, he :
        /\ Stacked(h, m, q, st, hs, lv, he)
        /\ st[m] = t
        /\ m >= 2 => 2 \in DOMAIN h[st[1]].items

Running(h, t) == Top(h, t) /\ (h[t].rt = Nil => 2 \in DOMAIN h[t].items)

\* All items are complete, and all that is inside them is in R.
Full(h, R, items) ==
    /\ R \in SUBSET Addr
    /\ Sound(h, R, {})
    /\ items # <<>>
    /\ \A i \in DOMAIN items : items[i] \in R \cup Plain

SameLinks(array, other) ==
    array.rt = other.rt /\ array.rti = other.rti /\ array.k = other.k /\ array.exc = other.exc

LEMMA TopFacts ==
    ASSUME NEW h, NEW t, Top(h, t)
    PROVE  /\ h \in Heaps /\ t \in Addr /\ h[t] \in Arrays /\ h[t].items # <<>>
           /\ Ready(h, t, {})
           /\ h[t].rt = Nil => IsTree(h[t]) /\ h[t].items[1] \in {Result, Exception}
           /\ h[t].rt # Nil =>
                /\ IsPlace(h, Place(h, t)) /\ Starved(h, {}, Place(h, t))
                /\ h[t].k \in Addr /\ h[t].exc \in Addr
                /\ Top(h, h[t].exc)
                /\ \E R : Full(h, R, h[t].items)
<1>1. PICK m, q, st, hs, lv, he :
        /\ Stacked(h, m, q, st, hs, lv, he)
        /\ st[m] = t
        /\ m >= 2 => 2 \in DOMAIN h[st[1]].items
    BY DEF Top
<1>2. /\ h \in Heaps
      /\ Counted(m, q, st, hs, lv, he)
      /\ Linked(h, m, q, st, hs, lv, he)
      /\ Waiting(h, m, q, st, hs, lv)
      /\ Prepared(h, m, q, st, hs, lv)
    BY <1>1 DEF Stacked
<1>3. /\ m \in Nat /\ m >= 1 /\ q \in Nat /\ 1 \in 1..m /\ m \in 1..m
      /\ \A i \in 1..m : st[i] \in Addr
      /\ \A j \in 1..q : hs[j] \in Addr
      /\ \A j \in 1..q : lv[j] \in 0..m - 1
      /\ m >= 2 => q \in 1..q /\ he[m] = q
    BY <1>2, Sizes
<1>4. h \in Heaps /\ t \in Addr /\ h[t] \in Arrays /\ h[t].items # <<>>
    BY <1>1, <1>2, <1>3 DEF Linked, Heaps
<1>5. Ready(h, t, {})
    <2>1. Places(h, st, m + 1, m) = {}
        BY <1>3 DEF Places
    <2> QED
        BY <2>1, <1>1, <1>2, <1>3 DEF Prepared
<1>6. CASE m = 1
    <2>1. IsTree(h[t]) /\ h[t].items[1] \in {Result, Exception}
        BY <1>1, <1>2, <1>6 DEF Linked, FirstFrame
    <2> QED
        BY <2>1, <1>4, <1>5 DEF IsTree
<1>7. CASE m # 1
    <2>0. m >= 2 /\ m \in 2..m /\ m - 1 \in 1..m
        BY <1>3, <1>7
    <2>1. IsPlace(h, Place(h, t)) /\ h[t].k = st[m - 1] /\ h[t].exc = hs[he[m]]
        BY <1>1, <1>2, <2>0 DEF Linked, FrameLinks
    <2>2. h[t].rt # Nil
        BY <2>1, NoValueIsNil DEF IsPlace, Place
    <2>3. Starved(h, FrameCut(h, m, q, st, hs, m), Place(h, t))
        BY <1>1, <1>2, <2>0 DEF Waiting
    <2>4. Starved(h, {}, Place(h, t))
        BY <2>3, StarvedCuts
    <2>5. h[t].k \in Addr /\ h[t].exc = hs[q] /\ h[t].exc \in Addr
        BY <1>3, <2>0, <2>1
    <2>6. \E R : Full(h, R, h[t].items)
        <3>1. PICK R \in SUBSET Addr :
                /\ Sound(h, R, {})
                /\ \A i \in DOMAIN h[t].items : h[t].items[i] \in R \cup Plain
            BY <1>5, <2>2 DEF Ready
        <3> QED
            BY <3>1, <1>4 DEF Full
    <2>7. Top(h, h[t].exc)
        <3> DEFINE n == lv[q] + 1
                   sn == [st EXCEPT ![n] = hs[q]]
                   hn == [he EXCEPT ![n] = q - 1]
        <3>1. q >= 1 /\ n \in Nat /\ st \in [Nat -> Addr] /\ hs[q] \in Addr
            BY <1>2, <1>3, <2>0 DEF Counted
        <3>2. Stacked(h, n, q - 1, sn, hs, lv, hn)
            BY <1>1, <3>1, HandlerTakes
        <3>3. sn[n] = hs[q] /\ (n >= 2 => sn[1] = st[1])
            BY <3>1
        <3>4. n >= 2 => 2 \in DOMAIN h[sn[1]].items
            BY <3>3, <1>1, <2>0
        <3> HIDE DEF n, sn, hn
        <3> QED
            BY <3>2, <3>3, <3>4, <2>5 DEF Top
    <2> QED
        BY <1>4, <1>5, <2>1, <2>2, <2>4, <2>5, <2>6, <2>7
<1> QED
    BY <1>6, <1>7

LEMMA TopExtends ==
    ASSUME NEW h, NEW t, Top(h, t), NEW f \in Heaps, Extends(h, f)
    PROVE  Top(f, t) /\ f[t] = h[t]
<1>1. PICK m, q, st, hs, lv, he :
        /\ Stacked(h, m, q, st, hs, lv, he)
        /\ st[m] = t
        /\ m >= 2 => 2 \in DOMAIN h[st[1]].items
    BY DEF Top
<1>2. Stacked(f, m, q, st, hs, lv, he)
    BY <1>1, StackedExtends
<1>3. \A i \in 1..m : st[i] \in Addr /\ h[st[i]].items # <<>> /\ f[st[i]] = h[st[i]]
    BY <1>1, Sizes DEF Stacked, Linked, Extends
<1>4. 1 \in 1..m /\ m \in 1..m
    BY <1>1, Sizes DEF Stacked
<1>5. f[st[1]] = h[st[1]]
    BY <1>3, <1>4
<1>6. m >= 2 => 2 \in DOMAIN f[st[1]].items
    BY <1>1, <1>5
<1>7. Top(f, t)
    BY <1>1, <1>2, <1>6 DEF Top
<1> QED
    BY <1>1, <1>3, <1>4, <1>7

\* A new redex takes the place of t.
LEMMA TopBecomes ==
    ASSUME NEW h, NEW t, Top(h, t), NEW f \in Heaps, Extends(h, f), NEW a \in Addr,
           SameLinks(f[a], h[t]), f[a].items # <<>>, Ready(f, a, {}),
           h[t].rt = Nil => f[a].items[1] \in {Result, Exception}
    PROVE  Top(f, a)
<1>1. PICK m, q, st, hs, lv, he :
        /\ Stacked(h, m, q, st, hs, lv, he)
        /\ st[m] = t
        /\ m >= 2 => 2 \in DOMAIN h[st[1]].items
    BY DEF Top
<1>2. /\ m \in Nat /\ m >= 1 /\ 1 \in 1..m
      /\ st[1] \in Addr /\ h[st[1]].items # <<>>
      /\ m = 1 => q = 0 /\ IsTree(h[t])
    <2>1. Counted(m, q, st, hs, lv, he) /\ Linked(h, m, q, st, hs, lv, he)
        BY <1>1 DEF Stacked
    <2>2. m \in Nat /\ m >= 1 /\ 1 \in 1..m /\ st[1] \in Addr
        BY <2>1, Sizes
    <2>3. m = 1 => q = 0 /\ IsTree(h[t])
        BY <2>1, <1>1 DEF Counted, Linked, FirstFrame
    <2> QED
        BY <2>1, <2>2, <2>3 DEF Linked
<1>3. CASE m = 1
    <2>1. IsTree(f[a])
        BY <1>2, <1>3 DEF SameLinks, IsTree
    <2>2. f[a].items[1] \in {Result, Exception}
        BY <1>2, <1>3 DEF IsTree
    <2>3. Stacked(h, 1, 0, st, hs, lv, he)
        BY <1>1, <1>2, <1>3
    <2>4. PICK sn : sn[1] = a /\ Stacked(f, 1, 0, sn, hs, lv, he)
        BY <2>1, <2>2, <2>3, FirstFrameBecomes
    <2>5. ~(1 >= 2)
        OBVIOUS
    <2> QED
        BY <2>4, <2>5 DEF Top
<1>4. CASE m # 1
    <2> DEFINE d == [l \in Nat |-> a]
    <2>1. d \in [Nat -> Addr] /\ d[1] = a /\ m >= 2
        BY <1>2, <1>4
    <2>2. (2..1 = {}) /\ (1..1 = {1}) /\ (1 + 1 = 2) /\ (m + 1 - 1 = m) /\ 1 \in Nat \ {0}
        BY <1>2
    <2> HIDE DEF d
    <2>3. AddsFrames(h, f, st[m], 1, d)
        <3>1. Places(f, d, 1 + 1, 1) = {}
            BY <2>2 DEF Places
        <3> QED
            BY <3>1, <2>1, <2>2, <1>1 DEF AddsFrames, SameLinks
    <2>4. Keeps(h, f, f, st[m], d)
        BY <2>1, <1>1 DEF Keeps, Place, SameLinks
    <2>5. PICK sn, hn : Puts(sn, hn, m, q, st, he, 1, d) /\ Stacked(f, m + 1 - 1, q, sn, hs, lv, hn)
        BY <1>1, <2>1, <2>3, <2>4, FramesAdded
    <2>6. Stacked(f, m, q, sn, hs, lv, hn)
        BY <2>2, <2>5
    <2>7. sn[m] = a /\ sn[1] = st[1]
        <3>1. 1 < m /\ m \in m..m + 1 - 1 /\ m - m + 1 = 1
            BY <1>2, <2>1
        <3> QED
            BY <3>1, <2>1, <2>5 DEF Puts
    <2>8. 2 \in DOMAIN f[sn[1]].items
        BY <1>1, <1>2, <2>1, <2>7 DEF Extends
    <2> QED
        BY <2>6, <2>7, <2>8 DEF Top
<1> QED
    BY <1>3, <1>4

\* Redex t is done.
LEMMA TopReturns ==
    ASSUME NEW h, NEW t, Top(h, t), h[t].rt # Nil,
           NEW R \in SUBSET Addr, Sound(h, R, {}), NEW v \in R \cup Plain
    PROVE  Running(Write(h, h[t].rt, h[t].rti, v), h[t].k)
<1> DEFINE g == Write(h, h[t].rt, h[t].rti, v)
<1>1. PICK m, q, st, hs, lv, he :
        /\ Stacked(h, m, q, st, hs, lv, he)
        /\ st[m] = t
        /\ m >= 2 => 2 \in DOMAIN h[st[1]].items
    BY DEF Top
<1>2. /\ h \in Heaps
      /\ Counted(m, q, st, hs, lv, he)
      /\ Linked(h, m, q, st, hs, lv, he)
    BY <1>1 DEF Stacked
<1>3. m \in Nat /\ m >= 2 /\ m \in 2..m /\ st[1] \in Addr
    <2>1. m \in Nat /\ m >= 1 /\ st[1] \in Addr
        BY <1>2, Sizes
    <2>2. m # 1
        BY <1>1, <1>2 DEF Linked, FirstFrame, IsTree
    <2> QED
        BY <2>1, <2>2
<1>4. h[t].k = st[m - 1] /\ IsPlace(h, Place(h, t))
    BY <1>1, <1>2, <1>3 DEF Linked, FrameLinks
<1>5. v \in Values
    BY PlainCombinators DEF Values
<1>6. \A a \in Addr : DOMAIN g[a].items = DOMAIN h[a].items /\ g[a].rt = h[a].rt
    <2> DEFINE s == Place(h, t)
    <2>1. s[1] = h[t].rt /\ s[2] = h[t].rti
        BY DEF Place
    <2> HIDE DEF s
    <2>2. \A a \in Addr : /\ DOMAIN Write(h, s[1], s[2], v)[a].items = DOMAIN h[a].items
                          /\ Write(h, s[1], s[2], v)[a].rt = h[a].rt
        BY <1>2, <1>4, <1>5, WriteGives DEF s
    <2> QED
        BY <2>1, <2>2
<1> DEFINE p == IF m = 2 THEN 0 ELSE he[m - 1]
<1>7. Stacked(g, m - 1, p, st, hs, lv, he)
    BY <1>1, <1>3, FrameReturns
<1> HIDE DEF g, p
<1>8. 2 \in DOMAIN g[st[1]].items
    BY <1>1, <1>3, <1>6
<1>9. Top(g, h[t].k)
    BY <1>4, <1>7, <1>8 DEF Top
<1>10. g[h[t].k].rt = Nil => 2 \in DOMAIN g[h[t].k].items
    <2>1. CASE m = 2
        BY <2>1, <1>4, <1>8
    <2>2. CASE m # 2
        <3>1. m - 1 \in 2..m - 1
            BY <2>2, <1>3
        <3>2. IsPlace(g, Place(g, st[m - 1]))
            BY <3>1, <1>7 DEF Stacked, Linked, FrameLinks
        <3>3. g[h[t].k].rt # Nil
            BY <3>2, <1>4, NoValueIsNil DEF IsPlace, Place
        <3> QED
            BY <3>3
    <2> QED
        BY <2>1, <2>2
<1> QED
    BY <1>9, <1>10 DEF Running, g

\* The last frame of two or more, with what is below it.
LEMMA TopHigh ==
    ASSUME NEW h, NEW t, Top(h, t), h[t].rt # Nil
    PROVE  \E m, q, st, hs, lv, he :
               /\ Stacked(h, m, q, st, hs, lv, he)
               /\ st[m] = t
               /\ m \in Nat /\ m >= 2
               /\ st[1] \in Addr /\ h[st[1]].items # <<>> /\ 2 \in DOMAIN h[st[1]].items
               /\ \A j \in 1..q : h[hs[j]].items # <<>>
<1>1. PICK m, q, st, hs, lv, he :
        /\ Stacked(h, m, q, st, hs, lv, he)
        /\ st[m] = t
        /\ m >= 2 => 2 \in DOMAIN h[st[1]].items
    BY DEF Top
<1>2. Counted(m, q, st, hs, lv, he) /\ Linked(h, m, q, st, hs, lv, he)
    BY <1>1 DEF Stacked
<1>3. m \in Nat /\ m >= 1 /\ st[1] \in Addr /\ 1 \in 1..m
    BY <1>2, Sizes
<1>4. m # 1
    BY <1>1, <1>2 DEF Linked, FirstFrame, IsTree
<1>5. h[st[1]].items # <<>> /\ \A j \in 1..q : h[hs[j]].items # <<>>
    BY <1>2, <1>3 DEF Linked
<1>6. m >= 2
    BY <1>3, <1>4
<1> QED
    BY <1>1, <1>3, <1>5, <1>6

\* New redexes take the place of t.
LEMMA TopAdds ==
    ASSUME NEW h, NEW t, Top(h, t), h[t].rt # Nil, NEW f \in Heaps, Extends(h, f),
           NEW g, NEW n, NEW d, AddsFrames(h, g, t, n, d),
           Keeps(h, f, g, t, d) \/ Settles(h, f, g, t, n, d)
    PROVE  Running(g, d[n])
<1>1. PICK m, q, st, hs, lv, he :
        /\ Stacked(h, m, q, st, hs, lv, he)
        /\ st[m] = t
        /\ m \in Nat /\ m >= 2
        /\ st[1] \in Addr /\ h[st[1]].items # <<>> /\ 2 \in DOMAIN h[st[1]].items
    BY TopHigh
<1>2. PICK sn, hn : Puts(sn, hn, m, q, st, he, n, d) /\ Stacked(g, m + n - 1, q, sn, hs, lv, hn)
    BY <1>1, FramesAdded
<1> DEFINE w == m + n - 1
<1>3. n \in Nat /\ n >= 1 /\ w \in 2..w /\ w \in m..w /\ w - m + 1 = n /\ 1 < m
    BY <1>1 DEF AddsFrames
<1>4. sn[w] = d[n] /\ sn[1] = st[1]
    BY <1>2, <1>3 DEF Puts
<1> HIDE DEF w
<1>5. IsPlace(g, Place(g, sn[w]))
    BY <1>2, <1>3 DEF Stacked, Linked, FrameLinks, w
<1>6. g[d[n]].rt # Nil
    BY <1>4, <1>5, NoValueIsNil DEF IsPlace, Place
<1>7. DOMAIN g[st[1]].items = DOMAIN f[st[1]].items
    <2>1. CASE Keeps(h, f, g, t, d)
        BY <2>1 DEF Keeps
    <2>2. CASE Settles(h, f, g, t, n, d)
        <3> DEFINE s == Place(h, t)
        <3>1. PICK v \in Values : g = Write(f, h[t].rt, h[t].rti, v)
            BY <2>2 DEF Settles
        <3>2. s[1] = h[t].rt /\ s[2] = h[t].rti
            BY DEF Place
        <3>3. IsPlace(h, s) /\ h \in Heaps
            BY TopFacts
        <3> HIDE DEF s
        <3>4. IsPlace(f, s)
            BY <3>3 DEF IsPlace, Heaps, Arrays, Extends
        <3>5. DOMAIN Write(f, s[1], s[2], v)[st[1]].items = DOMAIN f[st[1]].items
            BY <1>1, <3>4, WriteGives
        <3> QED
            BY <3>1, <3>2, <3>5
    <2> QED
        BY <2>1, <2>2
<1>8. 2 \in DOMAIN g[sn[1]].items
    BY <1>1, <1>4, <1>7 DEF Extends
<1> QED
    BY <1>2, <1>4, <1>6, <1>8 DEF Running, Top, w

\* A new redex a takes the place of t, under a handler H.
LEMMA TopHandles ==
    ASSUME NEW h, NEW t, Top(h, t), h[t].rt # Nil, NEW f \in Heaps, Extends(h, f),
           NEW a \in Addr, h[a].items = <<>>, NEW H \in Addr, H # a,
           SameLinks(f[H], h[t]), f[H].items # <<>>, Ready(f, H, {}),
           SameLinks(f[a], [h[t] EXCEPT !.exc = H]), f[a].items # <<>>, Ready(f, a, {})
    PROVE  Running(f, a)
<1>1. PICK m, q, st, hs, lv, he :
        /\ Stacked(h, m, q, st, hs, lv, he)
        /\ st[m] = t
        /\ m \in Nat /\ m >= 2
        /\ st[1] \in Addr /\ h[st[1]].items # <<>> /\ 2 \in DOMAIN h[st[1]].items
        /\ \A j \in 1..q : h[hs[j]].items # <<>>
    BY TopHigh
<1> DEFINE g == [f EXCEPT ![a] = [f[a] EXCEPT !.exc = h[t].exc]]
           d == [l \in Nat |-> a]
<1>2. h \in Heaps /\ h[t] \in Arrays /\ h[t].exc \in Addr /\ h[t].rt \in Addr
    BY TopFacts DEF IsPlace, Place
<1>3. /\ g[a] = [f[a] EXCEPT !.exc = h[t].exc]
      /\ \A b \in Addr : b # a => g[b] = f[b]
      /\ f[a] \in Arrays
    BY DEF Heaps
<1>4. /\ g[a].exc = h[t].exc /\ g[a].rt = f[a].rt /\ g[a].rti = f[a].rti
      /\ g[a].k = f[a].k /\ g[a].items = f[a].items
      /\ g[a] \in Arrays
    BY <1>2, <1>3 DEF Arrays
<1>5. /\ f[a].rt = h[t].rt /\ f[a].rti = h[t].rti /\ f[a].k = h[t].k /\ f[a].exc = H
    BY <1>2 DEF SameLinks, Arrays
<1>6. SameLinks(g[a], h[t])
    BY <1>4, <1>5 DEF SameLinks
<1>7. g \in Heaps
    BY <1>3, <1>4 DEF Heaps
<1> HIDE DEF g
<1>8. Extends(h, g)
    BY <1>3 DEF Extends
<1>9. ASSUME NEW b \in Addr, Ready(f, b, {})
      PROVE  Ready(g, b, {})
    <2>1. PICK R \in SUBSET Addr :
            /\ Sound(f, R, {})
            /\ \A i \in DOMAIN f[b].items :
                   \/ <<b, i>> \in {}
                   \/ f[b].items[i] \in R \cup Plain
                   \/ i = 1 /\ f[b].rt = Nil
        BY <1>9 DEF Ready
    <2>2. a \notin R
        BY <2>1, <1>2, <1>5, NoValueIsNil DEF Sound, IsTree
    <2>3. \A c \in R : g[c] = f[c]
        BY <2>2, <1>3
    <2>4. Sound(g, R, {})
        BY <2>1, <2>3 DEF Sound
    <2>5. g[b].items = f[b].items /\ g[b].rt = f[b].rt
        BY <1>3, <1>4
    <2> QED
        BY <2>1, <2>4, <2>5 DEF Ready
<1>10. d \in [Nat -> Addr] /\ d[1] = a
    OBVIOUS
<1> HIDE DEF d
<1>11. (2..1 = {}) /\ (1..1 = {1}) /\ (1 + 1 = 2) /\ (m + 1 - 1 = m) /\ 1 \in Nat \ {0}
    BY <1>1
<1>12. AddsFrames(h, g, st[m], 1, d)
    <2>1. Places(g, d, 1 + 1, 1) = {}
        BY <1>11 DEF Places
    <2>2. Ready(g, a, {}) /\ g[a].items # <<>>
        BY <1>4, <1>9
    <2> QED
        BY <2>1, <2>2, <1>1, <1>6, <1>10, <1>11 DEF AddsFrames, SameLinks
<1>13. Keeps(h, g, g, st[m], d)
    BY <1>1, <1>6, <1>10 DEF Keeps, Place, SameLinks
<1>14. PICK sn, hn : Puts(sn, hn, m, q, st, he, 1, d) /\ Stacked(g, m + 1 - 1, q, sn, hs, lv, hn)
    BY <1>1, <1>7, <1>8, <1>12, <1>13, FramesAdded
<1>15. Stacked(g, m, q, sn, hs, lv, hn) /\ sn[m] = a /\ sn[1] = st[1]
    <2>1. 1 < m /\ m \in m..m + 1 - 1 /\ m - m + 1 = 1
        BY <1>1
    <2> QED
        BY <2>1, <1>10, <1>11, <1>14 DEF Puts
<1>16. PICK hm, lm, em : Stacked(f, m, q + 1, sn, hm, lm, em)
    <2>1. \A j \in 1..q : hs[j] # sn[m]
        BY <1>1, <1>15
    <2>2. /\ g[H].items # <<>> /\ g[H].k = g[sn[m]].k /\ g[H].exc = g[sn[m]].exc
          /\ Place(g, H) = Place(g, sn[m]) /\ H # sn[m]
        BY <1>3, <1>6, <1>15 DEF SameLinks, Place
    <2>3. Ready(g, H, {}) /\ f[sn[m]].exc = H
        BY <1>5, <1>9, <1>15
    <2>4. \A b \in Addr : /\ f[b].rt = g[b].rt /\ f[b].rti = g[b].rti /\ f[b].k = g[b].k
                          /\ f[b].items = g[b].items
                          /\ b # sn[m] => f[b].exc = g[b].exc
        BY <1>3, <1>4, <1>15
    <2> QED
        BY <1>1, <1>15, <2>1, <2>2, <2>3, <2>4, HandlerAdded
<1>17. 2 \in DOMAIN f[sn[1]].items
    BY <1>1, <1>15 DEF Extends
<1>18. f[a].rt # Nil
    BY <1>2, <1>5, NoValueIsNil
<1> QED
    BY <1>15, <1>16, <1>17, <1>18 DEF Running, Top

-----------------------------------------------------------------------------
(* The ways in which a reduction goes on.                                  *)

Going == TypeOK /\ trampoline # Nil /\ Running(heap, trampoline)

\* Arrays are added, a value may be written to the place of the redex, and
\* u is next.
Goes(g, u) ==
    /\ \E f \in Heaps :
            /\ Extends(heap, f)
            /\ g = f \/ \E v \in Values : g = Write(f, Redex.rt, Redex.rti, v)
    /\ Running(g, u)

Progress == \E g, u : Jump(g, u) /\ Goes(g, u)

LEMMA AllocExtends ==
    ASSUME TypeOK, NEW arrays \in Seq(Arrays), Room(Len(arrays))
    PROVE  /\ Alloc(arrays) \in Heaps
           /\ Extends(heap, Alloc(arrays))
           /\ \A i \in 1..Len(arrays) :
                    /\ New(i) \in Addr /\ heap[New(i)].items = <<>>
                    /\ Alloc(arrays)[New(i)] = arrays[i]
           /\ \A i, j \in 1..Len(arrays) : New(i) = New(j) => i = j
<1> DEFINE n == Len(arrays)
           N == {New(i) : i \in 1..n}
           f == Alloc(arrays)
<1>1. heap \in Heaps /\ DOMAIN heap = Addr
    BY DEF TypeOK, Heaps
<1>2. /\ n \in Nat
      /\ \A i \in 1..n : New(i) \in Addr /\ heap[New(i)] = Free
      /\ \A i, j \in 1..n : New(i) = New(j) => i = j
      /\ f = [a \in Addr |-> f[a]]
      /\ \A i \in 1..n : f[New(i)] = arrays[i]
      /\ \A a \in Addr \ N : f[a] = heap[a]
    BY <1>1, AllocGives
<1> HIDE DEF f
<1>3. Free.items = <<>>
    BY DEF Free, Tree
<1>4. \A a \in Addr : f[a] \in Arrays
    <2>1. \A i \in 1..n : arrays[i] \in Arrays
        OBVIOUS
    <2>2. \A a \in Addr : heap[a] \in Arrays
        BY <1>1 DEF Heaps
    <2> QED
        BY <2>1, <2>2, <1>2
<1>5. f \in Heaps
    BY <1>2, <1>4 DEF Heaps
<1>6. Extends(heap, f)
    BY <1>2, <1>3 DEF Extends
<1> QED
    BY <1>2, <1>3, <1>5, <1>6 DEF f

LEMMA AllocOne ==
    ASSUME TypeOK, NEW array \in Arrays, Room(1)
    PROVE  /\ Alloc(<<array>>) \in Heaps
           /\ Extends(heap, Alloc(<<array>>))
           /\ New(1) \in Addr /\ heap[New(1)].items = <<>>
           /\ Alloc(<<array>>)[New(1)] = array
<1>1. <<array>> \in Seq(Arrays) /\ Len(<<array>>) = 1 /\ <<array>>[1] = array /\ 1 \in 1..1
    OBVIOUS
<1> QED
    BY <1>1, AllocExtends

LEMMA AllocTwo ==
    ASSUME TypeOK, NEW array \in Arrays, NEW other \in Arrays, Room(2)
    PROVE  /\ Alloc(<<array, other>>) \in Heaps
           /\ Extends(heap, Alloc(<<array, other>>))
           /\ New(1) \in Addr /\ heap[New(1)].items = <<>>
           /\ New(2) \in Addr /\ heap[New(2)].items = <<>>
           /\ New(1) # New(2)
           /\ Alloc(<<array, other>>)[New(1)] = array
           /\ Alloc(<<array, other>>)[New(2)] = other
<1> DEFINE arrays == <<array, other>>
<1>1. /\ arrays \in Seq(Arrays) /\ Len(arrays) = 2 /\ arrays[1] = array /\ arrays[2] = other
      /\ 1 \in 1..2 /\ 2 \in 1..2
    OBVIOUS
<1> HIDE DEF arrays
<1>2. /\ Alloc(arrays) \in Heaps
      /\ Extends(heap, Alloc(arrays))
      /\ \A i \in 1..2 : /\ New(i) \in Addr /\ heap[New(i)].items = <<>>
                         /\ Alloc(arrays)[New(i)] = arrays[i]
      /\ \A i, j \in 1..2 : New(i) = New(j) => i = j
    BY <1>1, AllocExtends
<1> QED
    BY <1>1, <1>2 DEF arrays

\* Items that are complete are items of an array.
LEMMA FullItems ==
    ASSUME NEW h, NEW R, NEW items, Full(h, R, items)
    PROVE  \A i \in DOMAIN items : items[i] \in Values
BY PlainCombinators DEF Full, Values

LEMMA FullReady ==
    ASSUME NEW h, NEW f, NEW a \in Addr, NEW R, Full(h, R, f[a].items), Extends(h, f)
    PROVE  Ready(f, a, {})
BY SoundExtends DEF Full, Ready

\* A new array of complete items is itself complete.
LEMMA FullTree ==
    ASSUME NEW h, NEW f, NEW a \in Addr, NEW R, Full(h, R, f[a].items), Extends(h, f), IsTree(f[a])
    PROVE  R \cup {a} \in SUBSET Addr /\ Sound(f, R \cup {a}, {})
<1>1. R \in SUBSET Addr /\ Sound(f, R, {})
    BY SoundExtends DEF Full
<1>2. f[a].items # <<>> /\ \A i \in DOMAIN f[a].items : f[a].items[i] \in R \cup Plain
    BY DEF Full
<1> QED
    BY <1>1, <1>2 DEF Sound

LEMMA TreeArrays ==
    ASSUME NEW items \in Seq(Values)
    PROVE  /\ Tree(items) \in Arrays /\ Tree(items).items = items /\ IsTree(Tree(items))
BY DEF Tree, Arrays, IsTree

\* An array with these items in place of its own.
LEMMA ItemsArrays ==
    ASSUME NEW array \in Arrays, NEW items \in Seq(Values)
    PROVE  /\ [array EXCEPT !.items = items] \in Arrays
           /\ [array EXCEPT !.items = items].items = items
           /\ SameLinks([array EXCEPT !.items = items], array)
BY DEF Arrays, SameLinks

LEMMA GoingFacts ==
    ASSUME Going
    PROVE  /\ Top(heap, trampoline) /\ heap \in Heaps /\ trampoline \in Addr
           /\ Redex \in Arrays /\ Redex.items \in Seq(Values) /\ Redex.items # <<>>
           /\ Redex.rt = Nil => Head1 \in {Result, Exception}
           /\ Redex.rt # Nil => \E R : Full(heap, R, Redex.items)
<1>1. Top(heap, trampoline)
    BY DEF Going, Running
<1> QED
    BY <1>1, TopFacts DEF Redex, Head1, Arrays

LEMMA ReturnGoes ==
    ASSUME Going, Redex.rt # Nil, NEW items \in Seq(Values), NEW R, Full(heap, R, items),
           Return(items)
    PROVE  Progress
<1>1. Top(heap, trampoline) /\ heap \in Heaps
    BY GoingFacts
<1>2. CASE Len(items) = 1
    <2> DEFINE v == items[1]
               g == Write(heap, Redex.rt, Redex.rti, v)
    <2>1. Jump(g, Redex.k)
        BY <1>2 DEF Return
    <2>2. 1 \in DOMAIN items
        BY <1>2
    <2>3. v \in R \cup Plain /\ v \in Values /\ R \in SUBSET Addr /\ Sound(heap, R, {})
        BY <2>2, FullItems DEF Full
    <2> HIDE DEF v
    <2>4. Running(g, Redex.k)
        BY <1>1, <2>3, TopReturns DEF Redex
    <2>5. Extends(heap, heap)
        BY DEF Extends
    <2>6. Goes(g, Redex.k)
        BY <1>1, <2>3, <2>4, <2>5 DEF Goes
    <2> QED
        BY <2>1, <2>6 DEF Progress
<1>3. CASE Len(items) # 1
    <2> DEFINE f == Alloc(<<Tree(items)>>)
               g == Write(f, Redex.rt, Redex.rti, New(1))
    <2>1. Room(1) /\ Jump(g, Redex.k)
        BY <1>3 DEF Return
    <2>2. Tree(items) \in Arrays /\ Tree(items).items = items /\ IsTree(Tree(items))
        BY TreeArrays
    <2>3. /\ f \in Heaps /\ Extends(heap, f)
          /\ New(1) \in Addr /\ f[New(1)] = Tree(items)
        BY <2>1, <2>2, AllocOne DEF Going
    <2> HIDE DEF f
    <2>4. R \cup {New(1)} \in SUBSET Addr /\ Sound(f, R \cup {New(1)}, {})
        BY <2>2, <2>3, FullTree
    <2>5. Top(f, trampoline) /\ f[trampoline] = Redex
        BY <1>1, <2>3, TopExtends DEF Redex
    <2>6. Running(g, Redex.k)
        BY <2>4, <2>5, TopReturns
    <2>7. New(1) \in Values
        BY <2>3 DEF Values
    <2>8. Goes(g, Redex.k)
        BY <2>3, <2>6, <2>7 DEF Goes
    <2> QED
        BY <2>1, <2>8 DEF Progress
<1> QED
    BY <1>2, <1>3

LEMMA BecomeGoes ==
    ASSUME Going, Redex.rt # Nil, NEW items \in Seq(Values), NEW R, Full(heap, R, items),
           Become([Redex EXCEPT !.items = items])
    PROVE  Progress
<1> DEFINE redex == [Redex EXCEPT !.items = items]
           f == Alloc(<<redex>>)
<1>1. Room(1) /\ Jump(f, New(1))
    BY DEF Become
<1>2. Top(heap, trampoline) /\ Redex \in Arrays
    BY GoingFacts
<1>3. redex \in Arrays /\ redex.items = items /\ SameLinks(redex, Redex)
    BY <1>2, ItemsArrays
<1> HIDE DEF redex
<1>4. /\ f \in Heaps /\ Extends(heap, f) /\ New(1) \in Addr /\ f[New(1)] = redex
    BY <1>1, <1>3, AllocOne DEF Going
<1> HIDE DEF f
<1>5. Ready(f, New(1), {}) /\ f[New(1)].items # <<>>
    <2>1. Full(heap, R, f[New(1)].items)
        BY <1>3, <1>4
    <2> QED
        BY <2>1, <1>4, FullReady DEF Full
<1>6. Top(f, New(1))
    BY <1>2, <1>3, <1>4, <1>5, TopBecomes DEF Redex
<1>7. f[New(1)].rt # Nil
    BY <1>3, <1>4 DEF SameLinks
<1>8. Goes(f, New(1))
    BY <1>4, <1>6, <1>7 DEF Goes, Running
<1> QED
    BY <1>1, <1>8 DEF Progress

\* The handler takes over, with new items.
LEMMA RaiseGoes ==
    ASSUME Going, Redex.rt # Nil, NEW items \in Seq(Values), 2 \in DOMAIN items,
           heap[Redex.exc].items # <<>> => items[1] = heap[Redex.exc].items[1],
           NEW R \in SUBSET Addr, Sound(heap, R, {}),
           \A i \in DOMAIN items : items[i] \in R \cup Plain \/ (i = 1 /\ heap[Redex.exc].rt = Nil),
           Become([heap[Redex.exc] EXCEPT !.items = items])
    PROVE  Progress
<1> DEFINE e == heap[Redex.exc]
           redex == [e EXCEPT !.items = items]
           f == Alloc(<<redex>>)
<1>1. Room(1) /\ Jump(f, New(1))
    BY DEF Become
<1>2. Top(heap, trampoline)
    BY GoingFacts
<1>3. Top(heap, Redex.exc)
    BY <1>2, TopFacts DEF Redex
<1>4. e \in Arrays /\ e.items # <<>> /\ (e.rt = Nil => e.items[1] \in {Result, Exception})
    BY <1>3, TopFacts
<1>5. redex \in Arrays /\ redex.items = items /\ SameLinks(redex, e)
    BY <1>4, ItemsArrays
<1> HIDE DEF redex
<1>6. /\ f \in Heaps /\ Extends(heap, f) /\ New(1) \in Addr /\ f[New(1)] = redex
    BY <1>1, <1>5, AllocOne DEF Going
<1> HIDE DEF f
<1>7. redex.rt = e.rt
    BY <1>5 DEF SameLinks
<1>8. Ready(f, New(1), {}) /\ f[New(1)].items # <<>>
    <2>1. Sound(f, R, {})
        BY <1>6, SoundExtends
    <2>2. f[New(1)].items = items /\ f[New(1)].rt = heap[Redex.exc].rt
        BY <1>5, <1>6, <1>7
    <2>3. \A i \in DOMAIN f[New(1)].items :
            \/ <<New(1), i>> \in {}
            \/ f[New(1)].items[i] \in R \cup Plain
            \/ i = 1 /\ f[New(1)].rt = Nil
        BY <2>2
    <2>4. items # <<>>
        OBVIOUS
    <2> QED
        BY <2>1, <2>2, <2>3, <2>4 DEF Ready
<1>9. Top(f, New(1))
    BY <1>3, <1>4, <1>5, <1>6, <1>8, TopBecomes
<1>10. Goes(f, New(1))
    BY <1>5, <1>6, <1>9 DEF Goes, Running
<1> QED
    BY <1>1, <1>10 DEF Progress

-----------------------------------------------------------------------------
(* One lemma per reduce method.                                            *)

LEMMA KindFacts ==
    ASSUME Going, NEW kind, Reducing(kind), kind # "result"
    PROVE  Redex.rt # Nil
<1>1. Head1 \in Builtins /\ Def[Head1].kind # "result"
    BY DEF Reducing
<1>2. Head1 \in Plain
    BY <1>1 DEF Plain
<1>3. Head1 \notin {Result, Exception}
    BY <1>2, TrampolineAssumption
<1> QED
    BY <1>3, GoingFacts

LEMMA ArgsFacts ==
    ASSUME NEW R, Full(heap, R, Redex.items), Redex.items \in Seq(Values)
    PROVE  /\ Args \in Seq(Values) /\ Len(Args) \in Nat
           /\ Len(Args) = Len(Redex.items) - 1
           /\ \A i \in DOMAIN Args : Args[i] \in R \cup Plain
           /\ R \in SUBSET Addr /\ Sound(heap, R, {})
<1> DEFINE items == Redex.items
<1>1. items # <<>> /\ (\A i \in DOMAIN items : items[i] \in R \cup Plain)
      /\ R \in SUBSET Addr /\ Sound(heap, R, {})
    BY DEF Full
<1>2. items \in Seq(Values) /\ Args = Tail(items)
    BY DEF Args
<1> HIDE DEF items
<1>3. /\ Args \in Seq(Values) /\ Len(Args) = Len(items) - 1 /\ Len(Args) \in Nat
      /\ \A i \in 1..Len(items) - 1 : Args[i] = items[i + 1]
    BY <1>1, <1>2
<1>4. \A i \in DOMAIN Args : Args[i] = items[i + 1] /\ i + 1 \in DOMAIN items
    BY <1>2, <1>3
<1> QED
    BY <1>1, <1>3, <1>4 DEF items

LEMMA BeyondFacts ==
    ASSUME NEW R, Full(heap, R, Redex.items), Redex.items \in Seq(Values), NEW n \in Nat
    PROVE  /\ Beyond(n) \in Seq(Values)
           /\ \A i \in DOMAIN Beyond(n) : Beyond(n)[i] \in R \cup Plain
<1>1. Args \in Seq(Values) /\ \A i \in DOMAIN Args : Args[i] \in R \cup Plain
    BY ArgsFacts
<1> DEFINE b == SubSeq(Args, n + 1, Len(Args))
<1>2. b = Beyond(n)
    BY DEF Beyond
<1>3. CASE n >= Len(Args)
    <2>1. b = <<>>
        BY <1>1, <1>3
    <2>2. Beyond(n) = <<>>
        BY <1>2, <2>1
    <2> QED
        BY <2>2
<1>4. CASE n < Len(Args)
    <2>1. /\ b \in Seq(Values) /\ Len(b) = Len(Args) - n
          /\ \A i \in 1..Len(Args) - n : b[i] = Args[n + i]
        BY <1>1, <1>4
    <2>2. \A i \in DOMAIN b : b[i] = Args[n + i] /\ n + i \in DOMAIN Args
        BY <2>1, <1>1, <1>4
    <2> QED
        BY <1>1, <1>2, <2>1, <2>2
<1> QED
    BY <1>1, <1>3, <1>4

\* A list of complete values, and the arguments that are left.
LEMMA FullJoin ==
    ASSUME NEW h, NEW R, R \in SUBSET Addr, Sound(h, R, {}),
           NEW a \in Seq(Values), NEW b \in Seq(Values), a # <<>>,
           \A i \in DOMAIN a : a[i] \in R \cup Plain,
           \A i \in DOMAIN b : b[i] \in R \cup Plain
    PROVE  a \o b \in Seq(Values) /\ Full(h, R, a \o b)
<1> DEFINE c == a \o b
<1>1. /\ c \in Seq(Values) /\ Len(c) = Len(a) + Len(b)
      /\ \A i \in 1..Len(a) + Len(b) : c[i] = IF i <= Len(a) THEN a[i] ELSE b[i - Len(a)]
      /\ Len(a) \in Nat /\ Len(a) >= 1 /\ Len(b) \in Nat
      /\ DOMAIN c = 1..Len(a) + Len(b) /\ DOMAIN a = 1..Len(a) /\ DOMAIN b = 1..Len(b)
    OBVIOUS
<1> HIDE DEF c
<1>2. c # <<>>
    BY <1>1
<1>3. ASSUME NEW i \in DOMAIN c
      PROVE  c[i] \in R \cup Plain
    <2>1. CASE i <= Len(a)
        BY <2>1, <1>1
    <2>2. CASE ~(i <= Len(a))
        <3>1. i - Len(a) \in DOMAIN b /\ c[i] = b[i - Len(a)]
            BY <2>2, <1>1
        <3> QED
            BY <3>1
    <2> QED
        BY <2>1, <2>2
<1> QED
    BY <1>1, <1>2, <1>3 DEF Full, c

LEMMA FullBeyond ==
    ASSUME NEW R, Full(heap, R, Redex.items), Redex.items \in Seq(Values),
           NEW n \in Nat, NEW v \in R \cup Plain
    PROVE  <<v>> \o Beyond(n) \in Seq(Values) /\ Full(heap, R, <<v>> \o Beyond(n))
<1>1. /\ Beyond(n) \in Seq(Values) /\ \A i \in DOMAIN Beyond(n) : Beyond(n)[i] \in R \cup Plain
    BY BeyondFacts
<1>2. R \in SUBSET Addr /\ Sound(heap, R, {})
    BY DEF Full
<1>3. v \in Values
    BY <1>2, PlainCombinators DEF Values
<1>4. /\ <<v>> \in Seq(Values) /\ <<v>> # <<>>
      /\ \A i \in DOMAIN <<v>> : <<v>>[i] \in R \cup Plain
    BY <1>3
<1> QED
    BY <1>1, <1>2, <1>4, FullJoin

\* What is ready but for no place.
LEMMA ReadyItems ==
    ASSUME NEW h, NEW a, Ready(h, a, {})
    PROVE  \E S \in SUBSET Addr :
                /\ Sound(h, S, {})
                /\ \A i \in DOMAIN h[a].items :
                        h[a].items[i] \in S \cup Plain \/ (i = 1 /\ h[a].rt = Nil)
BY DEF Ready

\* Both ways to call the handler.
LEMMA RaisesGo ==
    ASSUME Going, Redex.rt # Nil, NEW R, Full(heap, R, Redex.items), NEW e \in R \cup Plain,
           Raise(e) \/ RaiseBare(e)
    PROVE  Progress
<1> DEFINE h == heap[Redex.exc]
<1>1. Top(heap, trampoline) /\ heap \in Heaps
    BY GoingFacts
<1>2. Top(heap, Redex.exc) /\ h.items # <<>> /\ h.items \in Seq(Values) /\ Ready(heap, Redex.exc, {})
    BY <1>1, TopFacts DEF Redex, Arrays
<1>3. PICK S \in SUBSET Addr :
        /\ Sound(heap, S, {})
        /\ \A i \in DOMAIN h.items : h.items[i] \in S \cup Plain \/ (i = 1 /\ h.rt = Nil)
    BY <1>2, ReadyItems
<1>4. R \cup S \in SUBSET Addr /\ Sound(heap, R \cup S, {})
    BY <1>3, SoundJoin DEF Full
<1> DEFINE i1 == h.items[1]
<1>5. i1 \in Values /\ (i1 \in S \cup Plain \/ h.rt = Nil)
    <2>1. 1 \in DOMAIN h.items
        BY <1>2
    <2> QED
        BY <2>1, <1>2, <1>3
<1>6. e \in Values /\ None \in Values /\ None \in Plain
    BY TrampolineAssumption, PlainCombinators DEF Values, Full
<1>7. CASE Raise(e)
    <2> DEFINE items == <<i1, None, e>>
    <2>1. Become([h EXCEPT !.items = items])
        BY <1>7 DEF Raise
    <2>2. /\ items \in Seq(Values) /\ DOMAIN items = {1, 2, 3}
          /\ items[1] = i1 /\ items[2] = None /\ items[3] = e
        BY <1>5, <1>6
    <2> HIDE DEF items, i1
    <2>3. ASSUME NEW i \in DOMAIN items
          PROVE  items[i] \in (R \cup S) \cup Plain \/ (i = 1 /\ h.rt = Nil)
        BY <2>2, <1>5, <1>6
    <2>4. 2 \in DOMAIN items /\ items[1] = heap[Redex.exc].items[1]
        BY <2>2 DEF i1
    <2> QED
        BY <1>4, <2>1, <2>2, <2>3, <2>4, RaiseGoes
<1>8. CASE RaiseBare(e)
    <2> DEFINE items == <<i1, e>>
    <2>1. Become([h EXCEPT !.items = items])
        BY <1>8 DEF RaiseBare
    <2>2. /\ items \in Seq(Values) /\ DOMAIN items = {1, 2}
          /\ items[1] = i1 /\ items[2] = e
        BY <1>5, <1>6
    <2> HIDE DEF items, i1
    <2>3. ASSUME NEW i \in DOMAIN items
          PROVE  items[i] \in (R \cup S) \cup Plain \/ (i = 1 /\ h.rt = Nil)
        BY <2>2, <1>5
    <2>4. 2 \in DOMAIN items /\ items[1] = heap[Redex.exc].items[1]
        BY <2>2 DEF i1
    <2> QED
        BY <1>4, <2>1, <2>2, <2>3, <2>4, RaiseGoes
<1> QED
    BY <1>7, <1>8

LEMMA ThrowGoes ==
    ASSUME Going, ReduceThrow
    PROVE  Progress
<1>1. Redex.rt # Nil
    BY KindFacts DEF ReduceThrow
<1>2. PICK R : Full(heap, R, Redex.items)
    BY <1>1, GoingFacts
<1>3. Redex.items \in Seq(Values)
    BY GoingFacts
<1>4. CASE Args = <<>>
    <2>1. Return(Redex.items)
        BY <1>4 DEF ReduceThrow
    <2> QED
        BY <1>1, <1>2, <1>3, <2>1, ReturnGoes
<1>5. CASE Args # <<>>
    <2> DEFINE h == heap[Redex.exc]
               items == h.items \o Args
    <2>1. Become([h EXCEPT !.items = items])
        BY <1>5 DEF ReduceThrow
    <2>2. Top(heap, Redex.exc)
        BY <1>1, GoingFacts, TopFacts DEF Redex
    <2>3. h.items # <<>> /\ h.items \in Seq(Values) /\ Ready(heap, Redex.exc, {})
        BY <2>2, TopFacts DEF Arrays
    <2>4. PICK S \in SUBSET Addr :
            /\ Sound(heap, S, {})
            /\ \A i \in DOMAIN h.items : h.items[i] \in S \cup Plain \/ (i = 1 /\ h.rt = Nil)
        BY <2>3, ReadyItems
    <2>5. R \cup S \in SUBSET Addr /\ Sound(heap, R \cup S, {})
        BY <1>2, <2>4, SoundJoin DEF Full
    <2>6. Args \in Seq(Values) /\ \A i \in DOMAIN Args : Args[i] \in R \cup Plain
        BY <1>2, <1>3, ArgsFacts
    <2>7. /\ items \in Seq(Values) /\ Len(items) = Len(h.items) + Len(Args)
          /\ \A i \in 1..Len(items) :
                items[i] = IF i <= Len(h.items) THEN h.items[i] ELSE Args[i - Len(h.items)]
          /\ Len(h.items) \in Nat /\ Len(h.items) >= 1 /\ Len(Args) \in Nat /\ Len(Args) >= 1
          /\ DOMAIN items = 1..Len(items)
        BY <2>3, <2>6, <1>5
    <2> HIDE DEF items
    <2>8. 2 \in DOMAIN items /\ items[1] = h.items[1]
        BY <2>7
    <2>9. ASSUME NEW i \in DOMAIN items
          PROVE  items[i] \in (R \cup S) \cup Plain \/ (i = 1 /\ h.rt = Nil)
        <3>1. CASE i <= Len(h.items)
            <4>1. i \in DOMAIN h.items /\ items[i] = h.items[i]
                BY <3>1, <2>3, <2>7
            <4> QED
                BY <4>1, <2>4
        <3>2. CASE ~(i <= Len(h.items))
            <4>1. i - Len(h.items) \in DOMAIN Args /\ items[i] = Args[i - Len(h.items)]
                BY <3>2, <2>6, <2>7
            <4> QED
                <5>1. Args[i - Len(h.items)] \in R \cup Plain
                    BY <4>1, <2>6
                <5> QED
                    BY <4>1, <5>1
        <3> QED
            BY <3>1, <3>2
    <2> QED
        BY <1>1, <2>1, <2>5, <2>7, <2>8, <2>9, RaiseGoes
<1> QED
    BY <1>4, <1>5

LEMMA ReturnsRedex ==
    ASSUME Going, Redex.rt # Nil, Return(Redex.items)
    PROVE  Progress
BY GoingFacts, ReturnGoes

LEMMA DataGoes ==
    ASSUME Going, ReduceData
    PROVE  Progress
BY KindFacts, ReturnsRedex DEF ReduceData

LEMMA ArrayGoes ==
    ASSUME Going, ReduceArray
    PROVE  Progress
<1>1. Head1 \in Addr /\ trampoline # Nil
    BY DEF ReduceArray
<1>2. Redex.rt # Nil
    <2>1. Head1 \notin {Result, Exception}
        BY <1>1, NoValueIsNil, TrampolineAssumption DEF Combinators
    <2> QED
        BY <2>1, GoingFacts
<1>3. PICK R : Full(heap, R, Redex.items)
    BY <1>2, GoingFacts
<1>4. /\ Redex.items \in Seq(Values) /\ Redex.items # <<>> /\ heap \in Heaps
    BY GoingFacts
<1>5. Head1 \in R
    <2>1. 1 \in DOMAIN Redex.items
        BY <1>4
    <2>2. Head1 \in R \cup Plain
        BY <2>1, <1>3 DEF Full, Head1
    <2> QED
        BY <2>2, <1>1, PlainCombinators, NoValueIsNil
<1>6. /\ heap[Head1].items # <<>> /\ heap[Head1].items \in Seq(Values)
      /\ \A i \in DOMAIN heap[Head1].items : heap[Head1].items[i] \in R \cup Plain
    BY <1>1, <1>3, <1>4, <1>5 DEF Full, Sound, Heaps, Arrays
<1>7. /\ Args \in Seq(Values) /\ R \in SUBSET Addr /\ Sound(heap, R, {})
      /\ \A i \in DOMAIN Args : Args[i] \in R \cup Plain
    BY <1>3, <1>4, ArgsFacts
<1> DEFINE items == heap[Head1].items \o Args
<1>8. items \in Seq(Values) /\ Full(heap, R, items)
    BY <1>6, <1>7, FullJoin
<1>9. Become([Redex EXCEPT !.items = items])
    BY DEF ReduceArray
<1> HIDE DEF items
<1> QED
    BY <1>2, <1>8, <1>9, BecomeGoes

LEMMA StallGoes ==
    ASSUME Going, ReduceStall
    PROVE  Progress
<1>1. Redex.rt # Nil
    BY KindFacts DEF ReduceStall
<1>2. PICK R : Full(heap, R, Redex.items)
    BY <1>1, GoingFacts
<1>3. Redex.items \in Seq(Values)
    BY GoingFacts
<1>4. CASE Args = <<>>
    BY <1>1, <1>4, ReturnsRedex DEF ReduceStall
<1>5. CASE Args # <<>>
    <2>1. Return(Args)
        BY <1>5 DEF ReduceStall
    <2>2. Args \in Seq(Values) /\ Full(heap, R, Args)
        BY <1>2, <1>3, <1>5, ArgsFacts DEF Full
    <2> QED
        BY <1>1, <2>1, <2>2, ReturnGoes
<1> QED
    BY <1>4, <1>5

LEMMA HandleGoes ==
    ASSUME Going, ReduceHandle
    PROVE  Progress
<1>1. Redex.rt # Nil
    BY KindFacts DEF ReduceHandle
<1>2. PICK R : Full(heap, R, Redex.items)
    BY <1>1, GoingFacts
<1>3. Redex.items \in Seq(Values) /\ Redex \in Arrays /\ Top(heap, trampoline) /\ heap \in Heaps
    BY GoingFacts
<1>4. CASE Len(Args) < 2
    BY <1>1, <1>4, ReturnsRedex DEF ReduceHandle
<1>5. CASE ~(Len(Args) < 2)
    <2> DEFINE is == <<Args[1], None>>
               js == <<Args[2], None>> \o Beyond(2)
               H == [Redex EXCEPT !.items = is]
               T == [Redex EXCEPT !.items = js, !.exc = New(1)]
               f == Alloc(<<H, T>>)
    <2>1. Room(2) /\ Jump(f, New(2))
        BY <1>5 DEF ReduceHandle
    <2>2. /\ Args \in Seq(Values) /\ R \in SUBSET Addr /\ Sound(heap, R, {}) /\ Len(Args) \in Nat
          /\ \A i \in DOMAIN Args : Args[i] \in R \cup Plain
        BY <1>2, <1>3, ArgsFacts
    <2>3. /\ Args[1] \in R \cup Plain /\ Args[2] \in R \cup Plain /\ None \in Plain
          /\ Args[1] \in Values /\ Args[2] \in Values /\ None \in Values
        <3>1. 1 \in DOMAIN Args /\ 2 \in DOMAIN Args
            BY <2>2, <1>5
        <3> QED
            BY <3>1, <2>2, TrampolineAssumption, PlainCombinators DEF Values
    <2>4. is \in Seq(Values) /\ is # <<>> /\ \A i \in DOMAIN is : is[i] \in R \cup Plain
        BY <2>3
    <2>5. Full(heap, R, is)
        BY <2>2, <2>4 DEF Full
    <2>6. js \in Seq(Values) /\ Full(heap, R, js)
        <3> DEFINE two == <<Args[2], None>>
        <3>1. two \in Seq(Values) /\ two # <<>> /\ \A i \in DOMAIN two : two[i] \in R \cup Plain
            BY <2>3
        <3>2. /\ Beyond(2) \in Seq(Values)
              /\ \A i \in DOMAIN Beyond(2) : Beyond(2)[i] \in R \cup Plain
            BY <1>2, <1>3, BeyondFacts
        <3> HIDE DEF two
        <3>3. two \o Beyond(2) \in Seq(Values) /\ Full(heap, R, two \o Beyond(2))
            BY <2>2, <3>1, <3>2, FullJoin
        <3> QED
            BY <3>3 DEF two
    <2> HIDE DEF is, js
    <2>7. H \in Arrays /\ H.items = is /\ SameLinks(H, Redex)
        BY <1>3, <2>4, ItemsArrays
    <2>8. New(1) \in Addr
        BY <2>1, NewAddresses DEF Unused
    <2>9. T \in Arrays /\ T.items = js /\ SameLinks(T, [Redex EXCEPT !.exc = New(1)])
        BY <1>3, <2>6, <2>8 DEF Arrays, SameLinks
    <2> HIDE DEF H, T
    <2>10. /\ f \in Heaps /\ Extends(heap, f)
           /\ New(1) \in Addr /\ New(2) \in Addr /\ heap[New(2)].items = <<>> /\ New(1) # New(2)
           /\ f[New(1)] = H /\ f[New(2)] = T
        BY <2>1, <2>7, <2>9, AllocTwo DEF Going
    <2> HIDE DEF f
    <2>11. Ready(f, New(1), {}) /\ f[New(1)].items # <<>>
        <3>1. Full(heap, R, f[New(1)].items)
            BY <2>5, <2>7, <2>10
        <3> QED
            BY <3>1, <2>10, FullReady DEF Full
    <2>12. Ready(f, New(2), {}) /\ f[New(2)].items # <<>>
        <3>1. Full(heap, R, f[New(2)].items)
            BY <2>6, <2>9, <2>10
        <3> QED
            BY <3>1, <2>10, FullReady DEF Full
    <2>13. /\ SameLinks(f[New(1)], heap[trampoline])
           /\ SameLinks(f[New(2)], [heap[trampoline] EXCEPT !.exc = New(1)])
        BY <2>7, <2>9, <2>10 DEF Redex
    <2>14. Running(f, New(2))
        BY <1>1, <1>3, <2>10, <2>11, <2>12, <2>13, TopHandles DEF Redex
    <2>15. Goes(f, New(2))
        BY <2>10, <2>14 DEF Goes
    <2> QED
        BY <2>1, <2>15 DEF Progress
<1> QED
    BY <1>4, <1>5

LEMMA NappGoes ==
    ASSUME Going, ReduceNapp
    PROVE  Progress
<1>1. Redex.rt # Nil
    BY KindFacts DEF ReduceNapp
<1>2. PICK R : Full(heap, R, Redex.items)
    BY <1>1, GoingFacts
<1>3. Redex.items \in Seq(Values) /\ Redex \in Arrays /\ Top(heap, trampoline) /\ heap \in Heaps
    BY GoingFacts
<1>4. CASE Len(Args) < 2
    BY <1>1, <1>4, ReturnsRedex DEF ReduceNapp
<1>5. CASE ~(Len(Args) < 2)
    <2> DEFINE is == <<Args[1], Nil>>
               js == <<Args[2]>> \o Beyond(2)
               F == [Redex EXCEPT !.items = is]
               G == [Redex EXCEPT !.items = js, !.rt = New(1), !.rti = 2, !.k = New(1)]
               f == Alloc(<<F, G>>)
               d == [l \in Nat |-> IF l = 1 THEN New(1) ELSE New(2)]
               hole == <<New(1), 2>>
    <2>1. Room(2) /\ Jump(f, New(2))
        BY <1>5 DEF ReduceNapp
    <2>2. /\ Args \in Seq(Values) /\ R \in SUBSET Addr /\ Sound(heap, R, {}) /\ Len(Args) \in Nat
          /\ \A i \in DOMAIN Args : Args[i] \in R \cup Plain
        BY <1>2, <1>3, ArgsFacts
    <2>3. Args[1] \in R \cup Plain /\ Args[2] \in R \cup Plain /\ Args[1] \in Values /\ Nil \in Values
        <3>1. 1 \in DOMAIN Args /\ 2 \in DOMAIN Args
            BY <2>2, <1>5
        <3> QED
            BY <3>1, <2>2, PlainCombinators DEF Values
    <2>4. /\ is \in Seq(Values) /\ is # <<>> /\ DOMAIN is = {1, 2}
          /\ is[1] \in R \cup Plain /\ is[2] = Nil
        BY <2>3
    <2>5. js \in Seq(Values) /\ Full(heap, R, js)
        BY <1>2, <1>3, <2>3, FullBeyond
    <2> HIDE DEF is, js
    <2>6. F \in Arrays /\ F.items = is /\ SameLinks(F, Redex)
        BY <1>3, <2>4, ItemsArrays
    <2>7. New(1) \in Addr
        BY <2>1, NewAddresses DEF Unused
    <2>8. /\ G \in Arrays /\ G.items = js /\ G.rt = New(1) /\ G.rti = 2 /\ G.k = New(1)
          /\ G.exc = Redex.exc
        BY <1>3, <2>5, <2>7 DEF Arrays
    <2> HIDE DEF F, G
    <2>9. /\ f \in Heaps /\ Extends(heap, f)
          /\ New(1) \in Addr /\ New(2) \in Addr /\ New(1) # New(2)
          /\ heap[New(1)].items = <<>>
          /\ f[New(1)] = F /\ f[New(2)] = G
        BY <2>1, <2>6, <2>8, AllocTwo DEF Going
    <2> HIDE DEF f
    <2>10. d \in [Nat -> Addr] /\ d[1] = New(1) /\ d[2] = New(2)
        BY <2>9
    <2> HIDE DEF d
    <2>11. Place(f, d[2]) = hole /\ IsHole(heap, f, hole)
        BY <2>4, <2>6, <2>8, <2>9, <2>10 DEF Place, IsHole, IsPlace, Content
    <2>12. Ready(f, New(1), {hole}) /\ f[New(1)].items # <<>>
        <3>1. Sound(f, R, {})
            BY <2>2, <2>9, SoundExtends
        <3>2. Sound(f, R, {hole})
            BY <3>1, SoundCuts
        <3>3. f[New(1)].items = is
            BY <2>6, <2>9
        <3>4. ASSUME NEW i \in DOMAIN is
              PROVE  <<New(1), i>> \in {hole} \/ is[i] \in R \cup Plain
            BY <2>4
        <3> HIDE DEF hole
        <3> QED
            BY <2>2, <2>4, <3>2, <3>3, <3>4 DEF Ready
    <2>13. Ready(f, New(2), {}) /\ f[New(2)].items # <<>>
        <3>1. Full(heap, R, f[New(2)].items)
            BY <2>5, <2>8, <2>9
        <3> QED
            BY <3>1, <2>9, FullReady DEF Full
    <2>14. AddsFrames(heap, f, trampoline, 2, d)
        <3>0. (2..2 = {2}) /\ (3..2 = {}) /\ (1..2 = {1, 2}) /\ (1 + 1 = 2) /\ (2 + 1 = 3) /\ (2 - 1 = 1)
            OBVIOUS
        <3>1. Places(f, d, 1 + 1, 2) = {hole} /\ Places(f, d, 2 + 1, 2) = {}
            BY <3>0, <2>11 DEF Places
        <3>2. /\ f[d[1]].items # <<>> /\ f[d[1]].exc = heap[trampoline].exc
              /\ Ready(f, d[1], Places(f, d, 1 + 1, 2)) /\ f[d[1]].k = heap[trampoline].k
            BY <2>6, <2>9, <2>10, <2>12, <3>1 DEF SameLinks, Redex
        <3>3. /\ f[d[2]].items # <<>> /\ f[d[2]].exc = heap[trampoline].exc
              /\ Ready(f, d[2], Places(f, d, 2 + 1, 2)) /\ f[d[2]].k = d[1]
            BY <2>8, <2>9, <2>10, <2>13, <3>1 DEF Redex
        <3> QED
            BY <2>10, <2>11, <3>0, <3>2, <3>3 DEF AddsFrames
    <2>15. Keeps(heap, f, f, trampoline, d)
        BY <2>6, <2>9, <2>10 DEF Keeps, Place, SameLinks, Redex
    <2>16. Running(f, d[2])
        BY <1>1, <1>3, <2>9, <2>14, <2>15, TopAdds DEF Redex
    <2>17. Goes(f, New(2))
        BY <2>9, <2>10, <2>16 DEF Goes
    <2> QED
        BY <2>1, <2>17 DEF Progress
<1> QED
    BY <1>4, <1>5

\* What a combinator that does nothing leaves, and what is left over, are
\* both arrays.
LEMMA StuckGoes ==
    ASSUME Going, Redex.rt # Nil, NEW R, Full(heap, R, Redex.items), NEW arity \in Nat, Room(2),
           Jump(Write(Alloc(<<Tree(Redex.items), Tree(<<New(1)>> \o Beyond(arity))>>),
                      Redex.rt, Redex.rti, New(2)),
                Redex.k)
    PROVE  Progress
<1> DEFINE js == <<New(1)>> \o Beyond(arity)
           f == Alloc(<<Tree(Redex.items), Tree(js)>>)
           g == Write(f, Redex.rt, Redex.rti, New(2))
           S == R \cup {New(1)}
           T == S \cup {New(2)}
<1>1. Redex.items \in Seq(Values) /\ Redex \in Arrays /\ Top(heap, trampoline) /\ heap \in Heaps
    BY GoingFacts
<1>2. New(1) \in Addr
    BY NewAddresses DEF Unused
<1>3. R \in SUBSET Addr /\ Sound(heap, R, {})
    BY DEF Full
<1>4. /\ Beyond(arity) \in Seq(Values)
      /\ \A i \in DOMAIN Beyond(arity) : Beyond(arity)[i] \in R \cup Plain
    BY <1>1, BeyondFacts
<1>5. js \in Seq(Values) /\ js # <<>> /\ \A i \in DOMAIN js : js[i] \in S \cup Plain
    <2> DEFINE one == <<New(1)>>
    <2>1. one \in Seq(Values) /\ Len(one) = 1 /\ one[1] = New(1)
        BY <1>2 DEF Values
    <2> HIDE DEF one
    <2>2. js = one \o Beyond(arity)
        BY DEF one
    <2>3. /\ js \in Seq(Values) /\ js # <<>> /\ DOMAIN js = 1..1 + Len(Beyond(arity))
          /\ \A i \in DOMAIN js : js[i] = IF i = 1 THEN New(1) ELSE Beyond(arity)[i - 1]
          /\ \A i \in DOMAIN js : i = 1 \/ i - 1 \in DOMAIN Beyond(arity)
        BY <1>4, <2>1, <2>2
    <2> HIDE DEF js
    <2> QED
        BY <1>4, <2>3
<1> HIDE DEF js
<1>6. /\ Tree(Redex.items) \in Arrays /\ Tree(Redex.items).items = Redex.items
      /\ IsTree(Tree(Redex.items))
      /\ Tree(js) \in Arrays /\ Tree(js).items = js /\ IsTree(Tree(js))
    BY <1>1, <1>5, TreeArrays
<1>7. /\ f \in Heaps /\ Extends(heap, f)
      /\ New(1) \in Addr /\ New(2) \in Addr
      /\ f[New(1)] = Tree(Redex.items) /\ f[New(2)] = Tree(js)
    BY <1>6, AllocTwo DEF Going
<1>8. Jump(g, Redex.k)
    BY DEF js
<1> HIDE DEF f
<1>9. S \in SUBSET Addr /\ Sound(f, S, {})
    BY <1>6, <1>7, FullTree
<1>10. T \in SUBSET Addr /\ Sound(f, T, {})
    BY <1>5, <1>6, <1>7, <1>9 DEF Sound
<1>11. Top(f, trampoline) /\ f[trampoline] = Redex
    BY <1>1, <1>7, TopExtends DEF Redex
<1>12. Running(g, Redex.k)
    BY <1>10, <1>11, TopReturns
<1>13. Goes(g, Redex.k)
    BY <1>7, <1>12 DEF Goes, Values
<1> QED
    BY <1>8, <1>13 DEF Progress

LEMMA ToValueGoes ==
    ASSUME Going, Redex.rt # Nil, NEW arity \in Nat, ReduceToValue(arity)
    PROVE  Progress
<1>1. PICK R : Full(heap, R, Redex.items)
    BY GoingFacts
<1>2. Redex.items \in Seq(Values)
    BY GoingFacts
<1>3. CASE Len(Args) < arity
    BY <1>3, ReturnsRedex DEF ReduceToValue
<1>4. CASE ~(Len(Args) < arity)
    <2>1. /\ Args \in Seq(Values) /\ R \in SUBSET Addr /\ Sound(heap, R, {}) /\ Len(Args) \in Nat
          /\ \A i \in DOMAIN Args : Args[i] \in R \cup Plain
        BY <1>1, <1>2, ArgsFacts
    <2>2. arity # 0 => Args[1] \in R \cup Plain
        <3>1. arity # 0 => 1 \in DOMAIN Args
            BY <1>4, <2>1
        <3> QED
            BY <3>1, <2>1
    <2>3. Operand(arity) \in R \cup Plain
        BY <2>2, TrampolineAssumption DEF Operand
    <2>4. CASE Return(<<Operand(arity)>> \o Beyond(arity))
        <3>1. /\ <<Operand(arity)>> \o Beyond(arity) \in Seq(Values)
              /\ Full(heap, R, <<Operand(arity)>> \o Beyond(arity))
            BY <1>1, <1>2, <2>3, FullBeyond
        <3> QED
            BY <3>1, <2>4, ReturnGoes
    <2>5. CASE IF arity = 0 THEN RaiseBare(None) ELSE Raise(Args[1])
        <3>1. None \in R \cup Plain
            BY TrampolineAssumption
        <3> QED
            BY <1>1, <2>2, <2>5, <3>1, RaisesGo
    <2>6. CASE Return(Redex.items)
        BY <2>6, ReturnsRedex
    <2>7. CASE /\ Room(2)
               /\ Jump(Write(Alloc(<<Tree(Redex.items), Tree(<<New(1)>> \o Beyond(arity))>>),
                             Redex.rt, Redex.rti, New(2)),
                       Redex.k)
        BY <1>1, <2>7, StuckGoes
    <2> QED
        BY <1>4, <2>4, <2>5, <2>6, <2>7 DEF ReduceToValue
<1> QED
    BY <1>3, <1>4

LEMMA VariadicGoes ==
    ASSUME Going, ReduceVariadic
    PROVE  Progress
<1> DEFINE first == IF Args = <<>> THEN None ELSE Args[1]
<1>1. Redex.rt # Nil
    BY KindFacts DEF ReduceVariadic
<1>2. PICK R : Full(heap, R, Redex.items)
    BY <1>1, GoingFacts
<1>3. Redex.items \in Seq(Values)
    BY GoingFacts
<1>4. /\ Args \in Seq(Values) /\ R \in SUBSET Addr /\ Sound(heap, R, {})
      /\ \A i \in DOMAIN Args : Args[i] \in R \cup Plain
    BY <1>2, <1>3, ArgsFacts
<1>5. first \in R \cup Plain /\ first \in Values
    <2>1. Args # <<>> => 1 \in DOMAIN Args
        BY <1>4
    <2>2. first \in R \cup Plain
        BY <2>1, <1>4, TrampolineAssumption
    <2> QED
        BY <2>2, <1>4, PlainCombinators DEF Values
<1>6. \/ Return(<<first>>) \/ Raise(first) \/ Return(Redex.items)
    BY DEF ReduceVariadic
<1> HIDE DEF first
<1>7. CASE Return(<<first>>)
    <2>1. <<first>> \in Seq(Values) /\ Full(heap, R, <<first>>)
        BY <1>4, <1>5 DEF Full
    <2> QED
        BY <2>1, <1>1, <1>7, ReturnGoes
<1>8. CASE Raise(first)
    BY <1>1, <1>2, <1>5, <1>8, RaisesGo
<1>9. CASE Return(Redex.items)
    BY <1>1, <1>9, ReturnsRedex
<1> QED
    BY <1>6, <1>7, <1>8, <1>9

LEMMA FurtherGoes ==
    ASSUME Going, Redex.rt # Nil, NEW arity \in Nat, arity # 0, Len(Args) >= arity,
           ReduceFurther(arity)
    PROVE  Progress
<1>1. PICK R : Full(heap, R, Redex.items)
    BY GoingFacts
<1>2. Redex.items \in Seq(Values)
    BY GoingFacts
<1>3. /\ Args \in Seq(Values) /\ R \in SUBSET Addr /\ Sound(heap, R, {}) /\ Len(Args) \in Nat
      /\ \A i \in DOMAIN Args : Args[i] \in R \cup Plain
    BY <1>1, <1>2, ArgsFacts
<1>4. Operand(arity) \in R \cup Plain
    <2>1. 1 \in DOMAIN Args
        BY <1>3
    <2> QED
        BY <2>1, <1>3 DEF Operand
<1> DEFINE items == <<Operand(arity)>> \o Beyond(arity)
<1>5. CASE Become([Redex EXCEPT !.items = items])
    <2>1. items \in Seq(Values) /\ Full(heap, R, items)
        BY <1>1, <1>2, <1>4, FullBeyond
    <2> HIDE DEF items
    <2> QED
        BY <2>1, <1>5, BecomeGoes
<1>6. CASE Raise(Operand(arity))
    BY <1>1, <1>4, <1>6, RaisesGo
<1>7. CASE Return(Redex.items)
    BY <1>7, ReturnsRedex
<1> QED
    BY <1>5, <1>6, <1>7 DEF ReduceFurther

LEMMA TernaryGoes ==
    ASSUME Going, ReduceTernary
    PROVE  Progress
<1>1. Redex.rt # Nil
    BY KindFacts DEF ReduceTernary
<1>2. PICK R : Full(heap, R, Redex.items)
    BY <1>1, GoingFacts
<1>3. Redex.items \in Seq(Values) /\ Redex \in Arrays /\ Top(heap, trampoline)
    BY GoingFacts
<1>4. Len(Args) \in Nat
    BY <1>2, <1>3, ArgsFacts
<1>5. CASE Len(Args) = 0
    <2>1. Become(Redex)
        BY <1>5 DEF ReduceTernary
    <2>2. [Redex EXCEPT !.items = Redex.items] = Redex
        BY <1>3 DEF Arrays
    <2> QED
        BY <2>1, <2>2, <1>1, <1>2, <1>3, BecomeGoes
<1>6. CASE Len(Args) > 2
    <2>1. ReduceFurther(3)
        BY <1>4, <1>6 DEF ReduceTernary
    <2> QED
        BY <2>1, <1>1, <1>4, <1>6, FurtherGoes
<1>7. CASE Len(Args) \in 1..2
    <2> DEFINE is == <<New(1)>>
               T == Tree(Redex.items)
               F == [Redex EXCEPT !.items = is]
               f == Alloc(<<T, F>>)
    <2>1. Room(2) /\ Jump(f, New(2))
        <3>1. Len(Args) # 0 /\ ~(Len(Args) > 2)
            <4> DEFINE n == Len(Args)
            <4>1. n \in 1..2
                BY <1>7
            <4> HIDE DEF n
            <4>2. n # 0 /\ ~(n > 2)
                BY <4>1
            <4> QED
                BY <4>2 DEF n
        <3> QED
            BY <1>7, <3>1 DEF ReduceTernary
    <2>2. New(1) \in Addr
        BY <2>1, NewAddresses DEF Unused
    <2>3. is \in Seq(Values) /\ is # <<>> /\ DOMAIN is = {1} /\ is[1] = New(1)
        BY <2>2 DEF Values
    <2> HIDE DEF is
    <2>4. T \in Arrays /\ T.items = Redex.items /\ IsTree(T)
        BY <1>3, TreeArrays
    <2>5. F \in Arrays /\ F.items = is /\ SameLinks(F, Redex)
        BY <1>3, <2>3, ItemsArrays
    <2> HIDE DEF F, T
    <2>6. /\ f \in Heaps /\ Extends(heap, f)
          /\ New(1) \in Addr /\ New(2) \in Addr /\ f[New(1)] = T /\ f[New(2)] = F
        BY <2>1, <2>4, <2>5, AllocTwo DEF Going
    <2> HIDE DEF f
    <2> DEFINE S == R \cup {New(1)}
    <2>7. S \in SUBSET Addr /\ Sound(f, S, {})
        BY <1>2, <2>4, <2>6, FullTree
    <2>8. Ready(f, New(2), {}) /\ f[New(2)].items # <<>>
        <3>1. \A i \in DOMAIN f[New(2)].items : f[New(2)].items[i] \in S \cup Plain
            BY <2>3, <2>5, <2>6
        <3> QED
            BY <3>1, <2>3, <2>5, <2>6, <2>7 DEF Ready
    <2>9. SameLinks(f[New(2)], heap[trampoline]) /\ heap[trampoline].rt # Nil
        BY <1>1, <2>5, <2>6 DEF Redex
    <2>10. Top(f, New(2))
        BY <1>3, <2>6, <2>8, <2>9, TopBecomes
    <2>11. Goes(f, New(2))
        BY <2>6, <2>9, <2>10 DEF Goes, Running, SameLinks
    <2> QED
        BY <2>1, <2>11 DEF Progress
<1>8. Len(Args) = 0 \/ Len(Args) > 2 \/ Len(Args) \in 1..2
    <2> DEFINE n == Len(Args)
    <2>1. n \in Nat
        BY <1>4
    <2> HIDE DEF n
    <2>2. n = 0 \/ n > 2 \/ n \in 1..2
        BY <2>1
    <2> QED
        BY <2>2 DEF n
<1> QED
    BY <1>5, <1>6, <1>7, <1>8

-----------------------------------------------------------------------------
(* Bytecode: the nodes of a body, as arrays.                               *)

Root(rule) == Len(rule.body)

Redexes(rule) == {n \in 1..Root(rule) : rule.body[n].redex}

\* The nodes that node n may be over.
Inside(rule, n) == {m \in 1..n - 1 : ~rule.body[m].redex}

\* What a rule is, in the form in which it is used.
LEMMA RuleFacts ==
    ASSUME NEW rule, IsRule(rule)
    PROVE  /\ rule.pats \in Seq(Params \cup Combinators \cup Seq(Params \cup Combinators))
           /\ Root(rule) \in Nat /\ Root(rule) >= 1
           /\ \A n \in 1..Root(rule) :
                /\ rule.body[n].items \in Seq(Params \cup Combinators \cup {Nil} \cup Nat)
                /\ rule.body[n].items # <<>>
                /\ rule.body[n].redex \in BOOLEAN
                /\ \A i \in DOMAIN rule.body[n].items :
                        /\ rule.body[n].items[i] \in
                                Bound(rule.pats) \cup Plain \cup {Nil} \cup Inside(rule, n)
                        /\ rule.body[n].items[i] = Nil =>
                                \E m \in Redexes(rule) : m < n /\ rule.body[m].to = <<n, i>>
           /\ \A m \in Redexes(rule) : m # Root(rule) =>
                /\ \E n \in m + 1..Root(rule) : \E i \in DOMAIN rule.body[n].items :
                        rule.body[m].to = <<n, i>> /\ rule.body[n].items[i] = Nil
                /\ \A n \in Redexes(rule) : 
                        n # Root(rule) /\ rule.body[n].to = rule.body[m].to => n = m
           /\ \A m \in 1..Root(rule) - 1 : m \notin Redexes(rule) =>
                \E n \in m + 1..Root(rule) : \E i \in DOMAIN rule.body[n].items :
                    rule.body[n].items[i] = m
           /\ Root(rule) \notin Redexes(rule) /\ Len(rule.body[Root(rule)].items) = 1
                => rule.body[Root(rule)].items[1] \in Params \cup Plain
<1> DEFINE body == rule.body
           root == Len(body)
           names == Params \cup Combinators
<1>1. /\ rule.pats \in Seq(names \cup Seq(names))
      /\ body \in Seq([redex : BOOLEAN, items : Seq(names \cup {Nil} \cup Nat),
                       to : Nat \X Nat])
      /\ body # <<>>
    BY DEF IsRule
<1>2. \A n \in 1..root :
        /\ body[n].items # <<>>
        /\ Range(body[n].items) \subseteq
                Bound(rule.pats) \cup Plain \cup {Nil} \cup {m \in 1..n - 1 : ~body[m].redex}
        /\ \A i \in DOMAIN body[n].items :
                body[n].items[i] = Nil =>
                    \E m \in 1..root : m \in 1..n - 1 /\ body[m].redex /\ body[m].to = <<n, i>>
    BY DEF IsRule
<1>3. \A m \in 1..root - 1 :
        IF body[m].redex
        THEN /\ \E n \in m + 1..root : \E i \in DOMAIN body[n].items :
                    (m \in 1..n - 1 /\ body[m].redex /\ body[m].to = <<n, i>>)
                    /\ body[n].items[i] = Nil
             /\ \A n \in 1..root - 1 : body[n].redex /\ body[n].to = body[m].to => n = m
        ELSE \E n \in m + 1..root : m \in Range(body[n].items)
    BY DEF IsRule
<1>4. ~body[root].redex /\ Len(body[root].items) = 1 => body[root].items[1] \in Params \cup Plain
    BY DEF IsRule
<1>5. root \in Nat /\ root >= 1
    BY <1>1
<1>6. ASSUME NEW n \in 1..root
      PROVE  body[n].redex \in BOOLEAN /\ body[n].items \in Seq(names \cup {Nil} \cup Nat)
    <2> DEFINE S == [redex : BOOLEAN, items : Seq(names \cup {Nil} \cup Nat), to : Nat \X Nat]
    <2>1. body \in Seq(S)
        BY <1>1
    <2>2. body[n] \in S
        <3> HIDE DEF S, body
        <3> QED
            BY <2>1
    <2> QED
        BY <2>2
<1> HIDE DEF body
<1>7. ASSUME NEW n \in 1..root, NEW i \in DOMAIN body[n].items
      PROVE  /\ body[n].items[i] \in Bound(rule.pats) \cup Plain \cup {Nil} \cup Inside(rule, n)
             /\ body[n].items[i] = Nil => \E m \in Redexes(rule) : m < n /\ body[m].to = <<n, i>>
    <2>1. body[n].items[i] \in Range(body[n].items)
        BY DEF Range
    <2>2. body[n].items[i] \in Bound(rule.pats) \cup Plain \cup {Nil} \cup Inside(rule, n)
        BY <1>2, <2>1 DEF Inside, body
    <2>3. ASSUME body[n].items[i] = Nil
          PROVE  \E m \in Redexes(rule) : m < n /\ body[m].to = <<n, i>>
        <3>1. PICK m \in 1..root : m \in 1..n - 1 /\ body[m].redex /\ body[m].to = <<n, i>>
            BY <1>2, <2>3
        <3>2. m \in Redexes(rule)
            BY <3>1 DEF Redexes, Root, body
        <3>3. m < n
            BY <3>1, <1>5
        <3> QED
            BY <3>1, <3>2, <3>3
    <2> QED
        BY <2>2, <2>3
<1>8. ASSUME NEW m \in Redexes(rule), m # root
      PROVE  /\ \E n \in m + 1..root : \E i \in DOMAIN body[n].items :
                    body[m].to = <<n, i>> /\ body[n].items[i] = Nil
             /\ \A n \in Redexes(rule) : n # root /\ body[n].to = body[m].to => n = m
    <2>1. /\ \A n \in Redexes(rule) : n # root => n \in 1..root - 1 /\ body[n].redex
          /\ m \in 1..root - 1 /\ body[m].redex
        BY <1>5, <1>8 DEF Redexes, Root, body
    <2> QED
        BY <2>1, <1>3
<1>9. ASSUME NEW m \in 1..root - 1, m \notin Redexes(rule)
      PROVE  \E n \in m + 1..root : \E i \in DOMAIN body[n].items : body[n].items[i] = m
    <2>1. ~body[m].redex
        BY <1>5, <1>9 DEF Redexes, Root, body
    <2>2. PICK n \in m + 1..root : m \in Range(body[n].items)
        BY <2>1, <1>3
    <2> QED
        BY <2>2 DEF Range
<1>10. root \notin Redexes(rule) => ~body[root].redex
    BY <1>5 DEF Redexes, Root, body
<1>11. root = Root(rule)
    BY DEF Root, body
<1> HIDE DEF root
<1>12. \A n \in 1..root :
        /\ body[n].items \in Seq(names \cup {Nil} \cup Nat)
        /\ body[n].items # <<>>
        /\ body[n].redex \in BOOLEAN
    BY <1>2, <1>6
<1> QED
    BY <1>1, <1>4, <1>5, <1>7, <1>8, <1>9, <1>10, <1>11, <1>12 DEF body

\* The value of a slot is complete, unless it is another node or a hole.
LEMMA SlotFacts ==
    ASSUME Going, NEW R, Full(heap, R, Redex.items), NEW rule, IsRule(rule), Applies(rule), NEW s
    PROVE  /\ s \in Bound(rule.pats) \cup Plain => Slot(rule, s) \in R \cup Plain
           /\ s = Nil => Slot(rule, s) = Nil
           /\ s \in 1..Root(rule) => Slot(rule, s) = New(s)
<1> DEFINE pats == rule.pats
           names == Params \cup Combinators
           i1 == At(pats, s)
           i2 == Around(pats, s)
           j2 == At(pats[i2], s)
<1>1. /\ s \in Params /\ (\E i \in DOMAIN pats : pats[i] = s) => Slot(rule, s) = Args[i1]
      /\ s \in Params /\ ~(\E i \in DOMAIN pats : pats[i] = s) =>
            Slot(rule, s) = heap[Args[i2]].items[j2]
      /\ s \notin Params /\ s \in 1..Root(rule) => Slot(rule, s) = New(s)
      /\ s \notin Params /\ s \notin 1..Root(rule) => Slot(rule, s) = s
    BY DEF Slot, Root
<1>2. /\ pats \in Seq(names \cup Seq(names)) /\ Root(rule) \in Nat
    BY RuleFacts
<1>3. /\ Args \in Seq(Values) /\ Len(Args) \in Nat /\ R \in SUBSET Addr /\ Sound(heap, R, {})
      /\ \A i \in DOMAIN Args : Args[i] \in R \cup Plain
      /\ heap \in Heaps
    BY GoingFacts, ArgsFacts
<1>4. ASSUME NEW i \in DOMAIN pats
      PROVE  Args[i] \in R \cup Plain /\ Matches(pats[i], Args[i])
    <2>1. Len(pats) <= Len(Args) /\ Matches(pats[i], Args[i])
        BY DEF Applies
    <2>2. i \in DOMAIN Args
        BY <2>1, <1>2, <1>3
    <2> QED
        BY <2>1, <2>2, <1>3
<1>5. Nat \cap (Combinators \cup Params \cup {Nil}) = {} /\ Params \cap Combinators = {}
      /\ Nil \notin Params \cup Combinators
    BY TrampolineAssumption, TermsAssumption
<1>6. CASE s \in Bound(pats)
    <2>1. /\ s \in Params
          /\ \E i \in DOMAIN pats :
                s = pats[i] \/ (pats[i] \notin Params \cup Combinators /\ s \in Range(pats[i]))
        BY <1>6 DEF Bound
    <2>2. s \notin Nat /\ s # Nil
        BY <2>1, <1>5
    <2>3. CASE \E i \in DOMAIN pats : pats[i] = s
        <3>1. i1 \in DOMAIN pats
            BY <2>3 DEF At
        <3> HIDE DEF i1
        <3>2. Slot(rule, s) \in R \cup Plain
            BY <2>1, <2>3, <3>1, <1>1, <1>4
        <3> QED
            BY <3>2, <2>2
    <2>4. CASE ~(\E i \in DOMAIN pats : pats[i] = s)
        <3>1. \E i \in DOMAIN pats : pats[i] \notin Params \cup Combinators /\ s \in Range(pats[i])
            BY <2>1, <2>4
        <3>2. i2 \in DOMAIN pats /\ pats[i2] \notin Params \cup Combinators /\ s \in Range(pats[i2])
            BY <3>1 DEF Around
        <3>3. j2 \in DOMAIN pats[i2]
            BY <3>2 DEF At, Range
        <3>4. Slot(rule, s) = heap[Args[i2]].items[j2]
            BY <1>1, <2>1, <2>4
        <3> HIDE DEF i2, j2
        <3>5. /\ Args[i2] \in Addr
              /\ Len(heap[Args[i2]].items) = Len(pats[i2])
            BY <3>2, <1>4 DEF Matches
        <3>6. pats[i2] \in Seq(names)
            BY <3>2, <1>2
        <3>7. Args[i2] \in R
            BY <3>2, <3>5, <1>4, NoValueIsNil, PlainCombinators
        <3>8. j2 \in DOMAIN heap[Args[i2]].items
            BY <3>3, <3>5, <3>6, <1>3 DEF Heaps, Arrays
        <3>9. Slot(rule, s) \in R \cup Plain
            BY <3>4, <3>7, <3>8, <1>3 DEF Sound
        <3> QED
            BY <3>9, <2>2
    <2> QED
        BY <2>3, <2>4
<1>7. CASE s \in Plain
    <2>1. s \in Combinators /\ s \notin Params /\ s \notin Nat /\ s # Nil
        BY <1>5, <1>7, PlainCombinators
    <2>2. s \notin 1..Root(rule)
        BY <2>1
    <2>3. Slot(rule, s) = s
        BY <2>1, <2>2, <1>1
    <2> QED
        BY <2>1, <2>2, <2>3, <1>7
<1>8. CASE s \notin Bound(pats) \cup Plain
    <2>1. s = Nil => s \notin Params /\ s \notin 1..Root(rule)
        BY <1>5, <1>2
    <2>2. s \in 1..Root(rule) => s \notin Params
        BY <1>5, <1>2
    <2> HIDE DEF i1, i2, j2
    <2> QED
        BY <2>1, <2>2, <1>1, <1>8
<1> QED
    BY <1>6, <1>7, <1>8

\* The redexes after node n.
Later(rule, n) == {m \in n + 1..Root(rule) : rule.body[m].redex}

LEMMA LaterFacts ==
    ASSUME NEW rule, Root(rule) \in Nat, NEW n \in 1..Root(rule)
    PROVE  /\ Later(rule, n) # {} =>
                Min(Later(rule, n)) \in 1..Root(rule) /\ Min(Later(rule, n)) \in Redexes(rule)
           /\ \A x \in Redexes(rule) : n < x /\ (\A y \in Redexes(rule) : n < y => x <= y) =>
                Later(rule, n) # {} /\ Min(Later(rule, n)) = x
           /\ (\A y \in Redexes(rule) : y <= n) => Later(rule, n) = {}
<1>1. /\ Later(rule, n) \subseteq Nat
      /\ \A y : y \in Later(rule, n) <=> (y \in Redexes(rule) /\ n < y)
    BY DEF Later, Redexes
<1>2. \A y \in Redexes(rule) : y \in 1..Root(rule) /\ y \in Nat
    BY DEF Redexes
<1>3. ASSUME Later(rule, n) # {}
      PROVE  Min(Later(rule, n)) \in Later(rule, n)
    <2>1. PICK x \in Later(rule, n) : \A y \in Later(rule, n) : x <= y
        BY <1>1, <1>3, LeastNumber
    <2>2. Min(Later(rule, n)) = x
        BY <2>1, <1>1, MinIs
    <2> QED
        BY <2>1, <2>2
<1>4. ASSUME NEW x \in Redexes(rule), n < x, \A y \in Redexes(rule) : n < y => x <= y
      PROVE  Later(rule, n) # {} /\ Min(Later(rule, n)) = x
    <2>1. x \in Later(rule, n) /\ \A y \in Later(rule, n) : x <= y
        BY <1>1, <1>4
    <2> QED
        BY <2>1, <1>1, MinIs
<1>5. ASSUME \A y \in Redexes(rule) : y <= n
      PROVE  Later(rule, n) = {}
    BY <1>1, <1>2, <1>5
<1> QED
    BY <1>1, <1>2, <1>3, <1>4, <1>5

\* A rule is applied to the redex, whose items are complete.
Rewriting(rule, R) ==
    /\ Going
    /\ Redex.rt # Nil
    /\ Full(heap, R, Redex.items)
    /\ IsRule(rule)
    /\ Applies(rule)
    /\ Room(Root(rule))

LEMMA RewritingFacts ==
    ASSUME NEW rule, NEW R, Rewriting(rule, R)
    PROVE  /\ TypeOK /\ heap \in Heaps /\ Redex \in Arrays /\ Redex.items \in Seq(Values)
           /\ Top(heap, trampoline) /\ trampoline \in Addr
           /\ R \in SUBSET Addr /\ Sound(heap, R, {})
           /\ Root(rule) \in Nat /\ Root(rule) >= 1
           /\ Redexes(rule) \subseteq 1..Root(rule)
           /\ Redexes(rule) \subseteq Nat
           /\ \A i \in 1..Root(rule) : New(i) \in Addr /\ heap[New(i)] = Free
           /\ \A i, j \in 1..Root(rule) : New(i) = New(j) => i = j
<1>1. Root(rule) \in Nat /\ Root(rule) >= 1
    BY RuleFacts DEF Rewriting
<1>2. /\ \A i \in 1..Root(rule) : New(i) \in Unused
      /\ \A i, j \in 1..Root(rule) : New(i) = New(j) => i = j
    BY <1>1, NewAddresses DEF Rewriting
<1>3. Redexes(rule) \subseteq 1..Root(rule) /\ Redexes(rule) \subseteq Nat
    BY <1>1 DEF Redexes
<1> QED
    BY <1>1, <1>2, <1>3, GoingFacts DEF Rewriting, Going, Full, Unused

\* The items of a node: its slots, and for the root the arguments that are
\* left over.
Slots(rule, n) == [i \in DOMAIN rule.body[n].items |-> Slot(rule, rule.body[n].items[i])]

NodeItems(rule, n) ==
    IF n = Root(rule) THEN Slots(rule, n) \o Beyond(Len(rule.pats)) ELSE Slots(rule, n)

LEMMA NodeGives ==
    ASSUME NEW rule, NEW n
    PROVE  /\ Node(rule, n).items = NodeItems(rule, n)
           /\ ~rule.body[n].redex => Node(rule, n) = Tree(NodeItems(rule, n))
           /\ rule.body[n].redex =>
                /\ Node(rule, n).rt = IF n = Root(rule) THEN Redex.rt ELSE New(rule.body[n].to[1])
                /\ Node(rule, n).rti = IF n = Root(rule) THEN Redex.rti ELSE rule.body[n].to[2]
                /\ Node(rule, n).k =
                        IF Later(rule, n) = {} THEN Redex.k ELSE New(Min(Later(rule, n)))
                /\ Node(rule, n).exc = Redex.exc
                /\ Node(rule, n) = [rt |-> Node(rule, n).rt, rti |-> Node(rule, n).rti,
                                    k |-> Node(rule, n).k, exc |-> Node(rule, n).exc,
                                    items |-> NodeItems(rule, n)]
<1>1. CASE ~rule.body[n].redex
    BY <1>1 DEF Node, NodeItems, Slots, Root, Tree
<1>2. CASE rule.body[n].redex
    BY <1>2 DEF Node, NodeItems, Slots, Root, Later
<1> QED
    BY <1>1, <1>2

\* What a slot of a node holds: a complete value, a node inside it, or a
\* hole.
Holds(rule, R, n, i, v) ==
    \/ v \in R \cup Plain
    \/ \E m \in Inside(rule, n) : v = New(m)
    \/ v = Nil /\ \E m \in Redexes(rule) : m < n /\ rule.body[m].to = <<n, i>>

LEMMA SlotsFacts ==
    ASSUME NEW rule, NEW R, Rewriting(rule, R), NEW n \in 1..Root(rule)
    PROVE  /\ Slots(rule, n) \in Seq(Values)
           /\ Len(rule.body[n].items) \in Nat /\ Len(rule.body[n].items) >= 1
           /\ Len(Slots(rule, n)) = Len(rule.body[n].items)
           /\ DOMAIN Slots(rule, n) = DOMAIN rule.body[n].items
           /\ \A i \in DOMAIN rule.body[n].items :
                /\ Holds(rule, R, n, i, Slots(rule, n)[i])
                /\ rule.body[n].items[i] = Nil => Slots(rule, n)[i] = Nil
                /\ rule.body[n].items[i] \in 1..Root(rule) =>
                        Slots(rule, n)[i] = New(rule.body[n].items[i])
                /\ rule.body[n].items[i] \in Plain \cup Bound(rule.pats) =>
                        Slots(rule, n)[i] \in R \cup Plain
<1> DEFINE items == rule.body[n].items
<1>1. /\ items \in Seq(Params \cup Combinators \cup {Nil} \cup Nat)
      /\ items # <<>>
      /\ \A i \in DOMAIN items :
            /\ items[i] \in Bound(rule.pats) \cup Plain \cup {Nil} \cup Inside(rule, n)
            /\ items[i] = Nil => \E m \in Redexes(rule) : m < n /\ rule.body[m].to = <<n, i>>
    BY RuleFacts DEF Rewriting
<1>2. /\ \A i \in 1..Root(rule) : New(i) \in Addr
      /\ Root(rule) \in Nat /\ R \in SUBSET Addr
    BY RewritingFacts
<1>3. \A s : /\ s \in Bound(rule.pats) \cup Plain => Slot(rule, s) \in R \cup Plain
             /\ s = Nil => Slot(rule, s) = Nil
             /\ s \in 1..Root(rule) => Slot(rule, s) = New(s)
    BY SlotFacts DEF Rewriting
<1>4. Inside(rule, n) \subseteq 1..Root(rule)
    BY <1>2 DEF Inside
<1>5. Slots(rule, n) = [i \in DOMAIN items |-> Slot(rule, items[i])]
    BY DEF Slots
<1> HIDE DEF items
<1>6. ASSUME NEW i \in DOMAIN items
      PROVE  /\ Holds(rule, R, n, i, Slots(rule, n)[i])
             /\ items[i] = Nil => Slots(rule, n)[i] = Nil
             /\ items[i] \in 1..Root(rule) => Slots(rule, n)[i] = New(items[i])
             /\ items[i] \in Plain \cup Bound(rule.pats) => Slots(rule, n)[i] \in R \cup Plain
             /\ Slots(rule, n)[i] \in Values
    <2>1. Slots(rule, n)[i] = Slot(rule, items[i])
        BY <1>5
    <2>2. /\ items[i] \in Bound(rule.pats) \cup Plain => Slots(rule, n)[i] \in R \cup Plain
          /\ items[i] = Nil => Slots(rule, n)[i] = Nil
          /\ items[i] \in 1..Root(rule) => Slots(rule, n)[i] = New(items[i])
        BY <2>1, <1>3
    <2>3. CASE items[i] \in Bound(rule.pats) \cup Plain
        BY <2>2, <2>3, <1>2, PlainCombinators DEF Holds, Values
    <2>4. CASE items[i] = Nil
        BY <2>2, <2>4, <1>1 DEF Holds, Values
    <2>5. CASE items[i] \in Inside(rule, n)
        <3>1. Slots(rule, n)[i] = New(items[i]) /\ New(items[i]) \in Addr
            BY <2>2, <2>5, <1>2, <1>4
        <3> QED
            BY <3>1, <2>2, <2>5 DEF Holds, Values
    <2> QED
        BY <2>3, <2>4, <2>5, <1>1
<1>7. /\ Len(items) \in Nat /\ Len(items) >= 1 /\ DOMAIN items = 1..Len(items)
    BY <1>1
<1>8. DOMAIN Slots(rule, n) = 1..Len(items)
    BY <1>5, <1>7
<1>9. Slots(rule, n) = [i \in 1..Len(items) |-> Slots(rule, n)[i]]
    BY <1>5, <1>7
<1>10. \A i \in 1..Len(items) : Slots(rule, n)[i] \in Values
    BY <1>6, <1>7
<1>11. Slots(rule, n) \in Seq(Values) /\ Len(Slots(rule, n)) = Len(items)
    BY <1>7, <1>8, <1>9, <1>10
<1> QED
    BY <1>6, <1>7, <1>8, <1>11 DEF items

LEMMA Joined ==
    ASSUME NEW T, NEW a \in Seq(T), NEW b \in Seq(T)
    PROVE  /\ a \o b \in Seq(T)
           /\ Len(a) \in Nat /\ Len(b) \in Nat
           /\ Len(a \o b) = Len(a) + Len(b)
           /\ DOMAIN (a \o b) = 1..Len(a) + Len(b)
OBVIOUS

LEMMA NodeItemsFacts ==
    ASSUME NEW rule, NEW R, Rewriting(rule, R), NEW n \in 1..Root(rule)
    PROVE  LET items == NodeItems(rule, n)
               slots == rule.body[n].items
           IN  /\ items \in Seq(Values) /\ items # <<>>
               /\ \A i \in DOMAIN items : Holds(rule, R, n, i, items[i])
               /\ \A i \in DOMAIN slots :
                    /\ i \in DOMAIN items
                    /\ slots[i] = Nil => items[i] = Nil
                    /\ slots[i] \in 1..Root(rule) => items[i] = New(slots[i])
                    /\ slots[i] \in Plain \cup Bound(rule.pats) => items[i] \in R \cup Plain
               /\ Len(items) = 1 => Len(slots) = 1
<1> DEFINE items == NodeItems(rule, n)
           slots == rule.body[n].items
           first == Slots(rule, n)
           beyond == Beyond(Len(rule.pats))
<1>1. /\ first \in Seq(Values) /\ Len(slots) \in Nat /\ Len(slots) >= 1
      /\ Len(first) = Len(slots) /\ DOMAIN first = DOMAIN slots
      /\ \A i \in DOMAIN slots :
            /\ Holds(rule, R, n, i, first[i])
            /\ slots[i] = Nil => first[i] = Nil
            /\ slots[i] \in 1..Root(rule) => first[i] = New(slots[i])
            /\ slots[i] \in Plain \cup Bound(rule.pats) => first[i] \in R \cup Plain
    BY SlotsFacts
<1>2. Len(rule.pats) \in Nat
    BY RuleFacts DEF Rewriting
<1>3. beyond \in Seq(Values) /\ \A i \in DOMAIN beyond : beyond[i] \in R \cup Plain
    BY <1>2, BeyondFacts, RewritingFacts DEF Rewriting
<1>4. items = first \/ items = first \o beyond
    BY DEF NodeItems
<1> HIDE DEF items, slots, first, beyond
<1>5. CASE items = first
    <2>1. items # <<>>
        BY <1>1, <1>5
    <2> QED
        BY <2>1, <1>1, <1>5 DEF items, slots
<1>6. CASE items = first \o beyond
    <2>1. /\ items \in Seq(Values) /\ Len(items) = Len(first) + Len(beyond)
          /\ Len(beyond) \in Nat /\ DOMAIN items = 1..Len(first) + Len(beyond)
        BY <1>1, <1>3, <1>6, Joined
    <2>2. DOMAIN first = 1..Len(first) /\ DOMAIN beyond = 1..Len(beyond)
        BY <1>1, <1>3
    <2>3. ASSUME NEW i \in DOMAIN first
          PROVE  i \in DOMAIN items /\ items[i] = first[i]
        BY <1>1, <1>3, <1>6, <2>1, <2>2
    <2>4. ASSUME NEW i \in DOMAIN items, i \notin DOMAIN first
          PROVE  items[i] \in R \cup Plain
        <3>1. i - Len(first) \in DOMAIN beyond /\ items[i] = beyond[i - Len(first)]
            BY <1>1, <1>3, <1>6, <2>1, <2>2, <2>4
        <3> QED
            BY <3>1, <1>3
    <2>5. \A i \in DOMAIN items : Holds(rule, R, n, i, items[i])
        BY <2>3, <2>4, <1>1 DEF Holds
    <2>6. Len(items) = 1 => Len(slots) = 1
        <3> DEFINE a == Len(slots)
                   b == Len(beyond)
                   c == Len(items)
        <3>1. c = a + b
            BY <2>1, <1>1
        <3>2. a \in Nat /\ a >= 1 /\ b \in Nat
            BY <2>1, <1>1
        <3> HIDE DEF a, b, c
        <3>3. c = 1 => a = 1
            BY <3>1, <3>2
        <3> QED
            BY <3>3 DEF a, c
    <2>7. items # <<>>
        BY <2>1, <1>1
    <2> QED
        BY <2>1, <2>3, <2>5, <2>6, <2>7, <1>1 DEF items, slots
<1> QED
    BY <1>4, <1>5, <1>6

\* Where a redex inside the root goes.
LEMMA TargetFacts ==
    ASSUME NEW rule, NEW R, Rewriting(rule, R), NEW m \in Redexes(rule), m # Root(rule)
    PROVE  \E n \in 1..Root(rule) : \E i \in Nat :
                /\ m < n
                /\ rule.body[m].to = <<n, i>>
                /\ i \in DOMAIN NodeItems(rule, n)
                /\ NodeItems(rule, n)[i] = Nil
<1>0. PICK n \in m + 1..Root(rule) : \E i \in DOMAIN rule.body[n].items :
            rule.body[m].to = <<n, i>> /\ rule.body[n].items[i] = Nil
    BY RuleFacts DEF Rewriting
<1>1. PICK i \in DOMAIN rule.body[n].items :
            rule.body[m].to = <<n, i>> /\ rule.body[n].items[i] = Nil
    BY <1>0
<1>2. n \in 1..Root(rule) /\ m < n
    BY RewritingFacts
<1>3. rule.body[n].items \in Seq(Params \cup Combinators \cup {Nil} \cup Nat)
    BY <1>2, RuleFacts DEF Rewriting
<1>4. i \in Nat
    BY <1>3
<1>5. i \in DOMAIN NodeItems(rule, n) /\ NodeItems(rule, n)[i] = Nil
    BY <1>1, <1>2, NodeItemsFacts
<1> QED
    BY <1>1, <1>2, <1>4, <1>5

LEMMA NodeArrays ==
    ASSUME NEW rule, NEW R, Rewriting(rule, R), NEW n \in 1..Root(rule)
    PROVE  Node(rule, n) \in Arrays
<1>1. /\ NodeItems(rule, n) \in Seq(Values)
      /\ Redex.rt \in Addr \cup {Nil} /\ Redex.rti \in Nat
      /\ Redex.k \in Addr \cup {Nil} /\ Redex.exc \in Addr \cup {Nil}
    BY NodeItemsFacts, RewritingFacts DEF Arrays
<1>2. /\ Root(rule) \in Nat
      /\ \A i \in 1..Root(rule) : New(i) \in Addr
    BY RewritingFacts
<1>3. CASE ~rule.body[n].redex
    BY <1>1, <1>3, NodeGives, TreeArrays
<1>4. CASE rule.body[n].redex
    <2>1. n \in Redexes(rule)
        BY <1>4 DEF Redexes
    <2>2. Node(rule, n).rt \in Addr \cup {Nil} /\ Node(rule, n).rti \in Nat
        <3>1. CASE n = Root(rule)
            BY <3>1, <1>1, <1>4, NodeGives
        <3>2. CASE n # Root(rule)
            <4>1. PICK m \in 1..Root(rule), i \in Nat : rule.body[n].to = <<m, i>>
                BY <2>1, <3>2, TargetFacts
            <4>2. rule.body[n].to[1] \in 1..Root(rule) /\ rule.body[n].to[2] \in Nat
                BY <4>1
            <4> QED
                BY <4>2, <3>2, <1>2, <1>4, NodeGives
        <3> QED
            BY <3>1, <3>2
    <2>3. Node(rule, n).k \in Addr \cup {Nil}
        <3>1. CASE Later(rule, n) = {}
            BY <3>1, <1>1, <1>4, NodeGives
        <3>2. CASE Later(rule, n) # {}
            BY <3>2, <1>2, <1>4, LaterFacts, NodeGives
        <3> QED
            BY <3>1, <3>2
    <2>4. Node(rule, n).exc \in Addr \cup {Nil}
        BY <1>1, <1>4, NodeGives
    <2>5. Node(rule, n) = [rt |-> Node(rule, n).rt, rti |-> Node(rule, n).rti,
                           k |-> Node(rule, n).k, exc |-> Node(rule, n).exc,
                           items |-> NodeItems(rule, n)]
        BY <1>4, NodeGives
    <2> QED
        BY <1>1, <2>2, <2>3, <2>4, <2>5 DEF Arrays
<1> QED
    BY <1>3, <1>4

\* The heap with the nodes of the body.
Built(rule) == Alloc([n \in 1..Root(rule) |-> Node(rule, n)])

LEMMA BuiltFacts ==
    ASSUME NEW rule, NEW R, Rewriting(rule, R)
    PROVE  /\ Built(rule) \in Heaps
           /\ Extends(heap, Built(rule))
           /\ \A n \in 1..Root(rule) :
                /\ Built(rule)[New(n)] = Node(rule, n)
                /\ Built(rule)[New(n)].items = NodeItems(rule, n)
<1> DEFINE arrays == [n \in 1..Root(rule) |-> Node(rule, n)]
<1>1. Root(rule) \in Nat
    BY RewritingFacts
<1>2. \A n \in 1..Root(rule) : Node(rule, n) \in Arrays
    BY NodeArrays
<1>3. arrays \in Seq(Arrays) /\ Len(arrays) = Root(rule)
    BY <1>1, <1>2
<1>4. \A n \in 1..Root(rule) : arrays[n] = Node(rule, n)
    OBVIOUS
<1>5. TypeOK /\ Room(Root(rule))
    BY RewritingFacts DEF Rewriting
<1>6. Built(rule) = Alloc(arrays)
    BY DEF Built
<1> HIDE DEF arrays
<1>7. /\ Alloc(arrays) \in Heaps
      /\ Extends(heap, Alloc(arrays))
      /\ \A i \in 1..Len(arrays) : Alloc(arrays)[New(i)] = arrays[i]
    BY <1>3, <1>5, AllocExtends
<1> QED
    BY <1>3, <1>4, <1>6, <1>7, NodeGives

\* The redexes inside the root have a hole each.
LEMMA HoleFacts ==
    ASSUME NEW rule, NEW R, Rewriting(rule, R)
    PROVE  /\ \A m \in Redexes(rule) : m # Root(rule) =>
                /\ IsHole(heap, Built(rule), Place(Built(rule), New(m)))
                /\ Place(Built(rule), New(m)) =
                        <<New(rule.body[m].to[1]), rule.body[m].to[2]>>
                /\ \E n \in 1..Root(rule) : m < n /\ Place(Built(rule), New(m))[1] = New(n)
           /\ \A m, n \in Redexes(rule) :
                /\ m # Root(rule) /\ n # Root(rule)
                /\ Place(Built(rule), New(m)) = Place(Built(rule), New(n))
                => m = n
<1> DEFINE f == Built(rule)
           to(m) == rule.body[m].to
<1>1. /\ Root(rule) \in Nat /\ Redexes(rule) \subseteq 1..Root(rule)
      /\ \A i \in 1..Root(rule) : New(i) \in Addr /\ heap[New(i)] = Free
      /\ \A i, j \in 1..Root(rule) : New(i) = New(j) => i = j
    BY RewritingFacts
<1>2. \A n \in 1..Root(rule) : f[New(n)] = Node(rule, n) /\ f[New(n)].items = NodeItems(rule, n)
    BY BuiltFacts
<1> HIDE DEF f
<1>3. ASSUME NEW m \in Redexes(rule), m # Root(rule)
      PROVE  /\ IsHole(heap, f, Place(f, New(m)))
             /\ Place(f, New(m)) = <<New(to(m)[1]), to(m)[2]>>
             /\ \E n \in 1..Root(rule) : m < n /\ Place(f, New(m))[1] = New(n)
             /\ \E n \in 1..Root(rule) : \E i \in Nat : to(m) = <<n, i>>
    <2>1. PICK n \in 1..Root(rule), i \in Nat :
                /\ m < n
                /\ to(m) = <<n, i>>
                /\ i \in DOMAIN NodeItems(rule, n)
                /\ NodeItems(rule, n)[i] = Nil
        BY <1>3, TargetFacts
    <2>2. /\ f[New(m)].rt = New(to(m)[1])
          /\ f[New(m)].rti = to(m)[2]
        BY <1>1, <1>2, <1>3, NodeGives DEF Redexes
    <2>3. Place(f, New(m)) = <<New(n), i>>
        BY <2>1, <2>2 DEF Place
    <2>4. /\ New(n) \in Addr /\ heap[New(n)].items = <<>>
          /\ i \in DOMAIN f[New(n)].items /\ f[New(n)].items[i] = Nil
        BY <2>1, <1>1, <1>2 DEF Free, Tree
    <2>5. IsHole(heap, f, <<New(n), i>>)
        BY <2>4 DEF IsHole, IsPlace, Content
    <2>6. Place(f, New(m)) = <<New(to(m)[1]), to(m)[2]>>
        BY <2>2 DEF Place
    <2>7. \E l \in 1..Root(rule) : m < l /\ Place(f, New(m))[1] = New(l)
        BY <2>1, <2>3
    <2> QED
        BY <2>1, <2>3, <2>5, <2>6, <2>7
<1>4. ASSUME NEW m \in Redexes(rule), NEW n \in Redexes(rule), m # Root(rule), n # Root(rule),
             Place(f, New(m)) = Place(f, New(n))
      PROVE  m = n
    <2>1. PICK a \in 1..Root(rule), i \in Nat : to(m) = <<a, i>>
        BY <1>3, <1>4
    <2>2. PICK b \in 1..Root(rule), j \in Nat : to(n) = <<b, j>>
        BY <1>3, <1>4
    <2>3. <<New(a), i>> = <<New(b), j>>
        BY <2>1, <2>2, <1>3, <1>4
    <2>4. New(a) = New(b) /\ i = j
        BY <2>3
    <2>5. to(n) = to(m)
        BY <2>1, <2>2, <2>4, <1>1
    <2> QED
        BY <2>5, <1>4, RuleFacts DEF Rewriting
<1> QED
    BY <1>3, <1>4 DEF f

\* The holes that redexes before node n fill, and the arrays it may be over.
Below(rule, n) == {Place(Built(rule), New(m)) : m \in {m \in Redexes(rule) : m < n}}

Nodes(rule, n) == {New(m) : m \in Inside(rule, n)}

\* What a node holds, in the heap.
LEMMA NodeHolds ==
    ASSUME NEW rule, NEW R, Rewriting(rule, R), NEW n \in 1..Root(rule)
    PROVE  /\ New(n) \in Addr
           /\ Built(rule)[New(n)].items # <<>>
           /\ n \notin Redexes(rule) => IsTree(Built(rule)[New(n)])
           /\ \A i \in DOMAIN Built(rule)[New(n)].items :
                \/ Built(rule)[New(n)].items[i] \in R \cup Plain
                \/ Built(rule)[New(n)].items[i] \in Nodes(rule, n)
                \/ <<New(n), i>> \in Below(rule, n)
<1> DEFINE f == Built(rule)
           items == NodeItems(rule, n)
<1>1. f[New(n)] = Node(rule, n) /\ f[New(n)].items = items
    BY BuiltFacts
<1>2. items # <<>> /\ \A i \in DOMAIN items : Holds(rule, R, n, i, items[i])
    BY NodeItemsFacts
<1>3. New(n) \in Addr /\ Root(rule) \in Nat
    BY RewritingFacts
<1>4. ASSUME n \notin Redexes(rule)
      PROVE  IsTree(f[New(n)])
    <2>1. ~rule.body[n].redex
        BY <1>4 DEF Redexes
    <2>2. f[New(n)] = Tree(items)
        BY <2>1, <1>1, NodeGives
    <2> QED
        BY <2>2 DEF IsTree, Tree
<1> HIDE DEF f, items
<1>5. ASSUME NEW i \in DOMAIN items
      PROVE  items[i] \in R \cup Plain \/ items[i] \in Nodes(rule, n) \/ <<New(n), i>> \in Below(rule, n)
    <2>1. CASE items[i] \in R \cup Plain
        BY <2>1
    <2>2. CASE \E m \in Inside(rule, n) : items[i] = New(m)
        BY <2>2 DEF Nodes
    <2>3. ASSUME NEW m \in Redexes(rule), m < n, rule.body[m].to = <<n, i>>
          PROVE  <<New(n), i>> \in Below(rule, n)
        <3>1. m # Root(rule)
            BY <2>3, <1>3 DEF Redexes
        <3>2. Place(Built(rule), New(m)) = <<New(rule.body[m].to[1]), rule.body[m].to[2]>>
            BY <3>1, HoleFacts
        <3>3. Place(Built(rule), New(m)) = <<New(n), i>>
            BY <3>2, <2>3
        <3> QED
            BY <3>3, <2>3 DEF Below
    <2> QED
        BY <2>1, <2>2, <2>3, <1>2 DEF Holds
<1> QED
    BY <1>1, <1>2, <1>3, <1>4, <1>5 DEF f

LEMMA BelowGrows ==
    ASSUME NEW rule, NEW R, Rewriting(rule, R), NEW m \in Nat, NEW n \in Nat, m <= n
    PROVE  Below(rule, m) \subseteq Below(rule, n) /\ Nodes(rule, m) \subseteq Nodes(rule, n)
<1>1. Redexes(rule) \subseteq Nat
    BY RewritingFacts
<1>2. \A l \in Redexes(rule) : l < m => l < n
    BY <1>1
<1>3. Inside(rule, m) \subseteq Inside(rule, n)
    BY DEF Inside
<1> QED
    BY <1>2, <1>3 DEF Below, Nodes

\* What is before node n is complete, but for the holes of the redexes there.
LEMMA BelowSound ==
    ASSUME NEW rule, NEW R, Rewriting(rule, R), NEW n \in 1..Root(rule) + 1
    PROVE  /\ R \cup Nodes(rule, n) \in SUBSET Addr
           /\ Sound(Built(rule), R \cup Nodes(rule, n), Below(rule, n))
<1> DEFINE f == Built(rule)
           S == R \cup Nodes(rule, n)
<1>1. /\ R \in SUBSET Addr /\ Sound(heap, R, {}) /\ Root(rule) \in Nat
      /\ \A i \in 1..Root(rule) : New(i) \in Addr
    BY RewritingFacts
<1>2. Sound(f, R, {})
    BY <1>1, BuiltFacts, SoundExtends
<1>3. \A m \in Inside(rule, n) : m \in 1..Root(rule) /\ m \notin Redexes(rule) /\ m < n
    BY <1>1 DEF Inside, Redexes
<1>4. S \in SUBSET Addr
    BY <1>1, <1>3 DEF Nodes
<1> HIDE DEF f
<1>5. ASSUME NEW a \in R
      PROVE  /\ IsTree(f[a]) /\ f[a].items # <<>>
             /\ \A i \in DOMAIN f[a].items : <<a, i>> \in Below(rule, n) \/ f[a].items[i] \in S \cup Plain
    BY <1>2 DEF Sound
<1>6. ASSUME NEW a \in Nodes(rule, n)
      PROVE  /\ IsTree(f[a]) /\ f[a].items # <<>>
             /\ \A i \in DOMAIN f[a].items : <<a, i>> \in Below(rule, n) \/ f[a].items[i] \in S \cup Plain
    <2>1. PICK m \in Inside(rule, n) : a = New(m)
        BY DEF Nodes
    <2>2. m \in 1..Root(rule) /\ m \notin Redexes(rule) /\ m < n
        BY <1>3
    <2>3. /\ f[a].items # <<>> /\ IsTree(f[a])
          /\ \A i \in DOMAIN f[a].items :
                \/ f[a].items[i] \in R \cup Plain
                \/ f[a].items[i] \in Nodes(rule, m)
                \/ <<a, i>> \in Below(rule, m)
        BY <2>1, <2>2, NodeHolds DEF f
    <2>4. m \in Nat /\ n \in Nat /\ m <= n
        BY <2>2, <1>1
    <2>5. Below(rule, m) \subseteq Below(rule, n) /\ Nodes(rule, m) \subseteq Nodes(rule, n)
        BY <2>4, BelowGrows
    <2> QED
        BY <2>3, <2>5
<1>7. Sound(f, S, Below(rule, n))
    BY <1>5, <1>6 DEF Sound
<1> QED
    BY <1>4, <1>7 DEF f

LEMMA NodeReady ==
    ASSUME NEW rule, NEW R, Rewriting(rule, R), NEW n \in 1..Root(rule)
    PROVE  Ready(Built(rule), New(n), Below(rule, n))
<1>1. n \in 1..Root(rule) + 1
    BY RewritingFacts
<1>2. /\ R \cup Nodes(rule, n) \in SUBSET Addr
      /\ Sound(Built(rule), R \cup Nodes(rule, n), Below(rule, n))
    BY <1>1, BelowSound
<1> QED
    BY <1>2, NodeHolds DEF Ready

\* The redexes, from the last to the first, become the frames d.
Ordered(rule, n, r, d) ==
    /\ n \in Nat \ {0}
    /\ r \in [1..n -> Redexes(rule)]
    /\ d \in [Nat -> Addr]
    /\ \A l \in 1..n : d[l] = New(r[l])
    /\ \A l \in 2..n : r[l] < r[l - 1] /\ \A b \in Redexes(rule) : r[l] < b => r[l - 1] <= b
    /\ \A b \in Redexes(rule) : r[n] <= b /\ b <= r[1]
    /\ \A b \in Redexes(rule) : \E l \in 1..n : r[l] = b
    /\ \A i, l \in 1..n : r[i] < r[l] => l < i
    /\ \A i, l \in 1..n : r[i] = r[l] => i = l

LEMMA OrderedThere ==
    ASSUME NEW rule, NEW R, Rewriting(rule, R), Redexes(rule) # {}
    PROVE  \E n, r, d : Ordered(rule, n, r, d)
<1> DEFINE U == Redexes(rule)
           n == Cardinality(U)
<1>1. /\ U \subseteq 1..Root(rule) /\ U \subseteq Nat /\ Root(rule) \in Nat /\ Root(rule) >= 1
      /\ \A i \in 1..Root(rule) : New(i) \in Addr
    BY RewritingFacts
<1>2. IsFiniteSet(U)
    <2>1. IsFiniteSet(1..Root(rule))
        BY <1>1, FS_Interval
    <2> QED
        BY <2>1, <1>1, FS_Subset
<1>3. /\ n \in Nat \ {0}
      /\ \E r \in [1..n -> U] :
            /\ \A l \in 2..n : r[l] < r[l - 1] /\ \A b \in U : r[l] < b => r[l - 1] <= b
            /\ \A b \in U : r[n] <= b /\ b <= r[1]
            /\ \A b \in U : \E l \in 1..n : r[l] = b
            /\ \A i, l \in 1..n : r[i] < r[l] => l < i
            /\ \A i, l \in 1..n : r[i] = r[l] => i = l
    BY <1>1, <1>2, Descending
<1> HIDE DEF n, U
<1>4. PICK r \in [1..n -> U] :
            /\ \A l \in 2..n : r[l] < r[l - 1] /\ \A b \in U : r[l] < b => r[l - 1] <= b
            /\ \A b \in U : r[n] <= b /\ b <= r[1]
            /\ \A b \in U : \E l \in 1..n : r[l] = b
            /\ \A i, l \in 1..n : r[i] < r[l] => l < i
            /\ \A i, l \in 1..n : r[i] = r[l] => i = l
    BY <1>3
<1> DEFINE d == [l \in Nat |-> IF l \in 1..n THEN New(r[l]) ELSE New(1)]
<1>5. \A l \in 1..n : r[l] \in 1..Root(rule)
    BY <1>1
<1>6. d \in [Nat -> Addr]
    BY <1>1, <1>5
<1>7. \A l \in 1..n : d[l] = New(r[l])
    BY <1>3
<1> HIDE DEF d
<1>8. Ordered(rule, n, r, d)
    BY <1>3, <1>4, <1>6, <1>7 DEF Ordered, U
<1> QED
    BY <1>8

LEMMA OrderedPlaces ==
    ASSUME NEW rule, NEW R, Rewriting(rule, R), NEW n, NEW r, NEW d, Ordered(rule, n, r, d)
    PROVE  /\ \A l \in 1..n : Below(rule, r[l]) \subseteq Places(Built(rule), d, l + 1, n)
           /\ \A b \in Nat : Below(rule, b) \subseteq Places(Built(rule), d, 1, n)
<1>1. /\ n \in Nat
      /\ \A l \in 1..n : d[l] = New(r[l])
      /\ \A b \in Redexes(rule) : \E l \in 1..n : r[l] = b
      /\ \A i, l \in 1..n : r[i] < r[l] => l < i
    BY DEF Ordered
<1>2. ASSUME NEW b \in Redexes(rule)
      PROVE  \E i \in 1..n : r[i] = b /\ Place(Built(rule), New(b)) = Place(Built(rule), d[i])
    BY <1>1
<1>3. ASSUME NEW l \in 1..n, NEW b \in Redexes(rule), b < r[l]
      PROVE  Place(Built(rule), New(b)) \in Places(Built(rule), d, l + 1, n)
    <2>1. PICK i \in 1..n : r[i] = b /\ Place(Built(rule), New(b)) = Place(Built(rule), d[i])
        BY <1>2
    <2>2. l < i
        BY <2>1, <1>1, <1>3
    <2>3. i \in l + 1..n
        BY <2>2, <1>1
    <2> QED
        BY <2>1, <2>3 DEF Places
<1>4. ASSUME NEW b \in Redexes(rule)
      PROVE  Place(Built(rule), New(b)) \in Places(Built(rule), d, 1, n)
    BY <1>2 DEF Places
<1> QED
    BY <1>3, <1>4 DEF Below

LEMMA OrderedAdds ==
    ASSUME NEW rule, NEW R, Rewriting(rule, R), NEW n, NEW r, NEW d, Ordered(rule, n, r, d)
    PROVE  /\ AddsFrames(heap, Built(rule), trampoline, n, d)
           /\ d[n] = New(Min(Redexes(rule)))
           /\ r[1] \in Redexes(rule)
<1> DEFINE f == Built(rule)
           root == Root(rule)
<1>1. /\ n \in Nat \ {0}
      /\ d \in [Nat -> Addr]
      /\ \A l \in 1..n : d[l] = New(r[l]) /\ r[l] \in Redexes(rule)
      /\ \A l \in 2..n : r[l] < r[l - 1] /\ \A b \in Redexes(rule) : r[l] < b => r[l - 1] <= b
      /\ \A b \in Redexes(rule) : r[n] <= b /\ b <= r[1]
      /\ \A i, l \in 1..n : r[i] = r[l] => i = l
    BY DEF Ordered
<1>2. /\ Redexes(rule) \subseteq 1..root /\ root \in Nat /\ Redexes(rule) \subseteq Nat
      /\ \A i, j \in 1..root : New(i) = New(j) => i = j
    BY RewritingFacts
<1>3. /\ 1 \in 1..n /\ n \in 1..n
      /\ \A l \in 2..n : l \in 1..n /\ l - 1 \in 1..n
      /\ \A l \in 1..n : r[l] \in 1..root /\ rule.body[r[l]].redex /\ r[l] \in Nat
    BY <1>1, <1>2 DEF Redexes
<1>4. ASSUME NEW l \in 1..n
      PROVE  /\ f[d[l]] = Node(rule, r[l])
             /\ f[d[l]].items # <<>>
             /\ f[d[l]].exc = Redex.exc
             /\ f[d[l]].k = IF Later(rule, r[l]) = {} THEN Redex.k ELSE New(Min(Later(rule, r[l])))
    <2>1. f[d[l]] = Node(rule, r[l])
        BY <1>1, <1>3, BuiltFacts
    <2>2. f[d[l]].items # <<>>
        BY <1>1, <1>3, NodeHolds
    <2> QED
        BY <2>1, <2>2, <1>3, NodeGives
<1>5. ASSUME NEW l \in 1..n
      PROVE  Ready(f, d[l], Places(f, d, l + 1, n))
    <2>1. Ready(f, New(r[l]), Below(rule, r[l]))
        BY <1>3, NodeReady
    <2>2. Below(rule, r[l]) \subseteq Places(f, d, l + 1, n)
        BY OrderedPlaces
    <2> QED
        BY <2>1, <2>2, <1>1, ReadyCuts
<1>6. f[d[1]].k = Redex.k
    <2>1. Later(rule, r[1]) = {}
        BY <1>1, <1>2, <1>3, LaterFacts
    <2> QED
        BY <2>1, <1>3, <1>4
<1>7. ASSUME NEW l \in 2..n
      PROVE  /\ f[d[l]].k = d[l - 1]
             /\ r[l] # root
    <2>1. /\ r[l - 1] \in Redexes(rule) /\ r[l] < r[l - 1] /\ r[l - 1] \in 1..root /\ r[l] \in 1..root
          /\ \A b \in Redexes(rule) : r[l] < b => r[l - 1] <= b
        BY <1>1, <1>3
    <2>2. Later(rule, r[l]) # {} /\ Min(Later(rule, r[l])) = r[l - 1]
        BY <2>1, <1>2, LaterFacts
    <2>3. f[d[l]].k = d[l - 1]
        <3>1. l \in 1..n /\ l - 1 \in 1..n
            BY <1>3
        <3>2. d[l - 1] = New(r[l - 1])
            BY <3>1, <1>1
        <3>3. f[d[l]].k = New(Min(Later(rule, r[l])))
            BY <3>1, <2>2, <1>4
        <3> QED
            BY <2>2, <3>2, <3>3
    <2>4. r[l] # root
        BY <2>1, <1>2
    <2> QED
        BY <2>3, <2>4
<1>8. ASSUME NEW l \in 2..n
      PROVE  IsHole(heap, f, Place(f, d[l]))
    BY <1>1, <1>3, <1>7, HoleFacts
<1>9. ASSUME NEW i \in 2..n, NEW l \in 2..n, Place(f, d[i]) = Place(f, d[l])
      PROVE  i = l
    <2>1. r[i] = r[l]
        BY <1>1, <1>3, <1>7, <1>9, HoleFacts
    <2> QED
        BY <2>1, <1>1, <1>3
<1>10. d[n] = New(Min(Redexes(rule)))
    <2>1. Min(Redexes(rule)) = r[n]
        BY <1>1, <1>2, <1>3, MinIs
    <2> QED
        BY <2>1, <1>1, <1>3
<1>11. Redex = heap[trampoline]
    BY DEF Redex
<1> HIDE DEF f
<1>12. AddsFrames(heap, f, trampoline, n, d)
    BY <1>1, <1>4, <1>5, <1>6, <1>7, <1>8, <1>9, <1>11 DEF AddsFrames
<1> QED
    BY <1>1, <1>3, <1>10, <1>12 DEF f

\* The root is a redex: it writes where the redex did.
LEMMA RewriteRedex ==
    ASSUME NEW rule, NEW R, Rewriting(rule, R), Root(rule) \in Redexes(rule)
    PROVE  Goes(Built(rule), New(Min(Redexes(rule))))
<1> DEFINE f == Built(rule)
           root == Root(rule)
<1>1. PICK n, r, d : Ordered(rule, n, r, d)
    BY OrderedThere
<1>2. /\ AddsFrames(heap, f, trampoline, n, d)
      /\ d[n] = New(Min(Redexes(rule)))
    BY <1>1, OrderedAdds
<1>3. /\ Top(heap, trampoline) /\ Redexes(rule) \subseteq 1..root /\ root \in Nat
    BY RewritingFacts
<1>4. f \in Heaps /\ Extends(heap, f)
    BY BuiltFacts
<1>5. r[1] = root
    <2>1. root <= r[1] /\ r[1] \in Redexes(rule)
        BY <1>1, OrderedAdds DEF Ordered
    <2> QED
        BY <2>1, <1>3
<1>6. d[1] = New(root)
    <2>1. 1 \in 1..n
        BY <1>1 DEF Ordered
    <2> QED
        BY <2>1, <1>1, <1>5 DEF Ordered
<1>7. Place(f, d[1]) = Place(heap, trampoline)
    <2>1. f[New(root)] = Node(rule, root)
        BY <1>3, BuiltFacts
    <2>2. Node(rule, root).rt = Redex.rt /\ Node(rule, root).rti = Redex.rti
        BY NodeGives DEF Redexes
    <2> QED
        BY <2>1, <2>2, <1>6 DEF Place, Redex
<1>8. Keeps(heap, f, f, trampoline, d)
    BY <1>7 DEF Keeps
<1>9. heap[trampoline].rt # Nil
    BY DEF Rewriting, Redex
<1> HIDE DEF f
<1>10. Running(f, d[n])
    BY <1>2, <1>3, <1>4, <1>8, <1>9, TopAdds
<1>11. Goes(f, d[n])
    BY <1>4, <1>10 DEF Goes
<1> QED
    BY <1>2, <1>11 DEF f

\* The body is one array, or a value: it is the result.
LEMMA RewriteValue ==
    ASSUME NEW rule, NEW R, Rewriting(rule, R), Redexes(rule) = {},
           NEW v, v \in R \cup Plain \/ v = New(Root(rule))
    PROVE  Goes(Write(Built(rule), Redex.rt, Redex.rti, v), Redex.k)
<1> DEFINE f == Built(rule)
           root == Root(rule)
           S == R \cup Nodes(rule, root + 1)
<1>1. root \in Nat /\ root >= 1 /\ Top(heap, trampoline) /\ heap[trampoline].rt # Nil
    BY RewritingFacts DEF Rewriting, Redex
<1>2. root + 1 \in 1..root + 1
    BY <1>1
<1>3. S \in SUBSET Addr /\ Sound(f, S, Below(rule, root + 1))
    BY <1>2, BelowSound
<1>4. Below(rule, root + 1) = {}
    BY DEF Below
<1>5. v \in S \cup Plain
    <2>1. root \in Inside(rule, root + 1)
        BY <1>1 DEF Inside, Redexes
    <2> QED
        BY <2>1 DEF Nodes
<1>6. f \in Heaps /\ Extends(heap, f)
    BY BuiltFacts
<1> HIDE DEF f, S
<1>7. Top(f, trampoline) /\ f[trampoline] = heap[trampoline]
    BY <1>1, <1>6, TopExtends
<1>8. Running(Write(f, f[trampoline].rt, f[trampoline].rti, v), f[trampoline].k)
    BY <1>1, <1>3, <1>4, <1>5, <1>7, TopReturns
<1>9. v \in Values
    BY <1>3, <1>5, PlainCombinators DEF Values
<1>10. Running(Write(f, Redex.rt, Redex.rti, v), Redex.k)
    BY <1>7, <1>8 DEF Redex
<1> QED
    BY <1>6, <1>9, <1>10 DEF Goes, f

\* A root of one item is all there is.
LEMMA RootAlone ==
    ASSUME NEW rule, NEW R, Rewriting(rule, R), Root(rule) \notin Redexes(rule),
           Len(Node(rule, Root(rule)).items) = 1
    PROVE  Redexes(rule) = {} /\ Node(rule, Root(rule)).items[1] \in R \cup Plain
<1> DEFINE root == Root(rule)
           slots == rule.body[root].items
           items == NodeItems(rule, root)
<1>1. root \in Nat /\ root >= 1 /\ Redexes(rule) \subseteq 1..root /\ root \in 1..root
    BY RewritingFacts
<1>2. Node(rule, root).items = items
    BY NodeGives
<1>3. Len(slots) = 1
    BY <1>1, <1>2, NodeItemsFacts
<1>4. slots[1] \in Params \cup Plain
    BY <1>3, RuleFacts DEF Rewriting
<1>5. Nat \cap (Combinators \cup Params \cup {Nil}) = {} /\ Nil \notin Combinators \cup Params
      /\ Plain \subseteq Combinators
    BY TrampolineAssumption, TermsAssumption, PlainCombinators
<1>6. slots[1] \notin Nat /\ slots[1] # Nil
    BY <1>4, <1>5
<1>7. /\ slots \in Seq(Params \cup Combinators \cup {Nil} \cup Nat)
      /\ \A i \in DOMAIN slots : slots[i] \in Bound(rule.pats) \cup Plain \cup {Nil} \cup Inside(rule, root)
    BY <1>1, RuleFacts DEF Rewriting
<1>8. DOMAIN slots = {1}
    BY <1>3, <1>7
<1>9. slots[1] \in Plain \cup Bound(rule.pats)
    <2>1. slots[1] \notin Inside(rule, root)
        BY <1>6, <1>1 DEF Inside
    <2> QED
        BY <2>1, <1>6, <1>7, <1>8
<1>10. items[1] \in R \cup Plain
    BY <1>1, <1>8, <1>9, NodeItemsFacts
<1> HIDE DEF root
<1>11. ASSUME root # 1
       PROVE  FALSE
    <2> DEFINE m == root - 1
    <2>1. m \in 1..root - 1 /\ m \in 1..root /\ m # root /\ m \in Nat
          /\ \A n \in m + 1..root : n = root
        BY <1>1, <1>11
    <2>2. CASE m \in Redexes(rule)
        <3>1. \E n \in m + 1..root : \E i \in DOMAIN rule.body[n].items :
                rule.body[m].to = <<n, i>> /\ rule.body[n].items[i] = Nil
            BY <2>1, <2>2, RuleFacts DEF Rewriting, root
        <3>2. \E i \in DOMAIN slots : slots[i] = Nil
            BY <3>1, <2>1
        <3> QED
            BY <3>2, <1>6, <1>8
    <2>3. CASE m \notin Redexes(rule)
        <3>1. \E n \in m + 1..root : \E i \in DOMAIN rule.body[n].items : rule.body[n].items[i] = m
            BY <2>1, <2>3, RuleFacts DEF Rewriting, root
        <3>2. \E i \in DOMAIN slots : slots[i] = m
            BY <3>1, <2>1
        <3> QED
            BY <3>2, <2>1, <1>6, <1>8
    <2> QED
        BY <2>2, <2>3
<1>12. Redexes(rule) = {}
    BY <1>1, <1>11 DEF root
<1> QED
    BY <1>2, <1>10, <1>12 DEF root

\* The heap with the nodes, and the root in the place of the redex.
Settled(rule) == Write(Built(rule), Redex.rt, Redex.rti, New(Root(rule)))

LEMMA SettledGives ==
    ASSUME NEW rule, NEW R, Rewriting(rule, R)
    PROVE  LET s == Place(heap, trampoline)
           IN  /\ s = <<s[1], s[2]>> /\ s[1] = Redex.rt /\ s[2] = Redex.rti
               /\ IsPlace(heap, s) /\ IsPlace(Built(rule), s)
               /\ heap[Redex.rt].items # <<>>
               /\ New(Root(rule)) \in Values
               /\ \A X : (\A x \in X : heap[x[1]].items = <<>>) => Starved(Built(rule), X, s)
               /\ Settled(rule) \in Heaps
               /\ Content(Settled(rule), s) = New(Root(rule))
               /\ \A a \in Addr : heap[a].items = <<>> => Settled(rule)[a] = Built(rule)[a]
<1> DEFINE s == Place(heap, trampoline)
           f == Built(rule)
           v == New(Root(rule))
<1>1. /\ heap \in Heaps /\ Root(rule) \in Nat /\ Root(rule) >= 1 /\ Top(heap, trampoline)
      /\ heap[trampoline].rt # Nil
      /\ New(Root(rule)) \in Addr
    <2>1. /\ heap \in Heaps /\ Root(rule) \in Nat /\ Root(rule) >= 1 /\ Top(heap, trampoline)
          /\ \A i \in 1..Root(rule) : New(i) \in Addr
        BY RewritingFacts
    <2>2. Root(rule) \in 1..Root(rule)
        BY <2>1
    <2> QED
        BY <2>1, <2>2 DEF Rewriting, Redex
<1>2. IsPlace(heap, s) /\ Starved(heap, {}, s)
    BY <1>1, TopFacts
<1>3. s = <<s[1], s[2]>> /\ s[1] = Redex.rt /\ s[2] = Redex.rti
    BY DEF Place, Redex
<1>4. heap[Redex.rt].items # <<>> /\ Redex.rt \in Addr
    BY <1>1, <1>2, <1>3 DEF IsPlace, Heaps, Arrays
<1>5. f \in Heaps /\ Extends(heap, f)
    BY BuiltFacts
<1>6. v \in Values
    BY <1>1 DEF Values
<1> HIDE DEF s, f, v
<1>7. IsPlace(f, s)
    BY <1>2, <1>3, <1>4, <1>5 DEF IsPlace, Extends
<1>8. ASSUME NEW X, \A x \in X : heap[x[1]].items = <<>>
      PROVE  Starved(f, X, s)
    BY <1>1, <1>2, <1>5, <1>8, StarvedExtends
<1>9. /\ Write(f, s[1], s[2], v) \in Heaps
      /\ Content(Write(f, s[1], s[2], v), s) = v
      /\ \A a \in Addr : a # s[1] => Write(f, s[1], s[2], v)[a] = f[a]
    BY <1>5, <1>6, <1>7, WriteGives
<1>10. Write(f, s[1], s[2], v) = Settled(rule)
    BY <1>3 DEF Settled, f, v
<1>11. \A a \in Addr : heap[a].items = <<>> => a # s[1]
    BY <1>3, <1>4
<1>12. \A a \in Addr : heap[a].items = <<>> => Settled(rule)[a] = f[a]
    BY <1>9, <1>10, <1>11
<1> QED
    BY <1>2, <1>3, <1>4, <1>6, <1>7, <1>8, <1>9, <1>10, <1>12 DEF s, f, v

\* The frames are there as well when the root is in its place.
LEMMA SettledAdds ==
    ASSUME NEW rule, NEW R, Rewriting(rule, R), Root(rule) \notin Redexes(rule),
           NEW n, NEW r, NEW d, Ordered(rule, n, r, d)
    PROVE  /\ AddsFrames(heap, Settled(rule), trampoline, n, d)
           /\ \A i, l \in 1..n : Places(Settled(rule), d, i, l) = Places(Built(rule), d, i, l)
           /\ \A l \in 1..n : IsHole(heap, Settled(rule), Place(Settled(rule), d[l]))
           /\ \A l \in 2..n : Place(Settled(rule), d[1]) # Place(Settled(rule), d[l])
<1> DEFINE f == Built(rule)
           g == Settled(rule)
           s == Place(heap, trampoline)
           v == New(Root(rule))
<1>1. /\ n \in Nat \ {0} /\ d \in [Nat -> Addr]
      /\ \A l \in 1..n : d[l] = New(r[l]) /\ r[l] \in Redexes(rule)
      /\ \A i, l \in 1..n : r[i] = r[l] => i = l
    BY DEF Ordered
<1>2. /\ Redexes(rule) \subseteq 1..Root(rule)
      /\ \A i \in 1..Root(rule) : New(i) \in Addr /\ heap[New(i)] = Free
    BY RewritingFacts
<1>3. \A l \in 1..n : d[l] \in Addr /\ heap[d[l]].items = <<>>
    BY <1>1, <1>2 DEF Free, Tree
<1>4. /\ s = <<s[1], s[2]>> /\ s[1] = Redex.rt /\ s[2] = Redex.rti
      /\ IsPlace(f, s) /\ v \in Values
      /\ \A X : (\A x \in X : heap[x[1]].items = <<>>) => Starved(f, X, s)
      /\ \A a \in Addr : heap[a].items = <<>> => g[a] = f[a]
      /\ g = Write(f, s[1], s[2], v)
    BY SettledGives DEF Settled
<1>5. f \in Heaps
    BY BuiltFacts
<1>6. AddsFrames(heap, f, trampoline, n, d)
    BY OrderedAdds
<1>7. \A l \in 1..n : IsHole(heap, f, Place(f, d[l]))
    BY <1>1, HoleFacts
<1>8. \A i, l \in 1..n : Place(f, d[i]) = Place(f, d[l]) => i = l
    BY <1>1, HoleFacts
<1> HIDE DEF f, g, s, v
<1>9. \A l \in 1..n : g[d[l]] = f[d[l]] /\ Place(g, d[l]) = Place(f, d[l])
    BY <1>3, <1>4 DEF Place
<1>10. ASSUME NEW p, IsHole(heap, f, p)
       PROVE  IsHole(heap, g, p)
    BY <1>4, <1>10 DEF IsHole, IsPlace, Content
<1>11. ASSUME NEW i \in Nat, NEW l \in Nat, i >= 1, l <= n
       PROVE  Places(g, d, i, l) = Places(f, d, i, l)
    <2>1. \A b \in i..l : b \in 1..n
        BY <1>1, <1>11
    <2> QED
        BY <2>1, <1>9 DEF Places
<1>12. ASSUME NEW l \in 1..n
       PROVE  Ready(g, d[l], Places(g, d, l + 1, n))
    <2> DEFINE X == Places(f, d, l + 1, n)
    <2>1. Ready(f, d[l], X)
        BY <1>6 DEF AddsFrames
    <2>2. \A x \in X : heap[x[1]].items = <<>>
        <3>1. \A b \in l + 1..n : b \in 1..n
            BY <1>1
        <3> QED
            BY <3>1, <1>7 DEF Places, IsHole
    <2>3. X = Places(g, d, l + 1, n)
        BY <1>1, <1>11
    <2> HIDE DEF X
    <2>4. Starved(f, X, s)
        BY <2>2, <1>4
    <2>5. Ready(g, d[l], X)
        BY <2>1, <2>4, <1>3, <1>4, <1>5, ReadyAvoids
    <2> QED
        BY <2>3, <2>5
<1>13. AddsFrames(heap, g, trampoline, n, d)
    <2>1. /\ \A l \in 1..n : f[d[l]].items # <<>> /\ f[d[l]].exc = heap[trampoline].exc
          /\ f[d[1]].k = heap[trampoline].k
          /\ \A l \in 2..n : f[d[l]].k = d[l - 1] /\ IsHole(heap, f, Place(f, d[l]))
          /\ \A i, l \in 2..n : Place(f, d[i]) = Place(f, d[l]) => i = l
        BY <1>6 DEF AddsFrames
    <2>2. 1 \in 1..n /\ \A l \in 2..n : l \in 1..n
        BY <1>1
    <2>3. /\ \A l \in 1..n : g[d[l]].items # <<>> /\ g[d[l]].exc = heap[trampoline].exc
          /\ g[d[1]].k = heap[trampoline].k
        BY <2>1, <2>2, <1>9
    <2>4. \A l \in 2..n : g[d[l]].k = d[l - 1] /\ IsHole(heap, g, Place(g, d[l]))
        BY <2>1, <2>2, <1>9, <1>10
    <2>5. \A i, l \in 2..n : Place(g, d[i]) = Place(g, d[l]) => i = l
        BY <2>1, <2>2, <1>9
    <2> QED
        BY <1>1, <1>12, <2>3, <2>4, <2>5 DEF AddsFrames
<1>14. \A l \in 1..n : IsHole(heap, g, Place(g, d[l]))
    BY <1>7, <1>9, <1>10
<1>15. \A l \in 2..n : Place(g, d[1]) # Place(g, d[l])
    <2>1. 1 \in 1..n /\ \A l \in 2..n : l \in 1..n /\ l # 1
        BY <1>1
    <2> QED
        BY <2>1, <1>8, <1>9
<1>16. ASSUME NEW i \in 1..n, NEW l \in 1..n
       PROVE  Places(g, d, i, l) = Places(f, d, i, l)
    BY <1>1, <1>11
<1> QED
    BY <1>13, <1>14, <1>15, <1>16 DEF f, g

\* The root leads to the hole of the last redex, so it is not complete.
LEMMA SettledStarves ==
    ASSUME NEW rule, NEW R, Rewriting(rule, R), Root(rule) \notin Redexes(rule),
           NEW n, NEW r, NEW d, Ordered(rule, n, r, d),
           NEW X, \A x \in X : heap[x[1]].items = <<>> => x \in Places(Settled(rule), d, 2, n)
    PROVE  Starved(Settled(rule), X, Place(heap, trampoline))
<1> DEFINE g == Settled(rule)
           root == Root(rule)
           last == r[1]
           s == Place(heap, trampoline)
<1> SUFFICES ASSUME NEW Q \in SUBSET Addr, Within(g, Q, X), Content(g, s) \in Q \cup Combinators
             PROVE  FALSE
    BY DEF Starved
<1>1. /\ root \in Nat /\ root >= 1 /\ Redexes(rule) \subseteq 1..root
      /\ \A i \in 1..root : New(i) \in Addr /\ heap[New(i)] = Free
      /\ \A i, j \in 1..root : New(i) = New(j) => i = j
    BY RewritingFacts
<1>2. /\ last \in Redexes(rule) /\ \A b \in Redexes(rule) : b <= last
      /\ n \in Nat \ {0} /\ d[1] = New(last)
    <2>1. n \in Nat \ {0} /\ 1 \in 1..n
        BY DEF Ordered
    <2> QED
        BY <2>1, OrderedAdds DEF Ordered
<1>3. last \in 1..root /\ last # root /\ last < root
    BY <1>1, <1>2
<1>4. \A i \in 1..root : /\ heap[New(i)].items = <<>>
                         /\ g[New(i)].items = NodeItems(rule, i)
    BY <1>1, BuiltFacts, SettledGives DEF Free, Tree
<1>5. \A l \in 1..n : IsHole(heap, g, Place(g, d[l]))
    BY SettledAdds
<1>6. ASSUME NEW i \in 1..root, NEW j, <<New(i), j>> \in X
      PROVE  \E l \in 2..n : <<New(i), j>> = Place(g, d[l])
    BY <1>4, <1>6 DEF Places
<1>7. New(root) \in Q
    <2>1. Content(g, s) = New(root) /\ New(root) \in Addr
        BY <1>1, <1>3, SettledGives
    <2> QED
        BY <2>1, NoValueIsNil
<1> HIDE DEF g, root, last, s
<1> DEFINE T == {i \in last + 1..root : \A b \in i..root : New(b) \in Q}
<1>8. last + 1..root \subseteq T
    <2>1. root \in T
        BY <1>1, <1>3, <1>7
    <2>2. ASSUME NEW i \in last + 1..root, i \in T, i > last + 1
          PROVE  i - 1 \in T
        <3>1. /\ i - 1 \in last + 1..root /\ i - 1 \in 1..root - 1 /\ i - 1 \in 1..root
              /\ i - 1 > last /\ (i - 1) + 1 = i
            BY <2>2, <1>1, <1>3
        <3>2. i - 1 \notin Redexes(rule)
            BY <3>1, <1>1, <1>2, <1>3
        <3>3. PICK b \in (i - 1) + 1..root : \E j \in DOMAIN rule.body[b].items :
                    rule.body[b].items[j] = i - 1
            BY <3>1, <3>2, RuleFacts DEF Rewriting, root
        <3>4. b \in i..root /\ b \in 1..root
            BY <3>1, <3>3, <1>1
        <3>5. New(b) \in Q
            BY <3>4, <2>2
        <3>6. PICK j \in DOMAIN rule.body[b].items : rule.body[b].items[j] = i - 1
            BY <3>3
        <3>7. j \in DOMAIN NodeItems(rule, b) /\ NodeItems(rule, b)[j] = New(i - 1)
            <4>1. \A a \in DOMAIN rule.body[b].items :
                    /\ a \in DOMAIN NodeItems(rule, b)
                    /\ rule.body[b].items[a] \in 1..root =>
                            NodeItems(rule, b)[a] = New(rule.body[b].items[a])
                BY <3>4, NodeItemsFacts DEF root
            <4> QED
                BY <4>1, <3>1, <3>6
        <3>8. j \in DOMAIN g[New(b)].items /\ g[New(b)].items[j] = New(i - 1)
            BY <3>4, <3>7, <1>4
        <3>9. <<New(b), j>> \in X \/ New(i - 1) \in Q \cup Combinators
            BY <3>5, <3>8 DEF Within
        <3>10. <<New(b), j>> \notin X
            <4>1. SUFFICES ASSUME NEW l \in 2..n, <<New(b), j>> = Place(g, d[l])
                           PROVE  FALSE
                BY <3>4, <1>6
            <4>2. IsHole(heap, g, <<New(b), j>>)
                BY <4>1, <1>2, <1>5
            <4>3. New(i - 1) = Nil
                BY <4>2, <3>8 DEF IsHole, Content
            <4> QED
                BY <4>3, <3>1, <1>1, NoValueIsNil
        <3>11. New(i - 1) \in Q
            BY <3>1, <3>9, <3>10, <1>1, NoValueIsNil
        <3>12. \A c \in i - 1..root : c = i - 1 \/ c \in i..root
            BY <3>1, <1>1
        <3> QED
            BY <3>1, <3>11, <3>12, <2>2
    <2>3. last + 1 \in Int /\ root \in Int
        BY <1>1, <1>3
    <2> HIDE DEF T
    <2> QED
        BY <2>1, <2>2, <2>3, Downwards
<1> DEFINE p == Place(g, d[1])
<1>9. PICK i \in 1..root : last < i /\ p[1] = New(i)
    <2>1. PICK i \in 1..root : last < i /\ Place(Built(rule), New(last))[1] = New(i)
        BY <1>2, <1>3, HoleFacts DEF root
    <2>2. p = Place(Built(rule), New(last))
        BY <1>2, <1>3, <1>4, <1>1, SettledGives DEF g, Place
    <2> QED
        BY <2>1, <2>2
<1>10. i \in last + 1..root
    BY <1>9, <1>1, <1>3
<1>11. New(i) \in Q
    BY <1>8, <1>10, <1>1
<1>12. p = <<New(i), p[2]>> /\ IsHole(heap, g, p)
    <2>1. 1 \in 1..n
        BY <1>2
    <2> QED
        BY <2>1, <1>5, <1>9 DEF Place
<1>13. p[2] \in DOMAIN g[New(i)].items /\ g[New(i)].items[p[2]] = Nil
    BY <1>9, <1>12 DEF IsHole, IsPlace, Content
<1>14. p \in X
    <2>1. <<New(i), p[2]>> \in X \/ Nil \in Q \cup Combinators
        BY <1>11, <1>13 DEF Within
    <2> QED
        BY <2>1, <1>12, NoValueIsNil
<1>15. PICK l \in 2..n : p = Place(g, d[l])
    BY <1>6, <1>12, <1>14
<1> QED
    BY <1>15, SettledAdds DEF g

\* The root is an array, with redexes inside it.
LEMMA RewriteTree ==
    ASSUME NEW rule, NEW R, Rewriting(rule, R), Root(rule) \notin Redexes(rule),
           Redexes(rule) # {}
    PROVE  Goes(Settled(rule), New(Min(Redexes(rule))))
<1> DEFINE f == Built(rule)
           g == Settled(rule)
           root == Root(rule)
           v == New(root)
           S == R \cup Nodes(rule, root + 1)
<1>1. PICK n, r, d : Ordered(rule, n, r, d)
    BY OrderedThere
<1>2. /\ AddsFrames(heap, g, trampoline, n, d)
      /\ d[n] = New(Min(Redexes(rule)))
      /\ IsHole(heap, g, Place(g, d[1]))
      /\ \A l \in 2..n : Place(g, d[1]) # Place(g, d[l])
      /\ Places(g, d, 1, n) = Places(f, d, 1, n)
      /\ 1 \in 1..n /\ n \in 1..n
    <2>1. 1 \in 1..n /\ n \in 1..n
        BY <1>1 DEF Ordered
    <2> QED
        BY <2>1, <1>1, OrderedAdds, SettledAdds
<1>3. /\ root \in Nat /\ root >= 1 /\ Top(heap, trampoline) /\ heap[trampoline].rt # Nil
    BY RewritingFacts DEF Rewriting, Redex
<1>4. root + 1 \in 1..root + 1 /\ root + 1 \in Nat
    BY <1>3
<1>5. S \in SUBSET Addr /\ Sound(f, S, Below(rule, root + 1))
    BY <1>4, BelowSound
<1>6. Below(rule, root + 1) \subseteq Places(f, d, 1, n)
    BY <1>1, <1>4, OrderedPlaces
<1>7. v \in S /\ v \in Values
    <2>1. root \in Inside(rule, root + 1)
        BY <1>3 DEF Inside, Redexes
    <2> QED
        BY <2>1, <1>5 DEF Nodes, Values
<1>8. f \in Heaps /\ Extends(heap, f)
    BY BuiltFacts
<1>9. g = Write(f, heap[trampoline].rt, heap[trampoline].rti, v)
    BY DEF Settled, Redex
<1>10. \A X : (\A x \in X : heap[x[1]].items = <<>> => x \in Places(g, d, 2, n))
                => Starved(g, X, Place(heap, trampoline))
    BY <1>1, SettledStarves
<1> HIDE DEF f, g, root, v, S
<1>11. Sound(f, S, Places(g, d, 1, n))
    BY <1>2, <1>5, <1>6, SoundCuts
<1>12. Settles(heap, f, g, trampoline, n, d)
    BY <1>2, <1>5, <1>7, <1>9, <1>10, <1>11 DEF Settles
<1>13. Running(g, d[n])
    BY <1>2, <1>3, <1>8, <1>12, TopAdds
<1>14. Goes(g, d[n])
    BY <1>7, <1>8, <1>9, <1>13 DEF Goes, Redex
<1> QED
    BY <1>2, <1>14 DEF g

LEMMA RewriteGoes ==
    ASSUME Going, Redex.rt # Nil, NEW R, Full(heap, R, Redex.items),
           NEW rule, IsRule(rule), Applies(rule), Rewrite(rule)
    PROVE  Progress
<1> DEFINE items == Node(rule, Root(rule)).items
           value == IF Len(items) = 1 THEN items[1] ELSE New(Root(rule))
           next == IF Redexes(rule) = {} THEN Redex.k ELSE New(Min(Redexes(rule)))
           written == IF rule.body[Root(rule)].redex THEN Built(rule)
                      ELSE Write(Built(rule), Redex.rt, Redex.rti, value)
<1>1. Room(Root(rule)) /\ Jump(written, next)
    BY DEF Rewrite, Built, Root, Redexes
<1>2. Rewriting(rule, R)
    BY <1>1 DEF Rewriting
<1>3. Root(rule) \in 1..Root(rule)
    BY <1>2, RewritingFacts
<1>4. rule.body[Root(rule)].redex <=> Root(rule) \in Redexes(rule)
    BY <1>3 DEF Redexes
<1> HIDE DEF items
<1> SUFFICES Goes(written, next)
    BY <1>1 DEF Progress
<1>5. CASE Root(rule) \in Redexes(rule)
    <2>1. Goes(Built(rule), New(Min(Redexes(rule))))
        BY <1>2, <1>5, RewriteRedex
    <2> QED
        BY <2>1, <1>4, <1>5
<1>6. CASE Redexes(rule) = {}
    <2>1. value \in R \cup Plain \/ value = New(Root(rule))
        BY <1>2, <1>6, RootAlone DEF items
    <2> HIDE DEF value
    <2>2. Goes(Write(Built(rule), Redex.rt, Redex.rti, value), Redex.k)
        BY <2>1, <1>2, <1>6, RewriteValue
    <2> QED
        BY <2>2, <1>4, <1>6
<1>7. CASE Root(rule) \notin Redexes(rule) /\ Redexes(rule) # {}
    <2>1. value = New(Root(rule))
        BY <1>2, <1>7, RootAlone DEF items
    <2> HIDE DEF value
    <2>2. Goes(Settled(rule), New(Min(Redexes(rule))))
        BY <1>2, <1>7, RewriteTree
    <2> QED
        BY <2>1, <2>2, <1>4, <1>7 DEF Settled
<1> QED
    BY <1>5, <1>6, <1>7

LEMMA BytecodeGoes ==
    ASSUME Going, code \in Programs, ReduceBytecode
    PROVE  Progress
<1> DEFINE rules == code[Head1]
           applying == {i \in DOMAIN rules : Applies(rules[i])}
<1>1. /\ Head1 \in Users
      /\ IF applying = {} THEN Return(Redex.items) ELSE Rewrite(rules[Min(applying)])
    BY DEF ReduceBytecode
<1>2. Redex.rt # Nil
    <2>1. Head1 \notin Builtins
        BY <1>1, TermsAssumption
    <2> QED
        BY <2>1, GoingFacts, TrampolineAssumption
<1>3. DOMAIN rules \subseteq Nat /\ \A i \in DOMAIN rules : IsRule(rules[i])
    BY <1>1, ProgramsAssumption
<1> HIDE DEF rules
<1>4. CASE applying = {}
    BY <1>1, <1>2, <1>4, ReturnsRedex
<1>5. CASE applying # {}
    <2>1. applying \subseteq Nat
        BY <1>3
    <2>2. PICK x \in applying : \A i \in applying : x <= i
        BY <2>1, <1>5, LeastNumber
    <2>3. Min(applying) = x
        BY <2>1, <2>2, MinIs
    <2>4. Rewrite(rules[x])
        BY <1>1, <1>5, <2>3
    <2>5. IsRule(rules[x]) /\ Applies(rules[x])
        BY <2>2, <1>3
    <2>6. PICK R : Full(heap, R, Redex.items)
        BY <1>2, GoingFacts
    <2> QED
        BY <1>2, <2>4, <2>5, <2>6, RewriteGoes
<1> QED
    BY <1>4, <1>5

-----------------------------------------------------------------------------
(* All reduce methods but VMObjectResult's.                                *)

LEMMA ReduceGoes ==
    ASSUME Going, code \in Programs, Next, ~ReduceResult
    PROVE  Progress
<1>1. CASE ReduceData
    BY <1>1, DataGoes
<1>2. CASE ReduceArray
    BY <1>2, ArrayGoes
<1>3. CASE ReduceThrow
    BY <1>3, ThrowGoes
<1>4. CASE ReduceHandle
    BY <1>4, HandleGoes
<1>5. CASE ReduceStall
    BY <1>5, StallGoes
<1>6. CASE ReduceNapp
    BY <1>6, NappGoes
<1>7. CASE ReduceMedadic
    <2>1. Redex.rt # Nil /\ ReduceToValue(0)
        BY <1>7, KindFacts DEF ReduceMedadic
    <2> QED
        BY <2>1, ToValueGoes
<1>8. CASE ReduceMonadic
    <2>1. Redex.rt # Nil /\ ReduceToValue(1)
        BY <1>8, KindFacts DEF ReduceMonadic
    <2> QED
        BY <2>1, ToValueGoes
<1>9. CASE ReduceDyadic
    <2>1. Redex.rt # Nil /\ ReduceToValue(2)
        BY <1>9, KindFacts DEF ReduceDyadic
    <2> QED
        BY <2>1, ToValueGoes
<1>10. CASE ReduceTriadic
    <2>1. Redex.rt # Nil /\ ReduceToValue(3)
        BY <1>10, KindFacts DEF ReduceTriadic
    <2> QED
        BY <2>1, ToValueGoes
<1>11. CASE ReduceVariadic
    BY <1>11, VariadicGoes
<1> DEFINE n == Len(Args)
<1>12. Redex.rt # Nil => n \in Nat
    BY GoingFacts, ArgsFacts
<1> HIDE DEF n
<1>13. CASE ReduceUnary
    <2>1. Redex.rt # Nil /\ IF n < 1 THEN Return(Redex.items) ELSE ReduceFurther(1)
        BY <1>13, KindFacts DEF ReduceUnary, n
    <2>2. CASE n < 1
        BY <2>1, <2>2, ReturnsRedex
    <2>3. CASE ~(n < 1)
        <3>1. n >= 1
            BY <2>1, <2>3, <1>12
        <3> QED
            BY <2>1, <2>3, <3>1, FurtherGoes, GoingFacts DEF n
    <2> QED
        BY <2>2, <2>3
<1>14. CASE ReduceBinary
    <2>1. Redex.rt # Nil /\ IF n < 2 THEN Return(Redex.items) ELSE ReduceFurther(2)
        BY <1>14, KindFacts DEF ReduceBinary, n
    <2>2. CASE n < 2
        BY <2>1, <2>2, ReturnsRedex
    <2>3. CASE ~(n < 2)
        <3>1. n >= 2
            BY <2>1, <2>3, <1>12
        <3> QED
            BY <2>1, <2>3, <3>1, FurtherGoes, GoingFacts DEF n
    <2> QED
        BY <2>2, <2>3
<1>15. CASE ReduceTernary
    BY <1>15, TernaryGoes
<1>16. CASE ReduceBytecode
    BY <1>16, BytecodeGoes
<1> QED
    BY <1>1, <1>2, <1>3, <1>4, <1>5, <1>6, <1>7, <1>8, <1>9, <1>10, <1>11, <1>13, <1>14,
       <1>15, <1>16 DEF Next

-----------------------------------------------------------------------------
(* The theorems.                                                           *)

Inv ==
    /\ TypeOK
    /\ code \in Programs
    /\ trampoline # Nil => Running(heap, trampoline)

-----------------------------------------------------------------------------
(* The invariant holds.                                                    *)

LEMMA InitStacked ==
    ASSUME Init
    PROVE  heap \in Heaps /\ trampoline = 3 /\ Top(heap, 3)
<1>1. 1 \in Addr /\ 2 \in Addr /\ 3 \in Addr /\ MaxHeap \in Nat
    BY TrampolineAssumption DEF Addr
<1>2. /\ Result \in Combinators /\ Exception \in Combinators /\ Main \in Combinators
      /\ Main \in Plain
    BY TrampolineAssumption DEF Combinators, Plain
<1>3. Result \in Values /\ Exception \in Values /\ Main \in Values /\ Nil \in Values
    BY <1>2 DEF Values
<1>4. /\ heap \in Heaps
      /\ heap[1] = Tree(<<Result, Nil>>)
      /\ heap[2] = Tree(<<Exception>>)
      /\ heap[3] = [rt |-> 1, rti |-> 2, k |-> 1, exc |-> 2, items |-> <<Main>>]
    <2>1. heap = [a \in Addr |->
                    CASE a = 1 -> Tree(<<Result, Nil>>)
                      [] a = 2 -> Tree(<<Exception>>)
                      [] a = 3 -> [rt |-> 1, rti |-> 2, k |-> 1, exc |-> 2,
                                   items |-> <<Main>>]
                      [] OTHER -> Free]
        BY DEF Init
    <2>2. /\ <<Result, Nil>> \in Seq(Values) /\ <<Exception>> \in Seq(Values)
          /\ <<Main>> \in Seq(Values) /\ <<>> \in Seq(Values)
        BY <1>3
    <2>3. /\ Tree(<<Result, Nil>>) \in Arrays /\ Tree(<<Exception>>) \in Arrays
          /\ Free \in Arrays
          /\ [rt |-> 1, rti |-> 2, k |-> 1, exc |-> 2, items |-> <<Main>>] \in Arrays
        BY <1>1, <2>2 DEF Tree, Free, Arrays
    <2>4. \A a \in Addr : heap[a] \in Arrays
        BY <2>1, <2>3
    <2> QED
        BY <1>1, <2>1, <2>4 DEF Heaps
<1>5. /\ IsTree(heap[1]) /\ heap[1].items = <<Result, Nil>>
      /\ IsTree(heap[2]) /\ heap[2].items = <<Exception>>
      /\ Place(heap, 3) = <<1, 2>> /\ heap[3].rt = 1
      /\ heap[3].k = 1 /\ heap[3].exc = 2 /\ heap[3].items = <<Main>>
    BY <1>4 DEF Tree, IsTree, Place
<1> DEFINE st == [i \in Nat |-> IF i = 1 THEN 1 ELSE 3]
           hs == [j \in Nat |-> 2]
           lv == [j \in Nat |-> 0]
           he == [i \in Nat |-> 1]
<1>6. /\ st \in [Nat -> Addr] /\ hs \in [Nat -> Addr] /\ lv \in [Nat -> Nat] /\ he \in [Nat -> Nat]
      /\ st[1] = 1 /\ st[2] = 3 /\ hs[1] = 2 /\ lv[1] = 0 /\ he[2] = 1
    BY <1>1
<1> HIDE DEF st, hs, lv, he
<1>7. /\ 1..1 = {1} /\ 2..1 = {} /\ 1..2 = {1, 2} /\ 2..2 = {2} /\ 1..0 = {} /\ 3..2 = {}
    OBVIOUS
<1>8. Counted(2, 1, st, hs, lv, he)
    BY <1>6, <1>7 DEF Counted
<1>9. Linked(heap, 2, 1, st, hs, lv, he)
    <2>1. heap[1].items # <<>> /\ heap[2].items # <<>> /\ heap[3].items # <<>>
        BY <1>5
    <2>2. FirstFrame(heap, st) /\ FirstHandler(heap, hs)
        BY <1>5, <1>6 DEF FirstFrame, FirstHandler
    <2>3. IsPlace(heap, <<1, 2>>)
        BY <1>1, <1>5 DEF IsPlace
    <2>4. FrameLinks(heap, st, hs, he, 2)
        BY <2>3, <1>5, <1>6 DEF FrameLinks
    <2>5. /\ \A i \in 1..2 : heap[st[i]].items # <<>>
          /\ \A j \in 1..1 : heap[hs[j]].items # <<>>
          /\ \A i \in 2..2 : FrameLinks(heap, st, hs, he, i)
          /\ \A j \in 2..1 : HandlerLinks(heap, st, hs, lv, j)
        BY <2>1, <2>4, <1>6, <1>7
    <2> QED
        BY <2>2, <2>5 DEF Linked
<1>10. Distinct(heap, 2, 1, st, hs, lv)
    BY <1>7 DEF Distinct
<1>11. Waiting(heap, 2, 1, st, hs, lv)
    <2>1. Content(heap, <<1, 2>>) = Nil
        BY <1>5 DEF Content
    <2>2. \A X : Starved(heap, X, <<1, 2>>)
        BY <2>1, NoValueIsNil DEF Starved
    <2> QED
        BY <2>2, <1>5, <1>6, <1>7 DEF Waiting
<1>12. Prepared(heap, 2, 1, st, hs, lv)
    <2>1. {} \in SUBSET Addr /\ \A X : Sound(heap, {}, X)
        BY DEF Sound
    <2>2. Ready(heap, 1, Places(heap, st, 2, 2))
        <3>1. <<1, 2>> \in Places(heap, st, 2, 2)
            BY <1>5, <1>6, <1>7 DEF Places
        <3>2. DOMAIN heap[1].items = {1, 2} /\ heap[1].rt = Nil
            BY <1>5 DEF IsTree
        <3> QED
            BY <2>1, <3>1, <3>2 DEF Ready
    <2>3. Ready(heap, 3, Places(heap, st, 3, 2))
        <3>1. DOMAIN heap[3].items = {1} /\ heap[3].items[1] \in Plain
            BY <1>2, <1>5
        <3> QED
            BY <2>1, <3>1 DEF Ready
    <2>4. Ready(heap, 2, {})
        <3>1. DOMAIN heap[2].items = {1} /\ heap[2].rt = Nil
            BY <1>5 DEF IsTree
        <3> QED
            BY <2>1, <3>1 DEF Ready
    <2>5. \A i \in 1..2 : Ready(heap, st[i], Places(heap, st, i + 1, 2))
        BY <2>2, <2>3, <1>6, <1>7
    <2>6. \A j \in 1..1 :
            /\ Ready(heap, hs[j], {})
            /\ \A i \in 1..lv[j] :
                    Ready(heap, st[i], {Place(heap, hs[j])} \cup Places(heap, st, i + 1, lv[j]))
        BY <2>4, <1>6, <1>7
    <2> QED
        BY <2>5, <2>6 DEF Prepared
<1>13. Stacked(heap, 2, 1, st, hs, lv, he)
    BY <1>4, <1>8, <1>9, <1>10, <1>11, <1>12 DEF Stacked
<1>14. 2 \in DOMAIN heap[st[1]].items
    BY <1>5, <1>6
<1>15. Top(heap, 3)
    BY <1>6, <1>13, <1>14 DEF Top
<1> QED
    BY <1>4, <1>15 DEF Init

LEMMA InitInv == Init => Inv
<1> SUFFICES ASSUME Init
             PROVE  Inv
    OBVIOUS
<1>1. heap \in Heaps /\ trampoline = 3 /\ Top(heap, 3)
    BY InitStacked
<1>2. TypeOK
    <2>1. code \in Programs /\ result = Unset
        BY DEF Init
    <2>2. DOMAIN code = Users
        BY <2>1, ProgramsAssumption
    <2>3. 3 \in Addr
        BY TrampolineAssumption DEF Addr
    <2> QED
        BY <1>1, <2>1, <2>2, <2>3 DEF TypeOK, Heaps, Unset, Values
<1>3. heap[3].rt # Nil
    <2>1. 3 \in Addr /\ 1 \in Addr
        BY TrampolineAssumption DEF Addr
    <2>2. heap[3].rt = 1
        BY <2>1 DEF Init
    <2> QED
        BY <2>1, <2>2, NoValueIsNil
<1> QED
    BY <1>1, <1>2, <1>3 DEF Inv, Running, Init
\* What can be reached from the next redex remains.
LEMMA JumpCollects ==
    ASSUME NEW g, NEW u, Jump(g, u), u \in Addr
    PROVE  /\ trampoline' = u /\ code' = code /\ result' = result
           /\ \E live : u \in live /\ Collects(g, live, heap')
<1> DEFINE next == [a \in Addr |-> Refers(g, a)]
           S == Addr \cap {u, result.value}
           live == Closure(next, S)
<1>1. next \in [Addr -> SUBSET Addr] /\ S \in SUBSET Addr /\ u \in S
    BY DEF Refers
<1>2. \A a \in Addr : next[a] = Refers(g, a)
    OBVIOUS
<1>3. /\ trampoline' = u /\ code' = code /\ result' = result
      /\ heap' = [a \in Addr |-> IF a \in live THEN g[a] ELSE Free]
    BY DEF Jump, Reachable
<1> HIDE DEF next, S
<1>4. live \in SUBSET Addr /\ S \subseteq live /\ Closed(next, live)
    BY <1>1, ClosureLeast
<1> HIDE DEF live
<1>5. \A a \in live : Refers(g, a) \subseteq live
    BY <1>2, <1>4 DEF Closed
<1>6. Collects(g, live, heap')
    BY <1>3, <1>4, <1>5 DEF Collects
<1> QED
    BY <1>1, <1>3, <1>4, <1>6

\* Freeing garbage leaves the stacks of the next redex.
LEMMA RunningCollects ==
    ASSUME NEW g, NEW u, Running(g, u), NEW live, u \in live, NEW h, Collects(g, live, h)
    PROVE  h \in Heaps /\ Running(h, u)
<1>1. PICK m, q, st, hs, lv, he :
        /\ Stacked(g, m, q, st, hs, lv, he)
        /\ st[m] = u
        /\ m >= 2 => 2 \in DOMAIN g[st[1]].items
    BY DEF Running, Top
<1>2. /\ live \subseteq Addr /\ g \in Heaps
      /\ h = [a \in Addr |-> IF a \in live THEN g[a] ELSE Free]
    BY <1>1 DEF Collects, Stacked
<1>3. Free \in Arrays
    <2>1. <<>> \in Seq(Values)
        OBVIOUS
    <2> QED
        BY <2>1, TreeArrays DEF Free
<1>4. h \in Heaps
    BY <1>2, <1>3 DEF Heaps
<1>5. Stacked(h, m, q, st, hs, lv, he)
    BY <1>1, <1>4, StackedCollects
<1>6. st[1] \in Addr /\ h[st[1]].items # <<>>
    BY <1>5, Sizes DEF Stacked, Linked
<1>7. st[1] \in live
    BY <1>2, <1>6 DEF Free, Tree
<1>8. h[st[1]] = g[st[1]] /\ h[u] = g[u]
    BY <1>2, <1>7
<1>9. Top(h, u)
    BY <1>1, <1>5, <1>8 DEF Top
<1> QED
    BY <1>4, <1>8, <1>9 DEF Running

LEMMA ProgressInv ==
    ASSUME Inv, Progress
    PROVE  Inv'
<1>1. PICK g, u : Jump(g, u) /\ Goes(g, u)
    BY DEF Progress
<1>2. Running(g, u)
    BY <1>1 DEF Goes
<1>3. u \in Addr
    BY <1>2, TopFacts DEF Running
<1>4. /\ trampoline' = u /\ code' = code /\ result' = result
      /\ \E live : u \in live /\ Collects(g, live, heap')
    BY <1>1, <1>3, JumpCollects
<1>5. heap' \in Heaps /\ Running(heap', u)
    BY <1>2, <1>4, RunningCollects
<1>6. TypeOK'
    BY <1>3, <1>4, <1>5 DEF Inv, TypeOK, Heaps
<1>7. Running(heap, trampoline)' 
    BY <1>4, <1>5 DEF Running, Top
<1> QED
    BY <1>4, <1>6, <1>7 DEF Inv

LEMMA ResultGives ==
    ASSUME Inv, ReduceResult
    PROVE  /\ trampoline # Nil /\ trampoline' = Nil /\ code' = code /\ heap' = heap
           /\ result' = [value |-> Redex.items[2], exception |-> Head1 = Exception]
           /\ 2 \in DOMAIN Redex.items /\ Redex.items[2] \in Values
<1>1. /\ trampoline # Nil /\ Head1 \in Builtins /\ Def[Head1].kind = "result"
      /\ trampoline' = Nil /\ code' = code /\ heap' = heap
      /\ result' = [value |-> Redex.items[2], exception |-> Head1 = Exception]
    BY DEF ReduceResult, Reducing
<1>2. Going
    BY <1>1 DEF Inv, Going
<1>3. Redex.rt = Nil
    <2>1. SUFFICES ASSUME Redex.rt # Nil
                   PROVE  FALSE
        OBVIOUS
    <2>2. PICK R : Full(heap, R, Redex.items)
        BY <1>2, <2>1, GoingFacts
    <2>3. Head1 \in R \cup Plain
        <3>1. 1 \in DOMAIN Redex.items
            BY <1>2, GoingFacts
        <3> QED
            BY <2>2, <3>1 DEF Full, Head1
    <2>4. Head1 \notin R
        BY <1>1, <2>2, NoValueIsNil DEF Full, Combinators
    <2>5. Head1 \notin Plain
        BY <1>1, TermsAssumption DEF Plain
    <2> QED
        BY <2>3, <2>4, <2>5
<1>4. 2 \in DOMAIN Redex.items
    BY <1>2, <1>3 DEF Going, Running, Redex
<1>5. Redex.items[2] \in Values
    BY <1>2, <1>4, GoingFacts
<1> QED
    BY <1>1, <1>4, <1>5

LEMMA ResultInv ==
    ASSUME Inv, ReduceResult
    PROVE  Inv'
<1>1. /\ trampoline # Nil /\ trampoline' = Nil /\ code' = code /\ heap' = heap
      /\ result' = [value |-> Redex.items[2], exception |-> Head1 = Exception]
      /\ Redex.items[2] \in Values
    BY ResultGives
<1>2. TypeOK'
    BY <1>1 DEF Inv, TypeOK
<1> QED
    BY <1>1, <1>2 DEF Inv

\* Every step reduces a redex.
LEMMA Reduces ==
    ASSUME Next
    PROVE  trampoline # Nil
    BY DEF Next, Reducing, ReduceData, ReduceArray, ReduceThrow, ReduceHandle, ReduceStall,
        ReduceNapp, ReduceMedadic, ReduceMonadic, ReduceDyadic, ReduceTriadic, ReduceVariadic,
        ReduceUnary, ReduceBinary, ReduceTernary, ReduceResult, ReduceBytecode

LEMMA StepInv ==
    ASSUME Inv, [Next]_vars
    PROVE  Inv'
<1>1. CASE ReduceResult
    BY <1>1, ResultInv
<1>2. CASE Next /\ ~ReduceResult
    <2>1. trampoline # Nil
        BY <1>2, Reduces
    <2>2. Going /\ code \in Programs
        BY <2>1 DEF Inv, Going
    <2> QED
        BY <1>2, <2>2, ReduceGoes, ProgressInv
<1>3. CASE UNCHANGED vars
    BY <1>3 DEF vars, Inv, TypeOK, Running, Top
<1> QED
    BY <1>1, <1>2, <1>3

THEOREM Invariant == Spec => []Inv
<1>1. Init => Inv
    BY InitInv
<1>2. Inv /\ [Next]_vars => Inv'
    BY StepInv
<1> QED
    BY <1>1, <1>2, PTL DEF Spec

\* TypeOK: the registers of every reduce method stay within their types,
\* whatever the program is.
THEOREM Typed == Spec => []TypeOK
<1>1. Inv => TypeOK
    BY DEF Inv
<1> QED
    BY <1>1, Invariant, PTL

-----------------------------------------------------------------------------
(* All arguments of a redex are complete.                                  *)

LEMMA CompleteValues ==
    ASSUME heap \in Heaps, NEW R \in SUBSET Addr, Sound(heap, R, {}), NEW v \in R \cup Plain
    PROVE  Complete(v)
<1> DEFINE next == [a \in Addr |-> Refers(heap, a)]
<1>1. next \in [Addr -> SUBSET Addr] /\ \A a \in Addr : next[a] = Refers(heap, a)
    BY DEF Refers
<1>2. \A S : Reachable(heap, S) = Closure(next, S)
    BY DEF Reachable
<1> HIDE DEF next
<1>3. ASSUME NEW a \in R
      PROVE  Nil \notin Range(heap[a].items) /\ Refers(heap, a) \subseteq R
    <2>1. IsTree(heap[a]) /\ \A i \in DOMAIN heap[a].items : heap[a].items[i] \in R \cup Plain
        BY DEF Sound
    <2>2. Range(heap[a].items) \subseteq R \cup Plain
        BY <2>1 DEF Range
    <2> QED
        BY <2>1, <2>2, NoValueIsNil, PlainCombinators DEF Refers, IsTree
<1>4. v # Nil
    BY NoValueIsNil, PlainCombinators
<1>5. ASSUME v \in Addr
      PROVE  Reachable(heap, {v}) \subseteq R
    <2>1. v \in R
        BY <1>5, NoValueIsNil, PlainCombinators
    <2>2. {v} \subseteq R /\ Closed(next, R)
        BY <2>1, <1>1, <1>3 DEF Closed
    <2>3. Closure(next, {v}) \subseteq R
        BY <2>2, <1>1, <1>5, ClosureLeast
    <2> QED
        BY <2>3, <1>2
<1> QED
    BY <1>3, <1>4, <1>5 DEF Complete

LEMMA ItemsComplete ==
    ASSUME Inv, trampoline # Nil, NEW i \in DOMAIN Redex.items
    PROVE  Complete(Redex.items[i])
<1>1. Top(heap, trampoline)
    BY DEF Inv, Running
<1>2. /\ heap \in Heaps /\ Ready(heap, trampoline, {})
      /\ heap[trampoline].rt = Nil => Redex.items[1] \in {Result, Exception}
    BY <1>1, TopFacts DEF Redex
<1>3. PICK R \in SUBSET Addr :
        /\ Sound(heap, R, {})
        /\ \A l \in DOMAIN Redex.items :
                \/ Redex.items[l] \in R \cup Plain
                \/ l = 1 /\ heap[trampoline].rt = Nil
    BY <1>2 DEF Ready, Redex
<1>4. CASE Redex.items[i] \in R \cup Plain
    BY <1>2, <1>3, <1>4, CompleteValues
<1>5. CASE Redex.items[i] \in {Result, Exception}
    <2>1. Redex.items[i] \in Combinators
        BY <1>5, TrampolineAssumption DEF Combinators
    <2> QED
        BY <2>1, NoValueIsNil DEF Complete
<1> QED
    BY <1>2, <1>3, <1>4, <1>5

\* ArgumentsComplete: for every program, and whatever the combinators
\* written in C++ do, no redex is reduced before its arguments are, with all
\* that is inside them.
THEOREM ArgumentsThere == Spec => []ArgumentsComplete
<1>1. Inv => ArgumentsComplete
    BY ItemsComplete DEF ArgumentsComplete
<1> QED
    BY <1>1, Invariant, PTL

\* What the program ends with, returned or thrown, is a value with no place
\* left in it to be written: no reduction that is still to come is handed out
\* as a result.
ResultWhole == trampoline = Nil => Complete(result.value)

\* ResultWhole: for every program, and whatever the combinators written in
\* C++ do, reduce gives its caller a value that is complete.
THEOREM ResultThere == Spec => []ResultWhole
<1>1. Init => ResultWhole
    BY NoValueIsNil, TrampolineAssumption DEF Init, ResultWhole
<1>2. ASSUME Inv, ResultWhole, [Next]_vars
      PROVE  ResultWhole'
    <2>1. CASE ReduceResult
        <3>1. /\ trampoline # Nil /\ heap' = heap
              /\ result'.value = Redex.items[2] /\ 2 \in DOMAIN Redex.items
            BY <1>2, <2>1, ResultGives
        <3>2. Complete(Redex.items[2])
            BY <1>2, <3>1, ItemsComplete
        <3> QED
            BY <3>1, <3>2 DEF ResultWhole, Complete
    <2>2. CASE Next /\ ~ReduceResult
        <3>1. trampoline # Nil
            BY <2>2, Reduces
        <3>2. PICK g, u : Jump(g, u) /\ Goes(g, u)
            BY <1>2, <2>2, <3>1, ReduceGoes DEF Inv, Going, Progress
        <3>3. u \in Addr
            BY <3>2, TopFacts DEF Goes, Running
        <3>4. trampoline' \in Addr
            BY <3>2, <3>3, JumpCollects
        <3> QED
            BY <3>4, NoValueIsNil DEF ResultWhole
    <2>3. CASE UNCHANGED vars
        BY <1>2, <2>3 DEF vars, ResultWhole, Complete
    <2> QED
        BY <1>2, <2>1, <2>2, <2>3
<1> QED
    BY <1>1, <1>2, Invariant, PTL DEF Spec

-----------------------------------------------------------------------------
(* Handlers follow dynamic scope.                                          *)

\* The continuations of a frame are the frames below it.
LEMMA KontsAre ==
    ASSUME NEW m, NEW q, NEW st, NEW hs, NEW lv, NEW he,
           Stacked(heap, m, q, st, hs, lv, he), NEW n \in 1..m
    PROVE  Konts(st[n]) = {st[i] : i \in 1..n}
<1> DEFINE next == [b \in Addr |-> Addr \cap {heap[b].k}]
           S == Addr \cap {st[n]}
           C == Closure(next, S)
<1>1. next \in [Addr -> SUBSET Addr] /\ \A b \in Addr : next[b] = Addr \cap {heap[b].k}
    OBVIOUS
<1>2. /\ m \in Nat /\ m >= 1 /\ \A i \in 1..m : st[i] \in Addr
      /\ heap[st[1]].k = Nil
      /\ \A i \in 2..m : heap[st[i]].k = st[i - 1]
    BY Sizes DEF Stacked, Linked, FirstFrame, IsTree, FrameLinks
<1>3. n \in Nat /\ \A i \in 1..n : i \in 1..m
    BY <1>2
<1>4. S = {st[n]} /\ S \in SUBSET Addr
    BY <1>2
<1>5. Konts(st[n]) = C
    BY DEF Konts
<1> HIDE DEF next, S
<1>6. /\ C \in SUBSET Addr /\ S \subseteq C /\ Closed(next, C)
      /\ \A D : S \subseteq D /\ Closed(next, D) => C \subseteq D
    BY <1>1, <1>4, ClosureLeast
<1> HIDE DEF C
<1>7. C \subseteq {st[i] : i \in 1..n}
    <2> DEFINE D == {st[i] : i \in 1..n}
    <2>1. S \subseteq D
        BY <1>3, <1>4
    <2>2. ASSUME NEW i \in 1..n
          PROVE  next[st[i]] \subseteq D
        <3>1. st[i] \in Addr /\ next[st[i]] = Addr \cap {heap[st[i]].k}
            BY <1>1, <1>2, <1>3
        <3>2. CASE i = 1
            BY <3>1, <3>2, <1>2, NoValueIsNil
        <3>3. CASE i # 1
            <4>1. i \in 2..m /\ i - 1 \in 1..n
                BY <3>3, <1>2, <1>3
            <4> QED
                BY <3>1, <4>1, <1>2
        <3> QED
            BY <3>2, <3>3
    <2>3. Closed(next, D)
        BY <2>2 DEF Closed
    <2> QED
        BY <2>1, <2>3, <1>6
<1>8. {st[i] : i \in 1..n} \subseteq C
    <2> DEFINE T == {i \in 1..n : st[i] \in C}
    <2>1. n \in T
        BY <1>3, <1>4, <1>6
    <2>2. ASSUME NEW i \in 1..n, i \in T, i > 1
          PROVE  i - 1 \in T
        <3>1. i \in 2..m /\ i - 1 \in 1..n /\ i \in 1..m /\ i - 1 \in 1..m
            BY <2>2, <1>2, <1>3
        <3>2. st[i] \in C /\ next[st[i]] = Addr \cap {st[i - 1]}
            BY <2>2, <3>1, <1>1, <1>2
        <3>3. st[i - 1] \in C
            BY <3>1, <3>2, <1>2, <1>6 DEF Closed
        <3> QED
            BY <3>1, <3>3
    <2> HIDE DEF T
    <2>3. 1..n \subseteq T
        BY <2>1, <2>2, <1>3, Downwards
    <2> QED
        BY <2>3 DEF T
<1> QED
    BY <1>5, <1>7, <1>8

LEMMA NoKonts == Konts(Nil) = {}
<1> DEFINE next == [b \in Addr |-> Addr \cap {heap[b].k}]
<1>1. next \in [Addr -> SUBSET Addr]
    OBVIOUS
<1>2. Addr \cap {Nil} = {}
    BY NoValueIsNil
<1>3. Konts(Nil) = Closure(next, {})
    BY <1>2 DEF Konts
<1> HIDE DEF next
<1>4. Closure(next, {}) \subseteq {}
    BY <1>1, ClosureLeast DEF Closed
<1> QED
    BY <1>3, <1>4

\* Whatever handlers lead to is the last frame of a stack.
LEMMA HandlersTop ==
    ASSUME NEW t, t \in Addr => Top(heap, t), NEW a \in Handlers(t)
    PROVE  Top(heap, a)
<1> DEFINE next == [b \in Addr |-> Addr \cap {heap[b].exc}]
           S == Addr \cap {t}
           D == {b \in Addr : Top(heap, b)}
<1>1. next \in [Addr -> SUBSET Addr] /\ \A b \in Addr : next[b] = Addr \cap {heap[b].exc}
    OBVIOUS
<1>2. S \in SUBSET Addr /\ S \subseteq D
    OBVIOUS
<1>3. Handlers(t) = Closure(next, S)
    BY DEF Handlers
<1> HIDE DEF next, S
<1>4. ASSUME NEW b \in D
      PROVE  next[b] \subseteq D
    <2>1. Top(heap, b) /\ next[b] = Addr \cap {heap[b].exc}
        BY <1>1
    <2>2. /\ heap[b].rt = Nil => heap[b].exc = Nil
          /\ heap[b].rt # Nil => Top(heap, heap[b].exc)
        BY <2>1, TopFacts DEF IsTree
    <2> QED
        BY <2>1, <2>2, NoValueIsNil
<1>5. Closed(next, D)
    BY <1>4 DEF Closed
<1>6. Closure(next, S) \subseteq D
    BY <1>1, <1>2, <1>5, ClosureLeast
<1> QED
    BY <1>3, <1>6

\* The handler of the last frame of a stack cuts the others off, and those
\* it cuts off have it as their handler too.
LEMMA Nested ==
    ASSUME NEW a, Top(heap, a), heap[a].exc # Nil
    PROVE  LET h == heap[a].exc
           IN  /\ heap[h].k \in Konts(heap[a].k) \cup {Nil}
               /\ \A b \in Konts(heap[a].k) \ Konts(heap[h].k) :
                        heap[b].exc = h \/ heap[b].k = Nil
<1> DEFINE h == heap[a].exc
<1>1. PICK m, q, st, hs, lv, he : Stacked(heap, m, q, st, hs, lv, he) /\ st[m] = a
    BY DEF Top
<1>2. /\ Counted(m, q, st, hs, lv, he)
      /\ Linked(heap, m, q, st, hs, lv, he)
    BY <1>1 DEF Stacked
<1>3. /\ m \in Nat /\ m >= 1 /\ q \in Nat
      /\ m >= 2 => q \in 1..q /\ he[m] = q
      /\ \A i \in 2..m : i - 1 \in 1..m
    BY <1>2, Sizes
<1>4. heap[st[1]].k = Nil /\ heap[st[1]].exc = Nil
    BY <1>2 DEF Linked, FirstFrame, IsTree
<1>5. m >= 2 /\ m \in 2..m /\ m - 1 \in 1..m
    BY <1>1, <1>3, <1>4
<1>6. heap[a].k = st[m - 1] /\ h = hs[q] /\ q \in 1..q
    BY <1>1, <1>2, <1>3, <1>5 DEF Linked, FrameLinks
<1>7. Konts(heap[a].k) = {st[i] : i \in 1..m - 1}
    BY <1>1, <1>5, <1>6, KontsAre
<1>8. ASSUME NEW l \in 2..m - 1
      PROVE  heap[st[l]].exc = hs[he[l]] /\ he[l] \in 1..q /\ \A j \in 1..q : j <= he[l] <=> lv[j] < l
    <2>1. l \in 2..m
        BY <1>3
    <2> QED
        BY <2>1, <1>2 DEF Linked, FrameLinks, Counted
<1> HIDE DEF h
<1>9. CASE q = 1
    <2>1. heap[h].k = Nil
        BY <1>2, <1>6, <1>9 DEF Linked, FirstHandler, IsTree
    <2>2. ASSUME NEW l \in 1..m - 1
          PROVE  heap[st[l]].exc = h \/ heap[st[l]].k = Nil
        <3>1. CASE l = 1
            BY <3>1, <1>4
        <3>2. CASE l # 1
            <4>1. l \in 2..m - 1
                BY <3>2, <1>3
            <4>2. he[l] = 1
                BY <4>1, <1>8, <1>9
            <4> QED
                BY <4>1, <4>2, <1>6, <1>8, <1>9
        <3> QED
            BY <3>1, <3>2
    <2> QED
        BY <2>1, <2>2, <1>7 DEF h
<1>10. CASE q # 1
    <2>1. q \in 2..q
        BY <1>3, <1>6, <1>10
    <2>2. heap[h].k = st[lv[q]] /\ lv[q] \in 1..m - 1
        BY <2>1, <1>2, <1>6 DEF Linked, HandlerLinks, Counted
    <2>3. lv[q] \in 1..m
        BY <2>2, <1>3
    <2>4. Konts(heap[h].k) = {st[i] : i \in 1..lv[q]}
        <3> DEFINE n == lv[q]
        <3>1. n \in 1..m /\ heap[h].k = st[n]
            BY <2>2, <2>3
        <3> HIDE DEF n
        <3>2. Konts(st[n]) = {st[i] : i \in 1..n}
            BY <3>1, <1>1, KontsAre
        <3> QED
            BY <3>1, <3>2 DEF n
    <2>5. ASSUME NEW l \in 1..m - 1, l \notin 1..lv[q]
          PROVE  heap[st[l]].exc = h
        <3>1. lv[q] < l /\ l \in 2..m - 1
            BY <2>2, <2>5, <1>3
        <3>2. q <= he[l] /\ he[l] \in 1..q
            BY <3>1, <1>6, <1>8
        <3>3. he[l] = q
            BY <3>2, <1>3
        <3> QED
            BY <3>1, <3>3, <1>6, <1>8
    <2>6. heap[h].k \in Konts(heap[a].k)
        BY <2>2, <1>7
    <2>7. \A b \in Konts(heap[a].k) \ Konts(heap[h].k) : heap[b].exc = h
        BY <2>4, <2>5, <1>7
    <2> QED
        BY <2>6, <2>7 DEF h
<1> QED
    BY <1>9, <1>10

\* HandlersNest: for every program, the handlers a reduction can come to
\* leave for continuations that are still to come, innermost first, as try
\* blocks that are nested do.
THEOREM HandlersNested == Spec => []HandlersNest
<1>1. ASSUME Inv, NEW a \in Handlers(trampoline), heap[a].exc # Nil
      PROVE  LET h == heap[a].exc
             IN  /\ heap[h].k \in Konts(heap[a].k) \cup {Nil}
                 /\ \A b \in Konts(heap[a].k) \ Konts(heap[h].k) :
                        heap[b].exc = h \/ heap[b].k = Nil
    <2>1. trampoline \in Addr => Top(heap, trampoline)
        BY <1>1, NoValueIsNil DEF Inv, Running
    <2>2. Top(heap, a)
        BY <2>1, HandlersTop
    <2> QED
        BY <2>2, <1>1, Nested
<1>2. Inv => HandlersNest
    BY <1>1 DEF HandlersNest
<1> QED
    BY <1>2, Invariant, PTL

-----------------------------------------------------------------------------
(* What is complete is not overwritten.                                    *)

LEMMA StarvedIncomplete ==
    ASSUME heap \in Heaps, NEW s, IsPlace(heap, s), Starved(heap, {}, s)
    PROVE  ~Complete(Content(heap, s))
<1> DEFINE v == Content(heap, s)
           next == [a \in Addr |-> Refers(heap, a)]
           Q == Closure(next, {v})
<1> SUFFICES ASSUME Complete(v)
             PROVE  FALSE
    OBVIOUS
<1>1. next \in [Addr -> SUBSET Addr] /\ \A a \in Addr : next[a] = Refers(heap, a)
    BY DEF Refers
<1>2. Reachable(heap, {v}) = Q
    BY DEF Reachable
<1>3. v # Nil /\ v \in Values /\ v \notin Combinators
    BY StarvedContent DEF Complete, IsPlace, Content, Heaps, Arrays
<1>4. v \in Addr
    BY <1>3 DEF Values
<1> HIDE DEF next, v
<1>5. Q \in SUBSET Addr /\ {v} \subseteq Q /\ Closed(next, Q)
    BY <1>1, <1>4, ClosureLeast
<1>6. \A a \in Q : Nil \notin Range(heap[a].items)
    BY <1>2, <1>4 DEF Complete
<1> HIDE DEF Q
<1>7. ASSUME NEW a \in Q, NEW i \in DOMAIN heap[a].items
      PROVE  heap[a].items[i] \in Q \cup Combinators
    <2>1. a \in Addr /\ heap[a].items \in Seq(Values)
        BY <1>5 DEF Heaps, Arrays
    <2>2. heap[a].items[i] \in Values /\ heap[a].items[i] \in Range(heap[a].items)
        BY <2>1 DEF Range
    <2>3. heap[a].items[i] \in Addr => heap[a].items[i] \in Q
        BY <2>1, <2>2, <1>1, <1>5 DEF Refers, Closed
    <2> QED
        BY <2>2, <2>3, <1>6 DEF Values
<1>8. Within(heap, Q, {})
    BY <1>7 DEF Within
<1> QED
    BY <1>5, <1>8 DEF Starved, v

LEMMA ProgressStays ==
    ASSUME Inv, Progress, trampoline # Nil,
           NEW a \in Addr, heap[a] # Free, heap'[a] # Free,
           NEW i \in DOMAIN heap[a].items, Complete(heap[a].items[i])
    PROVE  heap'[a].items[i] = heap[a].items[i]
<1>1. PICK g, u : Jump(g, u) /\ Goes(g, u)
    BY DEF Progress
<1>2. u \in Addr
    BY <1>1, TopFacts DEF Goes, Running
<1>3. PICK live : Collects(g, live, heap')
    BY <1>1, <1>2, JumpCollects
<1>4. heap'[a] = g[a]
    BY <1>3 DEF Collects
<1>5. PICK f \in Heaps :
        /\ Extends(heap, f)
        /\ g = f \/ \E v \in Values : g = Write(f, Redex.rt, Redex.rti, v)
    BY <1>1 DEF Goes
<1>6. heap \in Heaps /\ Top(heap, trampoline)
    BY DEF Inv, Running, TypeOK, Heaps
<1>7. heap[a].items # <<>>
    OBVIOUS
<1>8. f[a] = heap[a]
    BY <1>5, <1>7 DEF Extends
<1>9. CASE g = f
    BY <1>4, <1>8, <1>9
<1>10. CASE \E v \in Values : g = Write(f, Redex.rt, Redex.rti, v)
    <2>1. PICK v \in Values : g = Write(f, Redex.rt, Redex.rti, v)
        BY <1>10
    <2>2. CASE a # Redex.rt
        <3>1. g[a] = f[a]
            BY <2>1, <2>2, <1>5 DEF Write, Heaps
        <3> QED
            BY <3>1, <1>4, <1>8
    <2>3. CASE a = Redex.rt
        <3> DEFINE s == Place(heap, trampoline)
        <3>1. heap[trampoline].rt # Nil
            BY <2>3, NoValueIsNil DEF Redex
        <3>2. IsPlace(heap, s) /\ Starved(heap, {}, s)
            BY <3>1, <1>6, TopFacts
        <3>3. s = <<s[1], s[2]>> /\ s[1] = a /\ s[2] = Redex.rti
            BY <2>3 DEF Place, Redex
        <3> HIDE DEF s
        <3>4. i # s[2]
            BY <3>2, <3>3, <1>6, StarvedIncomplete DEF Content
        <3>5. IsPlace(f, s)
            BY <3>2, <3>3, <1>8 DEF IsPlace
        <3>6. g = Write(f, s[1], s[2], v)
            BY <2>1, <2>3, <3>3
        <3>7. g[a].items[i] = f[a].items[i]
            BY <3>3, <3>4, <3>5, <3>6, <1>5, <1>8, WriteGives
        <3> QED
            BY <3>7, <1>4, <1>8
    <2> QED
        BY <2>2, <2>3
<1> QED
    BY <1>5, <1>9, <1>10

\* CompleteStays: for every program, no redex writes over a value that is
\* complete, though a handler is left with the place that what it abandons
\* has written, or was to write.
THEOREM NothingOverwritten == Spec => CompleteStays
<1> DEFINE Stays == \A a \in Addr : heap[a] # Free /\ heap'[a] # Free =>
                        \A i \in DOMAIN heap[a].items :
                            Complete(heap[a].items[i]) => heap'[a].items[i] = heap[a].items[i]
<1>1. Inv /\ [Next]_vars => [Stays]_vars
    <2> SUFFICES ASSUME Inv, [Next]_vars
                 PROVE  [Stays]_vars
        OBVIOUS
    <2>1. CASE ReduceResult
        BY <2>1 DEF ReduceResult
    <2>2. CASE Next /\ ~ReduceResult
        <3>1. trampoline # Nil
            BY <2>2, Reduces
        <3>2. Progress
            BY <2>2, <3>1, ReduceGoes DEF Inv, Going
        <3> QED
            BY <3>1, <3>2, ProgressStays
    <2>3. CASE UNCHANGED vars
        BY <2>3
    <2> QED
        BY <2>1, <2>2, <2>3
<1> QED
    BY <1>1, Invariant, PTL DEF Spec, CompleteStays

=============================================================================
