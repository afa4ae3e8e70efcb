---------------------------- MODULE EgelFrontProofs ----------------------------
(***************************************************************************)
(* Theorems of EgelLexer, for every text: no character is lost, lexemes    *)
(* are the longest ones, and the lexer ends; and of EgelOperators, for     *)
(* every operator: precedence is an order.                                 *)
(***************************************************************************)
EXTENDS EgelLexer, EgelOperators, EgelNumbers

-----------------------------------------------------------------------------
(* Sequences, whatever they are sequences of.                              *)

Elements(s) == {s[i] : i \in 1..Len(s)}

LEMMA IsSeq ==
    ASSUME NEW s, IsSequence(s)
    PROVE  s \in Seq(Elements(s))
BY DEF IsSequence, Elements

LEMMA SeqIs ==
    ASSUME NEW S, NEW s \in Seq(S)
    PROVE  IsSequence(s)
BY DEF IsSequence

LEMMA Slices ==
    ASSUME NEW s, IsSequence(s), NEW i \in 1..Len(s) + 1, NEW j \in Nat, i - 1 <= j, j <= Len(s)
    PROVE  /\ IsSequence(SubSeq(s, i, j))
           /\ Len(SubSeq(s, i, j)) = j - i + 1
           /\ \A k \in 1..j - i + 1 : SubSeq(s, i, j)[k] = s[i + k - 1]
<1>1. s \in Seq(Elements(s)) /\ Len(s) \in Nat
    BY IsSeq DEF IsSequence
<1>2. SubSeq(s, i, j) \in Seq(Elements(s))
    BY <1>1
<1>3. IsSequence(SubSeq(s, i, j))
    BY <1>2, SeqIs
<1>4. /\ Len(SubSeq(s, i, j)) = j - i + 1
      /\ \A k \in 1..j - i + 1 : SubSeq(s, i, j)[k] = s[i + k - 1]
    BY <1>1
<1> QED
    BY <1>3, <1>4

LEMMA SliceAfterSlice ==
    ASSUME NEW s, IsSequence(s), NEW i \in 1..Len(s) + 1, NEW j \in Nat, NEW k \in Nat,
           i - 1 <= j, j <= k, k <= Len(s)
    PROVE  SubSeq(s, i, j) \o SubSeq(s, j + 1, k) = SubSeq(s, i, k)
<1>1. s \in Seq(Elements(s)) /\ Len(s) \in Nat
    BY IsSeq DEF IsSequence
<1> QED
    BY <1>1

LEMMA Concatenation ==
    ASSUME NEW s, NEW t, IsSequence(s), IsSequence(t)
    PROVE  /\ IsSequence(s \o t)
           /\ Len(s \o t) = Len(s) + Len(t)
           /\ \A i \in 1..Len(s) : (s \o t)[i] = s[i]
           /\ \A i \in 1..Len(t) : (s \o t)[Len(s) + i] = t[i]
<1> DEFINE E == Elements(s) \cup Elements(t)
<1>1. s \in Seq(E) /\ t \in Seq(E)
    <2>1. s \in Seq(Elements(s)) /\ t \in Seq(Elements(t))
        BY IsSeq
    <2> QED
        BY <2>1
<1> HIDE DEF E
<1>2. s \o t \in Seq(E)
    BY <1>1
<1>3. IsSequence(s \o t)
    BY <1>2, SeqIs
<1>4. /\ Len(s \o t) = Len(s) + Len(t)
      /\ \A i \in 1..Len(s) : (s \o t)[i] = s[i]
      /\ \A i \in 1..Len(t) : (s \o t)[Len(s) + i] = t[i]
    BY <1>1
<1> QED
    BY <1>3, <1>4

LEMMA Appending ==
    ASSUME NEW s, NEW x, IsSequence(s)
    PROVE  /\ IsSequence(Append(s, x))
           /\ Len(Append(s, x)) = Len(s) + 1
           /\ \A i \in 1..Len(s) : Append(s, x)[i] = s[i]
           /\ Append(s, x)[Len(s) + 1] = x
<1> DEFINE E == Elements(s) \cup {x}
<1>1. s \in Seq(E) /\ x \in E
    <2>1. s \in Seq(Elements(s))
        BY IsSeq
    <2> QED
        BY <2>1
<1> HIDE DEF E
<1>2. Append(s, x) \in Seq(E)
    BY <1>1
<1>3. IsSequence(Append(s, x))
    BY <1>2, SeqIs
<1>4. /\ Len(Append(s, x)) = Len(s) + 1
      /\ \A i \in 1..Len(s) : Append(s, x)[i] = s[i]
      /\ Append(s, x)[Len(s) + 1] = x
    BY <1>1
<1> QED
    BY <1>3, <1>4

LEMMA Same ==
    ASSUME NEW s, NEW t, IsSequence(s), IsSequence(t), Len(s) = Len(t),
           \A i \in 1..Len(s) : s[i] = t[i]
    PROVE  s = t
<1>1. s = [i \in 1..Len(s) |-> s[i]] /\ t = [i \in 1..Len(t) |-> t[i]]
    BY DEF IsSequence
<1> QED
    BY <1>1

LEMMA EmptyText ==
    /\ "" = <<>>
    /\ \A s : IsSequence(s) => s \o "" = s /\ "" \o s = s
    /\ \A s : IsSequence(s) => (Len(s) = 0 <=> s = "")
<1>1. ASSUME NEW s, IsSequence(s), Len(s) = 0
      PROVE  s = <<>>
    BY <1>1 DEF IsSequence
<1>2. "" = <<>>
    BY <1>1, StringsAssumption
<1>3. ASSUME NEW s, IsSequence(s)
      PROVE  s \o <<>> = s /\ <<>> \o s = s
    <2>1. s \in Seq(Elements(s))
        BY <1>3, IsSeq
    <2> QED
        BY <2>1
<1>4. \A s : IsSequence(s) => s \o "" = s /\ "" \o s = s
    BY <1>2, <1>3
<1>5. \A s : IsSequence(s) => (Len(s) = 0 => s = "")
    BY <1>1, <1>2
<1>6. \A s : s = "" => Len(s) = 0
    BY StringsAssumption
<1> QED
    BY <1>2, <1>4, <1>5, <1>6

-----------------------------------------------------------------------------
(* Characters, and what the reader skips.                                  *)

LEMMA Character ==
    ASSUME IsSequence(text), NEW i \in Nat, i >= 1
    PROVE  /\ i <= Len(text) =>
                /\ Char(i) = SubSeq(text, i, i)
                /\ IsSequence(Char(i)) /\ Len(Char(i)) = 1 /\ Char(i)[1] = text[i]
                /\ Char(i) # ""
           /\ i > Len(text) => Char(i) = ""
<1>1. CASE i <= Len(text)
    <2>1. Len(text) \in Nat
        BY DEF IsSequence
    <2>2. /\ IsSequence(SubSeq(text, i, i))
          /\ Len(SubSeq(text, i, i)) = i - i + 1
          /\ \A k \in 1..i - i + 1 : SubSeq(text, i, i)[k] = text[i + k - 1]
        BY <1>1, <2>1, Slices
    <2>3. Char(i) = SubSeq(text, i, i)
        BY <1>1 DEF Char
    <2>4. Len(Char(i)) = 1
        BY <2>2, <2>3
    <2>5. Char(i)[1] = text[i]
        BY <2>2, <2>3
    <2>6. IsSequence(Char(i))
        BY <2>2, <2>3
    <2>7. Char(i) # ""
        <3>1. Len(Char(i)) # 0
            BY <2>4
        <3> QED
            BY <2>6, <3>1, EmptyText
    <2>8. ~(i > Len(text))
        BY <1>1, <2>1
    <2> QED
        BY <2>3, <2>4, <2>5, <2>6, <2>7, <2>8
<1>2. CASE i > Len(text)
    <2>1. ~(i <= Len(text))
        BY <1>2 DEF IsSequence
    <2>2. Char(i) = ""
        BY <2>1 DEF Char
    <2> QED
        BY <2>1, <2>2
<1>3. Len(text) \in Nat
    BY DEF IsSequence
<1> QED
    BY <1>1, <1>2, <1>3

\* A character of what was cut out of the text is one of the text.
LEMMA CharacterOfSlice ==
    ASSUME IsSequence(text), NEW i \in 1..Len(text) + 1, NEW j \in Nat, i - 1 <= j, j <= Len(text),
           NEW k \in 1..j - i + 1
    PROVE  SubSeq(SubSeq(text, i, j), k, k) = Char(i + k - 1)
<1> DEFINE u == SubSeq(text, i, j)
           c == SubSeq(u, k, k)
           l == i + k - 1
<1>1. Len(text) \in Nat /\ l \in Nat /\ l >= 1 /\ l <= Len(text)
    BY DEF IsSequence
<1>2. IsSequence(u) /\ Len(u) = j - i + 1 /\ u[k] = text[l]
    BY <1>1, Slices
<1>3. k \in 1..Len(u) + 1 /\ k \in Nat /\ k - 1 <= k /\ k <= Len(u) /\ 1 \in 1..k - k + 1
    BY <1>1, <1>2
<1> HIDE DEF u, l
<1>4. IsSequence(c) /\ Len(c) = k - k + 1 /\ c[1] = u[k + 1 - 1]
    BY <1>2, <1>3, Slices
<1>5. Len(c) = 1 /\ c[1] = u[k]
    BY <1>3, <1>4
<1>6. IsSequence(Char(l)) /\ Len(Char(l)) = 1 /\ Char(l)[1] = text[l]
    BY <1>1, Character
<1> HIDE DEF c
<1>7. c = Char(l)
    <2>1. \A n \in 1..Len(c) : c[n] = Char(l)[n]
        BY <1>2, <1>5, <1>6
    <2> QED
        BY <2>1, <1>4, <1>5, <1>6, Same
<1> QED
    BY <1>7 DEF c, u, l

LEMMA SpanIs ==
    ASSUME IsSequence(text), NEW i \in 1..Len(text) + 1, NEW class
    PROVE  LET n == Span(i, class)
           IN  /\ n \in i..Len(text) + 1
               /\ \A k \in i..n - 1 : Char(k) \in class
               /\ n <= Len(text) => Char(n) \notin class
<1> DEFINE T == {j \in i..(Len(text) + 1) : j > Len(text) \/ Char(j) \notin class}
<1>1. Len(text) \in Nat
    BY DEF IsSequence
<1>2. T \subseteq Nat /\ Len(text) + 1 \in T
    BY <1>1
<1>3. PICK n \in T : \A j \in T : n <= j
    BY <1>2, LeastNumber
<1>4. Span(i, class) = n
    <2>1. Min(T) = n
        <3> HIDE DEF T
        <3> QED
            BY <1>2, <1>3, MinIs
    <2> QED
        BY <2>1 DEF Span
<1>5. ASSUME NEW k \in i..n - 1
      PROVE  Char(k) \in class
    <2>1. k < n /\ k \in i..Len(text) + 1
        BY <1>1, <1>3
    <2>2. k \notin T
        BY <2>1, <1>1, <1>3
    <2> QED
        BY <2>1, <2>2
<1>6. n \in i..Len(text) + 1 /\ (n <= Len(text) => Char(n) \notin class)
    BY <1>1, <1>3
<1> QED
    BY <1>4, <1>5, <1>6

-----------------------------------------------------------------------------
(* Texts put together.                                                     *)

\* Kept folded, for the provers to take them as they are.
Nothing == ""
More(s, t) == s \o t

\* f[i] is the first i texts together.
Prefixes(tt, n, f) ==
    f = [i \in 0..n |-> IF i = 0 THEN Nothing ELSE More(f[i - 1], tt[i])]

LEMMA PrefixesAre ==
    ASSUME NEW tt, NEW n \in Nat, NEW f
    PROVE  Prefixes(tt, n, f) <=>
                /\ f = [i \in 0..n |-> f[i]]
                /\ f[0] = Nothing
                /\ \A i \in 1..n : f[i] = More(f[i - 1], tt[i])
<1>1. ASSUME Prefixes(tt, n, f)
      PROVE  /\ f = [i \in 0..n |-> f[i]]
             /\ f[0] = Nothing
             /\ \A i \in 1..n : f[i] = More(f[i - 1], tt[i])
    <2>1. \A i \in 0..n : f[i] = IF i = 0 THEN Nothing ELSE More(f[i - 1], tt[i])
        BY <1>1 DEF Prefixes
    <2>2. f = [i \in 0..n |-> f[i]]
        BY <1>1 DEF Prefixes
    <2>3. f[0] = Nothing
        <3>1. 0 \in 0..n
            OBVIOUS
        <3>2. f[0] = IF 0 = 0 THEN Nothing ELSE More(f[0 - 1], tt[0])
            BY <2>1, <3>1
        <3> QED
            BY <3>2
    <2>4. ASSUME NEW i \in 1..n
          PROVE  f[i] = More(f[i - 1], tt[i])
        <3>1. i \in 0..n /\ i # 0
            OBVIOUS
        <3>2. f[i] = IF i = 0 THEN Nothing ELSE More(f[i - 1], tt[i])
            BY <2>1, <3>1
        <3> QED
            BY <3>1, <3>2
    <2> QED
        BY <2>2, <2>3, <2>4
<1>2. ASSUME /\ f = [i \in 0..n |-> f[i]]
             /\ f[0] = Nothing
             /\ \A i \in 1..n : f[i] = More(f[i - 1], tt[i])
      PROVE  Prefixes(tt, n, f)
    <2>1. \A i \in 0..n : i # 0 => i \in 1..n
        OBVIOUS
    <2>2. \A i \in 0..n : f[i] = IF i = 0 THEN Nothing ELSE More(f[i - 1], tt[i])
        BY <2>1, <1>2
    <2> QED
        BY <2>2, <1>2 DEF Prefixes
<1> QED
    BY <1>1, <1>2

LEMMA PrefixesExist ==
    ASSUME NEW tt, NEW n \in Nat
    PROVE  \E f : Prefixes(tt, n, f)
<1> DEFINE T == {k \in 0..n : \E f : Prefixes(tt, k, f)}
<1>1. 0 \in T
    <2> DEFINE f == [i \in 0..0 |-> Nothing]
    <2>1. /\ f = [i \in 0..0 |-> f[i]]
          /\ f[0] = Nothing
          /\ \A i \in 1..0 : f[i] = More(f[i - 1], tt[i])
        OBVIOUS
    <2> HIDE DEF f
    <2>2. Prefixes(tt, 0, f)
        BY <2>1, PrefixesAre
    <2> QED
        BY <2>2
<1>2. ASSUME NEW k \in 0..n, k \in T, k < n
      PROVE  k + 1 \in T
    <2>1. PICK f : Prefixes(tt, k, f)
        BY <1>2
    <2>2. /\ f[0] = Nothing
          /\ \A i \in 1..k : f[i] = More(f[i - 1], tt[i])
        <3>1. k \in Nat
            OBVIOUS
        <3> QED
            BY <2>1, <3>1, PrefixesAre
    <2> DEFINE g == [i \in 0..k + 1 |-> IF i <= k THEN f[i] ELSE More(f[k], tt[k + 1])]
    <2>3. /\ g = [i \in 0..k + 1 |-> g[i]]
          /\ g[k + 1] = More(f[k], tt[k + 1])
          /\ \A i \in 0..k : g[i] = f[i]
        <3>1. k + 1 \in 0..k + 1 /\ ~(k + 1 <= k)
            OBVIOUS
        <3>2. \A i \in 0..k : i \in 0..k + 1 /\ i <= k
            OBVIOUS
        <3>3. g[k + 1] = More(f[k], tt[k + 1])
            BY <3>1
        <3>4. \A i \in 0..k : g[i] = f[i]
            BY <3>2
        <3>5. g = [i \in 0..k + 1 |-> g[i]]
            OBVIOUS
        <3> QED
            BY <3>3, <3>4, <3>5
    <2> HIDE DEF g
    <2>4. g[0] = Nothing
        <3>1. 0 \in 0..k
            OBVIOUS
        <3> QED
            BY <2>2, <2>3, <3>1
    <2>5. ASSUME NEW i \in 1..k + 1
          PROVE  g[i] = More(g[i - 1], tt[i])
        <3>1. CASE i = k + 1
            <4>1. i - 1 = k /\ k \in 0..k
                BY <3>1
            <4> QED
                BY <3>1, <4>1, <2>3
        <3>2. CASE i # k + 1
            <4>1. i \in 1..k /\ i \in 0..k /\ i - 1 \in 0..k
                BY <3>2
            <4> QED
                BY <4>1, <2>2, <2>3
        <3> QED
            BY <3>1, <3>2
    <2>6. k + 1 \in Nat /\ k + 1 \in 0..n
        BY <1>2
    <2>7. Prefixes(tt, k + 1, g)
        BY <2>3, <2>4, <2>5, <2>6, PrefixesAre
    <2> QED
        BY <2>6, <2>7
<1>3. 0..n \subseteq T
    <2> HIDE DEF T
    <2>1. 0 \in Int /\ n \in Int
        OBVIOUS
    <2> QED
        BY <2>1, <1>1, <1>2, Upwards
<1>4. n \in T
    BY <1>3
<1> QED
    BY <1>4

Begins(tt, uu, n) == \A i \in 1..n : tt[i] = uu[i]

LEMMA PrefixesAgree ==
    ASSUME NEW tt, NEW uu, NEW n \in Nat, NEW m \in Nat, n <= m,
           Begins(tt, uu, n),
           NEW f, Prefixes(tt, n, f), NEW g, Prefixes(uu, m, g)
    PROVE  f[n] = g[n]
<1> DEFINE T == {k \in 0..n : f[k] = g[k]}
<1>1. /\ f[0] = Nothing /\ g[0] = Nothing
      /\ \A i \in 1..n : f[i] = More(f[i - 1], tt[i])
      /\ \A i \in 1..m : g[i] = More(g[i - 1], uu[i])
    <2>1. f[0] = Nothing /\ \A i \in 1..n : f[i] = More(f[i - 1], tt[i])
        BY PrefixesAre
    <2>2. g[0] = Nothing /\ \A i \in 1..m : g[i] = More(g[i - 1], uu[i])
        BY PrefixesAre
    <2> QED
        BY <2>1, <2>2
<1>2. 0 \in T
    <2>1. f[0] = g[0] /\ 0 \in 0..n
        BY <1>1
    <2> QED
        BY <2>1
<1>3. ASSUME NEW k \in 0..n, k \in T, k < n
      PROVE  k + 1 \in T
    <2>1. k + 1 \in 1..n /\ k + 1 \in 1..m /\ k + 1 \in 0..n /\ k + 1 - 1 = k
        BY <1>3
    <2>2. f[k + 1] = More(f[k], tt[k + 1]) /\ g[k + 1] = More(g[k], uu[k + 1])
        <3>1. f[k + 1] = More(f[k + 1 - 1], tt[k + 1])
            BY <2>1, <1>1
        <3>2. g[k + 1] = More(g[k + 1 - 1], uu[k + 1])
            BY <2>1, <1>1
        <3> QED
            BY <2>1, <3>1, <3>2
    <2>3. f[k] = g[k] /\ tt[k + 1] = uu[k + 1]
        BY <2>1, <1>3 DEF Begins
    <2> QED
        BY <2>1, <2>2, <2>3
<1>4. 0..n \subseteq T
    <2> HIDE DEF T
    <2>1. 0 \in Int /\ n \in Int
        OBVIOUS
    <2> QED
        BY <2>1, <1>2, <1>3, Upwards
<1>5. n \in T
    BY <1>4
<1> QED
    BY <1>5

LEMMA PrefixesGrow ==
    ASSUME NEW tt, NEW uu, NEW n \in Nat, NEW m \in Nat, m = n + 1,
           Begins(tt, uu, n),
           NEW f, Prefixes(tt, n, f), NEW g, Prefixes(uu, m, g)
    PROVE  g[m] = More(f[n], uu[m])
<1>1. n <= m /\ m \in 1..m /\ m - 1 = n
    OBVIOUS
<1>2. f[n] = g[n]
    BY <1>1, PrefixesAgree
<1>3. \A i \in 1..m : g[i] = More(g[i - 1], uu[i])
    BY PrefixesAre
<1>4. g[m] = More(g[m - 1], uu[m])
    BY <1>1, <1>3
<1> QED
    BY <1>1, <1>2, <1>4

LEMMA TogetherIs ==
    ASSUME NEW tt, IsSequence(tt)
    PROVE  \E f : Prefixes(tt, Len(tt), f) /\ Together(tt) = f[Len(tt)]
<1> DEFINE f == CHOOSE g : Prefixes(tt, Len(tt), g)
<1>1. Len(tt) \in Nat
    BY DEF IsSequence
<1>2. \E g : Prefixes(tt, Len(tt), g)
    BY <1>1, PrefixesExist
<1>3. Prefixes(tt, Len(tt), f)
    BY <1>2
<1>4. Together(tt) = f[Len(tt)]
    BY DEF Together, Prefixes, Nothing, More
<1> HIDE DEF f
<1> QED
    BY <1>3, <1>4

LEMMA TogetherNone == Together(<<>>) = ""
<1>1. IsSequence(<<>>) /\ Len(<<>>) = 0
    BY DEF IsSequence
<1>2. PICK f : Prefixes(<<>>, 0, f) /\ Together(<<>>) = f[0]
    BY <1>1, TogetherIs
<1>3. f[0] = Nothing
    BY <1>2, PrefixesAre
<1> QED
    BY <1>2, <1>3 DEF Nothing

\* One more text.
LEMMA TogetherGrows ==
    ASSUME NEW tt, IsSequence(tt), NEW t
    PROVE  Together(Append(tt, t)) = Together(tt) \o t
<1> DEFINE uu == Append(tt, t)
           n == Len(tt)
           m == n + 1
<1>1. /\ IsSequence(uu) /\ Len(uu) = m /\ n \in Nat /\ m \in Nat /\ m = n + 1
      /\ Begins(tt, uu, n)
      /\ uu[m] = t
    BY Appending DEF IsSequence, Begins
<1>2. PICK f : Prefixes(tt, n, f) /\ Together(tt) = f[n]
    BY TogetherIs
<1> HIDE DEF uu, n, m
<1>3. PICK g : Prefixes(uu, m, g) /\ Together(uu) = g[m]
    BY <1>1, TogetherIs
<1>4. g[m] = More(f[n], uu[m])
    BY <1>1, <1>2, <1>3, PrefixesGrow
<1> QED
    BY <1>1, <1>2, <1>3, <1>4 DEF uu, More

LEMMA TogetherSequence ==
    ASSUME NEW tt, IsSequence(tt), \A i \in 1..Len(tt) : IsSequence(tt[i])
    PROVE  IsSequence(Together(tt))
<1>1. PICK f : Prefixes(tt, Len(tt), f) /\ Together(tt) = f[Len(tt)]
    BY TogetherIs
<1>2. Len(tt) \in Nat
    BY DEF IsSequence
<1> DEFINE n == Len(tt)
           T == {k \in 0..n : IsSequence(f[k])}
<1>3. f[0] = Nothing /\ \A i \in 1..n : f[i] = More(f[i - 1], tt[i])
    BY <1>1, <1>2, PrefixesAre
<1>4. 0 \in T
    <2>1. IsSequence(Nothing)
        BY StringsAssumption DEF Nothing
    <2>2. 0 \in 0..n
        BY <1>2
    <2> QED
        BY <2>1, <2>2, <1>3
<1>5. ASSUME NEW k \in 0..n, k \in T, k < n
      PROVE  k + 1 \in T
    <2>1. k + 1 \in 1..n /\ k + 1 \in 0..n /\ k + 1 - 1 = k
        BY <1>2, <1>5
    <2>2. f[k + 1] = More(f[k + 1 - 1], tt[k + 1])
        BY <2>1, <1>3
    <2>3. IsSequence(f[k]) /\ IsSequence(tt[k + 1])
        BY <2>1, <1>5
    <2>4. IsSequence(More(f[k], tt[k + 1]))
        BY <2>3, Concatenation DEF More
    <2> QED
        BY <2>1, <2>2, <2>4
<1>6. n \in T
    <2> HIDE DEF T
    <2>1. 0 \in Int /\ n \in Int /\ n \in 0..n
        BY <1>2
    <2>2. 0..n \subseteq T
        BY <2>1, <1>4, <1>5, Upwards
    <2> QED
        BY <2>1, <2>2
<1> QED
    BY <1>1, <1>6

\* One more token.
LEMMA WrittenGrows ==
    ASSUME NEW tt, IsSequence(tt), NEW t
    PROVE  Written(Append(tt, t)) = Written(tt) \o Spelling(t)
<1> DEFINE Spelt(uu) == [i \in 1..Len(uu) |-> Spelling(uu[i])]
           uu == Append(tt, t)
<1>1. /\ IsSequence(uu) /\ Len(uu) = Len(tt) + 1 /\ Len(tt) \in Nat
      /\ \A i \in 1..Len(tt) : uu[i] = tt[i]
      /\ uu[Len(tt) + 1] = t
    BY Appending DEF IsSequence
<1> HIDE DEF uu
<1>2. ASSUME NEW vv, Len(vv) \in Nat
      PROVE  IsSequence(Spelt(vv)) /\ Len(Spelt(vv)) = Len(vv)
    BY <1>2 DEF IsSequence
<1>3. Spelt(uu) = Append(Spelt(tt), Spelling(t))
    <2>1. /\ IsSequence(Append(Spelt(tt), Spelling(t)))
          /\ Len(Append(Spelt(tt), Spelling(t))) = Len(tt) + 1
          /\ \A i \in 1..Len(tt) : Append(Spelt(tt), Spelling(t))[i] = Spelt(tt)[i]
          /\ Append(Spelt(tt), Spelling(t))[Len(tt) + 1] = Spelling(t)
        <3> HIDE DEF Spelt
        <3> QED
            BY <1>1, <1>2, Appending
    <2>2. IsSequence(Spelt(uu)) /\ Len(Spelt(uu)) = Len(tt) + 1
        BY <1>1, <1>2
    <2>3. ASSUME NEW i \in 1..Len(tt) + 1
          PROVE  Spelt(uu)[i] = Append(Spelt(tt), Spelling(t))[i]
        <3>1. Spelt(uu)[i] = Spelling(uu[i])
            BY <1>1
        <3>2. CASE i = Len(tt) + 1
            BY <3>1, <3>2, <2>1, <1>1
        <3>3. CASE i # Len(tt) + 1
            <4>1. i \in 1..Len(tt)
                BY <3>3, <1>1
            <4>2. Spelt(tt)[i] = Spelling(tt[i])
                BY <4>1
            <4> QED
                BY <4>1, <4>2, <3>1, <2>1, <1>1
        <3> QED
            BY <3>2, <3>3
    <2> HIDE DEF Spelt
    <2> QED
        BY <2>1, <2>2, <2>3, Same
<1>4. IsSequence(Spelt(tt))
    BY <1>1, <1>2
<1>5. Written(uu) = Together(Spelt(uu)) /\ Written(tt) = Together(Spelt(tt))
    BY DEF Written
<1> HIDE DEF Spelt
<1>6. Together(Append(Spelt(tt), Spelling(t))) = Together(Spelt(tt)) \o Spelling(t)
    BY <1>4, TogetherGrows
<1> QED
    BY <1>3, <1>5, <1>6 DEF uu

LEMMA WrittenNone == Written(<<>>) = ""
<1>1. [i \in 1..Len(<<>>) |-> Spelling(<<>>[i])] = <<>>
    OBVIOUS
<1> QED
    BY <1>1, TogetherNone DEF Written

-----------------------------------------------------------------------------
(* What the reader takes, a slice of the text.                             *)

\* The characters from i to j - 1.
Part(i, j) == SubSeq(text, i, j - 1)

LEMMA PartIs ==
    ASSUME IsSequence(text), NEW i \in 1..Len(text) + 1, NEW j \in i..Len(text) + 1
    PROVE  /\ IsSequence(Part(i, j))
           /\ Len(Part(i, j)) = j - i
           /\ \A k \in i..j - 1 : SubSeq(Part(i, j), k - i + 1, k - i + 1) = Char(k)
           /\ i < j => SubSeq(Part(i, j), 1, 1) = Char(i)
           /\ i < j => SubSeq(Part(i, j), Len(Part(i, j)), Len(Part(i, j))) = Char(j - 1)
<1>1. /\ Len(text) \in Nat /\ j - 1 \in Nat /\ i - 1 <= j - 1 /\ j - 1 <= Len(text)
      /\ i \in Nat /\ i >= 1 /\ (j - 1) - i + 1 = j - i
    BY DEF IsSequence
<1>2. IsSequence(Part(i, j)) /\ Len(Part(i, j)) = j - i
    BY <1>1, Slices DEF Part
<1>3. ASSUME NEW k \in i..j - 1
      PROVE  SubSeq(Part(i, j), k - i + 1, k - i + 1) = Char(k)
    <2>1. k - i + 1 \in 1..(j - 1) - i + 1 /\ i + (k - i + 1) - 1 = k
        BY <1>1
    <2> QED
        BY <1>1, <2>1, CharacterOfSlice DEF Part
<1>4. ASSUME i < j
      PROVE  SubSeq(Part(i, j), 1, 1) = Char(i)
    <2>1. i \in i..j - 1 /\ i - i + 1 = 1
        BY <1>1, <1>4
    <2> QED
        BY <2>1, <1>3
<1>5. ASSUME i < j
      PROVE  SubSeq(Part(i, j), Len(Part(i, j)), Len(Part(i, j))) = Char(j - 1)
    <2>1. j - 1 \in i..j - 1 /\ (j - 1) - i + 1 = Len(Part(i, j))
        BY <1>1, <1>2, <1>5
    <2> QED
        BY <2>1, <1>3
<1> QED
    BY <1>2, <1>3, <1>4, <1>5

LEMMA AllInPart ==
    ASSUME IsSequence(text), NEW i \in 1..Len(text) + 1, NEW j \in i..Len(text) + 1, NEW class
    PROVE  AllIn(Part(i, j), class) <=> \A k \in i..j - 1 : Char(k) \in class
<1> DEFINE s == Part(i, j)
<1>1. /\ Len(s) = j - i
      /\ \A k \in i..j - 1 : SubSeq(s, k - i + 1, k - i + 1) = Char(k)
    BY PartIs
<1>2. i \in Int /\ j \in Int
    BY DEF IsSequence
<1> HIDE DEF s
<1>3. ASSUME AllIn(s, class), NEW k \in i..j - 1
      PROVE  Char(k) \in class
    <2>1. k - i + 1 \in 1..Len(s)
        BY <1>1, <1>2
    <2>2. SubSeq(s, k - i + 1, k - i + 1) \in Chars(s)
        BY <2>1 DEF Chars
    <2> QED
        BY <2>2, <1>1, <1>3 DEF AllIn
<1>4. ASSUME \A k \in i..j - 1 : Char(k) \in class, NEW l \in 1..Len(s)
      PROVE  SubSeq(s, l, l) \in class
    <2>1. i + l - 1 \in i..j - 1 /\ (i + l - 1) - i + 1 = l
        BY <1>1, <1>2
    <2> QED
        BY <2>1, <1>1, <1>4
<1>5. (\A l \in 1..Len(s) : SubSeq(s, l, l) \in class) => AllIn(s, class)
    BY DEF AllIn, Chars
<1> QED
    BY <1>3, <1>4, <1>5 DEF s

\* With the character after it, it is a longer part.
LEMMA PartLonger ==
    ASSUME IsSequence(text), NEW i \in 1..Len(text) + 1, NEW j \in i..Len(text)
    PROVE  Part(i, j) \o Char(j) = Part(i, j + 1)
<1>1. /\ Len(text) \in Nat /\ j \in Nat /\ j - 1 \in Nat /\ i - 1 <= j - 1 /\ j - 1 <= j
      /\ j <= Len(text) /\ j >= 1 /\ j - 1 + 1 = j /\ j + 1 - 1 = j
    BY DEF IsSequence
<1>2. SubSeq(text, i, j - 1) \o SubSeq(text, j - 1 + 1, j) = SubSeq(text, i, j)
    BY <1>1, SliceAfterSlice
<1>3. Char(j) = SubSeq(text, j, j)
    BY <1>1, Character
<1> QED
    BY <1>1, <1>2, <1>3 DEF Part

LEMMA PartOfPart ==
    ASSUME IsSequence(text), NEW i \in 1..Len(text) + 1, NEW j \in i..Len(text) + 1,
           NEW k \in i..j, NEW l \in k..j
    PROVE  SubSeq(Part(i, j), k - i + 1, l - i) = Part(k, l)
<1> DEFINE s == Part(i, j)
           m == k - i + 1
           n == l - i
<1>1. /\ Len(text) \in Nat /\ i \in Nat /\ j \in Nat /\ k \in Nat /\ l \in Nat
      /\ 1 <= i /\ i <= k /\ k <= l /\ l <= j /\ j <= Len(text) + 1
    BY DEF IsSequence
<1>2. IsSequence(s) /\ Len(s) = j - i
    BY PartIs
<1>3. \A x \in 1..j - i : s[x] = text[i + x - 1]
    <2>1. j - 1 \in Nat /\ i - 1 <= j - 1 /\ j - 1 <= Len(text) /\ (j - 1) - i + 1 = j - i
        BY <1>1
    <2> QED
        BY <2>1, Slices DEF Part
<1> HIDE DEF s
<1>4. /\ IsSequence(SubSeq(s, m, n)) /\ Len(SubSeq(s, m, n)) = l - k
      /\ \A x \in 1..l - k : SubSeq(s, m, n)[x] = s[m + x - 1]
    <2>1. m \in 1..Len(s) + 1 /\ n \in Nat /\ m - 1 <= n /\ n <= Len(s) /\ n - m + 1 = l - k
        BY <1>1, <1>2
    <2> HIDE DEF m, n
    <2> QED
        BY <2>1, <1>2, Slices
<1>5. /\ IsSequence(Part(k, l)) /\ Len(Part(k, l)) = l - k
      /\ \A x \in 1..l - k : Part(k, l)[x] = text[k + x - 1]
    <2>1. /\ k \in 1..Len(text) + 1 /\ l - 1 \in Nat /\ k - 1 <= l - 1 /\ l - 1 <= Len(text)
          /\ (l - 1) - k + 1 = l - k
        BY <1>1
    <2> QED
        BY <2>1, Slices DEF Part
<1>6. ASSUME NEW x \in 1..l - k
      PROVE  SubSeq(s, m, n)[x] = Part(k, l)[x]
    <2>1. m + x - 1 \in 1..j - i /\ i + (m + x - 1) - 1 = k + x - 1
        BY <1>1
    <2>2. s[m + x - 1] = text[i + (m + x - 1) - 1]
        BY <2>1, <1>3
    <2>3. SubSeq(s, m, n)[x] = s[m + x - 1] /\ Part(k, l)[x] = text[k + x - 1]
        BY <1>4, <1>5
    <2> QED
        BY <2>1, <2>2, <2>3
<1> HIDE DEF m, n
<1>7. SubSeq(s, m, n) = Part(k, l)
    <2>1. Len(SubSeq(s, m, n)) = Len(Part(k, l))
        BY <1>4, <1>5
    <2>2. \A x \in 1..Len(SubSeq(s, m, n)) : SubSeq(s, m, n)[x] = Part(k, l)[x]
        BY <1>4, <1>6
    <2> QED
        BY <2>1, <2>2, <1>4, <1>5, Same
<1> QED
    BY <1>7 DEF s, m, n

-----------------------------------------------------------------------------
(* What one lexeme is.                                                     *)

Maximal == {"whitespace", "integer", "operator", "uppercase"}
Described == Maximal \cup {"lowercase", "float", "imaginary"}

LEMMA LexemeIs ==
    ASSUME NEW s
    PROVE  /\ Lexeme("whitespace", s) <=> AllIn(s, Whitespace)
           /\ Lexeme("operator", s) <=> AllIn(s, OperatorChars)
           /\ Lexeme("uppercase", s) <=> SubSeq(s, 1, 1) \in Uppercase /\ AllIn(s, Letters)
           /\ Lexeme("lowercase", s) <=>
                \/ SubSeq(s, 1, 1) \in Lowercase /\ AllIn(s, Letters)
                \/ s = "_" \/ s \in MathChars
           /\ Lexeme("integer", s) <=>
                \/ Digital(Unsigned(s))
                \/ /\ Len(s) > 2 /\ SubSeq(s, 1, 1) = "0" /\ SubSeq(s, 2, 2) = "x"
                   /\ AllIn(SubSeq(s, 3, Len(s)), HexDigits)
           /\ \A tag : tag \notin Described => Lexeme(tag, s)
<1>1. Lexeme("whitespace", s) <=> AllIn(s, Whitespace)
    BY DEF Lexeme
<1>2. Lexeme("operator", s) <=> AllIn(s, OperatorChars)
    BY DEF Lexeme
<1>3. Lexeme("uppercase", s) <=> SubSeq(s, 1, 1) \in Uppercase /\ AllIn(s, Letters)
    BY DEF Lexeme
<1>4. Lexeme("lowercase", s) <=>
        \/ SubSeq(s, 1, 1) \in Lowercase /\ AllIn(s, Letters)
        \/ s = "_" \/ s \in MathChars
    BY DEF Lexeme
<1>5. Lexeme("integer", s) <=>
        \/ Digital(Unsigned(s))
        \/ /\ Len(s) > 2 /\ SubSeq(s, 1, 1) = "0" /\ SubSeq(s, 2, 2) = "x"
           /\ AllIn(SubSeq(s, 3, Len(s)), HexDigits)
    BY DEF Lexeme
<1>6. ASSUME NEW tag, tag \notin Described
      PROVE  Lexeme(tag, s)
    BY <1>6 DEF Lexeme, Described, Maximal
<1> QED
    BY <1>1, <1>2, <1>3, <1>4, <1>5, <1>6

\* What a float or an imaginary number is.
Fraction(s, tag) ==
    /\ AllIn(s, Digits \cup {".", "-"} \cup Exponent \cup Imaginary)
    /\ \E i \in 2..Len(Unsigned(s)) :
        Digital(SubSeq(Unsigned(s), 1, i - 1)) /\ SubSeq(Unsigned(s), i, i) = "."
    /\ (tag = "imaginary") = (SubSeq(s, Len(s), Len(s)) \in Imaginary)

LEMMA FractionIs ==
    ASSUME NEW s, NEW tag \in {"float", "imaginary"}
    PROVE  Lexeme(tag, s) <=> Fraction(s, tag)
<1>1. tag \notin {"whitespace", "integer", "operator", "uppercase", "lowercase"}
    OBVIOUS
<1> QED
    BY <1>1 DEF Lexeme, Fraction

-----------------------------------------------------------------------------
(* One lexeme is taken.                                                    *)

\* Where the reader is.
Placed == IsSequence(text) /\ at \in 1..Len(text) + 1

LEMMA PlacedIs ==
    ASSUME Placed
    PROVE  /\ IsSequence(text) /\ Len(text) \in Nat
           /\ at \in Nat /\ at >= 1 /\ at <= Len(text) + 1
<1>1. IsSequence(text) /\ Len(text) \in Nat /\ at \in 1..Len(text) + 1
    BY DEF Placed, IsSequence
<1> QED
    BY <1>1

LEMMA ReadingIs ==
    ASSUME Placed, Reading
    PROVE  lexing = "reading" /\ at <= Len(text)
<1>1. Len(text) \in Nat /\ at \in Nat
    BY PlacedIs
<1> QED
    BY <1>1 DEF Reading, End

LoneMinus == Token("integer", "-")

\* What every branch of the loop does that does not fail: a token that begins
\* with the character at the reader, and ends before the next character; it
\* is a lexeme, and if its tag says all it is the longest one.
Takes(t) ==
    /\ lexing = "reading" /\ at <= Len(text)
    /\ at' \in at + 1..Len(text) + 1
    /\ tokens' = Append(tokens, t)
    /\ UNCHANGED <<text, lexing>>
    /\ t.tag # "eof"
    /\ SubSeq(t.text, 1, 1) = Look
    /\ ~Multiline => t.text = Part(at, at')
    /\ Lexeme(t.tag, t.text) \/ (t = LoneMinus /\ at' > Len(text))
    /\ at' <= Len(text) /\ t.tag \in Maximal => ~Lexeme(t.tag, t.text \o Char(at'))

LEMMA Taking ==
    ASSUME Placed, Reading, NEW tag, NEW next \in at + 1..Len(text) + 1,
           Take(tag, next), tag # "eof",
           \/ Lexeme(tag, Part(at, next))
           \/ tag = "integer" /\ Part(at, next) = "-" /\ next > Len(text),
           next <= Len(text) /\ tag \in Maximal => ~Lexeme(tag, Part(at, next + 1))
    PROVE  \E t : Takes(t)
<1> DEFINE s == Part(at, next)
           t == Token(tag, s)
<1>1. /\ Len(text) \in Nat /\ at \in Nat /\ at \in 1..Len(text) + 1 /\ next \in Nat
      /\ at < next /\ next \in at..Len(text) + 1 /\ IsSequence(text)
      /\ lexing = "reading" /\ at <= Len(text)
    BY DEF Placed, IsSequence, Reading, End
<1>2. t.tag = tag /\ t.text = s
    BY DEF Token
<1>3. tokens' = Append(tokens, t) /\ at' = next /\ UNCHANGED <<text, lexing>>
    BY DEF Take, Part
<1>4. SubSeq(s, 1, 1) = Look
    BY <1>1, PartIs DEF Look
<1>5. Lexeme(tag, s) \/ (t = LoneMinus /\ at' > Len(text))
    BY <1>3 DEF LoneMinus
<1>6. ASSUME at' <= Len(text), tag \in Maximal
      PROVE  ~Lexeme(tag, s \o Char(at'))
    <2>1. next \in at..Len(text) /\ at' = next
        BY <1>1, <1>3, <1>6
    <2>2. s \o Char(next) = Part(at, next + 1)
        BY <1>1, <2>1, PartLonger
    <2> QED
        BY <2>1, <2>2, <1>6
<1>7. at' \in at + 1..Len(text) + 1 /\ t.text = Part(at, at')
    BY <1>2, <1>3
<1> HIDE DEF t, s
<1> QED
    BY <1>1, <1>2, <1>3, <1>4, <1>5, <1>6, <1>7 DEF Takes

\* Lexemes that are all of one class.
LEMMA TakingSpan ==
    ASSUME Placed, Reading, NEW class, Look \in class, NEW next, next = Span(at, class)
    PROVE  /\ next \in at + 1..Len(text) + 1
           /\ AllIn(Part(at, next), class)
           /\ next <= Len(text) => ~AllIn(Part(at, next + 1), class)
           /\ SubSeq(Part(at, next), 1, 1) = Look
<1>1. /\ Len(text) \in Nat /\ at \in Nat /\ at \in 1..Len(text) + 1
      /\ at <= Len(text) /\ IsSequence(text)
    BY DEF Placed, IsSequence, Reading, End
<1>2. /\ next \in at..Len(text) + 1
      /\ \A k \in at..next - 1 : Char(k) \in class
      /\ next <= Len(text) => Char(next) \notin class
    BY <1>1, SpanIs
<1>3. next # at
    BY <1>1, <1>2 DEF Look
<1>4. next \in at + 1..Len(text) + 1 /\ at < next
    BY <1>1, <1>2, <1>3
<1>5. AllIn(Part(at, next), class)
    BY <1>1, <1>2, AllInPart
<1>6. ASSUME next <= Len(text)
      PROVE  ~AllIn(Part(at, next + 1), class)
    <2>1. next + 1 \in at..Len(text) + 1 /\ next \in at..(next + 1) - 1
        BY <1>1, <1>4, <1>6
    <2>2. Char(next) \notin class
        BY <1>2, <1>6
    <2> QED
        BY <1>1, <2>1, <2>2, AllInPart
<1>7. SubSeq(Part(at, next), 1, 1) = Look
    BY <1>1, <1>2, <1>4, PartIs DEF Look
<1> QED
    BY <1>4, <1>5, <1>6, <1>7

LEMMA WhitespaceTakes == ASSUME Placed, LexWhitespace PROVE \E t : Takes(t)
<1> DEFINE next == Span(at, Whitespace)
<1>1. Reading /\ Look \in Whitespace /\ Take("whitespace", next)
    BY DEF LexWhitespace
<1>2. /\ next \in at + 1..Len(text) + 1
      /\ AllIn(Part(at, next), Whitespace)
      /\ next <= Len(text) => ~AllIn(Part(at, next + 1), Whitespace)
    BY <1>1, TakingSpan
<1> HIDE DEF next
<1> QED
    BY <1>1, <1>2, LexemeIs, Taking

LEMMA OperatorTakes ==
    ASSUME Placed, NEW garbage \in Garbage, LexOperator(garbage) PROVE \E t : Takes(t)
<1> DEFINE next == Span(at, OperatorChars)
<1>1. Reading /\ Look \in OperatorChars /\ Take("operator", next)
    BY DEF LexOperator
<1>2. /\ next \in at + 1..Len(text) + 1
      /\ AllIn(Part(at, next), OperatorChars)
      /\ next <= Len(text) => ~AllIn(Part(at, next + 1), OperatorChars)
    BY <1>1, TakingSpan
<1> HIDE DEF next
<1> QED
    BY <1>1, <1>2, LexemeIs, Taking

LEMMA UppercaseTakes == ASSUME Placed, LexUppercase PROVE \E t : Takes(t)
<1> DEFINE next == Span(at, Letters)
<1>1. Reading /\ Look \in Uppercase /\ Look \in Letters /\ Take("uppercase", next)
    BY DEF LexUppercase, Letters
<1>2. /\ next \in at + 1..Len(text) + 1
      /\ AllIn(Part(at, next), Letters)
      /\ next <= Len(text) => ~AllIn(Part(at, next + 1), Letters)
      /\ SubSeq(Part(at, next), 1, 1) = Look
    BY <1>1, TakingSpan
<1> HIDE DEF next
<1>3. Lexeme("uppercase", Part(at, next))
    BY <1>1, <1>2, LexemeIs
<1>4. next <= Len(text) => ~Lexeme("uppercase", Part(at, next + 1))
    BY <1>2, LexemeIs
<1> QED
    BY <1>1, <1>2, <1>3, <1>4, Taking

LEMMA LowercaseTakes == ASSUME Placed, LexLowercase PROVE \E t : Takes(t)
<1> DEFINE next == Span(at, Letters)
<1>1. Reading /\ Look \in Lowercase /\ Look \in Letters /\ Take("lowercase", next)
    BY DEF LexLowercase, Letters
<1>2. /\ next \in at + 1..Len(text) + 1
      /\ AllIn(Part(at, next), Letters)
      /\ SubSeq(Part(at, next), 1, 1) = Look
    BY <1>1, TakingSpan
<1> HIDE DEF next
<1>3. Lexeme("lowercase", Part(at, next))
    BY <1>1, <1>2, LexemeIs
<1> QED
    BY <1>1, <1>2, <1>3, Taking DEF Maximal

\* A lexeme of which only the tag matters.
LEMMA TakingAny ==
    ASSUME Placed, Reading, NEW tag, tag \notin Described, tag # "eof",
           NEW next \in at + 1..Len(text) + 1, Take(tag, next)
    PROVE  \E t : Takes(t)
<1>1. Lexeme(tag, Part(at, next)) /\ tag \notin Maximal
    BY LexemeIs DEF Described
<1> QED
    BY <1>1, Taking

\* A lexeme of one character.
LEMMA TakingOne ==
    ASSUME Placed, Reading
    PROVE  Part(at, at + 1) = Look /\ at + 1 \in at + 1..Len(text) + 1
<1>1. Len(text) \in Nat /\ at \in Nat /\ at <= Len(text)
    BY PlacedIs, ReadingIs
<1>2. Look = SubSeq(text, at, at)
    BY <1>1 DEF Look, Char
<1>3. at + 1 - 1 = at
    BY <1>1
<1>4. at + 1 \in at + 1..Len(text) + 1
    BY <1>1
<1>5. Part(at, at + 1) = Look
    BY <1>1, <1>2, <1>3 DEF Part
<1> QED
    BY <1>4, <1>5

LEMMA OneTakes ==
    ASSUME Placed, LexMath \/ LexUnderscore
    PROVE  \E t : Takes(t)
<1>1. Reading /\ (Look \in MathChars \/ Look = "_") /\ Take("lowercase", at + 1)
    BY DEF LexMath, LexUnderscore
<1>2. Part(at, at + 1) = Look /\ at + 1 \in at + 1..Len(text) + 1
    BY <1>1, TakingOne
<1>3. Lexeme("lowercase", Part(at, at + 1))
    BY <1>1, <1>2, LexemeIs
<1> QED
    BY <1>1, <1>2, <1>3, Taking DEF Maximal

LEMMA PunctuationTakes == ASSUME Placed, LexPunctuation PROVE \E t : Takes(t)
<1>1. Reading /\ Look \in DOMAIN Punctuation /\ Take(Punctuation[Look], at + 1)
    BY DEF LexPunctuation
<1>2. Punctuation[Look] \in {"comma", "lparen", "rparen", "lsquare", "rsquare", "lcurly", "rcurly"}
    BY <1>1 DEF Punctuation
<1>3. Punctuation[Look] \notin Described /\ Punctuation[Look] # "eof"
    BY <1>2 DEF Described, Maximal
<1>4. at + 1 \in at + 1..Len(text) + 1
    BY <1>1, TakingOne
<1> QED
    BY <1>1, <1>3, <1>4, TakingAny

LEMMA CommentTakes == ASSUME Placed, LexComment PROVE \E t : Takes(t)
<1> DEFINE class == Chars(text) \ {Eol}
           next == Span(at, class)
<1>1. Reading /\ Look = "#" /\ Take("comment", next)
    BY DEF LexComment
<1>2. Look \in class
    <2>1. Len(text) \in Nat /\ at \in 1..Len(text)
        BY <1>1 DEF Placed, IsSequence, Reading, End
    <2>2. Look \in Chars(text)
        BY <2>1 DEF Look, Char, Chars
    <2>3. Look # Eol
        BY <1>1 DEF Eol
    <2> QED
        BY <2>2, <2>3
<1> HIDE DEF class
<1>3. next \in at + 1..Len(text) + 1
    BY <1>1, <1>2, TakingSpan
<1>4. "comment" \notin Described /\ "comment" # "eof"
    BY DEF Described, Maximal
<1> HIDE DEF next
<1> QED
    BY <1>1, <1>3, <1>4, TakingAny

\* A lexeme of two characters: there is a second one.
LEMMA Second ==
    ASSUME Placed, NEW i \in Nat, at <= i, Char(i) # Nothing
    PROVE  i + 1 \in at + 1..Len(text) + 1
<1>1. Len(text) \in Nat /\ at \in Nat /\ IsSequence(text) /\ at >= 1
    BY PlacedIs
<1>2. i >= 1
    BY <1>1
<1>3. ~(i > Len(text))
    <2>1. i > Len(text) => Char(i) = Nothing
        BY <1>1, <1>2, Character DEF Nothing
    <2> QED
        BY <2>1
<1>4. i + 1 >= at + 1 /\ i + 1 <= Len(text) + 1
    BY <1>1, <1>3
<1> QED
    BY <1>1, <1>4

LEMMA ColonTakes ==
    ASSUME Placed, LexColon \/ LexSemicolon
    PROVE  \E t : Takes(t)
<1>1. /\ Reading
      /\ \E tag \in {"colon", "semicolon", "dcolon", "dsemicolon"}, next \in {at + 1, at + 2} :
            /\ Take(tag, next)
            /\ next = at + 1 \/ Char(at + 1) \in {":", ";"}
    BY DEF LexColon, LexSemicolon
<1>2. PICK tag \in {"colon", "semicolon", "dcolon", "dsemicolon"}, next \in {at + 1, at + 2} :
            /\ Take(tag, next)
            /\ next = at + 1 \/ Char(at + 1) \in {":", ";"}
    BY <1>1
<1>3. tag \notin Described /\ tag # "eof"
    BY DEF Described, Maximal
<1>4. at \in Nat /\ Len(text) \in Nat
    BY PlacedIs
<1>5. next \in at + 1..Len(text) + 1
    <2>1. CASE next = at + 1
        BY <2>1, <1>1, TakingOne
    <2>2. CASE next # at + 1
        <3>1. Char(at + 1) # Nothing
            BY <2>2, <1>2 DEF Nothing
        <3>2. at + 1 \in Nat /\ at <= at + 1 /\ (at + 1) + 1 = at + 2
            BY <1>4
        <3>3. (at + 1) + 1 \in at + 1..Len(text) + 1
            BY <3>1, <3>2, Second
        <3> QED
            BY <2>2, <3>2, <3>3
    <2> QED
        BY <2>1, <2>2
<1> QED
    BY <1>1, <1>2, <1>3, <1>5, TakingAny

LEMMA CharacterTakes ==
    ASSUME Placed, LexCharacter
    PROVE  Fail \/ \E t : Takes(t)
<1> DEFINE inside == IF Char(at + 1) = "\\" THEN at + 2 ELSE at + 1
<1>1. Reading
    BY DEF LexCharacter
<1>2. Fail \/ (Char(inside + 1) = "'" /\ Take("char", inside + 2))
    BY DEF LexCharacter
<1>3. CASE Char(inside + 1) = "'" /\ Take("char", inside + 2)
    <2>1. Len(text) \in Nat /\ at \in Nat
        BY PlacedIs
    <2>2. inside = at + 1 \/ inside = at + 2
        OBVIOUS
    <2> HIDE DEF inside
    <2>3. inside \in Nat /\ at <= inside + 1 /\ at + 1 <= inside + 1 /\ inside + 1 \in Nat
        BY <2>1, <2>2
    <2>4. Char(inside + 1) # Nothing
        BY <1>3 DEF Nothing
    <2>5. (inside + 1) + 1 \in at + 1..Len(text) + 1 /\ (inside + 1) + 1 = inside + 2
        BY <2>3, <2>4, Second
    <2>6. inside + 2 \in at + 1..Len(text) + 1
        BY <2>5
    <2>7. "char" \notin Described /\ "char" # "eof"
        BY DEF Described, Maximal
    <2> QED
        BY <1>1, <1>3, <2>6, <2>7, TakingAny
<1> QED
    BY <1>2, <1>3

-----------------------------------------------------------------------------
(* Texts.                                                                  *)

LEMMA LeastOf ==
    ASSUME NEW T, T \subseteq Nat, T # {}
    PROVE  Min(T) \in T
<1>1. PICK n \in T : \A i \in T : n <= i
    BY LeastNumber
<1>2. Min(T) = n
    BY <1>1, MinIs
<1> QED
    BY <1>2

LEMMA TextTakes ==
    ASSUME Placed, Reading, LexText
    PROVE  Fail \/ \E t : Takes(t)
<1>1. Len(text) \in Nat /\ at \in Nat
    BY PlacedIs
<1>2. Fail \/ (Closing # {} /\ Take("text", Min(Closing) + 1))
    <2>1. PICK j \in {IF Closing = {} THEN 0 ELSE Min(Closing)} :
            Fail \/ (j # 0 /\ Take("text", j + 1))
        BY DEF LexText
    <2> QED
        BY <2>1
<1>3. CASE Closing # {} /\ Take("text", Min(Closing) + 1)
    <2>1. Closing \subseteq (at + 1)..Len(text)
        BY DEF Closing
    <2>2. Closing \subseteq Nat
        BY <1>1, <2>1
    <2>3. Min(Closing) \in (at + 1)..Len(text)
        BY <1>3, <2>1, <2>2, LeastOf
    <2> DEFINE j == Min(Closing)
    <2> HIDE DEF j
    <2>5. j \in (at + 1)..Len(text)
        BY <2>3 DEF j
    <2>6. j + 1 \in at + 1..Len(text) + 1
        BY <1>1, <2>5
    <2>4. "text" \notin Described /\ "text" # "eof"
        BY DEF Described, Maximal
    <2>7. Take("text", j + 1)
        BY <1>3 DEF j
    <2> QED
        BY <2>6, <2>4, <2>7, TakingAny
<1> QED
    BY <1>2, <1>3

\* What is escaped is text again.
LEMMA Escaping ==
    ASSUME NEW s, IsSequence(s)
    PROVE  IsSequence(UnicodeEscape(s))
<1> DEFINE uu == [i \in 1..Len(s) |-> EscapeChar(SubSeq(s, i, i))]
<1>1. Len(s) \in Nat
    BY DEF IsSequence
<1>2. IsSequence(uu) /\ Len(uu) = Len(s)
    BY <1>1 DEF IsSequence
<1>3. ASSUME NEW i \in 1..Len(s)
      PROVE  IsSequence(uu[i])
    <2>1. i \in 1..Len(s) + 1 /\ i \in Nat /\ i - 1 <= i /\ i <= Len(s)
        BY <1>1
    <2>2. IsSequence(SubSeq(s, i, i))
        BY <2>1, Slices
    <2>3. ASSUME NEW c, IsSequence(c)
          PROVE  IsSequence(EscapeChar(c))
        <3>1. EscapeChar(c) \in {"\\t", "\\n", "\\\"", "\\'", "\\\\", c}
            BY DEF EscapeChar
        <3> QED
            BY <3>1, <2>3, StringsAssumption
    <2>4. uu[i] = EscapeChar(SubSeq(s, i, i))
        OBVIOUS
    <2> QED
        BY <2>2, <2>3, <2>4
<1>4. UnicodeEscape(s) = Together(uu)
    BY DEF UnicodeEscape
<1> HIDE DEF uu
<1>5. \A i \in 1..Len(uu) : IsSequence(uu[i])
    BY <1>2, <1>3
<1> QED
    BY <1>2, <1>4, <1>5, TogetherSequence

Quote == "\""

LEMMA LinesTakes ==
    ASSUME Placed, Reading, Look = Quote, NEW garbage \in Garbage,
           Quotes(at, garbage), Peek(at + 3, garbage) = Eol, LexLines(garbage)
    PROVE  Fail \/ \E t : Takes(t)
<1> DEFINE closing == {j \in (at + 4)..Len(text) : Quotes(j, garbage)}
           e == UnicodeEscape(SubSeq(text, at + 4, Min(closing) - 1))
           s == Quote \o e \o Quote
           next == Min({Min(closing) + 4, Len(text) + 1})
           t == Token("text", s)
<1>1. /\ Len(text) \in Nat /\ at \in Nat /\ at >= 1 /\ IsSequence(text)
      /\ lexing = "reading" /\ at <= Len(text)
    BY PlacedIs, ReadingIs
<1>2. \/ Fail
      \/ /\ closing # {}
         /\ tokens' = Append(tokens, t) /\ at' = next /\ UNCHANGED <<text, lexing>>
    BY DEF LexLines, Quote
<1>3. CASE /\ closing # {}
           /\ tokens' = Append(tokens, t) /\ at' = next /\ UNCHANGED <<text, lexing>>
    <2>1. closing \subseteq Nat /\ closing \subseteq (at + 4)..Len(text)
        BY <1>1
    <2>2. Min(closing) \in (at + 4)..Len(text)
        <3> HIDE DEF closing
        <3> QED
            BY <1>3, <2>1, LeastOf
    <2> DEFINE first == Min(closing)
    <2> HIDE DEF closing
    <2>3. Multiline
        <3>1. Peek(at + 3, garbage) = Char(at + 3)
            BY <1>1, <2>2 DEF Peek
        <3>2. \A j \in at..at + 2 : Peek(j, garbage) = Peek(j, Nothing)
            BY <1>1, <2>2 DEF Peek
        <3>3. Quotes(at, "")
            BY <3>2 DEF Quotes, Nothing
        <3>4. at \in 1..Len(text)
            BY <1>1
        <3> QED
            BY <3>1, <3>3, <3>4 DEF Multiline
    <2>4. next \in at + 1..Len(text) + 1
        <3>1. {first + 4, Len(text) + 1} \subseteq Nat /\ {first + 4, Len(text) + 1} # {}
            BY <1>1, <2>2
        <3> HIDE DEF first
        <3>2. Min({first + 4, Len(text) + 1}) \in {first + 4, Len(text) + 1}
            BY <3>1, LeastOf
        <3>3. PICK n \in {first + 4, Len(text) + 1} : \A i \in {first + 4, Len(text) + 1} : n <= i
            BY <3>1, LeastNumber
        <3>4. Min({first + 4, Len(text) + 1}) = n
            BY <3>1, <3>3, MinIs
        <3>5. n <= Len(text) + 1 /\ n \in {first + 4, Len(text) + 1}
            BY <3>3
        <3>6. n \in at + 1..Len(text) + 1
            BY <3>5, <1>1, <2>2 DEF first
        <3> QED
            BY <3>4, <3>6 DEF first
    <2>5. IsSequence(SubSeq(text, at + 4, first - 1))
        <3>1. /\ at + 4 \in 1..Len(text) + 1 /\ first - 1 \in Nat
              /\ (at + 4) - 1 <= first - 1 /\ first - 1 <= Len(text)
            BY <1>1, <2>2
        <3> HIDE DEF first
        <3> QED
            BY <1>1, <3>1, Slices
    <2>6. IsSequence(e)
        BY <2>5, Escaping
    <2> HIDE DEF e
    <2>7. SubSeq(s, 1, 1) = Quote
        <3> DEFINE q == Quote
        <3>1. IsSequence(q) /\ Len(q) = 1
            BY StringsAssumption DEF Quote
        <3>2. s = (q \o e) \o q
            OBVIOUS
        <3> HIDE DEF q, s
        <3>3. IsSequence(q \o e) /\ Len(q \o e) = Len(q) + Len(e) /\ \A i \in 1..Len(q) : (q \o e)[i] = q[i]
            BY <3>1, <2>6, Concatenation
        <3>4. /\ IsSequence(s) /\ Len(s) = Len(q \o e) + Len(q)
              /\ \A i \in 1..Len(q \o e) : s[i] = (q \o e)[i]
            BY <3>1, <3>2, <3>3, Concatenation
        <3>5. Len(e) \in Nat /\ Len(s) \in Nat
            BY <2>6, <3>4 DEF IsSequence
        <3>6. s[1] = q[1] /\ Len(s) >= 1
            BY <3>1, <3>3, <3>4, <3>5
        <3>7. 1 \in 1..Len(s) + 1 /\ 1 \in Nat /\ 1 - 1 <= 1 /\ 1 <= Len(s)
            BY <3>5, <3>6
        <3>8. /\ IsSequence(SubSeq(s, 1, 1)) /\ Len(SubSeq(s, 1, 1)) = 1 - 1 + 1
              /\ \A k \in 1..1 - 1 + 1 : SubSeq(s, 1, 1)[k] = s[1 + k - 1]
            BY <3>4, <3>7, Slices
        <3>9. Len(SubSeq(s, 1, 1)) = 1 /\ SubSeq(s, 1, 1)[1] = q[1]
            BY <3>6, <3>8
        <3>10. \A k \in 1..Len(SubSeq(s, 1, 1)) : SubSeq(s, 1, 1)[k] = q[k]
            BY <3>9
        <3>11. SubSeq(s, 1, 1) = q
            BY <3>1, <3>8, <3>9, <3>10, Same
        <3> QED
            BY <3>11 DEF q
    <2>8. Lexeme("text", s) /\ "text" \notin Maximal /\ "text" # "eof"
        BY LexemeIs DEF Described, Maximal
    <2>9. t.tag = "text" /\ t.text = s
        BY DEF Token
    <2> HIDE DEF s, t, next
    <2>10. Takes(t)
        BY <1>1, <1>3, <2>3, <2>4, <2>7, <2>8, <2>9 DEF Takes
    <2> QED
        BY <2>10
<1> QED
    BY <1>2, <1>3

LEMMA QuotedTakes ==
    ASSUME Placed, LexQuoted
    PROVE  Fail \/ \E t : Takes(t)
<1>1. Reading /\ Look = Quote
    BY DEF LexQuoted, Quote
<1>2. PICK garbage \in Garbage :
        IF Quotes(at, garbage) /\ Peek(at + 3, garbage) = Eol
        THEN LexLines(garbage)
        ELSE LexText
    BY DEF LexQuoted
<1>3. CASE Quotes(at, garbage) /\ Peek(at + 3, garbage) = Eol
    BY <1>1, <1>2, <1>3, LinesTakes
<1>4. CASE ~(Quotes(at, garbage) /\ Peek(at + 3, garbage) = Eol)
    BY <1>1, <1>2, <1>4, TextTakes
<1> QED
    BY <1>3, <1>4

-----------------------------------------------------------------------------
(* Numbers.                                                                *)

Minus == "-"

\* Where the digits of a number begin.
First(i) == IF Char(i) = Minus THEN i + 1 ELSE i

LEMMA UnsignedIs ==
    ASSUME IsSequence(text), NEW i \in Nat, i >= 1, NEW n \in i + 1..Len(text) + 1
    PROVE  /\ First(i) \in i..n
           /\ Unsigned(Part(i, n)) = Part(First(i), n)
<1> DEFINE s == Part(i, n)
<1>1. Len(text) \in Nat
    BY DEF IsSequence
<1>2. /\ i \in 1..Len(text) + 1 /\ n \in i..Len(text) + 1 /\ n \in Nat /\ i < n
      /\ i + 1 \in i..n /\ n \in i + 1..n /\ i + 1 - i + 1 = 2
    BY <1>1
<1>3. Len(s) = n - i /\ SubSeq(s, 1, 1) = Char(i)
    BY <1>2, PartIs
<1>4. SubSeq(s, 2, Len(s)) = Part(i + 1, n)
    <2>1. SubSeq(s, i + 1 - i + 1, n - i) = Part(i + 1, n)
        BY <1>2, PartOfPart
    <2> QED
        BY <2>1, <1>2, <1>3
<1>5. First(i) \in i..n
    <2>1. First(i) = i \/ First(i) = i + 1
        BY DEF First
    <2> QED
        BY <2>1, <1>2
<1> HIDE DEF s
<1>6. Unsigned(s) = Part(First(i), n)
    <2>1. CASE Char(i) = Minus
        <3>1. Unsigned(s) = SubSeq(s, 2, Len(s))
            BY <2>1, <1>3 DEF Unsigned, Minus
        <3>2. First(i) = i + 1
            BY <2>1 DEF First
        <3> QED
            BY <3>1, <3>2, <1>4
    <2>2. CASE Char(i) # Minus
        <3>1. Unsigned(s) = s
            BY <2>2, <1>3 DEF Unsigned, Minus
        <3>2. First(i) = i
            BY <2>2 DEF First
        <3> QED
            BY <3>1, <3>2 DEF s
    <2> QED
        BY <2>1, <2>2
<1> QED
    BY <1>5, <1>6 DEF s

DigitsAt(i, j) == i < j /\ \A k \in i..j - 1 : Char(k) \in Digits

LEMMA DigitalPart ==
    ASSUME IsSequence(text), NEW i \in 1..Len(text) + 1, NEW j \in i..Len(text) + 1
    PROVE  Digital(Part(i, j)) <=> DigitsAt(i, j)
<1> DEFINE s == Part(i, j)
<1>1. i \in Int /\ j \in Int /\ i <= j
    BY DEF IsSequence
<1>2. IsSequence(s) /\ Len(s) = j - i
    BY PartIs
<1>3. AllIn(s, Digits) <=> \A k \in i..j - 1 : Char(k) \in Digits
    BY AllInPart
<1> HIDE DEF s
<1>4. s # Nothing <=> Len(s) # 0
    BY <1>2, EmptyText DEF Nothing
<1>5. Len(s) # 0 <=> i < j
    BY <1>1, <1>2
<1>6. Digital(s) <=> s # Nothing /\ AllIn(s, Digits)
    BY DEF Digital, Nothing
<1> QED
    BY <1>3, <1>4, <1>5, <1>6 DEF s, DigitsAt

\* The two forms of an integer, by the characters of the text.
Hexadecimal(i, n) ==
    /\ i + 2 < n /\ Char(i) = "0" /\ Char(i + 1) = "x"
    /\ \A k \in i + 2..n - 1 : Char(k) \in HexDigits
IntegerAt(i, n) == DigitsAt(First(i), n) \/ Hexadecimal(i, n)

LEMMA IntegerPart ==
    ASSUME IsSequence(text), NEW i \in Nat, i >= 1, NEW n \in i + 1..Len(text) + 1
    PROVE  Lexeme("integer", Part(i, n)) <=> IntegerAt(i, n)
<1> DEFINE s == Part(i, n)
           f == First(i)
<1>1. Len(text) \in Nat
    BY DEF IsSequence
<1>2. /\ i \in 1..Len(text) + 1 /\ n \in i..Len(text) + 1 /\ n \in Nat /\ i < n
      /\ f \in i..n /\ Unsigned(s) = Part(f, n)
    BY <1>1, UnsignedIs
<1> HIDE DEF f
<1>3. f \in 1..Len(text) + 1 /\ n \in f..Len(text) + 1
    BY <1>1, <1>2
<1>4. Digital(Unsigned(s)) <=> DigitsAt(f, n)
    BY <1>2, <1>3, DigitalPart
<1>5. Len(s) = n - i /\ SubSeq(s, 1, 1) = Char(i)
    BY <1>2, PartIs
<1>6. (Len(s) > 2 /\ SubSeq(s, 1, 1) = "0" /\ SubSeq(s, 2, 2) = "x"
            /\ AllIn(SubSeq(s, 3, Len(s)), HexDigits)) <=> Hexadecimal(i, n)
    <2>1. CASE i + 2 < n
        <3>1. /\ i + 1 \in i..n - 1 /\ i + 1 - i + 1 = 2 /\ i + 2 - i + 1 = 3 /\ i + 2 \in i..n
              /\ n \in i + 2..n /\ i + 2 \in 1..Len(text) + 1 /\ n \in i + 2..Len(text) + 1
            BY <2>1, <1>1, <1>2
        <3>2. SubSeq(s, 2, 2) = Char(i + 1)
            <4>1. SubSeq(s, i + 1 - i + 1, i + 1 - i + 1) = Char(i + 1)
                BY <1>2, <3>1, PartIs
            <4> QED
                BY <3>1, <4>1
        <3>3. SubSeq(s, 3, Len(s)) = Part(i + 2, n)
            <4>1. SubSeq(s, i + 2 - i + 1, n - i) = Part(i + 2, n)
                BY <1>2, <3>1, PartOfPart
            <4> QED
                BY <4>1, <3>1, <1>5
        <3>4. AllIn(Part(i + 2, n), HexDigits) <=> \A k \in i + 2..n - 1 : Char(k) \in HexDigits
            BY <3>1, AllInPart
        <3>5. Len(s) > 2
            BY <1>2, <1>5, <2>1
        <3> HIDE DEF s
        <3> QED
            BY <2>1, <1>5, <3>2, <3>3, <3>4, <3>5 DEF Hexadecimal
    <2>2. CASE ~(i + 2 < n)
        <3>1. ~(Len(s) > 2)
            BY <1>2, <1>5, <2>2
        <3> QED
            BY <3>1, <2>2 DEF Hexadecimal
    <2> QED
        BY <2>1, <2>2
<1> HIDE DEF s
<1>7. Lexeme("integer", s) <=>
        \/ Digital(Unsigned(s))
        \/ /\ Len(s) > 2 /\ SubSeq(s, 1, 1) = "0" /\ SubSeq(s, 2, 2) = "x"
           /\ AllIn(SubSeq(s, 3, Len(s)), HexDigits)
    BY LexemeIs
<1> QED
    BY <1>4, <1>6, <1>7 DEF s, f, IntegerAt

FractionChars == Digits \cup {".", "-"} \cup Exponent \cup Imaginary

LEMMA FractionPart ==
    ASSUME IsSequence(text), NEW i \in Nat, i >= 1, NEW n \in i + 1..Len(text) + 1,
           NEW tag \in {"float", "imaginary"},
           NEW d \in Nat, d < n, DigitsAt(First(i), d), Char(d) = ".",
           \A k \in i..n - 1 : Char(k) \in FractionChars,
           (tag = "imaginary") = (Char(n - 1) \in Imaginary)
    PROVE  Lexeme(tag, Part(i, n))
<1> DEFINE s == Part(i, n)
           f == First(i)
           b == Part(f, n)
<1>1. Len(text) \in Nat
    BY DEF IsSequence
<1>2. /\ i \in 1..Len(text) + 1 /\ n \in i..Len(text) + 1 /\ n \in Nat /\ i < n
      /\ f \in i..n /\ Unsigned(s) = b
    BY <1>1, UnsignedIs
<1>3. f < d
    BY DEF DigitsAt
<1>4. AllIn(s, FractionChars)
    BY <1>2, AllInPart
<1>5. SubSeq(s, Len(s), Len(s)) = Char(n - 1)
    BY <1>2, PartIs
<1> HIDE DEF f
<1>6. /\ f \in 1..Len(text) + 1 /\ n \in f..Len(text) + 1 /\ d \in f..n - 1 /\ f \in f..n
      /\ d \in f..n /\ f - f + 1 = 1 /\ d - f + 1 - 1 = d - f /\ d \in f..Len(text) + 1
    BY <1>1, <1>2, <1>3
<1>7. Len(b) = n - f /\ SubSeq(b, d - f + 1, d - f + 1) = Char(d)
    BY <1>6, PartIs
<1>8. SubSeq(b, 1, d - f) = Part(f, d)
    <2>1. SubSeq(b, f - f + 1, d - f) = Part(f, d)
        BY <1>6, PartOfPart
    <2> QED
        BY <2>1, <1>6
<1>9. Digital(Part(f, d))
    BY <1>6, DigitalPart DEF f
<1> HIDE DEF b
<1>10. d - f + 1 \in 2..Len(b)
    BY <1>2, <1>3, <1>6, <1>7
<1>11. \E j \in 2..Len(b) : Digital(SubSeq(b, 1, j - 1)) /\ SubSeq(b, j, j) = "."
    <2>1. Digital(SubSeq(b, 1, (d - f + 1) - 1))
        <3>1. (d - f + 1) - 1 = d - f
            BY <1>6
        <3> QED
            BY <3>1, <1>8, <1>9
    <2>2. SubSeq(b, d - f + 1, d - f + 1) = "."
        BY <1>7
    <2> QED
        BY <1>10, <2>1, <2>2
<1> HIDE DEF s
<1>12. Fraction(s, tag)
    BY <1>2, <1>4, <1>5, <1>11 DEF Fraction, FractionChars
<1> QED
    BY <1>12, FractionIs DEF s

LEMMA Nowhere ==
    /\ Nothing \notin Digits /\ Nothing \notin HexDigits
    /\ Nothing \notin Imaginary /\ Nothing \notin Exponent
    /\ Nothing # "x" /\ Nothing # "."
BY DEF Nothing, Digits, HexDigits, Imaginary, Exponent

LEMMA There ==
    ASSUME Placed, NEW i \in Nat, at <= i, Char(i) # Nothing
    PROVE  i <= Len(text) /\ i + 1 \in at + 1..Len(text) + 1
<1>1. i + 1 \in at + 1..Len(text) + 1
    BY Second
<1>2. Len(text) \in Nat /\ at \in Nat
    BY PlacedIs
<1>3. i <= Len(text)
    BY <1>1, <1>2
<1> QED
    BY <1>1, <1>3

LEMMA NumberBegins ==
    ASSUME Placed, NEW garbage \in Garbage, LexNumber(garbage),
           NEW next, next = Span(First(at), Digits)
    PROVE  /\ Reading /\ First(at) \in {at, at + 1}
           /\ next \in at + 1..Len(text) + 1
           /\ next <= Len(text) => Char(next) \notin Digits
           /\ \/ DigitsAt(First(at), next)
              \/ next = at + 1 /\ next > Len(text) /\ Look = Minus
<1>1. /\ Len(text) \in Nat /\ at \in Nat /\ at >= 1 /\ IsSequence(text)
    BY PlacedIs
<1>2. Reading /\ (Look \in Digits \/ (Look = Minus /\ Peek(at + 1, garbage) \in Digits))
    BY DEF LexNumber, Minus
<1>3. at <= Len(text)
    BY <1>2, ReadingIs
<1>4. Look = Char(at) /\ Minus \notin Digits
    BY DEF Look, Minus, Digits
<1>5. First(at) \in {at, at + 1}
    BY DEF First
<1>6. First(at) \in 1..Len(text) + 1
    BY <1>1, <1>3, <1>5
<1>7. /\ next \in First(at)..Len(text) + 1
      /\ \A k \in First(at)..next - 1 : Char(k) \in Digits
      /\ next <= Len(text) => Char(next) \notin Digits
    BY <1>1, <1>6, SpanIs
<1>8. CASE Look \in Digits
    <2>1. First(at) = at
        BY <1>4, <1>8 DEF First
    <2>2. next # at
        BY <1>3, <1>4, <1>7, <1>8
    <2>3. next \in at + 1..Len(text) + 1 /\ at < next
        BY <1>1, <1>7, <2>1, <2>2
    <2>4. DigitsAt(First(at), next)
        BY <1>7, <2>1, <2>3 DEF DigitsAt
    <2> QED
        BY <1>2, <1>5, <1>7, <2>3, <2>4
<1>9. CASE Look = Minus /\ Peek(at + 1, garbage) \in Digits
    <2>1. First(at) = at + 1
        BY <1>4, <1>9 DEF First
    <2>2. next \in at + 1..Len(text) + 1
        BY <1>1, <1>7, <2>1
    <2>3. CASE next = at + 1
        <3>1. ~(next <= Len(text))
            <4>1. next <= Len(text) => Peek(at + 1, garbage) = Char(next)
                BY <2>3 DEF Peek
            <4> QED
                BY <4>1, <1>7, <1>9
        <3>2. next > Len(text)
            BY <3>1, <2>2, <1>1
        <3> QED
            BY <1>2, <1>5, <1>7, <1>9, <2>2, <2>3, <3>2
    <2>4. CASE next # at + 1
        <3>1. First(at) < next
            BY <1>1, <2>1, <2>2, <2>4
        <3>2. DigitsAt(First(at), next)
            BY <1>7, <3>1 DEF DigitsAt
        <3> QED
            BY <1>2, <1>5, <1>7, <2>2, <3>2
    <2> QED
        BY <2>3, <2>4
<1> QED
    BY <1>2, <1>8, <1>9

LEMMA TakingInteger ==
    ASSUME Placed, Reading, NEW n \in at + 1..Len(text) + 1, Take("integer", n),
           IntegerAt(at, n) \/ (Part(at, n) = Minus /\ n > Len(text)),
           n <= Len(text) => ~IntegerAt(at, n + 1)
    PROVE  \E t : Takes(t)
<1>1. Len(text) \in Nat /\ at \in Nat /\ at >= 1 /\ IsSequence(text)
    BY PlacedIs
<1>2. Lexeme("integer", Part(at, n)) <=> IntegerAt(at, n)
    BY <1>1, IntegerPart
<1>3. ASSUME n <= Len(text)
      PROVE  ~Lexeme("integer", Part(at, n + 1))
    <2>1. n + 1 \in at + 1..Len(text) + 1
        BY <1>1, <1>3
    <2>2. Lexeme("integer", Part(at, n + 1)) <=> IntegerAt(at, n + 1)
        BY <1>1, <2>1, IntegerPart
    <2> QED
        BY <2>2, <1>3
<1>4. "integer" # "eof"
    OBVIOUS
<1>5. \/ Lexeme("integer", Part(at, n))
      \/ "integer" = "integer" /\ Part(at, n) = "-" /\ n > Len(text)
    BY <1>2 DEF Minus
<1> QED
    BY <1>3, <1>4, <1>5, Taking

LEMMA DecimalTakes ==
    ASSUME Placed, NEW garbage \in Garbage, LexNumber(garbage),
           NEW next, next = Span(First(at), Digits), Take("integer", next)
    PROVE  \E t : Takes(t)
<1>1. Len(text) \in Nat /\ at \in Nat
    BY PlacedIs
<1>2. /\ Reading /\ First(at) \in {at, at + 1}
      /\ next \in at + 1..Len(text) + 1
      /\ next <= Len(text) => Char(next) \notin Digits
      /\ \/ DigitsAt(First(at), next)
         \/ next = at + 1 /\ next > Len(text) /\ Look = Minus
    BY NumberBegins
<1>3. IntegerAt(at, next) \/ (Part(at, next) = Minus /\ next > Len(text))
    <2>1. CASE DigitsAt(First(at), next)
        BY <2>1 DEF IntegerAt
    <2>2. CASE next = at + 1 /\ next > Len(text) /\ Look = Minus
        <3>1. Part(at, at + 1) = Look
            BY <1>2, TakingOne
        <3> QED
            BY <2>2, <3>1
    <2> QED
        BY <1>2, <2>1, <2>2
<1>4. ASSUME next <= Len(text)
      PROVE  ~IntegerAt(at, next + 1)
    <2>1. DigitsAt(First(at), next)
        BY <1>1, <1>2, <1>4
    <2>2. /\ First(at) < next /\ \A k \in First(at)..next - 1 : Char(k) \in Digits
        BY <2>1 DEF DigitsAt
    <2>3. next \in First(at)..(next + 1) - 1
        BY <1>1, <1>2, <2>2
    <2>4. ~DigitsAt(First(at), next + 1)
        BY <1>2, <1>4, <2>3 DEF DigitsAt
    <2>5. ~Hexadecimal(at, next + 1)
        <3>1. SUFFICES ASSUME Hexadecimal(at, next + 1)
                       PROVE  FALSE
            OBVIOUS
        <3>2. at + 2 < next + 1 /\ Char(at) = "0" /\ Char(at + 1) = "x"
            BY <3>1 DEF Hexadecimal
        <3>3. First(at) = at
            BY <3>2 DEF First, Minus
        <3>4. at + 1 \in First(at)..next - 1
            BY <1>1, <1>2, <3>2, <3>3
        <3>5. Char(at + 1) \in Digits
            BY <2>2, <3>4
        <3>6. "x" \notin Digits
            BY DEF Digits
        <3> QED
            BY <3>2, <3>5, <3>6
    <2> QED
        BY <2>4, <2>5 DEF IntegerAt
<1> QED
    BY <1>2, <1>3, <1>4, TakingInteger

LEMMA HexadecimalTakes ==
    ASSUME Placed, NEW garbage \in Garbage, LexNumber(garbage),
           NEW next, next = Span(First(at), Digits),
           Part(at, next) = "0", Char(next) = "x", Char(next + 1) \in HexDigits,
           Take("integer", Span(next + 1, HexDigits))
    PROVE  \E t : Takes(t)
<1> DEFINE n == Span(next + 1, HexDigits)
<1>1. Len(text) \in Nat /\ at \in Nat /\ at >= 1 /\ IsSequence(text)
    BY PlacedIs
<1>2. Reading /\ next \in at + 1..Len(text) + 1
    BY NumberBegins
<1>3. next = at + 1 /\ Char(at) = "0"
    <2>1. at \in 1..Len(text) + 1 /\ next \in at..Len(text) + 1 /\ at < next
        BY <1>1, <1>2
    <2>2. Len(Part(at, next)) = next - at
        BY <1>1, <2>1, PartIs
    <2>3. Len("0") = 1
        BY StringsAssumption
    <2>4. next = at + 1
        <3>1. Len(Part(at, next)) = 1
            BY <2>3
        <3>2. next - at = 1
            BY <2>2, <3>1
        <3> QED
            BY <1>1, <1>2, <3>2
    <2>5. Part(at, at + 1) = Char(at)
        BY <1>2, TakingOne DEF Look
    <2> QED
        BY <2>4, <2>5
<1>4. next + 1 <= Len(text)
    <2>1. Char(next + 1) # Nothing
        BY Nowhere
    <2>2. next + 1 \in Nat /\ at <= next + 1
        BY <1>1, <1>2
    <2> QED
        BY <2>1, <2>2, There
<1>5. /\ n \in next + 1..Len(text) + 1
      /\ \A k \in next + 1..n - 1 : Char(k) \in HexDigits
      /\ n <= Len(text) => Char(n) \notin HexDigits
    <2>1. next + 1 \in 1..Len(text) + 1
        BY <1>1, <1>2, <1>4
    <2> QED
        BY <1>1, <2>1, SpanIs
<1> HIDE DEF n
<1>6. n # next + 1
    BY <1>4, <1>5
<1>7. n \in at + 1..Len(text) + 1 /\ at + 2 < n /\ next + 1 = at + 2
    BY <1>1, <1>2, <1>3, <1>5, <1>6
<1>8. IntegerAt(at, n)
    <2>1. Char(at) = "0" /\ Char(at + 1) = "x"
        BY <1>3
    <2>2. \A k \in at + 2..n - 1 : Char(k) \in HexDigits
        BY <1>5, <1>7
    <2> QED
        BY <2>1, <2>2, <1>7 DEF IntegerAt, Hexadecimal
<1>9. ASSUME n <= Len(text)
      PROVE  ~IntegerAt(at, n + 1)
    <2>1. First(at) = at
        BY <1>3 DEF First, Minus
    <2>2. ~DigitsAt(First(at), n + 1)
        <3>1. at + 1 \in at..(n + 1) - 1
            BY <1>1, <1>7
        <3>2. Char(at + 1) \notin Digits
            BY <1>3 DEF Digits
        <3> QED
            BY <2>1, <3>1, <3>2 DEF DigitsAt
    <2>3. ~Hexadecimal(at, n + 1)
        <3>1. n \in at + 2..(n + 1) - 1
            BY <1>1, <1>7
        <3> QED
            BY <3>1, <1>5, <1>9 DEF Hexadecimal
    <2> QED
        BY <2>2, <2>3 DEF IntegerAt
<1>10. Take("integer", n)
    BY DEF n
<1> QED
    BY <1>2, <1>7, <1>8, <1>9, <1>10, TakingInteger

-----------------------------------------------------------------------------
(* Numbers with a dot.                                                     *)

\* The reader went over a fraction up to an index.
Scanned(d, n) ==
    /\ d \in Nat /\ n \in Nat /\ d < n /\ DigitsAt(First(at), d) /\ Char(d) = "."
    /\ \A k \in at..n - 1 : Char(k) \in FractionChars

LEMMA Classes ==
    /\ Digits \subseteq FractionChars /\ Exponent \subseteq FractionChars
    /\ Imaginary \subseteq FractionChars
    /\ "." \in FractionChars /\ Minus \in FractionChars
    /\ \A c : c \in Digits \/ c \in Exponent \/ c = Minus \/ c = "." => c \notin Imaginary
BY DEF FractionChars, Digits, Exponent, Imaginary, Minus

\* A span of digits more.
LEMMA ScanDigits ==
    ASSUME Placed, NEW d, NEW i, Scanned(d, i), i >= at, i <= Len(text) + 1,
           NEW n, n = Span(i, Digits)
    PROVE  /\ Scanned(d, n) /\ n >= i /\ n <= Len(text) + 1
           /\ n > i => Char(n - 1) \in Digits
<1>1. Len(text) \in Nat /\ at \in Nat /\ at >= 1 /\ IsSequence(text)
    BY PlacedIs
<1>2. d \in Nat /\ i \in Nat
    BY DEF Scanned
<1>3. i \in 1..Len(text) + 1
    BY <1>1, <1>2
<1>4. n \in i..Len(text) + 1 /\ \A k \in i..n - 1 : Char(k) \in Digits
    BY <1>1, <1>3, SpanIs
<1>5. n \in Nat /\ n >= i /\ n <= Len(text) + 1
    BY <1>2, <1>4
<1>6. ASSUME NEW k \in at..n - 1
      PROVE  Char(k) \in FractionChars
    <2>1. CASE k < i
        <3>1. k \in at..i - 1
            BY <1>1, <1>2, <2>1
        <3> QED
            BY <3>1 DEF Scanned
    <2>2. CASE ~(k < i)
        <3>1. k \in i..n - 1
            BY <1>1, <1>2, <2>2
        <3> QED
            BY <3>1, <1>4, Classes
    <2> QED
        BY <2>1, <2>2
<1>7. Scanned(d, n)
    <2>1. d < n
        BY <1>2, <1>5 DEF Scanned
    <2> QED
        BY <2>1, <1>2, <1>5, <1>6 DEF Scanned
<1>8. ASSUME n > i
      PROVE  Char(n - 1) \in Digits
    <2>1. n - 1 \in i..n - 1
        BY <1>2, <1>5, <1>8
    <2> QED
        BY <2>1, <1>4
<1> QED
    BY <1>5, <1>7, <1>8

\* A character more.
LEMMA ScanOne ==
    ASSUME Placed, NEW d, NEW i, Scanned(d, i), i >= at, Char(i) \in FractionChars, Char(i) # Nothing
    PROVE  Scanned(d, i + 1) /\ i <= Len(text) /\ i + 1 >= at /\ i + 1 <= Len(text) + 1
<1>1. Len(text) \in Nat /\ at \in Nat
    BY PlacedIs
<1>2. d \in Nat /\ i \in Nat /\ d < i
    BY DEF Scanned
<1>3. i <= Len(text)
    BY <1>1, <1>2, There
<1>4. ASSUME NEW k \in at..(i + 1) - 1
      PROVE  Char(k) \in FractionChars
    <2>1. k = i \/ k \in at..i - 1
        BY <1>1, <1>2
    <2> QED
        BY <2>1 DEF Scanned
<1>5. i + 1 \in Nat /\ d < i + 1 /\ i + 1 >= at /\ i + 1 <= Len(text) + 1
    BY <1>1, <1>2, <1>3
<1>6. Scanned(d, i + 1)
    BY <1>2, <1>4, <1>5 DEF Scanned
<1> QED
    BY <1>3, <1>5, <1>6

LEMMA TakingFraction ==
    ASSUME Placed, Reading, NEW d, NEW n, Scanned(d, n), n <= Len(text) + 1,
           NEW tag \in {"float", "imaginary"}, Take(tag, n),
           (tag = "imaginary") = (Char(n - 1) \in Imaginary)
    PROVE  \E t : Takes(t)
<1>1. Len(text) \in Nat /\ at \in Nat /\ at >= 1 /\ IsSequence(text)
    BY PlacedIs
<1>2. d \in Nat /\ n \in Nat /\ d < n /\ First(at) < d
    BY DEF Scanned, DigitsAt
<1>3. First(at) = at \/ First(at) = at + 1
    BY DEF First
<1>4. n \in at + 1..Len(text) + 1
    BY <1>1, <1>2, <1>3
<1>5. DigitsAt(First(at), d) /\ Char(d) = "." /\ \A k \in at..n - 1 : Char(k) \in FractionChars
    BY DEF Scanned
<1>6. Lexeme(tag, Part(at, n))
    BY <1>1, <1>2, <1>4, <1>5, FractionPart
<1>7. tag \notin Maximal /\ tag # "eof"
    BY DEF Maximal
<1> QED
    BY <1>4, <1>6, <1>7, Taking

LEMMA ExponentTakes ==
    ASSUME Placed, Reading, NEW d, NEW i, Scanned(d, i), i >= at,
           Char(i) \in Exponent, LexExponent(i)
    PROVE  Fail \/ \E t : Takes(t)
<1> DEFINE sign == IF Char(i + 1) = Minus THEN i + 2 ELSE i + 1
           next == Span(sign, Digits)
<1>1. Len(text) \in Nat /\ at \in Nat /\ i \in Nat
    BY PlacedIs DEF Scanned
<1>2. \/ Fail
      \/ sign <= Len(text) /\ Char(next) \in Imaginary /\ Take("imaginary", next + 1)
      \/ sign <= Len(text) /\ ~(Char(next) \in Imaginary) /\ Take("float", next)
    <2>1. \/ sign > Len(text) /\ Fail
          \/ sign <= Len(text) /\ Char(next) \in Imaginary /\ Take("imaginary", next + 1)
          \/ /\ ~(sign > Len(text)) /\ ~(sign <= Len(text) /\ Char(next) \in Imaginary)
             /\ Take("float", next)
        BY DEF LexExponent, Minus
    <2>2. sign \in Nat
        BY <1>1
    <2>3. sign > Len(text) \/ sign <= Len(text)
        BY <1>1, <2>2
    <2> HIDE DEF sign, next
    <2> QED
        BY <2>1, <2>3
<1>3. Char(i) \in FractionChars /\ Char(i) # Nothing /\ Char(i) \notin Imaginary
    BY Classes, Nowhere
<1>4. Scanned(d, i + 1) /\ i + 1 >= at
    BY <1>3, ScanOne
<1>5. Scanned(d, sign) /\ sign >= at /\ Char(sign - 1) \notin Imaginary
    <2>1. CASE Char(i + 1) = Minus
        <3>1. Char(i + 1) # Nothing
            BY <2>1 DEF Minus, Nothing
        <3>2. Scanned(d, (i + 1) + 1) /\ (i + 1) + 1 >= at
            BY <2>1, <3>1, <1>4, ScanOne, Classes
        <3>3. (i + 1) + 1 = sign /\ sign - 1 = i + 1
            BY <2>1, <1>1
        <3> HIDE DEF sign
        <3> QED
            BY <2>1, <3>2, <3>3, Classes
    <2>2. CASE Char(i + 1) # Minus
        <3>1. sign = i + 1 /\ sign - 1 = i
            BY <2>2, <1>1
        <3> HIDE DEF sign
        <3> QED
            BY <3>1, <1>3, <1>4
    <2> QED
        BY <2>1, <2>2
<1> HIDE DEF sign
<1>6. sign \in Nat
    BY <1>5 DEF Scanned
<1>7. ASSUME sign <= Len(text)
      PROVE  /\ Scanned(d, next) /\ next >= sign /\ next <= Len(text) + 1
             /\ next > sign => Char(next - 1) \in Digits
    <2>1. sign <= Len(text) + 1
        BY <1>1, <1>6, <1>7
    <2> QED
        BY <2>1, <1>5, ScanDigits
<1> HIDE DEF next
<1>8. CASE sign <= Len(text) /\ Char(next) \in Imaginary /\ Take("imaginary", next + 1)
    <2>1. Scanned(d, next) /\ next >= sign /\ next \in Nat
        BY <1>7, <1>8 DEF Scanned
    <2>2. next >= at
        BY <2>1, <1>1, <1>5, <1>6
    <2>3. Char(next) \in FractionChars /\ Char(next) # Nothing
        BY <1>8, Classes, Nowhere
    <2>4. Scanned(d, next + 1) /\ next + 1 <= Len(text) + 1
        BY <2>1, <2>2, <2>3, ScanOne
    <2>5. (next + 1) - 1 = next
        BY <2>1
    <2> QED
        BY <1>8, <2>4, <2>5, TakingFraction
<1>9. CASE sign <= Len(text) /\ ~(Char(next) \in Imaginary) /\ Take("float", next)
    <2>1. /\ Scanned(d, next) /\ next >= sign /\ next \in Nat /\ next <= Len(text) + 1
          /\ next > sign => Char(next - 1) \in Digits
        BY <1>7, <1>9 DEF Scanned
    <2>2. Char(next - 1) \notin Imaginary
        <3>1. next = sign \/ next > sign
            BY <2>1, <1>6
        <3> QED
            BY <3>1, <2>1, <1>5, Classes
    <2> QED
        BY <1>9, <2>1, <2>2, TakingFraction
<1> QED
    BY <1>2, <1>8, <1>9

LEMMA FractionTakes ==
    ASSUME Placed, Reading, NEW d \in Nat, d <= Len(text), DigitsAt(First(at), d), Char(d) = ".",
           First(at) \in {at, at + 1}, \A k \in at..d - 1 : Char(k) \in FractionChars,
           LexFraction(d)
    PROVE  Fail \/ \E t : Takes(t)
<1> DEFINE next == Span(d + 1, Digits)
<1>1. Len(text) \in Nat /\ at \in Nat
    BY PlacedIs
<1>2. Scanned(d, d + 1) /\ d + 1 >= at /\ d + 1 <= Len(text) + 1
    <2>1. First(at) < d
        BY DEF DigitsAt
    <2>2. d >= at
        BY <2>1, <1>1
    <2>3. ASSUME NEW k \in at..(d + 1) - 1
          PROVE  Char(k) \in FractionChars
        <3>1. k = d \/ k \in at..d - 1
            BY <1>1
        <3> QED
            BY <3>1, Classes
    <2>4. d + 1 \in Nat /\ d < d + 1 /\ d + 1 >= at /\ d + 1 <= Len(text) + 1
        BY <1>1, <2>2
    <2>5. Scanned(d, d + 1)
        BY <2>3, <2>4 DEF Scanned
    <2> QED
        BY <2>4, <2>5
<1>3. /\ Scanned(d, next) /\ next >= d + 1 /\ next <= Len(text) + 1
      /\ next > d + 1 => Char(next - 1) \in Digits
    BY <1>2, ScanDigits
<1>4. \/ Char(next) \in Imaginary /\ Take("imaginary", next + 1)
      \/ Char(next) \in Exponent /\ LexExponent(next)
      \/ Take("float", next)
    BY DEF LexFraction
<1> HIDE DEF next
<1>5. next \in Nat
    BY <1>3 DEF Scanned
<1>6. next >= at
    BY <1>1, <1>2, <1>3, <1>5
<1>7. CASE Char(next) \in Imaginary /\ Take("imaginary", next + 1)
    <2>1. Char(next) \in FractionChars /\ Char(next) # Nothing
        BY <1>7, Classes, Nowhere
    <2>2. Scanned(d, next + 1) /\ next + 1 <= Len(text) + 1
        BY <1>3, <1>6, <2>1, ScanOne
    <2>3. (next + 1) - 1 = next
        BY <1>5
    <2> QED
        BY <1>7, <2>2, <2>3, TakingFraction
<1>8. CASE Char(next) \in Exponent /\ LexExponent(next)
    BY <1>8, <1>3, <1>6, ExponentTakes
<1>9. CASE Take("float", next)
    <2>1. Char(next - 1) \notin Imaginary
        <3>1. next > d + 1 \/ next - 1 = d
            BY <1>3, <1>5
        <3> QED
            BY <3>1, <1>3, Classes
    <2> QED
        BY <1>9, <1>3, <2>1, TakingFraction
<1> QED
    BY <1>4, <1>7, <1>8, <1>9

LEMMA NumberTakes ==
    ASSUME Placed, NEW garbage \in Garbage, LexNumber(garbage)
    PROVE  Fail \/ \E t : Takes(t)
<1> DEFINE next == Span(First(at), Digits)
<1>1. Len(text) \in Nat /\ at \in Nat
    BY PlacedIs
<1>2. First(at) = IF Look = "-" THEN at + 1 ELSE at
    BY DEF First, Look, Minus
<1>3. \/ /\ Part(at, next) = "0" /\ Char(next) = "x"
         /\ \/ Char(next + 1) \in HexDigits /\ Take("integer", Span(next + 1, HexDigits))
            \/ Fail
      \/ Char(next) = "." /\ LexFraction(next)
      \/ Take("integer", next)
    BY <1>2 DEF LexNumber, Part
<1>4. /\ Reading /\ First(at) \in {at, at + 1}
      /\ next \in at + 1..Len(text) + 1
      /\ \/ DigitsAt(First(at), next)
         \/ next = at + 1 /\ next > Len(text) /\ Look = Minus
    BY NumberBegins
<1>5. CASE Part(at, next) = "0" /\ Char(next) = "x" /\ Char(next + 1) \in HexDigits
           /\ Take("integer", Span(next + 1, HexDigits))
    BY <1>5, HexadecimalTakes
<1>6. CASE Take("integer", next)
    BY <1>6, DecimalTakes
<1>7. CASE Char(next) = "." /\ LexFraction(next)
    <2> HIDE DEF next
    <2>1. next \in Nat /\ at <= next
        BY <1>1, <1>4
    <2>2. Char(next) # Nothing
        BY <1>7, Nowhere
    <2>3. next <= Len(text)
        BY <2>1, <2>2, There
    <2>4. DigitsAt(First(at), next)
        BY <1>1, <1>4, <2>1, <2>3
    <2>5. ASSUME NEW k \in at..next - 1
          PROVE  Char(k) \in FractionChars
        <3>1. CASE k \in First(at)..next - 1
            BY <3>1, <2>4, Classes DEF DigitsAt
        <3>2. CASE k \notin First(at)..next - 1
            <4>1. k = at /\ First(at) = at + 1
                BY <3>2, <1>1, <1>4, <2>1
            <4>2. First(at) # at
                BY <4>1, <1>1
            <4>3. Char(at) = Minus
                BY <4>2 DEF First
            <4> QED
                BY <4>1, <4>3, Classes
        <3> QED
            BY <3>1, <3>2
    <2> QED
        BY <1>4, <1>7, <2>1, <2>3, <2>4, <2>5, FractionTakes
<1> QED
    BY <1>3, <1>5, <1>6, <1>7

-----------------------------------------------------------------------------
(* The steps of the lexer.                                                 *)

\* Whatever a step does: a lexeme is taken, the lexer fails, or ends.
LEMMA Steps ==
    ASSUME Placed, LexNext
    PROVE  Fail \/ LexEnd \/ \E t : Takes(t)
<1>1. CASE LexWhitespace
    BY <1>1, WhitespaceTakes
<1>2. CASE LexComment
    BY <1>2, CommentTakes
<1>3. CASE LexPunctuation
    BY <1>3, PunctuationTakes
<1>4. CASE LexColon \/ LexSemicolon
    BY <1>4, ColonTakes
<1>5. CASE LexMath \/ LexUnderscore
    BY <1>5, OneTakes
<1>6. CASE LexCharacter
    BY <1>6, CharacterTakes
<1>7. CASE LexQuoted
    BY <1>7, QuotedTakes
<1>8. ASSUME NEW garbage \in Garbage, LexNumber(garbage)
      PROVE  Fail \/ \E t : Takes(t)
    BY <1>8, NumberTakes
<1>9. ASSUME NEW garbage \in Garbage, LexOperator(garbage)
      PROVE  \E t : Takes(t)
    BY <1>9, OperatorTakes
<1>10. CASE LexUppercase
    BY <1>10, UppercaseTakes
<1>11. CASE LexLowercase
    BY <1>11, LowercaseTakes
<1>12. CASE LexUnrecognized
    BY <1>12 DEF LexUnrecognized
<1> QED
    BY <1>1, <1>2, <1>3, <1>4, <1>5, <1>6, <1>7, <1>8, <1>9, <1>10, <1>11, <1>12 DEF LexNext

\* What follows a lexeme does not make a longer one.
Stops(t, next) == t.tag \in Maximal => ~Lexeme(t.tag, t.text \o next)

Munched ==
    \A i \in 1..Len(tokens) - 1 :
        /\ \/ Lexeme(tokens[i].tag, tokens[i].text)
           \/ tokens[i] = LoneMinus /\ i = Len(tokens) - 1 /\ lexing = "done"
        /\ tokens[i + 1].tag # "eof" => Stops(tokens[i], SubSeq(tokens[i + 1].text, 1, 1))

\* The last token, after which the reader looks.
Latest ==
    LET t == tokens[Len(tokens)] IN
    /\ Lexeme(t.tag, t.text) \/ (t = LoneMinus /\ End)
    /\ ~End => Stops(t, Look)

LexInv ==
    /\ Placed
    /\ IsSequence(tokens)
    /\ lexing \in {"reading", "done", "failed"}
    /\ NothingLost
    /\ Munched
    /\ lexing = "reading" /\ Len(tokens) > 0 => Latest

LEMMA OnlyReading == LexNext => lexing = "reading"
BY DEF LexNext, LexWhitespace, LexComment, LexPunctuation, LexColon, LexSemicolon, LexMath,
       LexCharacter, LexQuoted, LexNumber, LexOperator, LexUppercase, LexLowercase,
       LexUnderscore, LexUnrecognized, LexEnd, Reading

LEMMA LexInitial == LexInit => LexInv
<1> SUFFICES ASSUME LexInit
             PROVE  LexInv
    OBVIOUS
<1>1. text \in Texts /\ at = 1 /\ tokens = <<>> /\ lexing = "reading"
    BY DEF LexInit
<1>2. IsSequence(text) /\ Len(text) \in Nat
    BY <1>1, TextsAssumption DEF IsSequence
<1>3. Placed
    BY <1>1, <1>2 DEF Placed
<1>4. IsSequence(tokens) /\ Len(tokens) = 0
    BY <1>1 DEF IsSequence
<1>5. NothingLost
    <2>1. Written(tokens) = Nothing
        BY <1>1, WrittenNone DEF Nothing
    <2>2. IsSequence(SubSeq(text, 1, at - 1)) /\ Len(SubSeq(text, 1, at - 1)) = 0
        <3>1. /\ 1 \in 1..Len(text) + 1 /\ 0 \in Nat /\ 1 - 1 <= 0 /\ 0 <= Len(text)
              /\ 0 - 1 + 1 = 0 /\ at - 1 = 0
            BY <1>1, <1>2
        <3> QED
            BY <1>2, <3>1, Slices
    <2>3. SubSeq(text, 1, at - 1) = Nothing
        BY <2>2, EmptyText DEF Nothing
    <2> QED
        BY <1>1, <2>1, <2>3 DEF NothingLost
<1>6. Munched
    BY <1>4 DEF Munched
<1> QED
    BY <1>1, <1>3, <1>4, <1>5, <1>6 DEF LexInv

LEMMA SameText ==
    ASSUME text' = text
    PROVE  /\ Multiline' <=> Multiline
           /\ Look' = Char(at')
           /\ IsSequence(text)' <=> IsSequence(text)
<1>1. Multiline' <=> Multiline
    BY DEF Multiline, Quotes, Peek, Char
<1>2. Look' = Char(at')
    BY DEF Look, Char
<1>3. IsSequence(text)' <=> IsSequence(text)
    BY DEF IsSequence
<1> QED
    BY <1>1, <1>2, <1>3

\* A lexeme is taken.
LEMMA TakesInv == ASSUME LexInv, NEW t, Takes(t) PROVE LexInv'
<1> DEFINE n == Len(tokens)
           uu == tokens'
<1>1. /\ lexing = "reading" /\ lexing' = "reading" /\ at <= Len(text) /\ text' = text
      /\ at' \in at + 1..Len(text) + 1
    BY DEF Takes
<1>2. Placed /\ IsSequence(tokens) /\ NothingLost /\ Munched /\ (n > 0 => Latest)
    BY <1>1 DEF LexInv
<1>3. Len(text) \in Nat /\ at \in Nat /\ at >= 1 /\ IsSequence(text)
    BY <1>2, PlacedIs
<1>4. /\ IsSequence(uu) /\ Len(uu) = n + 1 /\ n \in Nat
      /\ \A i \in 1..n : uu[i] = tokens[i]
      /\ uu[n + 1] = t
    <2>1. uu = Append(tokens, t) /\ n \in Nat
        BY <1>2 DEF Takes, IsSequence
    <2> HIDE DEF uu
    <2> QED
        BY <2>1, <1>2, Appending
<1>5. Placed'
    <2>1. at' \in 1..Len(text) + 1
        BY <1>1, <1>3
    <2> QED
        BY <1>1, <1>3, <2>1, SameText DEF Placed
<1>6. NothingLost'
    <2>1. SUFFICES ASSUME ~Multiline
                   PROVE  Written(tokens') = SubSeq(text, 1, at' - 1)
        BY <1>1, SameText DEF NothingLost
    <2>2. Written(tokens) = SubSeq(text, 1, at - 1)
        BY <1>2, <2>1 DEF NothingLost
    <2>3. Spelling(t) = SubSeq(text, at, at' - 1)
        BY <2>1 DEF Spelling, Takes, Part
    <2>4. Written(tokens') = Written(tokens) \o Spelling(t)
        BY <1>2, WrittenGrows DEF Takes
    <2>5. /\ at - 1 \in Nat /\ at' - 1 \in Nat /\ 1 \in 1..Len(text) + 1 /\ 1 - 1 <= at - 1
          /\ at - 1 <= at' - 1 /\ at' - 1 <= Len(text) /\ (at - 1) + 1 = at
        <3> DEFINE l == at'
        <3>1. l \in at + 1..Len(text) + 1
            BY <1>1
        <3> HIDE DEF l
        <3>2. l \in Nat /\ at <= l /\ l <= Len(text) + 1 /\ l >= 1
            BY <1>3, <3>1
        <3>3. /\ at - 1 \in Nat /\ l - 1 \in Nat /\ 1 \in 1..Len(text) + 1 /\ 1 - 1 <= at - 1
              /\ at - 1 <= l - 1 /\ l - 1 <= Len(text) /\ (at - 1) + 1 = at
            BY <1>3, <3>2
        <3> QED
            BY <3>3 DEF l
    <2>6. SubSeq(text, 1, at - 1) \o SubSeq(text, (at - 1) + 1, at' - 1) = SubSeq(text, 1, at' - 1)
        BY <1>3, <2>5, SliceAfterSlice
    <2> QED
        BY <2>2, <2>3, <2>4, <2>5, <2>6
<1>7. ~End
    BY <1>1, <1>3 DEF End
<1>8. SubSeq(t.text, 1, 1) = Look
    BY DEF Takes
<1>9. ASSUME NEW i \in 1..n
      PROVE  /\ Lexeme(uu[i].tag, uu[i].text)
             /\ uu[i + 1].tag # "eof" => Stops(uu[i], SubSeq(uu[i + 1].text, 1, 1))
    <2>1. CASE i = n
        <3>1. n > 0 /\ Latest /\ uu[i] = tokens[n] /\ uu[i + 1] = t
            BY <2>1, <1>2, <1>4, <1>9
        <3>2. Lexeme(tokens[n].tag, tokens[n].text) /\ Stops(tokens[n], Look)
            BY <3>1, <1>7 DEF Latest
        <3> QED
            BY <3>1, <3>2, <1>8
    <2>2. CASE i # n
        <3>1. i \in 1..n - 1 /\ i + 1 \in 1..n
            BY <2>2, <1>4
        <3>2. /\ \/ Lexeme(tokens[i].tag, tokens[i].text)
                 \/ tokens[i] = LoneMinus /\ i = n - 1 /\ lexing = "done"
              /\ tokens[i + 1].tag # "eof" => Stops(tokens[i], SubSeq(tokens[i + 1].text, 1, 1))
            BY <3>1, <1>2 DEF Munched
        <3>3. uu[i] = tokens[i] /\ uu[i + 1] = tokens[i + 1]
            BY <3>1, <1>4
        <3> QED
            BY <3>2, <3>3, <1>1
    <2> QED
        BY <2>1, <2>2
<1>10. Munched'
    <2>1. Len(uu) - 1 = n
        BY <1>4
    <2> HIDE DEF n
    <2>2. \A i \in 1..Len(tokens') - 1 :
            /\ Lexeme(tokens'[i].tag, tokens'[i].text)
            /\ tokens'[i + 1].tag # "eof" => Stops(tokens'[i], SubSeq(tokens'[i + 1].text, 1, 1))
        BY <2>1, <1>9
    <2> QED
        BY <2>2 DEF Munched
<1>11. Latest'
    <2>1. tokens'[Len(tokens')] = t
        BY <1>4
    <2>2. Lexeme(t.tag, t.text) \/ (t = LoneMinus /\ at' > Len(text))
        BY DEF Takes
    <2>3. at' <= Len(text) => Stops(t, Look')
        BY <1>1, SameText DEF Takes, Stops
    <2>4. End' <=> at' > Len(text)
        BY <1>1 DEF End
    <2>5. ~(at' > Len(text)) => at' <= Len(text)
        BY <1>1, <1>3
    <2> QED
        BY <2>1, <2>2, <2>3, <2>4, <2>5 DEF Latest
<1> HIDE DEF uu, n
<1> QED
    BY <1>1, <1>4, <1>5, <1>6, <1>10, <1>11 DEF LexInv, uu

\* The end of the text.
LEMMA EndInv == ASSUME LexInv, LexEnd PROVE LexInv'
<1> DEFINE n == Len(tokens)
           t == Token("eof", "EOF")
           uu == tokens'
<1>1. /\ lexing = "reading" /\ lexing' = "done" /\ End /\ text' = text /\ at' = at
      /\ tokens' = Append(tokens, t)
    BY DEF LexEnd
<1>2. t.tag = "eof" /\ Spelling(t) = Nothing
    BY DEF Token, Spelling, Nothing
<1>3. Placed /\ IsSequence(tokens) /\ NothingLost /\ Munched /\ (n > 0 => Latest)
    BY <1>1 DEF LexInv
<1>4. Len(text) \in Nat /\ at \in Nat /\ at >= 1 /\ at <= Len(text) + 1 /\ IsSequence(text)
    BY <1>3, PlacedIs
<1> HIDE DEF t
<1>5. /\ IsSequence(uu) /\ Len(uu) = n + 1 /\ n \in Nat
      /\ \A i \in 1..n : uu[i] = tokens[i]
      /\ uu[n + 1] = t
    <2>1. uu = Append(tokens, t) /\ n \in Nat
        BY <1>1, <1>3 DEF IsSequence
    <2> HIDE DEF uu
    <2> QED
        BY <2>1, <1>3, Appending
<1>6. Placed'
    BY <1>1, <1>3 DEF Placed, IsSequence
<1>7. End'
    BY <1>1 DEF End
<1>8. NothingLost'
    <2>1. SUFFICES ASSUME ~Multiline
                   PROVE  Written(tokens') = SubSeq(text, 1, at - 1)
        BY <1>1, <1>7, SameText DEF NothingLost
    <2>2. Written(tokens) = SubSeq(text, 1, at - 1)
        BY <1>3, <2>1 DEF NothingLost
    <2>3. Written(tokens') = Written(tokens) \o Nothing
        BY <1>1, <1>2, <1>3, WrittenGrows
    <2>4. IsSequence(SubSeq(text, 1, at - 1))
        <3>1. 1 \in 1..Len(text) + 1 /\ at - 1 \in Nat /\ 1 - 1 <= at - 1 /\ at - 1 <= Len(text)
            BY <1>4
        <3> QED
            BY <1>4, <3>1, Slices
    <2>5. \A s : IsSequence(s) => s \o Nothing = s
        BY EmptyText DEF Nothing
    <2> QED
        BY <2>2, <2>3, <2>4, <2>5
<1>9. ASSUME NEW i \in 1..n
      PROVE  /\ Lexeme(uu[i].tag, uu[i].text) \/ (uu[i] = LoneMinus /\ i = n)
             /\ uu[i + 1].tag # "eof" => Stops(uu[i], SubSeq(uu[i + 1].text, 1, 1))
    <2>1. CASE i = n
        <3>1. n > 0 /\ Latest /\ uu[i] = tokens[n] /\ uu[i + 1] = t
            BY <2>1, <1>3, <1>5, <1>9
        <3>2. Lexeme(tokens[n].tag, tokens[n].text) \/ tokens[n] = LoneMinus
            BY <3>1 DEF Latest
        <3> QED
            BY <2>1, <3>1, <3>2, <1>2
    <2>2. CASE i # n
        <3>1. i \in 1..n - 1 /\ i + 1 \in 1..n
            BY <2>2, <1>5
        <3>2. /\ \/ Lexeme(tokens[i].tag, tokens[i].text)
                 \/ tokens[i] = LoneMinus /\ i = n - 1 /\ lexing = "done"
              /\ tokens[i + 1].tag # "eof" => Stops(tokens[i], SubSeq(tokens[i + 1].text, 1, 1))
            BY <3>1, <1>3 DEF Munched
        <3>3. uu[i] = tokens[i] /\ uu[i + 1] = tokens[i + 1]
            BY <3>1, <1>5
        <3> QED
            BY <3>2, <3>3, <1>1
    <2> QED
        BY <2>1, <2>2
<1>10. Munched'
    <2>1. Len(uu) - 1 = n
        BY <1>5
    <2> HIDE DEF n
    <2>2. \A i \in 1..Len(tokens') - 1 :
            /\ \/ Lexeme(tokens'[i].tag, tokens'[i].text)
               \/ tokens'[i] = LoneMinus /\ i = Len(tokens') - 1
            /\ tokens'[i + 1].tag # "eof" => Stops(tokens'[i], SubSeq(tokens'[i + 1].text, 1, 1))
        BY <2>1, <1>9
    <2> QED
        BY <2>2, <1>1 DEF Munched
<1> HIDE DEF uu, n
<1> QED
    BY <1>1, <1>5, <1>6, <1>8, <1>10 DEF LexInv, uu

\* The lexer fails.
LEMMA FailInv == ASSUME LexInv, lexing = "reading", Fail PROVE LexInv'
<1>1. lexing' = "failed" /\ text' = text /\ at' = at /\ tokens' = tokens
    BY DEF Fail
<1>2. Placed /\ IsSequence(tokens) /\ NothingLost /\ Munched
    BY DEF LexInv
<1>3. Placed'
    BY <1>1, <1>2 DEF Placed, IsSequence
<1>4. IsSequence(tokens)'
    BY <1>1, <1>2 DEF IsSequence
<1>5. NothingLost'
    BY <1>1, <1>2, SameText DEF NothingLost
<1>6. Munched'
    BY <1>1, <1>2 DEF Munched
<1> QED
    BY <1>1, <1>3, <1>4, <1>5, <1>6 DEF LexInv

LEMMA Stuttering == ASSUME LexInv, UNCHANGED lexVars PROVE LexInv'
<1>1. text' = text /\ at' = at /\ tokens' = tokens /\ lexing' = lexing
    BY DEF lexVars
<1>2. Placed /\ IsSequence(tokens) /\ NothingLost /\ Munched
    BY DEF LexInv
<1>3. Placed' /\ IsSequence(tokens)' /\ End' = End /\ Look' = Look
    BY <1>1, <1>2 DEF Placed, IsSequence, End, Look, Char
<1>4. NothingLost'
    BY <1>1, <1>2, <1>3, SameText DEF NothingLost
<1>5. Munched'
    BY <1>1, <1>2 DEF Munched
<1>6. (lexing = "reading" /\ Len(tokens) > 0 => Latest)'
    <2>1. lexing = "reading" /\ Len(tokens) > 0 => Latest
        BY DEF LexInv
    <2> QED
        BY <1>1, <1>3, <2>1 DEF Latest
<1> QED
    BY <1>1, <1>3, <1>4, <1>5, <1>6 DEF LexInv

LEMMA LexInvIsInvariant == LexSpec => []LexInv
<1>1. ASSUME LexInv, [LexNext]_lexVars
      PROVE  LexInv'
    <2>1. CASE UNCHANGED lexVars
        BY <1>1, <2>1, Stuttering
    <2>2. CASE LexNext
        <3>1. lexing = "reading" /\ Placed
            BY <1>1, <2>2, OnlyReading DEF LexInv
        <3>2. Fail \/ LexEnd \/ \E t : Takes(t)
            BY <2>2, <3>1, Steps
        <3> QED
            BY <1>1, <3>1, <3>2, TakesInv, EndInv, FailInv
    <2> QED
        BY <1>1, <2>1, <2>2
<1> QED
    BY <1>1, LexInitial, PTL DEF LexSpec

-----------------------------------------------------------------------------
(* Theorems.                                                               *)

\* The lexer loses no character of a text and takes none twice, and is done
\* only at the end, whatever the text, and whatever lies behind the buffer of
\* the reader.
THEOREM LexerLosesNothing == LexSpec => []NothingLost
<1>1. LexInv => NothingLost
    BY DEF LexInv
<1> QED
    BY <1>1, LexInvIsInvariant, PTL

\* Every token is a lexeme of its tag, and the longest one where it is.
THEOREM LexerTakesLongest == LexSpec => []LongestMatch
<1>1. LexInv => LongestMatch
    <2>1. SUFFICES ASSUME LexInv, NEW i \in 1..Len(tokens) - 1
                   PROVE  LET t == tokens[i]
                              next == SubSeq(tokens[i + 1].text, 1, 1)
                          IN  /\ Lexeme(t.tag, t.text)
                                 \/ (t = Token("integer", "-") /\ i = Len(tokens) - 1)
                              /\ /\ t.tag \in {"whitespace", "integer", "operator", "uppercase"}
                                 /\ tokens[i + 1].tag # "eof"
                                 => ~Lexeme(t.tag, t.text \o next)
        BY DEF LongestMatch
    <2>2. Munched
        BY <2>1 DEF LexInv
    <2> QED
        BY <2>1, <2>2 DEF Munched, Stops, Maximal, LoneMinus
<1> QED
    BY <1>1, LexInvIsInvariant, PTL

\* Every step of the loop moves the reader on, never back and never behind
\* the end of the text, or is the last one: the lexer takes at most as many
\* steps as the text has characters, and one more.
Onward ==
    /\ lexing = "reading"
    /\ \/ lexing' = "reading" /\ at' > at /\ at' <= Len(text) + 1 /\ text' = text
       \/ lexing' \in {"done", "failed"} /\ at' = at /\ text' = text

THEOREM LexerEnds == LexSpec => [][Onward]_lexVars
<1>1. ASSUME LexInv, LexNext
      PROVE  Onward
    <2>1. lexing = "reading" /\ Placed
        BY <1>1, OnlyReading DEF LexInv
    <2>2. Fail \/ LexEnd \/ \E t : Takes(t)
        BY <1>1, <2>1, Steps
    <2>3. CASE Fail
        BY <2>1, <2>3 DEF Fail, Onward
    <2>4. CASE LexEnd
        BY <2>1, <2>4 DEF LexEnd, Onward
    <2>5. CASE \E t : Takes(t)
        <3>1. /\ lexing' = "reading" /\ text' = text /\ at' \in at + 1..Len(text) + 1
            BY <2>5 DEF Takes
        <3>2. Len(text) \in Nat /\ at \in Nat
            BY <2>1, PlacedIs
        <3>3. at' > at /\ at' <= Len(text) + 1
            BY <3>1, <3>2
        <3> QED
            BY <2>1, <3>1, <3>3 DEF Onward
    <2> QED
        BY <2>2, <2>3, <2>4, <2>5
<1>2. ASSUME LexInv, [LexNext]_lexVars
      PROVE  [Onward]_lexVars
    BY <1>1, <1>2
<1> QED
    BY <1>2, LexInvIsInvariant, PTL DEF LexSpec

-----------------------------------------------------------------------------
(* The order of operators.                                                 *)

\* The place of a character of an operator, below all others behind its end.
Entry(o, i) == IF i <= Len(o) THEN OperatorCharEntry(OperatorChar(o, i)) ELSE -2

LEMMA EntryIs ==
    ASSUME NEW o, NEW i
    PROVE  Entry(o, i) \in Int /\ Entry(o, i) >= -2 /\ (i <= Len(o) => Entry(o, i) >= -1)
<1>1. ASSUME NEW c
      PROVE  OperatorCharEntry(c) \in Int /\ OperatorCharEntry(c) >= -1
    <2>1. DOMAIN Operators = 1..17
        BY DEF Operators
    <2>2. CASE \E j \in DOMAIN Operators : Operators[j] = c
        <3>1. OperatorCharEntry(c) = CHOOSE j \in DOMAIN Operators : Operators[j] = c
            BY <2>2 DEF OperatorCharEntry
        <3>2. (CHOOSE j \in DOMAIN Operators : Operators[j] = c) \in DOMAIN Operators
            BY <2>2
        <3> DEFINE e == CHOOSE j \in DOMAIN Operators : Operators[j] = c
        <3>3. e \in 1..17 /\ OperatorCharEntry(c) = e
            BY <2>1, <3>1, <3>2
        <3> HIDE DEF e
        <3> QED
            BY <3>3
    <2>3. CASE ~\E j \in DOMAIN Operators : Operators[j] = c
        <3>1. OperatorCharEntry(c) = -1 \/ OperatorCharEntry(c) = 0
            BY <2>3 DEF OperatorCharEntry
        <3> QED
            BY <3>1
    <2> QED
        BY <2>2, <2>3
<1> QED
    BY <1>1 DEF Entry

\* The first difference of two operators is at i, where o is the weaker one.
Weaker(o, p, i) ==
    /\ i \in Nat /\ i >= 1
    /\ \A j \in 1..i - 1 : Entry(o, j) = Entry(p, j)
    /\ Entry(o, i) < Entry(p, i)

LEMMA LessIs ==
    ASSUME NEW o, NEW p, Len(o) \in Nat, Len(p) \in Nat
    PROVE  OperatorLess(o, p) <=> \E i : Weaker(o, p, i)
<1> DEFINE m == Min({Len(o), Len(p)})
           differ == {i \in 1..m :
                OperatorCharEntry(OperatorChar(o, i)) # OperatorCharEntry(OperatorChar(p, i))}
<1>1. OperatorLess(o, p) <=>
        IF differ = {} THEN Len(o) < Len(p)
        ELSE OperatorCharEntry(OperatorChar(o, Min(differ)))
                < OperatorCharEntry(OperatorChar(p, Min(differ)))
    BY DEF OperatorLess
<1>2. m \in {Len(o), Len(p)} /\ m <= Len(o) /\ m <= Len(p)
    <2> DEFINE T == {Len(o), Len(p)}
    <2>1. T \subseteq Nat /\ T # {} /\ Len(o) \in T /\ Len(p) \in T
        OBVIOUS
    <2> HIDE DEF T
    <2>2. PICK n \in T : \A i \in T : n <= i
        BY <2>1, LeastNumber
    <2>3. Min(T) = n
        BY <2>1, <2>2, MinIs
    <2>4. m \in T /\ m <= Len(o) /\ m <= Len(p)
        BY <2>1, <2>2, <2>3 DEF T
    <2> QED
        BY <2>4 DEF T
<1> HIDE DEF m
<1>3. m \in Nat
    BY <1>2
<1>4. \A i \in 1..m : /\ Entry(o, i) = OperatorCharEntry(OperatorChar(o, i))
                      /\ Entry(p, i) = OperatorCharEntry(OperatorChar(p, i))
    BY <1>2, <1>3 DEF Entry
<1>5. \A i \in Nat : Entry(o, i) \in Int /\ Entry(p, i) \in Int
    BY EntryIs
<1>6. CASE differ = {}
    <2>1. \A i \in 1..m : Entry(o, i) = Entry(p, i)
        BY <1>4, <1>6
    <2>2. ASSUME Len(o) < Len(p)
          PROVE  Weaker(o, p, m + 1)
        <3>1. m = Len(o) /\ ~(m + 1 <= Len(o)) /\ m + 1 <= Len(p)
            BY <1>2, <2>2
        <3>2. Entry(o, m + 1) = -2
            BY <3>1 DEF Entry
        <3>3. Entry(p, m + 1) \in Int /\ Entry(p, m + 1) >= -1
            BY <3>1, EntryIs
        <3>4. Entry(o, m + 1) < Entry(p, m + 1)
            BY <3>2, <3>3
        <3>5. m + 1 \in Nat /\ m + 1 >= 1 /\ (m + 1) - 1 = m
            BY <1>3
        <3> QED
            BY <2>1, <3>4, <3>5 DEF Weaker
    <2>3. ASSUME NEW i, Weaker(o, p, i)
          PROVE  Len(o) < Len(p)
        <3>1. i \in Nat /\ i >= 1 /\ Entry(o, i) < Entry(p, i)
            BY <2>3 DEF Weaker
        <3>2. Entry(o, i) # Entry(p, i)
            BY <3>1, <1>5
        <3>3. i \notin 1..m
            BY <2>1, <3>2
        <3>4. i > m
            BY <3>1, <3>3, <1>3
        <3>5. SUFFICES ASSUME ~(Len(o) < Len(p))
                       PROVE  FALSE
            OBVIOUS
        <3>6. ~(i <= Len(p))
            BY <1>2, <3>1, <3>4, <3>5
        <3>7. Entry(p, i) = -2
            BY <3>6 DEF Entry
        <3>8. Entry(o, i) \in Int /\ Entry(o, i) >= -2
            BY EntryIs
        <3> QED
            BY <3>1, <3>7, <3>8
    <2> QED
        BY <1>1, <1>6, <2>2, <2>3
<1>7. CASE differ # {}
    <2> DEFINE k == Min(differ)
    <2>1. differ \subseteq Nat
        BY <1>3
    <2>2. PICK n \in differ : \A i \in differ : n <= i
        <3> HIDE DEF differ
        <3> QED
            BY <1>7, <2>1, LeastNumber
    <2>3. k = n
        <3> HIDE DEF differ
        <3> QED
            BY <2>1, <2>2, MinIs
    <2> HIDE DEF k
    <2>4. /\ k \in 1..m /\ Entry(o, k) # Entry(p, k)
          /\ \A i \in 1..m : Entry(o, i) # Entry(p, i) => k <= i
        BY <2>2, <2>3, <1>4
    <2>5. k \in Nat /\ k >= 1 /\ k <= m
        BY <2>4, <1>3
    <2>6. OperatorLess(o, p) <=> Entry(o, k) < Entry(p, k)
        <3>1. OperatorLess(o, p) <=>
                OperatorCharEntry(OperatorChar(o, k)) < OperatorCharEntry(OperatorChar(p, k))
            BY <1>1, <1>7 DEF k
        <3> QED
            BY <3>1, <1>4, <2>4
    <2>7. \A j \in 1..k - 1 : Entry(o, j) = Entry(p, j)
        <3> SUFFICES ASSUME NEW j \in 1..k - 1
                     PROVE  Entry(o, j) = Entry(p, j)
            OBVIOUS
        <3>1. j \in 1..m /\ ~(k <= j)
            BY <1>3, <2>5
        <3> QED
            BY <3>1, <2>4
    <2>8. ASSUME NEW i, Weaker(o, p, i)
          PROVE  i = k
        <3>1. /\ i \in Nat /\ i >= 1 /\ Entry(o, i) < Entry(p, i)
              /\ \A j \in 1..i - 1 : Entry(o, j) = Entry(p, j)
            BY <2>8 DEF Weaker
        <3>2. Entry(o, i) # Entry(p, i)
            BY <3>1, <1>5
        <3>3. ~(k < i)
            <4>1. k < i => k \in 1..i - 1
                BY <2>5, <3>1
            <4> QED
                BY <4>1, <3>1, <2>4
        <3>4. ~(i < k)
            <4>1. i < k => i \in 1..k - 1
                BY <2>5, <3>1
            <4> QED
                BY <4>1, <3>2, <2>7
        <3> QED
            BY <3>1, <3>3, <3>4, <2>5
    <2>9. Entry(o, k) < Entry(p, k) => Weaker(o, p, k)
        BY <2>5, <2>7 DEF Weaker
    <2>10. \A i : Weaker(o, p, i) => Entry(o, k) < Entry(p, k)
        BY <2>8 DEF Weaker
    <2> QED
        BY <2>6, <2>9, <2>10
<1> QED
    BY <1>6, <1>7

LEMMA LessAsymmetric ==
    ASSUME NEW o, NEW p, Len(o) \in Nat, Len(p) \in Nat, OperatorLess(o, p)
    PROVE  ~OperatorLess(p, o)
<1>1. SUFFICES ASSUME OperatorLess(p, o)
               PROVE  FALSE
    OBVIOUS
<1>2. PICK i : Weaker(o, p, i)
    BY LessIs
<1>3. PICK k : Weaker(p, o, k)
    BY <1>1, LessIs
<1>4. \A j \in Nat : Entry(o, j) \in Int /\ Entry(p, j) \in Int
    BY EntryIs
<1>5. /\ i \in Nat /\ i >= 1 /\ k \in Nat /\ k >= 1
      /\ \A j \in 1..i - 1 : Entry(o, j) = Entry(p, j)
      /\ \A j \in 1..k - 1 : Entry(p, j) = Entry(o, j)
      /\ Entry(o, i) < Entry(p, i) /\ Entry(p, k) < Entry(o, k)
    BY <1>2, <1>3 DEF Weaker
<1>6. CASE i < k
    <2>1. i \in 1..k - 1
        BY <1>5, <1>6
    <2>2. Entry(p, i) = Entry(o, i)
        BY <2>1, <1>5
    <2> QED
        BY <2>2, <1>4, <1>5
<1>7. CASE k < i
    <2>1. k \in 1..i - 1
        BY <1>5, <1>7
    <2>2. Entry(o, k) = Entry(p, k)
        BY <2>1, <1>5
    <2> QED
        BY <2>2, <1>4, <1>5
<1>8. CASE i = k
    BY <1>8, <1>4, <1>5
<1> QED
    BY <1>5, <1>6, <1>7, <1>8

\* What is between two operators is weaker than the one or stronger than the other.
LEMMA LessBetween ==
    ASSUME NEW o, NEW p, NEW q, Len(o) \in Nat, Len(p) \in Nat, Len(q) \in Nat,
           OperatorLess(o, q)
    PROVE  OperatorLess(o, p) \/ OperatorLess(p, q)
<1>1. PICK i : Weaker(o, q, i)
    BY LessIs
<1>2. \A j \in Nat : Entry(o, j) \in Int /\ Entry(p, j) \in Int /\ Entry(q, j) \in Int
    BY EntryIs
<1>3. /\ i \in Nat /\ i >= 1 /\ Entry(o, i) < Entry(q, i)
      /\ \A j \in 1..i - 1 : Entry(o, j) = Entry(q, j)
    BY <1>1 DEF Weaker
<1> DEFINE differ == {j \in 1..i : Entry(p, j) # Entry(o, j)}
<1>4. CASE differ = {}
    <2>1. \A j \in 1..i : Entry(p, j) = Entry(o, j)
        BY <1>4
    <2>2. i \in 1..i /\ \A j \in 1..i - 1 : j \in 1..i
        BY <1>3
    <2>3. Weaker(p, q, i)
        BY <2>1, <2>2, <1>3 DEF Weaker
    <2> QED
        BY <2>3, LessIs
<1>5. CASE differ # {}
    <2>1. differ \subseteq Nat
        BY <1>3
    <2>2. PICK k \in differ : \A j \in differ : k <= j
        <3> HIDE DEF differ
        <3> QED
            BY <1>5, <2>1, LeastNumber
    <2>3. k \in Nat /\ k >= 1 /\ k <= i /\ Entry(p, k) # Entry(o, k)
        BY <1>3, <2>2
    <2>4. \A j \in 1..k - 1 : Entry(p, j) = Entry(o, j) /\ Entry(o, j) = Entry(q, j)
        <3> SUFFICES ASSUME NEW j \in 1..k - 1
                     PROVE  Entry(p, j) = Entry(o, j) /\ Entry(o, j) = Entry(q, j)
            OBVIOUS
        <3>1. j \in 1..i /\ j \in 1..i - 1 /\ ~(k <= j)
            BY <1>3, <2>3
        <3>2. j \notin differ
            BY <3>1, <2>2
        <3> QED
            BY <3>1, <3>2, <1>3
    <2>5. Entry(o, k) <= Entry(q, k)
        <3>1. CASE k = i
            <4>1. Entry(o, k) < Entry(q, k)
                BY <3>1, <1>3
            <4> QED
                BY <4>1, <2>3, <1>2
        <3>2. CASE k # i
            <4>1. k \in 1..i - 1
                BY <3>2, <1>3, <2>3
            <4>2. Entry(o, k) = Entry(q, k)
                BY <4>1, <1>3
            <4> QED
                BY <4>2, <2>3, <1>2
        <3> QED
            BY <3>1, <3>2
    <2>6. CASE Entry(o, k) < Entry(p, k)
        <3>1. Weaker(o, p, k)
            BY <2>3, <2>4, <2>6 DEF Weaker
        <3> QED
            BY <3>1, LessIs
    <2>7. CASE Entry(p, k) < Entry(o, k)
        <3>1. Entry(p, k) < Entry(q, k)
            BY <2>3, <2>5, <2>7, <1>2
        <3>2. Weaker(p, q, k)
            BY <2>3, <2>4, <3>1 DEF Weaker
        <3> QED
            BY <3>2, LessIs
    <2> QED
        BY <2>3, <2>6, <2>7, <1>2
<1> QED
    BY <1>4, <1>5

\* The precedence of operators is a strict weak order: what parse_arithmetic
\* compares with operator_compare (syntactical.hpp:697) has a weakest operator,
\* and all that bind alike are neither weaker nor stronger than a third one.
THEOREM PrecedenceIsOrder ==
    \A o, p, q : Len(o) \in Nat /\ Len(p) \in Nat /\ Len(q) \in Nat =>
        /\ ~OperatorLess(o, o)
        /\ OperatorLess(o, p) /\ OperatorLess(p, q) => OperatorLess(o, q)
        /\ ~OperatorLess(o, p) /\ ~OperatorLess(p, q) => ~OperatorLess(o, q)
<1> SUFFICES ASSUME NEW o, NEW p, NEW q, Len(o) \in Nat, Len(p) \in Nat, Len(q) \in Nat
             PROVE  /\ ~OperatorLess(o, o)
                    /\ OperatorLess(o, p) /\ OperatorLess(p, q) => OperatorLess(o, q)
                    /\ ~OperatorLess(o, p) /\ ~OperatorLess(p, q) => ~OperatorLess(o, q)
    OBVIOUS
<1>1. ~OperatorLess(o, o)
    BY LessAsymmetric
<1>2. OperatorLess(o, p) /\ OperatorLess(p, q) => OperatorLess(o, q)
    BY LessAsymmetric, LessBetween
<1>3. ~OperatorLess(o, p) /\ ~OperatorLess(p, q) => ~OperatorLess(o, q)
    BY LessBetween
<1> QED
    BY <1>1, <1>2, <1>3

\* No infix operator binds weaker than the one that parse_arithmetic_expression
\* begins with (syntactical.hpp:718): its loop ends only where no infix
\* operator is, and leaves none of a chain.
THEOREM BottomIsWeakest ==
    \A o : Len(o) \in Nat \ {0} /\ OperatorIsInfix(o) => ~OperatorLess(o, OPERATOR_BOTTOM)
<1> SUFFICES ASSUME NEW o, Len(o) \in Nat \ {0}, OperatorIsInfix(o),
                    OperatorLess(o, OPERATOR_BOTTOM)
             PROVE  FALSE
    OBVIOUS
<1>1. IsSequence("=") /\ Len("=") = 1
    BY StringsAssumption
<1>2. Len(OPERATOR_BOTTOM) = 1 /\ OperatorChar(OPERATOR_BOTTOM, 1) = "="
    BY <1>1 DEF OPERATOR_BOTTOM, OperatorChar, IsSequence
<1>3. Entry(OPERATOR_BOTTOM, 1) = 1
    <2>1. \A j \in DOMAIN Operators : Operators[j] = "=" <=> j = 1
        BY DEF Operators
    <2>2. 1 \in DOMAIN Operators
        BY DEF Operators
    <2>3. OperatorCharEntry("=") = 1
        BY <2>1, <2>2 DEF OperatorCharEntry
    <2>4. Entry(OPERATOR_BOTTOM, 1) = OperatorCharEntry(OperatorChar(OPERATOR_BOTTOM, 1))
        BY <1>2 DEF Entry
    <2> QED
        BY <1>2, <2>3, <2>4
<1>4. PICK i : Weaker(o, OPERATOR_BOTTOM, i)
    BY <1>2, LessIs
<1>5. /\ i \in Nat /\ i >= 1 /\ Entry(o, i) < Entry(OPERATOR_BOTTOM, i)
      /\ \A j \in 1..i - 1 : Entry(o, j) = Entry(OPERATOR_BOTTOM, j)
    BY <1>4 DEF Weaker
<1>6. Entry(o, i) \in Int /\ Entry(o, i) >= -2
    BY EntryIs
<1>7. i = 1
    <2>1. i > 1 => Entry(OPERATOR_BOTTOM, i) = -2
        BY <1>2, <1>5 DEF Entry
    <2> QED
        BY <2>1, <1>5, <1>6
<1>8. Entry(o, 1) < 1
    BY <1>3, <1>5, <1>7
<1>9. FALSE
    <2>6. 1 <= Len(o)
        OBVIOUS
    <2> DEFINE c == OperatorChar(o, 1)
    <2>1. \E j \in DOMAIN Operators : Operators[j] = c
        BY DEF OperatorIsInfix, Infix
    <2> DEFINE e == CHOOSE j \in DOMAIN Operators : Operators[j] = c
    <2>2. e \in DOMAIN Operators /\ OperatorCharEntry(c) = e
        BY <2>1 DEF OperatorCharEntry
    <2>3. DOMAIN Operators = 1..17
        BY DEF Operators
    <2>4. Entry(o, 1) = e
        BY <2>6, <2>2 DEF Entry
    <2> HIDE DEF e
    <2>5. e \in 1..17
        BY <2>2, <2>3
    <2> QED
        BY <2>4, <2>5, <1>8
<1> QED
    BY <1>9

=============================================================================
