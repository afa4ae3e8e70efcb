----------------------------- MODULE EgelMeaning -----------------------------
(***************************************************************************)
(* What an expression means, without redexes, continuations or a heap: the *)
(* reference the trampoline is compared with.  A value is a combinator or  *)
(* an application of values.  The meaning of an expression is a value or   *)
(* the arguments of a throw.                                               *)
(***************************************************************************)
EXTENDS EgelTerms, Sequences, SequencesExt

Value(v) == [thrown |-> FALSE, value |-> v]
Thrown(args) == [thrown |-> TRUE, value |-> args]

\* The application of values to values, as a value.
Applied(items) == IF Len(items) = 1 THEN items[1] ELSE items

Atomic(e) == e \in Combinators \cup Params

MatchesPattern(p, v) ==
    \/ p \in Params
    \/ p \in Combinators /\ v = p
    \/ /\ ~Atomic(p) /\ ~Atomic(v)
       /\ Len(p) = Len(v)
       /\ \A i \in DOMAIN p : p[i] \in Params \/ p[i] = v[i]

\* The variables of the patterns, and what they stand for.
Bindings(pats, args) ==
    UNION {IF pats[i] \in Params THEN {<<pats[i], args[i]>>}
           ELSE IF pats[i] \in Combinators THEN {}
           ELSE {<<pats[i][j], args[i][j]>> : j \in DOMAIN pats[i]} : i \in DOMAIN pats}

Lookup(bindings, x) == (CHOOSE b \in bindings : b[1] = x)[2]

RECURSIVE Apply(_, _, _), Evaluate(_, _, _, _)

\* A value applied to values.
Apply(rules, f, args) ==
    LET rest(n) == SubSeq(args, n + 1, Len(args))
        itself == Value(Applied(<<f>> \o args))
        first == IF args = <<>> THEN None ELSE args[1]
    IN
    IF ~Atomic(f) THEN Apply(rules, f[1], Tail(f) \o args)
    ELSE IF f \in Users
    THEN LET matching == {i \in DOMAIN rules[f] :
                            /\ Len(rules[f][i].pats) <= Len(args)
                            /\ \A j \in DOMAIN rules[f][i].pats :
                                    MatchesPattern(rules[f][i].pats[j], args[j])}
         IN  IF matching = {} THEN itself
             ELSE LET rule == rules[f][CHOOSE i \in matching : \A j \in matching : i <= j]
                      n == Len(rule.pats)
                  IN  Evaluate(rules, Bindings(rule.pats, args), rule.expr, rest(n))
    ELSE
    CASE Def[f].kind = "data" -> itself
      [] Def[f].kind = "throw" -> IF args = <<>> THEN itself ELSE Thrown(args)
      [] Def[f].kind = "stall" -> IF args = <<>> THEN itself ELSE Value(Applied(args))
      [] Def[f].kind = "handle" ->
            IF Len(args) < 2 THEN itself
            ELSE LET tried == Apply(rules, args[2], <<None>> \o rest(2))
                 IN  IF tried.thrown THEN Apply(rules, args[1], <<None>> \o tried.value)
                     ELSE tried
      [] Def[f].kind = "napp" ->
            IF Len(args) < 2 THEN itself
            ELSE LET inner == Apply(rules, args[2], rest(2))
                 IN  IF inner.thrown THEN inner
                     ELSE Apply(rules, args[1], <<inner.value>>)
      [] Def[f].kind = "variadic" ->
            CASE Def[f].does = "gives" -> Value(first)
              [] Def[f].does = "stuck" -> itself
              [] OTHER -> Thrown(<<first>>)
      [] OTHER ->
            LET n == Arity[Def[f].kind]
                operand == IF n = 0 THEN None ELSE args[1]
            IN  CASE Len(args) < n \/ Def[f].does = "stuck" -> itself
                  [] Len(args) >= n /\ Def[f].does = "raises" -> Thrown(<<operand>>)
                  [] Len(args) >= n /\ Def[f].does = "gives" ->
                        IF Def[f].kind \in {"unary", "binary", "ternary"}
                        THEN Apply(rules, operand, rest(n))
                        ELSE Value(Applied(<<operand>> \o rest(n)))

\* An expression whose value is applied to args: eager, left to right.
Evaluate(rules, bindings, e, args) ==
    LET head == IF Atomic(e) THEN e ELSE e[1]
        f == IF head \in Params THEN Lookup(bindings, head) ELSE head
        Part(acc, p) ==
            IF acc.thrown THEN acc
            ELSE LET q == IF p \in Params THEN Value(Lookup(bindings, p))
                          ELSE Evaluate(rules, bindings, p, <<>>)
                 IN  IF q.thrown THEN q ELSE Value(Append(acc.value, q.value))
        parts == IF Atomic(e) THEN Value(<<>>) ELSE FoldLeft(Part, Value(<<>>), Tail(e))
    IN  IF parts.thrown THEN parts ELSE Apply(rules, f, parts.value \o args)

=============================================================================
