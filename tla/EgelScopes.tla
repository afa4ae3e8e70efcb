------------------------------ MODULE EgelScopes ------------------------------
(***************************************************************************)
(* Scopes and namespaces (src/src/environment.hpp), and the pass that      *)
(* declares and identifies the names of a module (src/src/semantical.hpp). *)
(*                                                                         *)
(* A scope maps names to what they stand for.  A chain of scopes has the   *)
(* global one first and the innermost one last.                            *)
(***************************************************************************)
EXTENDS EgelAst, TLC

\* VM::qualified
Qualified(path, n) == Join(Append(path, n), "::")

StartsWith(s, prefix) ==
    Len(s) >= Len(prefix) /\ SubSeq(s, 1, Len(prefix)) = prefix
Without(s, n) == SubSeq(s, n + 1, Len(s))

Scope(space) == [names |-> [n \in {} |-> ""], space |-> space]
GlobalScope(names) == <<[names |-> [n \in names |-> n], space |-> ""]>>
\* Fault: the outermost scope is asked first.
GetOutermost(scopes, k) ==
    LET declaring == {i \in DOMAIN scopes : k \in DOMAIN scopes[i].names}
    IN  IF declaring = {} THEN "" ELSE scopes[Min(declaring)].names[k]

Get(scopes, k) ==
    LET declaring == {i \in DOMAIN scopes : k \in DOMAIN scopes[i].names}
    IN  IF declaring = {} THEN "" ELSE scopes[Max(declaring)].names[k]
GetGlobal(scopes, k) == Get(<<Head(scopes)>>, k)
EnterScope(scopes) == Append(scopes, Scope(Last(scopes).space))
LeaveScope(scopes) == Front(scopes)
ExtendNamespace(space, s) == IF space = "" THEN s ELSE space \o "::" \o s

\* The global names that start with a text, be it a whole namespace or not.
GetNamespace(scopes, space) == {k \in DOMAIN Head(scopes).names : StartsWith(k, space)}

-----------------------------------------------------------------------------
(* A pass has its chain of scopes besides its trees.                       *)

SemanticalError(s) == [s EXCEPT !.ok = FALSE]

\* Declaration in the i-th scope; a name is declared once.
DeclareAt(s, i, k, v) ==
    CASE ~s.ok -> s
      [] s.ok /\ k \in DOMAIN s.scopes[i].names -> SemanticalError(s)
      [] OTHER -> [s EXCEPT !.scopes[i].names = (k :> v) @@ @]

\* A new scope with all that the namespace has so far, without its prefix.
EnterNamespace(s, path) ==
    LET space == ExtendNamespace(Last(s.scopes).space, Join(path, "::"))
        declared == GetNamespace(s.scopes, space)
        Local(k) == Without(k, Len(space) + 2)
        names == {Local(k) : k \in declared}
        scope == [names |-> [n \in names |-> CHOOSE k \in declared : Local(k) = n],
                  space |-> space]
    IN  IF Cardinality(names) < Cardinality(declared)
        THEN SemanticalError(s)
        ELSE [s EXCEPT !.scopes = Append(@, scope)]

\* VisitDeclare: all names a declaration introduces become global.
RECURSIVE Declare(_, _, _)
Declare(s, path, a) ==
    LET DeclareAll(path1, kids) == FoldLeft(LAMBDA t, k : Declare(t, path1, k), s, kids)
    IN
    CASE Is(a, "combinator") ->
            LET q == Qualified(path \o Path(a), Last(a.names)) IN DeclareAt(s, 1, q, q)
      [] Is(a, "data") -> DeclareAll(path, Tail(a.kids))
      [] a.tag \in {"definition", "value", "operator"} -> Declare(s, path, Head(a.kids))
      [] Is(a, "namespace") -> DeclareAll(path \o a.names, a.kids)
      [] Is(a, "using") -> s
      [] OTHER -> DeclareAll(path, a.kids)

-----------------------------------------------------------------------------
(* RewriteIdentify: every name gets what it stands for, every variable of  *)
(* a pattern a new name, and the declarations are taken out of their       *)
(* namespaces.                                                             *)

FreshVariable(s) == "V_" \o ToString(s.counter)

RECURSIVE Identify(_, _)
IdentifyAll(s, aa) == FoldLeft(Identify, s, aa)

SetState(s, declaring) == [s EXCEPT !.declaring = declaring]
Entered(s) == [s EXCEPT !.scopes = EnterScope(@)]
Left(s) == [s EXCEPT !.scopes = LeaveScope(@)]

IdentifyVariable(s, v) ==
    CASE s.declaring ->
            LET t == DeclareAt(s, Len(s.scopes), v, FreshVariable(s))
            IN  Push([t EXCEPT !.counter = @ + 1], AstExprVariable(FreshVariable(s)))
      [] ~s.declaring /\ Get(s.scopes, v) = "" -> SemanticalError(s)
      [] OTHER -> Push(s, AstExprVariable(Get(s.scopes, v)))

IdentifyCombinator(s, c) ==
    LET v == Get(s.scopes, Qualified(Path(c), Last(c.names)))
    IN  IF v = "" THEN SemanticalError(s) ELSE Push(s, AstExprCombinator(<<>>, v))

IdentifyMatch(s, a) ==
    LET patterns == IdentifyAll(SetState(Entered(s), TRUE), Patterns(a))
        guard == Identify(SetState(patterns, FALSE), Guard(a))
        result == Identify(SetState(guard, FALSE), Result(a))
    IN  Left(Rebuilt(result, s, a))

\* The right hand side is outside of the scope of the patterns.
IdentifyLet(s, a) ==
    LET rhs == Identify(SetState(s, FALSE), Guard(a))
        lhs == IdentifyAll(SetState(Entered(rhs), TRUE), Patterns(a))
        body == Identify(SetState(lhs, FALSE), Result(a))
        k == Since(body, Height(s))
    IN  Left(Built(body, Height(s),
                   AstExprLet(SubSeq(k, 2, Len(k) - 1), Head(k), Last(k))))

IdentifyTag(s, a) ==
    LET e == Identify(SetState(s, TRUE), a.kids[1])
        t == Identify(SetState(e, FALSE), a.kids[2])
    IN  SetState(Built(t, Height(s), AstExprTag(t.trees[Len(t.trees) - 1], Last(t.trees))), TRUE)

\* An alias of both sides for whatever is none.
Aliasing(a) == IF Is(a, "alias") THEN a ELSE AstAlias(a, a)

\* using: what follows the names without their namespace stands for them.
IdentifyRename(s, a) ==
    LET space == IF Is(Head(a.kids), "alias") THEN Head(a.kids)
                 ELSE AstAlias(AstPath(<<>>), Head(a.kids))
        from == space.kids[1].names
        to == space.kids[2].names
        all == Listed(GetNamespace(s.scopes, Join(to, "::")))
        named == IF Len(a.kids) > 1 THEN Tail(a.kids)
                 ELSE [i \in DOMAIN all |->
                        AstExprCombinator(<<>>, Without(all[i], Len(Join(to, "::")) + 2))]
        DeclareAlias(t, n) ==
            LET k == Qualified(from, Render(FALSE, Aliasing(n).kids[1]))
                v == Qualified(to, Render(FALSE, Aliasing(n).kids[2]))
            IN  IF GetGlobal(t.scopes, v) = "" THEN SemanticalError(t)
                ELSE DeclareAt(t, Len(t.scopes), k, v)
    IN  Push(FoldLeft(DeclareAlias, s, named), a)

\* A declaration: its names and its body, its documentation is as before.
IdentifyDeclaration(s, a) ==
    LET IsDoc(k) == Is(k, "docstring")
        IdentifyKid(t, k) == IF IsDoc(k) THEN Push(t, k) ELSE Identify(t, k)
        t == FoldLeft(IdentifyKid, SetState(s, FALSE), a.kids)
        d == [a EXCEPT !.kids = Since(t, Height(s))]
    IN  [Built(t, Height(s), d) EXCEPT !.declarations = Append(@, d)]

IdentifyNamespace(s, a) ==
    LET t == IdentifyAll(EnterNamespace(s, a.names), a.kids)
    IN  Left(Rebuilt(t, s, a))

Identify(s, a) ==
    CASE ~s.ok -> s
      [] s.ok /\ Is(a, "variable") -> IdentifyVariable(s, a.names[1])
      [] s.ok /\ Is(a, "combinator") -> IdentifyCombinator(s, a)
      [] s.ok /\ Is(a, "match") -> IdentifyMatch(s, a)
      [] s.ok /\ Is(a, "let") -> IdentifyLet(s, a)
      [] s.ok /\ Is(a, "tag") -> IdentifyTag(s, a)
      [] s.ok /\ Is(a, "rename") -> IdentifyRename(s, a)
      [] s.ok /\ a.tag \in {"data", "definition", "value", "operator"} -> IdentifyDeclaration(s, a)
      [] s.ok /\ Is(a, "namespace") -> IdentifyNamespace(s, a)
      [] OTHER -> Rebuilt(IdentifyAll(s, a.kids), s, a)

\* A pass over a tree in a global scope with these names.
Pass(scopes) ==
    [trees |-> <<>>, ok |-> TRUE, scopes |-> scopes, declaring |-> FALSE,
     counter |-> 0, declarations |-> <<>>]

Declared(names, a) == Declare(Pass(GlobalScope(names)), <<>>, a)
Identified(names, a) ==
    LET s == Identify(Pass(EnterScope(GlobalScope(names))), a)
    IN  [s EXCEPT !.trees = <<AstWrapper(s.declarations)>>]

=============================================================================
