------------------------------- MODULE EgelAst -------------------------------
(***************************************************************************)
(* The abstract syntax tree (src/src/ast.hpp).  A node has a tag, the      *)
(* names it spells (a text, or the path of a qualified name) and its       *)
(* children in the order in which the passes visit them.  There is one     *)
(* constructor per class.  An optional child is a sequence of at most one. *)
(* Positions are left out.                                                 *)
(***************************************************************************)
EXTENDS Naturals, SequencesExt

Node(tag, names, kids) == [tag |-> tag, names |-> names, kids |-> kids]

AstEmpty == Node("empty", <<>>, <<>>)
AstDocstring(s) == Node("docstring", <<s>>, <<>>)

\* Literals: a text as it was written.
AstExprInteger(s) == Node("integer", <<s>>, <<>>)
AstExprHexInteger(s) == Node("hexinteger", <<s>>, <<>>)
AstExprFloat(s) == Node("float", <<s>>, <<>>)
AstExprComplex(s) == Node("complex", <<s>>, <<>>)
AstExprCharacter(s) == Node("character", <<s>>, <<>>)
AstExprText(s) == Node("text", <<s>>, <<>>)

AstExprVariable(s) == Node("variable", <<s>>, <<>>)
AstExprWildcard(s) == Node("wildcard", <<s>>, <<>>)
AstExprTag(e, t) == Node("tag", <<>>, <<e, t>>)
AstExprCombinator(path, c) == Node("combinator", Append(path, c), <<>>)
AstPath(path) == Node("path", path, <<>>)
AstAlias(l, r) == Node("alias", <<>>, <<l, r>>)
AstRename(n, nn) == Node("rename", <<>>, <<n>> \o nn)

\* A list with a tail is told from one without by its name.
AstExprList(content, tail) ==
    Node("list", IF tail = <<>> THEN <<>> ELSE <<"|">>, content \o tail)
AstExprTuple(content) == Node("tuple", <<>>, content)
AstExprApplication(arguments) == Node("application", <<>>, arguments)
AstExprMatch(patterns, guard, result) ==
    Node("match", <<>>, patterns \o <<guard, result>>)
AstExprBlock(matches) == Node("block", <<>>, matches)
AstExprLambda(matches) == Node("lambda", <<>>, matches)
AstExprLet(patterns, rhs, body) == Node("let", <<>>, patterns \o <<rhs, body>>)
AstExprTry(t, c) == Node("try", <<>>, <<t, c>>)
AstExprThrow(e) == Node("throw", <<>>, <<e>>)
AstExprIf(i, t, e) == Node("if", <<>>, <<i, t, e>>)
AstExprStatement(l, r) == Node("statement", <<>>, <<l, r>>)
AstExprDo(e) == Node("do", <<>>, <<e>>)

AstDeclNamespace(name, content) == Node("namespace", name, content)
AstDeclData(doc, names) == Node("data", <<>>, <<doc>> \o names)
AstDeclDefinition(n, doc, e) == Node("definition", <<>>, <<n, doc, e>>)
AstDeclValue(n, doc, e) == Node("value", <<>>, <<n, doc, e>>)
AstDeclOperator(n, doc, e) == Node("operator", <<>>, <<n, doc, e>>)
AstDirectImport(i) == Node("import", <<i>>, <<>>)
AstDirectUsing(using) == Node("using", <<>>, using)
AstWrapper(content) == Node("wrapper", <<>>, content)

-----------------------------------------------------------------------------
\* The parts of a node by their accessors.
HasTail(a) == a.names # <<>>
Content(a) == IF a.tag = "list" /\ HasTail(a) THEN Front(a.kids) ELSE a.kids
Patterns(a) == SubSeq(a.kids, 1, Len(a.kids) - 2)
Guard(a) == a.kids[Len(a.kids) - 1]
Result(a) == Last(a.kids)
Path(c) == Front(c.names)
Is(a, tag) == a.tag = tag

\* The elements of a set, in some order.
Listed(S) == FoldSet(LAMBDA x, s : Append(s, x), <<>>, S)

RECURSIVE Nodes(_)
\* Every node of a tree.
Nodes(a) == {a} \cup UNION {Nodes(a.kids[i]) : i \in DOMAIN a.kids}

-----------------------------------------------------------------------------
(* What parses or rewrites trees has a state of its own with the trees it  *)
(* has built and that have no parent yet, and whether it is still ok: an   *)
(* error is thrown at most once, after it the state stays as it is.        *)

Push(s, a) == IF s.ok THEN [s EXCEPT !.trees = Append(@, a)] ELSE s

\* The trees built since there were n, and a state with one tree for them.
Since(s, n) == SubSeq(s.trees, n + 1, Len(s.trees))
Built(s, n, a) == IF s.ok THEN [s EXCEPT !.trees = Append(SubSeq(@, 1, n), a)] ELSE s
\* The same, with a node that is made of those trees.
Made(s, n, Make(_)) == Built(s, n, Make(Since(s, n)))
\* How many trees there were.
Height(s) == Len(s.trees)
\* The node a again, with the trees that t has and s had not for its children.
Rebuilt(t, s, a) == Built(t, Height(s), [a EXCEPT !.kids = Since(t, Height(s))])

-----------------------------------------------------------------------------
(* Rendering, the text of a tree: what the debug options print.  A line    *)
(* that would be longer than line_length is broken; wide says that it is.  *)

Join(texts, separator) ==
    IF texts = <<>> THEN ""
    ELSE FoldLeft(LAMBDA s, t : s \o separator \o t, Head(texts), Tail(texts))

RenderDocstring(s) == IF s = "" THEN "" ELSE "@" \o s
RenderTag(e, t) == "(" \o e \o ":" \o t \o ")"
RenderPath(path) == Join(path, "::")
RenderAlias(l, r) == l \o " = " \o r
RenderRename(n, nn) == IF nn = <<>> THEN n ELSE n \o " (" \o Join(nn, ", ") \o ")"
\* Fault: the tail is rendered as one more element.
RenderListFlat(ee, tail) == "{" \o Join(ee \o tail, ",") \o "}"

RenderList(ee, tail) ==
    "{" \o Join(ee, ",") \o (IF tail = <<>> THEN "" ELSE "|" \o tail[1]) \o "}"
RenderTuple(ee) == "(" \o Join(ee, ",") \o ")"
RenderApplication(ee) == "(" \o Join(ee, " ") \o ")"
RenderMatch(pp, guard, e) ==
    Join(pp, " ") \o (IF guard = <<>> THEN "" ELSE " ? " \o guard[1]) \o " -> " \o e
RenderBlock(mm) == "[ " \o Join(mm, " | ") \o " ]"
RenderLambda(mm) == "\\" \o Join(mm, " | ")
\* A broken line puts nothing between the patterns of a let.
RenderLet(wide, pp, r, e) ==
    "(let " \o Join(pp, IF wide THEN "" ELSE " ") \o " = " \o r \o " in " \o e \o ")"
RenderTry(t, c) == "try (" \o t \o ") catch (" \o c \o ")"
RenderThrow(e) == "throw (" \o e \o ")"
\* The second alternative is not rendered, the first one is rendered twice.
RenderIf(i, t, e) == "if " \o i \o " then " \o t \o " else " \o t
RenderStatement(l, r) == l \o "; " \o r
RenderDo(e) == "(do " \o e \o ")"
RenderNamespace(path, dd) ==
    "namespace " \o RenderPath(path) \o " (\n" \o Join(dd, "") \o ")\n"
RenderData(doc, nn) == "data " \o doc \o " " \o Join(nn, ", ") \o "\n"
RenderDefinition(wide, n, doc, e) ==
    "def " \o n \o " = " \o (IF wide THEN "" ELSE doc) \o " " \o e \o "\n"
RenderValue(n, e) == "val " \o n \o " = " \o e \o "\n"
RenderOperator(n, e) == "def " \o n \o " = " \o e \o "\n"
RenderImport(i) == "import " \o i \o "\n"
RenderUsing(uu) == "using " \o Join(uu, ", ") \o "\n"
RenderWrapper(dd) == Join(dd, "\n") \o "\n"

RECURSIVE Render(_, _)
Render(wide, a) ==
    LET t == [i \in DOMAIN a.kids |-> Render(wide, a.kids[i])]
        n == Len(t)
    IN
    CASE a.tag = "empty" -> "(XX)"
      [] a.tag = "docstring" -> RenderDocstring(a.names[1])
      [] a.tag \in {"combinator", "path"} -> RenderPath(a.names)
      [] a.tag = "tag" -> RenderTag(t[1], t[2])
      [] a.tag = "alias" -> RenderAlias(t[1], t[2])
      [] a.tag = "rename" -> RenderRename(t[1], Tail(t))
      [] a.tag = "list" ->
            IF HasTail(a) THEN RenderList(Front(t), <<t[n]>>) ELSE RenderList(t, <<>>)
      [] a.tag = "tuple" -> RenderTuple(t)
      [] a.tag = "application" -> RenderApplication(t)
      [] a.tag = "match" ->
            RenderMatch(SubSeq(t, 1, n - 2),
                        IF Is(Guard(a), "empty") THEN <<>> ELSE <<t[n - 1]>>, t[n])
      [] a.tag = "block" -> RenderBlock(t)
      [] a.tag = "lambda" -> RenderLambda(t)
      [] a.tag = "let" -> RenderLet(wide, SubSeq(t, 1, n - 2), t[n - 1], t[n])
      [] a.tag = "try" -> RenderTry(t[1], t[2])
      [] a.tag = "throw" -> RenderThrow(t[1])
      [] a.tag = "if" -> RenderIf(t[1], t[2], t[3])
      [] a.tag = "statement" -> RenderStatement(t[1], t[2])
      [] a.tag = "do" -> RenderDo(t[1])
      [] a.tag = "namespace" -> RenderNamespace(a.names, t)
      [] a.tag = "data" -> RenderData(t[1], Tail(t))
      [] a.tag = "definition" -> RenderDefinition(wide, t[1], t[2], t[3])
      [] a.tag = "value" -> RenderValue(t[1], t[3])
      [] a.tag = "operator" -> RenderOperator(t[1], t[3])
      [] a.tag = "import" -> RenderImport(a.names[1])
      [] a.tag = "using" -> RenderUsing(t)
      [] a.tag = "wrapper" -> RenderWrapper(t)
      [] OTHER -> a.names[1]

=============================================================================
