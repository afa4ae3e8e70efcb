------------------------------ MODULE EgelParser ------------------------------
(***************************************************************************)
(* The parser (src/src/syntactical.hpp), a recursive descent over tokens.  *)
(*                                                                         *)
(* A parse is the tokens that are left, the trees that were built but have *)
(* no parent yet, and whether an ErrorSyntactical was thrown.  An operator *)
(* takes a parse to the one after its method returned, with the tree the   *)
(* method returns as the last one.  A parse that failed stays as it is.    *)
(***************************************************************************)
EXTENDS EgelAst, EgelOperators

Parse(tt) == [rest |-> tt, trees |-> <<>>, ok |-> TRUE]

\* Tokens::look: the last token (end of file) when there are no more.
LookAt(s, n) == IF n + 1 <= Len(s.rest) THEN s.rest[n + 1] ELSE s.rest[Len(s.rest)]
Tag(s) == LookAt(s, 0).tag
Text(s) == LookAt(s, 0).text
Tags(s, n) == LookAt(s, n).tag
Skip(s) == IF s.ok /\ Len(s.rest) > 1 THEN [s EXCEPT !.rest = Tail(@)] ELSE s

SyntaxError(s) == [s EXCEPT !.ok = FALSE]
Checked(s, tag) == IF s.ok /\ Tag(s) # tag THEN SyntaxError(s) ELSE s
Force(s, tag) ==
    CASE ~s.ok -> s
      [] s.ok /\ Tag(s) = tag -> Skip(s)
      [] OTHER -> SyntaxError(s)

\* The trees since there were n: one is itself, more are an application.
Juxtaposed(s, n) ==
    IF Height(s) = n + 1 THEN s ELSE Built(s, n, AstExprApplication(Since(s, n)))

\* ')': one tree since there were n is itself, more are a tuple.
CloseTuple(s, n) ==
    IF Height(s) > n + 1 THEN Built(Force(s, "rparen"), n, AstExprTuple(Since(s, n)))
    ELSE Force(s, "rparen")

\* '}': the trees since there were n are a list, the last one may be its tail.
CloseList(s, n, hasTail) ==
    Built(Force(s, "rcurly"), n,
          IF hasTail THEN AstExprList(Front(Since(s, n)), <<Last(s.trees)>>)
          ELSE AstExprList(Since(s, n), <<>>))

-----------------------------------------------------------------------------
\* Literals.

ParseInteger(s) == Skip(Push(s, AstExprInteger(Text(s))))
ParseHexInteger(s) == Skip(Push(s, AstExprHexInteger(Text(s))))
ParseCharacter(s) == Skip(Push(s, AstExprCharacter(Text(s))))
ParseText(s) == Skip(Push(s, AstExprText(Text(s))))

Minus(t) == SubSeq(t, 1, 1) = "-"

ParseFloatOrComplex(s) ==
    LET re == Text(s)
        sign == LookAt(s, 1).text
        im == LookAt(s, 2).text
        number(t, n) ==
            [Push(s, AstExprComplex(t)) EXCEPT !.rest = SubSeq(@, n + 1, Len(@))]
    IN
    CASE Tag(s) = "float" /\ sign \in {"+", "-"} /\ Tags(s, 2) = "imaginary" ->
            CASE sign = "+" -> number(re \o "+" \o im, 3)
              [] sign = "-" /\ Minus(im) -> number(re \o "+" \o SubSeq(im, 2, Len(im)), 3)
              [] OTHER -> number(re \o "-" \o im, 3)
      [] Tag(s) = "float" /\ Tags(s, 1) = "imaginary" -> number(re \o sign, 2)
      [] Tag(s) = "float" /\ Tags(s, 1) # "imaginary"
                          /\ ~(sign \in {"+", "-"} /\ Tags(s, 2) = "imaginary") ->
            Skip(Push(s, AstExprFloat(re)))
      [] OTHER -> SyntaxError(s)

ParseDocstringOption(s) ==
    IF s.ok /\ Text(s) = "@" /\ Tags(s, 1) = "text"
    THEN Skip(Skip(Push(s, AstDocstring(LookAt(s, 1).text))))
    ELSE Push(s, AstDocstring(""))

-----------------------------------------------------------------------------
\* Names, which may be qualified.

\* The number of tokens of the namespaces before a name: UPPERCASE '::' ...
Qualification(s, n) ==
    2 * Min({k \in 0..Len(s.rest) : ~(/\ Tags(s, n + 2 * k) = "uppercase"
                                      /\ Tags(s, n + 2 * k + 1) = "dcolon")})

Named(s) == Tags(s, Qualification(s, 0))
IsVariable(s) == Tag(s) = "uppercase"
IsWildcard(s) == Text(s) = "_"
IsCombinator(s) == Named(s) = "lowercase"
IsOperator(s) == Named(s) = "operator"
PeekOperator(s) == IF IsOperator(s) THEN LookAt(s, Qualification(s, 0)).text ELSE ""

IsEnclosedOperator(s) ==
    /\ Tag(s) = "lparen"
    /\ LET n == 1 + Qualification(s, 1)
       IN  Tags(s, n) = "operator" /\ Tags(s, n + 1) = "rparen"

ParseVariable(s) == Skip(Push(Checked(s, "uppercase"), AstExprVariable(Text(s))))
ParseWildcard(s) == Skip(Push(s, AstExprWildcard(Text(s))))

\* A qualified name with a token of the given tag at its end.
ParseName(s, tag, mark) ==
    LET n == Qualification(s, 0)
        path == [i \in 1..(n \div 2) |-> LookAt(s, 2 * i - 2).text]
    IN  IF s.ok /\ Tags(s, n) = tag
        THEN Skip([Push(s, AstExprCombinator(path, mark \o LookAt(s, n).text))
                    EXCEPT !.rest = SubSeq(@, n + 1, Len(@))])
        ELSE SyntaxError(s)

ParseCombinator(s) == ParseName(s, "lowercase", "")
ParseOperator(s) == ParseName(s, "operator", "")
ParsePrefixOperator(s) == ParseName(s, "operator", "!")
ParseEnclosedOperator(s) == Force(ParseOperator(Force(s, "lparen")), "rparen")

ParseNamespace(s) ==
    LET uppercase(k) == Tags(s, 2 * k - 1) = "dcolon" /\ Tags(s, 2 * k) = "uppercase"
        n == Min({k \in 1..(Len(s.rest) + 1) : ~uppercase(k)})
    IN  IF s.ok /\ Tag(s) = "uppercase"
        THEN [Push(s, AstPath([i \in 1..n |-> LookAt(s, 2 * i - 2).text]))
                EXCEPT !.rest = SubSeq(@, 2 * n, Len(@))]
        ELSE SyntaxError(s)

-----------------------------------------------------------------------------
\* Patterns.

Literals == {"integer", "hexinteger", "float", "char", "text"}

ParseLiteral(s) ==
    CASE Tag(s) = "integer" -> ParseInteger(s)
      [] Tag(s) = "hexinteger" -> ParseHexInteger(s)
      [] Tag(s) = "char" -> ParseCharacter(s)
      [] Tag(s) = "text" -> ParseText(s)
      [] OTHER -> ParseFloatOrComplex(s)

IsPatternPrimary(s) ==
    /\ s.ok
    /\ \/ Tag(s) \in Literals \cup {"lparen", "lcurly"}
       \/ IsWildcard(s) \/ IsVariable(s) \/ IsCombinator(s)

RECURSIVE ParsePatternPrimary(_), ParsePatternPrimaries(_), ParsePatterns(_),
          ParsePatternEnclosed(_), ParsePatternTuple(_), ParsePatternList(_),
          ParsePatternContent(_)

\* A name in a pattern, which may have a tag.
ParseTagOption(s, n) ==
    IF s.ok /\ Tag(s) = "colon"
    THEN Made(ParseCombinator(Skip(s)), n, LAMBDA k : AstExprTag(k[1], k[2]))
    ELSE s

ParsePatternName(s) ==
    ParseTagOption(CASE IsWildcard(s) -> ParseWildcard(s)
                     [] ~IsWildcard(s) /\ IsCombinator(s) -> ParseCombinator(s)
                     [] OTHER -> ParseVariable(s),
                   Height(s))

ParsePatternPrimary(s) ==
    CASE ~s.ok -> s
      [] s.ok /\ Tag(s) \in Literals \cup {"imaginary"} -> ParseLiteral(s)
      [] s.ok /\ Tag(s) = "lparen" -> ParsePatternEnclosed(s)
      [] s.ok /\ Tag(s) = "lcurly" -> ParsePatternList(s)
      [] OTHER -> ParsePatternName(s)

\* while (is_pattern_primary())
ParsePatterns(s) ==
    IF IsPatternPrimary(s) THEN ParsePatterns(ParsePatternPrimary(s)) ELSE s

ParsePatternPrimaries(s) ==
    IF IsPatternPrimary(s) THEN Juxtaposed(ParsePatterns(s), Height(s)) ELSE SyntaxError(s)

\* while (tag() == TOKEN_COMMA)
ParsePatternTuple(s) ==
    IF s.ok /\ Tag(s) = "comma" THEN ParsePatternTuple(ParsePatternPrimaries(Skip(s))) ELSE s

ParsePatternEnclosed(s) ==
    IF IsEnclosedOperator(s) THEN ParseEnclosedOperator(s)
    ELSE CloseTuple(ParsePatternTuple(ParsePatternPrimaries(Force(s, "lparen"))), Height(s))

ParsePattern(s) == IF IsPatternPrimary(s) THEN ParsePatternPrimary(s) ELSE SyntaxError(s)

ParsePatternContent(s) ==
    IF s.ok /\ Tag(s) = "comma" THEN ParsePatternContent(ParsePattern(Skip(s))) ELSE s

ParsePatternListTail(s, n) ==
    IF s.ok /\ Tag(s) = "|" THEN CloseList(ParsePattern(Skip(s)), n, TRUE)
    ELSE CloseList(s, n, FALSE)

ParsePatternList(s) ==
    LET open == Force(s, "lcurly")
    IN  IF Tag(open) = "rcurly" THEN CloseList(open, Height(s), FALSE)
        ELSE ParsePatternListTail(ParsePatternContent(ParsePattern(open)), Height(s))

-----------------------------------------------------------------------------
\* Expressions.

RECURSIVE ParseMatches(_), ParseBar(_), ParseTuple(_), ParseEnclosed(_), ParseContent(_), ParseList(_),
          ParsePrimary(_), ParsePrimaryPrefix(_), ParseArguments(_),
          ParseArithmetic(_, _), ParseOperand(_, _), ParseExpression(_)

\* A match, and the trees of its patterns and its result as one.
ParseMatch(s) ==
    Made(ParseExpression(Force(ParsePatterns(s), "->")), Height(s),
         LAMBDA k : AstExprMatch(Front(k), AstEmpty, Last(k)))

\* do skip(); ... while (tag() == TOKEN_BAR)
ParseMatches(s) == ParseBar(ParseMatch(Skip(s)))
ParseBar(s) == IF s.ok /\ Tag(s) = "|" THEN ParseMatches(s) ELSE s

ParseBlock(s) ==
    Made(Force(ParseMatches(Checked(s, "lsquare")), "rsquare"), Height(s), AstExprBlock)

ParseLambda(s) == Made(ParseMatches(Checked(s, "\\")), Height(s), AstExprLambda)

ParseTuple(s) ==
    IF s.ok /\ Tag(s) = "comma" THEN ParseTuple(ParseExpression(Skip(s))) ELSE s

ParseEnclosed(s) ==
    IF IsEnclosedOperator(s) THEN ParseEnclosedOperator(s)
    ELSE CloseTuple(ParseTuple(ParseExpression(Force(s, "lparen"))), Height(s))

ParseContent(s) ==
    IF s.ok /\ Tag(s) = "comma" THEN ParseContent(ParseExpression(Skip(s))) ELSE s

ParseListTail(s, n) ==
    IF s.ok /\ Tag(s) = "|" THEN CloseList(ParseExpression(Skip(s)), n, TRUE)
    ELSE CloseList(s, n, FALSE)

ParseList(s) ==
    LET open == Force(s, "lcurly")
    IN  IF Tag(open) = "rcurly" THEN CloseList(open, Height(s), FALSE)
        ELSE ParseListTail(ParseContent(ParseExpression(open)), Height(s))

\* A keyword and an expression.
ParseAfter(s, keyword) == ParseExpression(Force(s, keyword))

ParseIf(s) ==
    Made(ParseAfter(ParseAfter(ParseAfter(s, "if"), "then"), "else"), Height(s),
         LAMBDA k : AstExprIf(k[1], k[2], k[3]))

ParseTry(s) ==
    Made(ParseAfter(ParseAfter(s, "try"), "catch"), Height(s),
         LAMBDA k : AstExprTry(k[1], k[2]))

ParseThrow(s) == Made(ParseAfter(s, "throw"), Height(s), LAMBDA k : AstExprThrow(k[1]))

ParseLet(s) ==
    Made(ParseAfter(ParseAfter(ParsePatterns(Force(s, "let")), "="), "in"), Height(s),
         LAMBDA k : AstExprLet(Front(Front(k)), Last(Front(k)), Last(k)))

ParseDo(s) == Made(ParseAfter(s, "do"), Height(s), LAMBDA k : AstExprDo(k[1]))

Keywords == {"if", "try", "throw", "let", "do"}

IsPrimary(s) ==
    /\ s.ok
    /\ \/ Tag(s) \in Literals \cup Keywords \cup {"lparen", "lsquare", "lcurly", "\\"}
       \/ ~IsOperator(s) /\ (IsCombinator(s) \/ IsVariable(s))

ParsePrimary(s) ==
    CASE ~s.ok -> s
      [] s.ok /\ Tag(s) \in Literals \cup {"imaginary"} -> ParseLiteral(s)
      [] s.ok /\ Tag(s) = "lparen" -> ParseEnclosed(s)
      [] s.ok /\ Tag(s) = "lcurly" -> ParseList(s)
      [] s.ok /\ Tag(s) = "lsquare" -> ParseBlock(s)
      [] s.ok /\ Tag(s) = "\\" -> ParseLambda(s)
      [] s.ok /\ Tag(s) = "if" -> ParseIf(s)
      [] s.ok /\ Tag(s) = "try" -> ParseTry(s)
      [] s.ok /\ Tag(s) = "throw" -> ParseThrow(s)
      [] s.ok /\ Tag(s) = "let" -> ParseLet(s)
      [] s.ok /\ Tag(s) = "do" -> ParseDo(s)
      [] OTHER -> IF IsCombinator(s) THEN ParseCombinator(s) ELSE ParseVariable(s)

\* A prefix operator applies to the primary that follows it, not to the
\* application that one may be the head of.
ParsePrimaryPrefix(s) ==
    IF s.ok /\ IsOperator(s) /\ OperatorIsPrefix(PeekOperator(s))
    THEN Made(ParsePrimaryPrefix(ParsePrefixOperator(s)), Height(s), AstExprApplication)
    ELSE ParsePrimary(s)

\* while (is_primary())
ParseArguments(s) == IF IsPrimary(s) THEN ParseArguments(ParsePrimaryPrefix(s)) ELSE s

ParsePrimaries(s) == Juxtaposed(ParseArguments(ParsePrimaryPrefix(s)), Height(s))

IsInfix(s) == s.ok /\ IsOperator(s) /\ OperatorIsInfix(PeekOperator(s))

\* Fault: all operators associate to the left.
ParseOperandLeft(s, op) ==
    LET la == PeekOperator(s)
    IN  IF IsInfix(s) /\ OperatorLess(op, la) THEN ParseOperand(ParseArithmetic(s, la), op) ELSE s

\* The last tree is an operand; the inner loop extends it as long as the
\* operator after it binds stronger than op.
ParseOperand(s, op) ==
    LET la == PeekOperator(s)
    IN  IF IsInfix(s) /\ (OperatorLess(op, la) \/ (op = la /\ OperatorIsRightAssociative(la)))
        THEN ParseOperand(ParseArithmetic(s, la), op)
        ELSE s

\* parse_arithmetic_expression_1: the last tree is the left operand.
ParseArithmetic(s, mp) ==
    LET la == PeekOperator(s)
        infix == Made(ParseOperand(ParsePrimaries(ParseOperator(s)), la), Height(s) - 1,
                      LAMBDA k : AstExprApplication(<<k[2], k[1], k[3]>>))
    IN  IF IsInfix(s) /\ ~OperatorLess(la, mp) THEN ParseArithmetic(infix, mp) ELSE s

ParseArithmeticExpression(s) == ParseArithmetic(ParsePrimaries(s), OPERATOR_BOTTOM)

ParseStatementOption(s, n) ==
    IF s.ok /\ Tag(s) = "semicolon"
    THEN Made(ParseExpression(Skip(s)), n, LAMBDA k : AstExprStatement(k[1], k[2]))
    ELSE s

ParseExpression(s) == ParseStatementOption(ParseArithmeticExpression(s), Height(s))

-----------------------------------------------------------------------------
\* Declarations.

RECURSIVE ParseNames(_), ParseDecls(_, _), ParseDeclOrDirective(_)

ParseNames(s) ==
    IF s.ok /\ Tag(s) = "comma" THEN ParseNames(ParseCombinator(Skip(s))) ELSE s

ParseDeclData(s) ==
    Made(ParseNames(ParseCombinator(ParseDocstringOption(Force(s, "data")))), Height(s),
         LAMBDA k : AstDeclData(Head(k), Tail(k)))

\* '=' docstring expression, after a name.
ParseDefinition(s) == ParseExpression(ParseDocstringOption(Force(s, "=")))

ParseDeclDefinition(s) ==
    LET d == Force(s, "def")
        name == IF IsCombinator(d) THEN ParseCombinator(d) ELSE ParseOperator(d)
    IN  Made(ParseDefinition(name), Height(s),
             LAMBDA k : IF IsCombinator(d) THEN AstDeclDefinition(k[1], k[2], k[3])
                        ELSE AstDeclOperator(k[1], k[2], k[3]))

ParseDeclValue(s) ==
    Made(ParseDefinition(ParseCombinator(Force(s, "val"))), Height(s),
         LAMBDA k : AstDeclValue(k[1], k[2], k[3]))

\* while (tag() != end)
ParseDecls(s, end) ==
    IF s.ok /\ Tag(s) # end THEN ParseDecls(ParseDeclOrDirective(s), end) ELSE s

ParseDeclNamespace(s) ==
    LET path == ParseNamespace(Force(s, "namespace"))
    IN  Made(Force(ParseDecls(Force(path, "lparen"), "rparen"), "rparen"), Height(s),
             LAMBDA k : AstDeclNamespace(k[1].names, Tail(k)))

\* Directives.

RECURSIVE ParsePathTail(_), ParseRenameArgsTail(_), ParseUsingTail(_)

\* while (tag() == TOKEN_DCOLON): the last tree is the path so far.
ParsePathTail(s) ==
    LET next == Checked(Skip(s), "uppercase")
    IN  IF s.ok /\ Tag(s) = "dcolon"
        THEN ParsePathTail(Skip(Built(next, Height(s) - 1,
                                      AstPath(Append(Last(s.trees).names, Text(next))))))
        ELSE s

ParsePath(s) == ParsePathTail(Skip(Push(Checked(s, "uppercase"), AstPath(<<Text(s)>>))))

\* Two trees since n are both sides of an alias.
Aliased(s, n) ==
    IF Len(s.trees) = n + 2 THEN Built(s, n, AstAlias(s.trees[n + 1], s.trees[n + 2])) ELSE s

ParsePathAlias(s, n) ==
    IF s.ok /\ Tag(s) = "=" THEN Aliased(ParsePath(Skip(s)), n) ELSE s

ParseRenameHead(s) == ParsePathAlias(ParsePath(s), Height(s))

ParseRenameCombinator(s) == IF IsCombinator(s) THEN ParseCombinator(s) ELSE ParseOperator(s)

ParseCombinatorAlias(s, n) ==
    IF s.ok /\ Tag(s) = "=" THEN Aliased(ParseRenameCombinator(Skip(s)), n) ELSE s

ParseRenameArg(s) == ParseCombinatorAlias(ParseRenameCombinator(s), Height(s))

ParseRenameArgsTail(s) ==
    IF s.ok /\ Tag(s) = "comma" THEN ParseRenameArgsTail(ParseRenameArg(Skip(s))) ELSE s

ParseRenameArgs(s) ==
    IF s.ok /\ Tag(s) = "lparen"
    THEN Force(ParseRenameArgsTail(ParseRenameArg(Skip(s))), "rparen")
    ELSE s

ParseRename(s) ==
    Made(ParseRenameArgs(ParseRenameHead(s)), Height(s), LAMBDA k : AstRename(Head(k), Tail(k)))

ParseUsingTail(s) ==
    IF s.ok /\ Tag(s) = "comma" THEN ParseUsingTail(ParseRename(Skip(s))) ELSE s

ParseUsing(s) ==
    Made(ParseUsingTail(ParseRename(Force(s, "using"))), Height(s), AstDirectUsing)

ParseImport(s) ==
    LET t == Checked(Force(s, "import"), "text")
    IN  Skip(Push(t, AstDirectImport(Text(t))))

ParseDeclOrDirective(s) ==
    CASE ~s.ok -> s
      [] s.ok /\ Tag(s) = "data" -> ParseDeclData(s)
      [] s.ok /\ Tag(s) = "def" -> ParseDeclDefinition(s)
      [] s.ok /\ Tag(s) = "val" -> ParseDeclValue(s)
      [] s.ok /\ Tag(s) = "namespace" -> ParseDeclNamespace(s)
      [] s.ok /\ Tag(s) = "using" -> ParseUsing(s)
      [] s.ok /\ Tag(s) = "import" -> ParseImport(s)
      [] OTHER -> SyntaxError(s)

\* A module.
ParseModule(tt) == Made(ParseDecls(ParseDocstringOption(Parse(tt)), "eof"), 0, AstWrapper)

-----------------------------------------------------------------------------
\* A line of the interactive mode.

ParseCommand(s) ==
    IF s.ok /\ Tag(s) \in {"using", "import", "def", "val", "data"}
    THEN ParseDeclOrDirective(s)
    ELSE ParseExpression(s)

RECURSIVE ParseCommands(_)
ParseCommands(s) ==
    IF s.ok /\ Tag(s) = "dsemicolon" THEN ParseCommands(ParseCommand(Skip(s))) ELSE s

\* What follows the last command is an error.
ParseLine(tt) ==
    IF Len(tt) = 1 THEN Push(Parse(tt), AstWrapper(<<>>))
    ELSE Made(Checked(ParseCommands(ParseCommand(Parse(tt))), "eof"), 0, AstWrapper)

-----------------------------------------------------------------------------
\* What the module manager asks of the tree of a module.

RECURSIVE Visited(_, _)
\* Fault: namespaces are not entered.
VisitedHere(a, tag) ==
    CASE Is(a, tag) -> <<a>>
      [] ~Is(a, tag) /\ ~Is(a, "wrapper") -> <<>>
      [] OTHER -> FlattenSeq([i \in DOMAIN a.kids |-> Visited(a.kids[i], tag)])

\* The nodes with a tag, in order, not those inside a declaration of a name.
Visited(a, tag) ==
    CASE Is(a, tag) -> <<a>>
      [] ~Is(a, tag) /\ a.tag \in {"data", "definition", "value", "operator"} -> <<>>
      [] OTHER -> FlattenSeq([i \in DOMAIN a.kids |-> Visited(a.kids[i], tag)])

Imports(a) == Visited(a, "import")
Values(a) == Visited(a, "value")

=============================================================================
