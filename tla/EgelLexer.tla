------------------------------ MODULE EgelLexer ------------------------------
(***************************************************************************)
(* The lexer: tokenize_from_reader of src/src/lexical.hpp over the reader  *)
(* of reader.hpp.  One action per branch of its loop; each takes one       *)
(* lexeme.  A text is a TLA+ string, a character a string of length one,   *)
(* and no character ("") stands for the '\0' the reader gives at the end.  *)
(***************************************************************************)
EXTENDS Naturals, Sequences, FiniteSetsExt

CONSTANTS
    Texts,      \* the texts that are lexed
    MathChars,  \* stand-ins for the code points of is_math
    Garbage     \* what may lie in memory behind the buffer of the reader

\* A string is the sequence of its characters.
IsSequence(s) == Len(s) \in Nat /\ s = SubSeq(s, 1, Len(s))

ASSUME TextsAssumption == \A t \in Texts : IsSequence(t)
ASSUME StringsAssumption ==
    /\ IsSequence("") /\ Len("") = 0
    /\ \A c \in {"0", "\"", "="} : IsSequence(c) /\ Len(c) = 1
    /\ \A s \in {"\\t", "\\n", "\\\"", "\\'", "\\\\"} : IsSequence(s)

VARIABLES
    text,       \* the text
    at,         \* the index of the reader, from 1
    tokens,     \* what was pushed on the token writer
    lexing      \* "reading", "done" or "failed"

lexVars == <<text, at, tokens, lexing>>

-----------------------------------------------------------------------------
\* The reader.

Chars(s) == {SubSeq(s, i, i) : i \in 1..Len(s)}

\* Nothing is there behind the end.
Char(i) == IF i <= Len(text) THEN SubSeq(text, i, i) ELSE ""
Look == Char(at)

\* look(n) reads the buffer without a look at its length.
Peek(i, garbage) == IF i <= Len(text) THEN Char(i) ELSE garbage

End == at > Len(text)

-----------------------------------------------------------------------------
\* Character classes.

Eol == "\n"
Whitespace == {" ", "\t", Eol}
Digits == {"0", "1", "2", "3", "4", "5", "6", "7", "8", "9"}
HexDigits == Digits \cup {"a", "b", "c", "d", "e", "f"}
Lowercase == Chars("abcdefghijklmnopqrstuvwxyz")
Uppercase == Chars("ABCDEFGHIJKLMNOPQRSTUVWXYZ")
Letters == Lowercase \cup Uppercase \cup Digits \cup {"_"}
Imaginary == {"i", "j"}
Exponent == {"e", "E"}
EscapeCodes == Chars("\\t'\"rn")
OperatorChars == Chars("~!@$%^&*-+=|\\/?<>.")

Punctuation ==
    [c \in {",", "(", ")", "[", "]", "{", "}"} |->
        CASE c = "," -> "comma"
          [] c = "(" -> "lparen"  [] c = ")" -> "rparen"
          [] c = "[" -> "lsquare" [] c = "]" -> "rsquare"
          [] c = "{" -> "lcurly"  [] c = "}" -> "rcurly"]

-----------------------------------------------------------------------------
Token(tag, s) == [tag |-> tag, text |-> s]

\* The first index from i on whose character is not of the class.
Span(i, class) ==
    Min({j \in i..(Len(text) + 1) : j > Len(text) \/ Char(j) \notin class})

\* A token of the text before index next.
Take(tag, next) ==
    /\ tokens' = Append(tokens, Token(tag, SubSeq(text, at, next - 1)))
    /\ at' = next
    /\ UNCHANGED <<text, lexing>>

Fail ==
    /\ lexing' = "failed"
    /\ UNCHANGED <<text, at, tokens>>

Reading == lexing = "reading" /\ ~End

LexWhitespace == Reading /\ Look \in Whitespace /\ Take("whitespace", Span(at, Whitespace))

\* Fault: the end of the line is skipped with a comment.
LexCommentWithEol ==
    /\ Reading /\ Look = "#"
    /\ LET next == Span(at, Chars(text) \ {Eol})
       IN  /\ tokens' = Append(tokens, Token("comment", SubSeq(text, at, next - 1)))
           /\ at' = Min({next + 1, Len(text) + 1})
    /\ UNCHANGED <<text, lexing>>

LexComment ==
    /\ Reading /\ Look = "#"
    /\ Take("comment", Span(at, Chars(text) \ {Eol}))

LexPunctuation ==
    /\ Reading /\ Look \in DOMAIN Punctuation
    /\ Take(Punctuation[Look], at + 1)

LexColon ==
    /\ Reading /\ Look = ":"
    /\ IF Char(at + 1) = ":" THEN Take("dcolon", at + 2) ELSE Take("colon", at + 1)

LexSemicolon ==
    /\ Reading /\ Look = ";"
    /\ IF Char(at + 1) = ";" THEN Take("dsemicolon", at + 2) ELSE Take("semicolon", at + 1)

LexMath == Reading /\ Look \in MathChars /\ Take("lowercase", at + 1)

\* A character: what is between the quotes is one character, or a backslash
\* and the code of an escape.
LexCharacter ==
    /\ Reading /\ Look = "'"
    /\ LET inside == IF Char(at + 1) = "\\" THEN at + 2 ELSE at + 1
       IN  IF /\ Char(at + 1) \notin {"", Eol}
              /\ Char(at + 1) = "\\" => Char(at + 2) \in EscapeCodes
              /\ Char(inside + 1) = "'"
           THEN Take("char", inside + 2)
           ELSE Fail

\* A character is escaped if an odd number of backslashes stands before it.
Escaped(i) ==
    LET first == Min({j \in (at + 1)..i : \A k \in j..(i - 1) : Char(k) = "\\"})
    IN  (i - first) % 2 = 1

\* Where the literal that starts at `at' ends; none if it does not.
Closing ==
    {j \in (at + 1)..Len(text) :
        /\ Char(j) = "\"" /\ ~Escaped(j)
        /\ \A i \in (at + 1)..(j - 1) : Char(i) # "\"" \/ Escaped(i)}

LexText ==
    \E j \in {IF Closing = {} THEN 0 ELSE Min(Closing)} :
        IF /\ j # 0
           /\ \A i \in (at + 1)..(j - 1) :
                Char(i) # Eol /\ (Escaped(i) => Char(i) \in EscapeCodes)
        THEN Take("text", j + 1)
        ELSE Fail

\* Texts put together.
Together(texts) ==
    LET together[i \in 0..Len(texts)] ==
            IF i = 0 THEN "" ELSE together[i - 1] \o texts[i]
    IN  together[Len(texts)]

\* unicode_escape
EscapeChar(c) ==
    CASE c = "\t" -> "\\t" [] c = Eol -> "\\n" [] c = "\"" -> "\\\""
      [] c = "'" -> "\\'" [] c = "\\" -> "\\\\" [] OTHER -> c
UnicodeEscape(s) == Together([i \in 1..Len(s) |-> EscapeChar(SubSeq(s, i, i))])

\* Three quotes at an index, as the reader finds them there.
Quotes(i, garbage) == \A j \in i..(i + 2) : Peek(j, garbage) = "\""

\* A text over lines, which is escaped.  Four characters are skipped at its
\* end: the three quotes and the one after them.
LexLines(garbage) ==
    LET closing == {j \in (at + 4)..Len(text) : Quotes(j, garbage)}
    IN  IF closing = {} THEN Fail
        ELSE /\ tokens' = Append(tokens,
                    Token("text",
                          "\"" \o UnicodeEscape(SubSeq(text, at + 4, Min(closing) - 1)) \o "\""))
             /\ at' = Min({Min(closing) + 4, Len(text) + 1})
             /\ UNCHANGED <<text, lexing>>

LexQuoted ==
    /\ Reading /\ Look = "\""
    /\ \E garbage \in Garbage :
        IF Quotes(at, garbage) /\ Peek(at + 3, garbage) = Eol
        THEN LexLines(garbage)
        ELSE LexText

\* The exponent of a float, which starts at index i with its `e'.
LexExponent(i) ==
    LET sign == IF Char(i + 1) = "-" THEN i + 2 ELSE i + 1
        next == Span(sign, Digits)
    IN  CASE sign > Len(text) -> Fail
          [] sign <= Len(text) /\ Char(next) \in Imaginary -> Take("imaginary", next + 1)
          [] OTHER -> Take("float", next)

\* What follows the dot of a number, which is at index i.
LexFraction(i) ==
    LET next == Span(i + 1, Digits)
    IN  CASE Char(next) \in Imaginary -> Take("imaginary", next + 1)
          [] Char(next) \in Exponent -> LexExponent(next)
          [] OTHER -> Take("float", next)

LexNumber(garbage) ==
    LET first == IF Look = "-" THEN at + 1 ELSE at
        next == Span(first, Digits)
    IN  /\ Reading
        /\ Look \in Digits \/ (Look = "-" /\ Peek(at + 1, garbage) \in Digits)
        /\ CASE SubSeq(text, at, next - 1) = "0" /\ Char(next) = "x" ->
                    IF Char(next + 1) \in HexDigits
                    THEN Take("integer", Span(next + 1, HexDigits))
                    ELSE Fail
             [] Char(next) = "." -> LexFraction(next)
             [] OTHER -> Take("integer", next)

LexOperator(garbage) ==
    /\ Reading /\ Look \in OperatorChars
    /\ ~(Look = "-" /\ Peek(at + 1, garbage) \in Digits)
    /\ Take("operator", Span(at, OperatorChars))

\* Fault: a variable ends before an underscore or a digit.
LexUppercaseShort ==
    Reading /\ Look \in Uppercase /\ Take("uppercase", Span(at, Lowercase \cup Uppercase))

LexUppercase == Reading /\ Look \in Uppercase /\ Take("uppercase", Span(at, Letters))
LexLowercase == Reading /\ Look \in Lowercase /\ Take("lowercase", Span(at, Letters))
LexUnderscore == Reading /\ Look = "_" /\ Take("lowercase", at + 1)

Lexemes ==
    Whitespace \cup {"#", ":", ";", "'", "\"", "_"} \cup DOMAIN Punctuation
    \cup MathChars \cup Digits \cup Lowercase \cup Uppercase \cup OperatorChars
LexUnrecognized == Reading /\ Look \notin Lexemes /\ Fail

LexEnd ==
    /\ lexing = "reading" /\ End
    /\ tokens' = Append(tokens, Token("eof", "EOF"))
    /\ lexing' = "done"
    /\ UNCHANGED <<text, at>>

-----------------------------------------------------------------------------
LexInit ==
    /\ text \in Texts
    /\ at = 1
    /\ tokens = <<>>
    /\ lexing = "reading"

LexNext ==
    \/ LexWhitespace \/ LexComment \/ LexPunctuation \/ LexColon \/ LexSemicolon
    \/ LexMath \/ LexCharacter \/ LexQuoted
    \/ \E garbage \in Garbage : LexNumber(garbage) \/ LexOperator(garbage)
    \/ LexUppercase \/ LexLowercase \/ LexUnderscore
    \/ LexUnrecognized \/ LexEnd

LexSpec == LexInit /\ [][LexNext]_lexVars

-----------------------------------------------------------------------------
\* sanitize: what the parser gets, and the tags of reserved words.

Reserved ==
    [s \in {"|", "=", "<-", "?", "\\", "class", "extends", "with", "if", "then", "else", "let",
            "in", "try", "catch", "throw", "do", "->", "import", "using", "data", "def",
            "namespace", "val"} |-> s]

Sanitize(tt) ==
    LET kept == SelectSeq(tt, LAMBDA t : t.tag \notin {"whitespace", "comment"})
    IN  [i \in DOMAIN kept |->
            IF kept[i].text \in DOMAIN Reserved
            THEN Token(Reserved[kept[i].text], kept[i].text)
            ELSE kept[i]]

-----------------------------------------------------------------------------
(* Properties.                                                             *)

\* The text that some tokens are spelled with.
Spelling(t) == IF t.tag = "eof" THEN "" ELSE t.text
Written(tt) == Together([i \in 1..Len(tt) |-> Spelling(tt[i])])

Multiline == \E i \in 1..Len(text) : Quotes(i, "") /\ Char(i + 3) = Eol

\* The tokens so far, put together, are the text up to the reader: the loop
\* over the reader (lexical.hpp:735) loses no character and takes none twice,
\* whatever it looked ahead and however the lexeme ended.  A text over lines
\* is left out, it is escaped.
NothingLost ==
    /\ ~Multiline => Written(tokens) = SubSeq(text, 1, at - 1)
    /\ lexing = "done" => End

\* What the tokens of a tag look like.
AllIn(s, class) == Chars(s) \subseteq class
Digital(s) == s # "" /\ AllIn(s, Digits)
Unsigned(s) == IF SubSeq(s, 1, 1) = "-" THEN SubSeq(s, 2, Len(s)) ELSE s
Lexeme(tag, s) ==
    LET body == Unsigned(s) IN
    CASE tag = "whitespace" -> AllIn(s, Whitespace)
      [] tag = "integer" ->
            Digital(body) \/ (/\ Len(s) > 2 /\ SubSeq(s, 1, 1) = "0" /\ SubSeq(s, 2, 2) = "x"
                              /\ AllIn(SubSeq(s, 3, Len(s)), HexDigits))
      [] tag = "operator" -> AllIn(s, OperatorChars)
      [] tag = "uppercase" -> SubSeq(s, 1, 1) \in Uppercase /\ AllIn(s, Letters)
      [] tag = "lowercase" ->
            \/ SubSeq(s, 1, 1) \in Lowercase /\ AllIn(s, Letters)
            \/ s = "_" \/ s \in MathChars
      [] tag \in {"float", "imaginary"} ->
            /\ AllIn(s, Digits \cup {".", "-"} \cup Exponent \cup Imaginary)
            /\ \E i \in 2..Len(body) : Digital(SubSeq(body, 1, i - 1)) /\ SubSeq(body, i, i) = "."
            /\ (tag = "imaginary") = (SubSeq(s, Len(s), Len(s)) \in Imaginary)
      [] OTHER -> TRUE

\* A token is a lexeme of its tag and the longest one there: the character
\* after it would not have made a longer one.  A lone minus at the very end
\* of a text is a number if what lies behind the buffer is a digit
\* (reader.hpp:52), which Garbage says.
LongestMatch ==
    lexing = "done" =>
        \A i \in 1..(Len(tokens) - 1) :
            LET t == tokens[i]
                next == SubSeq(tokens[i + 1].text, 1, 1)
            IN  /\ Lexeme(t.tag, t.text) \/ (t = Token("integer", "-") /\ i = Len(tokens) - 1)
                /\ /\ t.tag \in {"whitespace", "integer", "operator", "uppercase"}
                   /\ tokens[i + 1].tag # "eof"
                   => ~Lexeme(t.tag, t.text \o next)

=============================================================================
