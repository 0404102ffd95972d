-------------------------------- MODULE Lexer --------------------------------
(***************************************************************************)
(* The tokenizer (pkg/lexer/lexer.go).                                     *)
(*                                                                         *)
(* A source text is a sequence of characters.  Every character the lexer   *)
(* tells apart is there as itself; anything else counts as a letter, and   *)
(* a letter may be a whole word ("value"), since the lexer treats a run of *)
(* letters as it treats one.  A token is its kind and its literal, the     *)
(* piece of the text it was read from; the line and column, used only in   *)
(* messages, are left out.                                                 *)
(***************************************************************************)
EXTENDS Naturals, Sequences
LOCAL INSTANCE FiniteSetsExt

Digits     == {"0", "1", "2", "3", "4", "5", "6", "7", "8", "9"}
Whitespace == {" ", "\t", "\n", "\r"}
BinChars   == {"+", "-", "*", "/", "<", ">", "=", "~", "@", ",", "&", "%", "?", "!", "\\"}

\* Characters that are a token by themselves.
Punctuation ==
  [c \in {"^", ".", ";", "|", "[", "]", "(", ")", "{", "}"} |->
     CASE c = "^" -> "CARET"    [] c = "." -> "DOT"      [] c = ";" -> "SEMICOLON"
       [] c = "|" -> "PIPE"     [] c = "[" -> "LBRACKET" [] c = "]" -> "RBRACKET"
       [] c = "(" -> "LPAREN"   [] c = ")" -> "RPAREN"   [] c = "{" -> "LBRACE"
       [] c = "}" -> "RBRACE"]

\* A control character stands for every byte no token starts with.
Unknown == {"\f"}
NotLetters == Digits \cup Whitespace \cup BinChars \cup DOMAIN Punctuation
                \cup Unknown \cup {"'", "$", "#", ":", "\"", ""}
IsLetter(ch) == ch \notin NotLetters
NotAlNums    == NotLetters \ Digits

Reserved ==
  [w \in {"true", "false", "nil", "self", "super", "thisContext",
          "object", "interface", "compose", "import", "let"} |->
     CASE w \in {"true", "false"} -> "BOOLLIT" [] w = "nil"     -> "NILLIT"
       [] w = "self"        -> "SELF"          [] w = "super"   -> "SUPER"
       [] w = "thisContext" -> "THISCONTEXT"   [] w = "object"  -> "OBJECT"
       [] w = "interface"   -> "INTERFACE"     [] w = "compose" -> "COMPOSE"
       [] w = "import"      -> "IMPORT"        [] w = "let"     -> "LET"]

-----------------------------------------------------------------------------
\* The character at p, "" beyond the end (current).
At(src, p) == IF p \in DOMAIN src THEN src[p] ELSE ""

\* The first position from p on where Stop holds, or the end of the text: the
\* loops "for l.pos < len(l.src) && ... { l.advance() }".
Until(src, p, stops) == Min({q \in p..(Len(src) + 1) : q > Len(src) \/ src[q] \in stops})
While(src, p, chars) == Min({q \in p..(Len(src) + 1) : q > Len(src) \/ src[q] \notin chars})

\* A token, and where the next one is looked for.
Token(kind, src, p, q) ==
  [tok |-> [kind |-> kind, lit |-> SubSeq(src, p, q - 1)], pos |-> q]

\* Whitespace and comments.  An unclosed comment reaches the end of the text.
SkipBlank(src) ==
  LET skip[p \in 1..(Len(src) + 2)] ==
        IF At(src, p) \in Whitespace THEN skip[p + 1]
        ELSE IF At(src, p) = "\""
        THEN LET close == Until(src, p + 1, {"\""})
             IN  skip[close + (IF close \in DOMAIN src THEN 1 ELSE 0)]
        ELSE p
  IN skip

\* The end of a string whose opening quote is at p: two quotes in a row are
\* one character of the string.
StringEnd(src, p) ==
  LET end[q \in 1..(Len(src) + 1)] ==
        IF q > Len(src) THEN q
        ELSE IF src[q] # "'" THEN end[q + 1]
        ELSE IF At(src, q + 1) = "'" THEN end[q + 2]
        ELSE q + 1
  IN end[p + 1]

ReadString(src, p) == Token("STRING", src, p, StringEnd(src, p))

ReadCharacter(src, p) ==
  IF p = Len(src) THEN Token("ILLEGAL", src, p, p + 1)
  ELSE IF src[p + 1] = "\\" THEN Token("CHARACTER", src, p, Min({p + 3, Len(src) + 1}))
  ELSE Token("CHARACTER", src, p, p + 2)

ReadByteArray(src, p) ==
  LET close == Until(src, p + 2, {"]"})
  IN  Token("BYTEARRAY", src, p, close + (IF close \in DOMAIN src THEN 1 ELSE 0))

\* Nothing after the # is consumed when it starts no literal, though the
\* token's text shows it.
ReadHash(src, p) ==
  LET ch == At(src, p + 1) IN
  CASE ch = "[" -> ReadByteArray(src, p)
    [] ch = "(" -> Token("ARRAYOPEN", src, p, p + 2)
    [] ch = "'" -> Token("SYMBOL", src, p, StringEnd(src, p + 1))
    [] IsLetter(ch) -> Token("SYMBOL", src, p, Until(src, p + 1, NotAlNums \ {":"}))
    [] OTHER -> [Token("ILLEGAL", src, p, Min({p + 2, Len(src) + 1})) EXCEPT !.pos = p + 1]

ReadColon(src, p) ==
  IF At(src, p + 1) = "=" THEN Token("ASSIGN", src, p, p + 2) ELSE Token("COLON", src, p, p + 1)

\* 42, 16rFF, 3.14, 1.5e-3: a dot is part of a number only before a digit.
ReadNumber(src, p) ==
  LET whole     == While(src, p, Digits)
      fraction  == While(src, whole + 1, Digits)
      sign      == fraction + (IF At(src, fraction + 1) \in {"+", "-"} THEN 2 ELSE 1)
  IN CASE At(src, whole) = "r" -> Token("INTEGER", src, p, Until(src, whole + 1, NotAlNums))
       [] At(src, whole) = "." /\ At(src, whole + 1) \in Digits ->
            Token("FLOAT", src, p,
                  IF At(src, fraction) \in {"e", "E"} THEN While(src, sign, Digits) ELSE fraction)
       [] OTHER -> Token("INTEGER", src, p, whole)

ReadIdentifierOrKeyword(src, p) ==
  LET q == Until(src, p, NotAlNums) IN
  IF At(src, q) = ":" /\ At(src, q + 1) # "=" THEN Token("KEYWORD", src, p, q + 1)
  ELSE IF q = p + 1 /\ src[p] \in DOMAIN Reserved THEN Token(Reserved[src[p]], src, p, q)
  ELSE Token("IDENTIFIER", src, p, q)

\* Generic brackets and the receive arrow end a run of operator characters
\* only where they start it.
ReadBinOp(src, p) ==
  IF <<src[p], At(src, p + 1)>> \in {<<"<", "<">>, <<">", ">">>, <<"<", "-">>}
  THEN Token("BINOP", src, p, p + 2)
  ELSE Token("BINOP", src, p, While(src, p, BinChars))

\* Lexer.Next: the token at p, from there or from the blanks before it.
TokenAt(src, p) ==
  LET ch == At(src, p) IN
  CASE p > Len(src)   -> Token("EOF", src, p, p)
    [] ch = "'"       -> ReadString(src, p)
    [] ch = "$"       -> ReadCharacter(src, p)
    [] ch = "#"       -> ReadHash(src, p)
    [] ch = ":"       -> ReadColon(src, p)
    [] ch \in DOMAIN Punctuation -> Token(Punctuation[ch], src, p, p + 1)
    [] ch \in Digits  -> ReadNumber(src, p)
    [] IsLetter(ch)   -> ReadIdentifierOrKeyword(src, p)
    [] ch \in BinChars -> ReadBinOp(src, p)
    [] OTHER          -> Token("ILLEGAL", src, p, p + 1)

NextToken(src, p0) == TokenAt(src, SkipBlank(src)[p0])

\* All tokens of a text, up to and with the first EOF.
Before(t, rest) == <<t.tok>> \o (IF t.tok.kind = "EOF" THEN <<>> ELSE rest[t.pos])
Tokens(src) ==
  LET from[p \in 1..(Len(src) + 1)] == Before(NextToken(src, p), from) IN from[1]
=============================================================================
