-------------------------------- MODULE Parser --------------------------------
(***************************************************************************)
(* The syntax tree (pkg/ast/ast.go) and the recursive-descent parser       *)
(* (pkg/parser/parser.go).                                                 *)
(*                                                                         *)
(* A node is a record with field node; names are token literals, that is   *)
(* sequences of characters.  The three kinds of message have the same      *)
(* fields here: receiver, full selector, arguments.                        *)
(*                                                                         *)
(* The parser's state is [toks, i, errs, stuck]: the tokens, the index of  *)
(* p.cur (p.peek is the next one), the indices at which errors were        *)
(* recorded, and whether it has come to a loop that consumes nothing.      *)
(* Every parsing operator takes a state and returns [n, p]: what it read   *)
(* and the state after it.                                                 *)
(***************************************************************************)
EXTENDS Integers, Sequences, Lexer
LOCAL INSTANCE SequencesExt

None == [node |-> "None"]
NilLit == [node |-> "Nil"]
Ident(name)         == [node |-> "Ident", name |-> name]
VarDecl(ns, ts)     == [node |-> "VarDecl", names |-> ns, types |-> ts]
LetDecl(n, t, v)    == [node |-> "Let", name |-> n, type |-> t, value |-> v]
Assign(n, v)        == [node |-> "Assign", name |-> n, value |-> v]
Return(v)           == [node |-> "Return", value |-> v]
Message(r, sel, as) == [node |-> "Message", receiver |-> r, selector |-> sel, args |-> as]
Cascade(r, ms)      == [node |-> "Cascade", receiver |-> r, messages |-> ms]
ArrayLit(es)        == [node |-> "Array", elements |-> es]
AnonObject(slots)   == [node |-> "AnonObject", slots |-> slots]
Block(ps, vd, body) == [node |-> "Block", params |-> ps, locals |-> vd.names,
                        types |-> vd.types, body |-> body]
Method(sel, ps, vd, body) == [selector |-> sel, params |-> ps, locals |-> vd.names,
                              types |-> vd.types, body |-> body]
Import(path)          == [node |-> "Import", path |-> path]
InterfaceDecl(n, sgs) == [node |-> "Interface", name |-> n, sigs |-> sgs]
ObjectDecl(n) == [node |-> "Object", name |-> n, composes |-> <<>>,
                  slots |-> <<>>, types |-> <<>>, methods |-> <<>>]

AnyType == <<"Any">>
NoVars  == VarDecl(<<>>, <<>>)

-----------------------------------------------------------------------------
Cur(p)  == IF p.i <= Len(p.toks) THEN p.toks[p.i] ELSE [kind |-> "EOF", lit |-> <<>>]
Peek(p) == Cur([p EXCEPT !.i = @ + 1])
Is(p, kind) == Cur(p).kind = kind
Lit(p)      == Cur(p).lit
IsOp(p, op) == Is(p, "BINOP") /\ Lit(p) = op

Advance(p) == [p EXCEPT !.i = @ + 1]
Error(p)   == [p EXCEPT !.errs = Append(@, p.i)]
Expect(p, kind) == IF Is(p, kind) THEN Advance(p) ELSE Error(p)
ConsumeOptional(p, kind) == IF Is(p, kind) THEN Advance(p) ELSE p

Res(n, p) == [n |-> n, p |-> p]
Then(r, p) == [r EXCEPT !.p = p]

Strip(lit) == Front(lit)         \* strings.TrimSuffix(lit, ":")

-----------------------------------------------------------------------------
\* Literals.

DigitValue == [c \in Digits \cup {"A", "B", "C", "D", "E", "F"} |->
  CASE c = "0" -> 0 [] c = "1" -> 1 [] c = "2" -> 2 [] c = "3" -> 3 [] c = "4" -> 4 [] c = "5" -> 5
    [] c = "6" -> 6 [] c = "7" -> 7 [] c = "8" -> 8 [] c = "9" -> 9
    [] c = "A" -> 10 [] c = "B" -> 11 [] c = "C" -> 12 [] c = "D" -> 13 [] c = "E" -> 14 [] c = "F" -> 15]

\* strconv.ParseInt with its error ignored: 0 for what is no number.
ParseDigits(digits, base) ==
  IF \A i \in DOMAIN digits : digits[i] \in DOMAIN DigitValue /\ DigitValue[digits[i]] < base
  THEN FoldLeft(LAMBDA acc, c : acc * base + DigitValue[c], 0, digits)
  ELSE 0

ParseInt(lit) ==
  IF \E i \in DOMAIN lit : lit[i] = "r"
  THEN LET r == CHOOSE i \in DOMAIN lit : lit[i] = "r" /\ \A j \in 1..(i - 1) : lit[j] # "r"
           base == ParseDigits(SubSeq(lit, 1, r - 1), 10)
       IN  ParseDigits(SubSeq(lit, r + 1, Len(lit)), IF base < 2 THEN 2 ELSE IF base > 36 THEN 36 ELSE base)
  ELSE ParseDigits(lit, 10)

\* The quotes inside a string are doubled in its literal.
RECURSIVE Unquote(_)
Unquote(s) == IF s = <<>> THEN <<>>
              ELSE <<Head(s)>> \o Unquote(IF Head(s) = "'" /\ At(s, 2) = "'" THEN Tail(Tail(s)) ELSE Tail(s))

\* An unclosed string keeps its opening quote.
StringValue(lit) ==
  Unquote(IF Len(lit) >= 2 /\ lit[Len(lit)] = "'" THEN SubSeq(lit, 2, Len(lit) - 1) ELSE lit)
SymbolValue(lit) ==
  IF At(lit, 2) = "'" /\ Len(lit) >= 3 THEN Unquote(SubSeq(lit, 3, Len(lit) - 1)) ELSE Tail(lit)
CharValue(lit) ==
  IF At(lit, 2) # "\\" \/ Len(lit) < 3 THEN At(lit, 2)
  ELSE CASE lit[3] = "n" -> "\n" [] lit[3] = "t" -> "\t" [] lit[3] = "r" -> "\r"
         [] lit[3] \in {"\\", "'"} -> lit[3] [] lit[3] = "0" -> "" [] OTHER -> "\\"

\* 10^-k as the denominator of the fraction; the exponent is left out.
RECURSIVE Power(_, _)
Power(b, k) == IF k = 0 THEN 1 ELSE b * Power(b, k - 1)
FloatLit(lit) ==
  LET dot == CHOOSE i \in DOMAIN lit : lit[i] = "."
      digits == SelectSeq(lit, LAMBDA c : c \in Digits)
  IN  [node |-> "Float", num |-> ParseDigits(digits, 10), den |-> Power(10, Len(lit) - dot)]

\* The fields between the brackets, each clamped to a byte.
ByteFields(lit) ==
  LET inner == SubSeq(lit, 3, IF lit[Len(lit)] = "]" THEN Len(lit) - 1 ELSE Len(lit))
      words == FoldLeft(LAMBDA acc, c :
                 IF c \in Whitespace THEN Append(acc, <<>>)
                 ELSE [acc EXCEPT ![Len(acc)] = Append(@, c)], <<(<<>>)>>, inner)
      Clamp(v) == IF v > 255 THEN 255 ELSE v
      fields == SelectSeq(words, LAMBDA w : w # <<>>)
  IN  [i \in DOMAIN fields |-> Clamp(ParseDigits(fields[i], 10))]

Literals == {"NILLIT", "BOOLLIT", "INTEGER", "FLOAT", "STRING", "SYMBOL", "CHARACTER", "BYTEARRAY",
             "SELF", "SUPER", "THISCONTEXT", "IDENTIFIER"}
Literal(t) ==
  CASE t.kind = "NILLIT"      -> NilLit
    [] t.kind = "BOOLLIT"     -> [node |-> "Bool", bool |-> t.lit = <<"true">>]
    [] t.kind = "INTEGER"     -> [node |-> "Int", int |-> ParseInt(t.lit)]
    [] t.kind = "FLOAT"       -> FloatLit(t.lit)
    [] t.kind = "STRING"      -> [node |-> "String", str |-> StringValue(t.lit)]
    [] t.kind = "SYMBOL"      -> [node |-> "Symbol", sym |-> SymbolValue(t.lit)]
    [] t.kind = "CHARACTER"   -> [node |-> "Char", chr |-> CharValue(t.lit)]
    [] t.kind = "BYTEARRAY"   -> [node |-> "ByteArray", bytes |-> ByteFields(t.lit)]
    [] t.kind = "SELF"        -> [node |-> "Self"]
    [] t.kind = "SUPER"       -> [node |-> "Super"]
    [] t.kind = "THISCONTEXT" -> [node |-> "ThisContext"]
    [] t.kind = "IDENTIFIER"  -> Ident(t.lit)
-----------------------------------------------------------------------------
\* The rules call one another through Parse, which takes the name of the rule.
RECURSIVE Parse(_, _)

\* Type names: Int, Queue<<Int>>.  Result n is the name, <<>> for none; ok is
\* whether all of it was there.
ParseTypeName(p) ==
  LET name == Lit(p)
      arg  == Parse("TypeName", Advance(Advance(p)))
      full == name \o <<"<", "<">> \o arg.n
  IN CASE ~Is(p, "IDENTIFIER") -> [n |-> <<>>, p |-> p, ok |-> FALSE]
       [] Is(p, "IDENTIFIER") /\ ~IsOp(Advance(p), <<"<", "<">>) ->
            [n |-> name, p |-> Advance(p), ok |-> TRUE]
       [] OTHER ->
            IF ~arg.ok
            THEN [n |-> name, ok |-> FALSE, p |-> IF arg.n = <<>> THEN Error(arg.p) ELSE arg.p]
            ELSE IF IsOp(arg.p, <<">", ">">>)
            THEN [n |-> full \o <<">", ">">>, p |-> Advance(arg.p), ok |-> TRUE]
            ELSE [n |-> full, p |-> Error(arg.p), ok |-> FALSE]

\* The declarations between two bars.
RECURSIVE VarDecls(_, _)
VarDecls(p, vd) ==
  IF Is(p, "IDENTIFIER") THEN VarDecls(Advance(Error(p)), vd)
  ELSE IF Is(p, "KEYWORD")
  THEN LET t == Parse("TypeName", Advance(p))
           missing == ~t.ok /\ t.n = <<>>
       IN  VarDecls(IF missing THEN Error(t.p) ELSE t.p,
                    VarDecl(Append(vd.names, Strip(Lit(p))),
                            Append(vd.types, IF missing THEN AnyType ELSE t.n)))
  ELSE Res(vd, p)

ParseVarDecl(p) ==
  LET r == VarDecls(Expect(p, "PIPE"), NoVars) IN Then(r, Expect(r.p, "PIPE"))

\* The optional variable declaration at the start of a body.
ParseLocals(p) == IF Is(p, "PIPE") THEN Parse("VarDecl", p) ELSE Res(NoVars, p)

-----------------------------------------------------------------------------
RECURSIVE ParseStatements(_, _, _), ParseUnaryTail(_, _), ParseBinaryTail(_, _),
          ParseKeywordMsg(_, _, _, _), ParseCascadeTail(_, _), ParseArrayTail(_, _),
          ParseAnonSlots(_, _), ParseParams(_, _)

ParseStatements(p, stop, sofar) ==
  IF Is(p, stop) \/ Is(p, "EOF") THEN Res(sofar, p)
  ELSE LET s == Parse("Statement", p)
       IN  ParseStatements(ConsumeOptional(s.p, "DOT"), stop, Append(sofar, s.n))

\* What a block or a method has between its brackets, after the parameters.
ParseBody(p) ==
  LET vd == ParseLocals(p)
      body == ParseStatements(vd.p, "RBRACKET", <<>>)
  IN  [vd |-> vd.n, n |-> body.n, p |-> Expect(body.p, "RBRACKET")]

\* :p :q |
ParseParams(p, ps) ==
  IF ~Is(p, "COLON") THEN Res(ps, p)
  ELSE LET q == Advance(p) IN
       IF Is(q, "IDENTIFIER") THEN ParseParams(Advance(q), Append(ps, Lit(q))) ELSE ParseParams(q, ps)

ParseBlock(p) ==
  LET open == Expect(p, "LBRACKET")
      ps   == ParseParams(open, <<>>)
      body == Parse("Body", IF Is(open, "COLON") THEN ConsumeOptional(ps.p, "PIPE") ELSE open)
  IN  Res(Block(ps.n, body.vd, body.n), body.p)

ParseArrayTail(p, es) ==
  IF Is(p, "RPAREN") \/ Is(p, "EOF") THEN Res(ArrayLit(es), Expect(p, "RPAREN"))
  ELSE LET e == Parse("Primary", p) IN ParseArrayTail(e.p, Append(es, e.n))

ParseAnonSlots(p, slots) ==
  CASE Is(p, "RBRACE") \/ Is(p, "EOF") -> Res(AnonObject(slots), Expect(p, "RBRACE"))
    [] ~Is(p, "RBRACE") /\ ~Is(p, "EOF") /\ ~Is(p, "IDENTIFIER") -> ParseAnonSlots(Advance(Error(p)), slots)
    [] OTHER ->
         LET v == Parse("Expression", Expect(Advance(p), "ASSIGN"))
         IN  ParseAnonSlots(ConsumeOptional(v.p, "DOT"), Append(slots, [name |-> Lit(p), value |-> v.n]))

\* An operator does not take the name before := or a lone colon for a message.
ParseUnaryTail(n, p) ==
  IF Is(p, "IDENTIFIER") /\ Peek(p).kind \notin {"ASSIGN", "COLON"}
  THEN ParseUnaryTail(Message(n, Lit(p), <<>>), Advance(p))
  ELSE Res(n, p)
ParseUnaryExpr(p) == LET r == Parse("Primary", p) IN ParseUnaryTail(r.n, r.p)

ParsePrimary(p) ==
  CASE IsOp(p, <<"<", "-">>) ->
         LET r == Parse("UnaryExpr", Advance(p)) IN Res(Message(r.n, <<"receive">>, <<>>), r.p)
    [] Cur(p).kind \in Literals -> Res(Literal(Cur(p)), Advance(p))
    [] Is(p, "ARRAYOPEN") -> ParseArrayTail(Advance(p), <<>>)
    [] Is(p, "OBJECT")    -> ParseAnonSlots(Expect(Advance(p), "LBRACE"), <<>>)
    [] Is(p, "LBRACKET")  -> Parse("Block", p)
    [] Is(p, "LPAREN")    -> LET r == Parse("Expression", Advance(p)) IN Then(r, Expect(r.p, "RPAREN"))
    [] OTHER              -> Res(NilLit, Advance(Error(p)))

ParseBinaryTail(n, p) ==
  IF ~Is(p, "BINOP") THEN Res(n, p)
  ELSE LET arg == Parse("UnaryExpr", Advance(p))
       IN  ParseBinaryTail(Message(n, Lit(p), <<arg.n>>), arg.p)
ParseBinaryExpr(p) == LET r == Parse("UnaryExpr", p) IN ParseBinaryTail(r.n, r.p)

\* at: a put: b -- one message, its arguments binary expressions.
ParseKeywordMsg(recv, p, sel, args) ==
  IF ~Is(p, "KEYWORD") THEN Res(Message(recv, sel, args), p)
  ELSE LET arg == Parse("BinaryExpr", Advance(p))
       IN  ParseKeywordMsg(recv, arg.p, sel \o Lit(p), Append(args, arg.n))

ParseKeywordExpr(p) ==
  LET recv == Parse("BinaryExpr", p)
  IN  IF Is(recv.p, "KEYWORD") THEN ParseKeywordMsg(recv.n, recv.p, <<>>, <<>>) ELSE recv

\* The messages after the first semicolon; the receiver is all that stands
\* before it, its last message included.
ParseCascadeTail(c, p) ==
  IF ~Is(p, "SEMICOLON") THEN Res(c, p)
  ELSE LET q == Advance(p)
           arg == Parse("UnaryExpr", Advance(q))
           m == CASE Is(q, "IDENTIFIER") -> Res(<<Message(None, Lit(q), <<>>)>>, Advance(q))
                  [] Is(q, "BINOP")      -> Res(<<Message(None, Lit(q), <<arg.n>>)>>, arg.p)
                  [] Is(q, "KEYWORD")    -> LET r == ParseKeywordMsg(None, q, <<>>, <<>>) IN Res(<<r.n>>, r.p)
                  [] OTHER               -> Res(<<>>, q)
       IN  ParseCascadeTail([c EXCEPT !.messages = @ \o m.n], m.p)
ParseCascade(p) ==
  LET recv == ParseKeywordExpr(p)
  IN  IF Is(recv.p, "SEMICOLON") THEN ParseCascadeTail(Cascade(recv.n, <<>>), recv.p) ELSE recv

ParseExpression(p) ==
  IF Is(p, "IDENTIFIER") /\ Peek(p).kind = "ASSIGN"
  THEN LET v == Parse("Expression", Advance(Advance(p))) IN Res(Assign(Lit(p), v.n), v.p)
  ELSE ParseCascade(p)

\* let x: T.  let x := value.
ParseLetDecl(p0) ==
  LET p == Expect(p0, "LET")
      t == Parse("TypeName", Advance(p))
      v == Parse("Expression", Advance(Advance(p)))
  IN CASE Is(p, "KEYWORD") ->
            Res(LetDecl(Strip(Lit(p)), IF t.ok THEN t.n ELSE AnyType, None), IF t.ok THEN t.p ELSE Error(t.p))
       [] Is(p, "IDENTIFIER") /\ Peek(p).kind = "ASSIGN" -> Res(LetDecl(Lit(p), <<>>, v.n), v.p)
       [] Is(p, "IDENTIFIER") /\ Peek(p).kind # "ASSIGN" ->
            Res(LetDecl(Lit(p), <<>>, None), Error(Advance(p)))
       [] OTHER -> Res(LetDecl(<<>>, <<>>, None), Error(p))

ParseStatement(p) ==
  CASE Is(p, "CARET") -> LET v == Parse("Expression", Advance(p)) IN Res(Return(v.n), v.p)
    [] Is(p, "LET")   -> Parse("LetDecl", p)
    [] Is(p, "PIPE")  -> Parse("VarDecl", p)
    [] OTHER          -> Parse("Expression", p)

-----------------------------------------------------------------------------
\* Declarations, which only the top level of a text may contain.

\* inc, + x, at: i put: x -- the selector and the parameter names, <<>> for none.
RECURSIVE KeywordPattern(_, _, _)
KeywordPattern(p, sel, ps) ==
  IF ~Is(p, "KEYWORD") THEN [sel |-> sel, ps |-> ps, p |-> p]
  ELSE LET q == Advance(p) IN
       IF Is(q, "IDENTIFIER") THEN KeywordPattern(Advance(q), sel \o Lit(p), Append(ps, Lit(q)))
       ELSE KeywordPattern(q, sel \o Lit(p), ps)
Pattern(p) ==
  LET q == Advance(p) IN
  CASE Is(p, "IDENTIFIER") -> [sel |-> Lit(p), ps |-> <<>>, p |-> q]
    [] Is(p, "BINOP") -> IF Is(q, "IDENTIFIER") THEN [sel |-> Lit(p), ps |-> <<Lit(q)>>, p |-> Advance(q)]
                         ELSE [sel |-> Lit(p), ps |-> <<>>, p |-> q]
    [] OTHER -> KeywordPattern(p, <<>>, <<>>)

ParseMethodDef(p) ==
  LET pat == Pattern(p)
      body == Parse("Body", Expect(pat.p, "LBRACKET"))
  IN  IF Cur(p).kind \in {"IDENTIFIER", "BINOP", "KEYWORD"}
      THEN Res(<<Method(pat.sel, pat.ps, body.vd, body.n)>>, body.p)
      ELSE Res(<<>>, Advance(Error(p)))

RECURSIVE ObjectBody(_, _)
ObjectBody(d, p) ==
  CASE Is(p, "RBRACE") \/ Is(p, "EOF") -> Res(d, Expect(p, "RBRACE"))
    [] Is(p, "COMPOSE") ->
         LET q == Advance(p) IN
         IF Is(q, "IDENTIFIER")
         THEN ObjectBody([d EXCEPT !.composes = Append(@, Lit(q))], ConsumeOptional(Advance(q), "DOT"))
         ELSE ObjectBody(d, ConsumeOptional(q, "DOT"))
    [] Is(p, "PIPE") ->
         LET r == Parse("VarDecl", p)
         IN  ObjectBody([d EXCEPT !.slots = @ \o r.n.names, !.types = @ \o r.n.types], r.p)
    [] Is(p, "LET") ->
         LET r == Parse("LetDecl", p) IN
         IF r.n.type = <<>> THEN ObjectBody(d, ConsumeOptional(Error(r.p), "DOT"))
         ELSE ObjectBody([d EXCEPT !.slots = Append(@, r.n.name), !.types = Append(@, r.n.type)],
                         ConsumeOptional(r.p, "DOT"))
    [] OTHER -> LET m == Parse("MethodDef", p) IN ObjectBody([d EXCEPT !.methods = @ \o m.n], m.p)

ParseObjectDecl(p) ==
  LET q == Advance(p) IN ObjectBody(ObjectDecl(Lit(q)), Expect(Advance(q), "LBRACE"))

\* A token that starts no signature is not consumed, and the loop is entered
\* with it again: stuck.
RECURSIVE InterfaceBody(_, _)
InterfaceBody(d, p) ==
  IF Is(p, "RBRACE") \/ Is(p, "EOF") THEN Res(d, Expect(p, "RBRACE"))
  ELSE IF Cur(p).kind \in {"IDENTIFIER", "BINOP", "KEYWORD"}
  THEN LET pat == Pattern(p)
       IN  InterfaceBody([d EXCEPT !.sigs = Append(@, pat.sel)], ConsumeOptional(pat.p, "DOT"))
  ELSE IF Is(p, "DOT") THEN InterfaceBody(d, Advance(p))
  ELSE Res(d, [p EXCEPT !.stuck = TRUE])

ParseInterfaceDecl(p) ==
  LET q == Advance(p) IN
  IF Is(q, "IDENTIFIER") THEN InterfaceBody(InterfaceDecl(Lit(q), <<>>), Expect(Advance(q), "LBRACE"))
  ELSE Res(InterfaceDecl(<<>>, <<>>), Error(q))

ParseImport(p) ==
  LET q == Advance(p) IN
  IF Is(q, "STRING") THEN Res(Import(StringValue(Lit(q))), Advance(q)) ELSE Res(Import(<<>>), Error(q))

ParseTopLevel(p) ==
  CASE Is(p, "IMPORT") -> ParseImport(p)
    [] Is(p, "OBJECT") /\ Peek(p).kind = "IDENTIFIER" -> Parse("ObjectDecl", p)
    [] Is(p, "INTERFACE") -> ParseInterfaceDecl(p)
    [] OTHER -> Parse("Statement", p)

Parse(rule, p) ==
  CASE rule = "Primary"    -> ParsePrimary(p)
    [] rule = "UnaryExpr"  -> ParseUnaryExpr(p)
    [] rule = "BinaryExpr" -> ParseBinaryExpr(p)
    [] rule = "Expression" -> ParseExpression(p)
    [] rule = "TypeName"   -> ParseTypeName(p)
    [] rule = "VarDecl"    -> ParseVarDecl(p)
    [] rule = "Body"       -> ParseBody(p)
    [] rule = "Block"      -> ParseBlock(p)
    [] rule = "LetDecl"    -> ParseLetDecl(p)
    [] rule = "Statement"  -> ParseStatement(p)
    [] rule = "MethodDef"  -> ParseMethodDef(p)
    [] rule = "ObjectDecl" -> ParseObjectDecl(p)
    [] rule = "TopLevel"   -> ParseTopLevel(p)

RECURSIVE TopLevels(_, _)
TopLevelsAfter(sofar, s) == TopLevels(Append(sofar, s.n), ConsumeOptional(s.p, "DOT"))
TopLevels(sofar, p) ==
  IF Is(p, "EOF") \/ p.stuck THEN [statements |-> sofar, errors |-> p.errs, stuck |-> p.stuck]
  ELSE TopLevelsAfter(sofar, Parse("TopLevel", p))

ParseProgram(src) == TopLevels(<<>>, [toks |-> Tokens(src), i |-> 1, errs |-> <<>>, stuck |-> FALSE])
=============================================================================
