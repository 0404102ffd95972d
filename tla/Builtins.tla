-------------------------------- MODULE Builtins --------------------------------
(***************************************************************************)
(* BuiltinDispatch (pkg/eval/builtins.go): the messages numbers, booleans, *)
(* strings, symbols, arrays, blocks and nil answer, which the VM and the   *)
(* tree-walker share.  A builtin calls a block through the BlockCaller it  *)
(* was given, the constant CallBlock(block, args, st): everything a       *)
(* builtin does around such a call is here, in the order of the code.      *)
(*                                                                         *)
(* Left out: conversions and text processing (printString, asUppercase,    *)
(* copyFrom:to:, sqrt, ...) that neither call blocks nor change anything;  *)
(* no command of the model sends them.                                     *)
(***************************************************************************)
EXTENDS Objects
LOCAL INSTANCE SequencesExt

CONSTANT CallBlock(_, _, _)

Unhandled(st) == [err |-> "unhandled", val |-> Nil, st |-> st]

Sel(word)    == <<word>>
Key(word)    == <<word, ":">>
Key2(w1, w2) == <<w1, ":", w2, ":">>

-----------------------------------------------------------------------------
\* Numbers: a number is a fraction, <<num, den>>.
IsNumber(v) == v.kind \in {"Int", "Float"}
Fraction(v) == IF v.kind = "Int" THEN <<v.int, 1>> ELSE <<v.num, v.den>>
Less(x, y)  == x[1] * y[2] < y[1] * x[2]

\* Go division rounds toward zero.
Quotient(a, b) == (IF (a < 0) = (b < 0) THEN 1 ELSE -1) * (Abs(a) \div Abs(b))
Remainder(a, b) == a - b * Quotient(a, b)

IntArithmetic(a, sel, b, st) ==
  CASE sel = <<"+">> -> Ok(IntObject(a + b), st)
    [] sel = <<"-">> -> Ok(IntObject(a - b), st)
    [] sel = <<"*">> -> Ok(IntObject(a * b), st)
    [] sel \in {<<"/">>, <<"/", "/">>, <<"\\", "\\">>} /\ b = 0 -> Fail("ZeroDivision", st)
    [] sel = <<"/">>        -> Ok(IF Remainder(a, b) = 0 THEN IntObject(Quotient(a, b)) ELSE FloatObject(a, b), st)
    [] sel = <<"/", "/">>   -> Ok(IntObject(Quotient(a, b)), st)
    [] sel = <<"\\", "\\">> -> Ok(IntObject(Remainder(a, b)), st)
    [] OTHER -> Unhandled(st)

\* One operand at least is a float.  Only a float tests its divisor for zero.
FloatArithmetic(recv, sel, arg, st) ==
  LET x == Fraction(recv)  y == Fraction(arg) IN
  CASE sel = <<"+">> -> Ok(FloatObject(x[1] * y[2] + y[1] * x[2], x[2] * y[2]), st)
    [] sel = <<"-">> -> Ok(FloatObject(x[1] * y[2] - y[1] * x[2], x[2] * y[2]), st)
    [] sel = <<"*">> -> Ok(FloatObject(x[1] * y[1], x[2] * y[2]), st)
    [] sel = <<"/">> /\ recv.kind = "Float" /\ y[1] = 0 -> Fail("ZeroDivision", st)
    [] sel = <<"/">> -> Ok(FloatObject(x[1] * y[2], x[2] * y[1]), st)
    [] OTHER -> Unhandled(st)

Arithmetic == {<<"+">>, <<"-">>, <<"*">>, <<"/">>, <<"/", "/">>, <<"\\", "\\">>}

Comparison(recv, sel, arg, st) ==
  LET x == Fraction(recv)  y == Fraction(arg) IN
  CASE sel = <<"<">>      -> Ok(BoolObject(Less(x, y)), st)
    [] sel = <<">">>      -> Ok(BoolObject(Less(y, x)), st)
    [] sel = <<"<", "=">> -> Ok(BoolObject(~Less(y, x)), st)
    [] sel = <<">", "=">> -> Ok(BoolObject(~Less(x, y)), st)
    [] OTHER -> Unhandled(st)

NumberEquality(recv, sel, arg, st) ==
  LET same == IsNumber(arg) /\ Fraction(recv) = Fraction(arg) IN
  CASE sel = <<"=">> -> Ok(BoolObject(same), st)
    [] sel = <<"~", "=">> /\ recv.kind = "Int" -> Ok(BoolObject(~(arg.kind = "Int" /\ same)), st)
    [] OTHER -> Unhandled(st)

NumberUnary(recv, sel, st) ==
  LET x == Fraction(recv)
      Same(n) == IF recv.kind = "Int" THEN IntObject(n) ELSE FloatObject(n, x[2])
  IN CASE sel = Sel("abs")     -> Ok(Same(Abs(x[1])), st)
       [] sel = Sel("negated") -> Ok(Same(-x[1]), st)
       [] sel = Sel("floor")   -> Ok(IntObject(x[1] \div x[2]), st)
       [] sel = Sel("ceiling") -> Ok(IntObject(-((-x[1]) \div x[2])), st)
       [] sel = Sel("asInteger") -> Ok(IntObject(Quotient(x[1], x[2])), st)
       [] sel = Sel("asFloat") -> Ok(FloatObject(x[1], x[2]), st)
       [] OTHER -> Unhandled(st)

-----------------------------------------------------------------------------
\* The loops.  What a loop passes to its block the i-th time: an item of an
\* array, which the block may change, is read at that moment.
Passed(recv, sel, i, st) ==
  CASE sel = Key("timesRepeat") -> <<>>
    [] sel = Key2("to", "do")   -> <<IntObject(recv.int + i - 1)>>
    [] sel = Key("withIndexDo") -> <<IntObject(i), Items(recv, st)[i]>>
    [] recv.kind = "String"     -> <<CharObject(recv.str[i])>>
    [] OTHER                    -> <<Items(recv, st)[i]>>

\* Calls blk n times, but for the first error.
Each(recv, sel, blk, n, st) ==
  FoldLeft(LAMBDA acc, i :
             IF Failed(acc) THEN acc
             ELSE LET r == CallBlock(blk, Passed(recv, sel, i, acc.st), acc.st)
                  IN  [err |-> r.err, st |-> r.st, vals |-> Append(acc.vals, r.val)],
           [err |-> "none", st |-> st, vals |-> <<>>], [i \in 1..n |-> i])

\* The loop's answer: v unless a call failed.
After(r, v) == [err |-> r.err, val |-> IF Failed(r) THEN Nil ELSE v, st |-> r.st]

IntLoop(recv, sel, args, st) ==
  LET a == recv.int
      Positive(n) == IF n < 0 THEN 0 ELSE n IN
  CASE sel = Key("timesRepeat") /\ args[1].kind = "Block" ->
         After(Each(recv, sel, args[1], Positive(a), st), recv)
    [] sel = Key2("to", "do") /\ args[1].kind = "Int" /\ args[2].kind = "Block" ->
         After(Each(recv, sel, args[2], Positive(args[1].int - a + 1), st), recv)
    [] sel = Key("to") -> Ok(recv, st)
    [] OTHER -> Unhandled(st)

NumberDispatch(recv, sel, args, st) ==
  CASE Len(args) = 0 -> NumberUnary(recv, sel, st)
    [] sel \in Arithmetic /\ IsNumber(args[1]) ->
         IF recv.kind = "Int" /\ args[1].kind = "Int" THEN IntArithmetic(recv.int, sel, args[1].int, st)
         ELSE FloatArithmetic(recv, sel, args[1], st)
    [] sel \in {<<"=">>, <<"~", "=">>} -> NumberEquality(recv, sel, args[1], st)
    [] sel \in {<<"<">>, <<">">>, <<"<", "=">>, <<">", "=">>} /\ IsNumber(args[1]) ->
         Comparison(recv, sel, args[1], st)
    [] recv.kind = "Int" /\ sel \in {Key("timesRepeat"), Key2("to", "do"), Key("to")} ->
         IntLoop(recv, sel, args, st)
    [] OTHER -> Unhandled(st)

-----------------------------------------------------------------------------
NilDispatch(sel, args, st) ==
  CASE sel = <<"=">>      -> Ok(BoolObject(args[1].kind = "Nil"), st)
    [] sel = <<"~", "=">> -> Ok(BoolObject(args[1].kind # "Nil"), st)
    [] OTHER -> Unhandled(st)

\* The block for one outcome of the test, called if it is one.
Branch(taken, blk, st) ==
  IF taken /\ blk.kind = "Block" THEN CallBlock(blk, <<>>, st) ELSE Ok(Nil, st)

BoolDispatch(recv, sel, args, st) ==
  LET b == recv.bool
      Two(yes, no) == Branch(TRUE, IF b THEN yes ELSE no, st)
  IN CASE sel = Key("ifTrue")  -> Branch(b, args[1], st)
       [] sel = Key("ifFalse") -> Branch(~b, args[1], st)
       [] sel = Key2("ifTrue", "ifFalse") -> Two(args[1], args[2])
       [] sel = Key2("ifFalse", "ifTrue") -> Two(args[2], args[1])
       [] sel = Sel("not") -> Ok(BoolObject(~b), st)
       [] sel = <<"&">>    -> Ok(BoolObject(b /\ Truthy(args[1])), st)
       [] sel = <<"=">>    -> Ok(BoolObject(args[1].kind = "Bool" /\ args[1].bool = b), st)
       [] OTHER -> Unhandled(st)

StringDispatch(recv, sel, args, st) ==
  LET s == recv.str IN
  CASE sel = Sel("size") -> Ok(IntObject(Len(s)), st)
    [] sel = Sel("asSymbol") -> Ok(SymbolObject(s), st)
    [] sel = <<",">> ->        \* the SVal of whatever the argument is
         Ok(StringObject(s \o (CASE args[1].kind = "String" -> args[1].str
                                 [] args[1].kind = "Symbol" -> args[1].sym [] OTHER -> <<>>)), st)
    [] sel = <<"=">> -> Ok(BoolObject(args[1].kind = "String" /\ args[1].str = s), st)
    [] sel = <<"~", "=">> -> Ok(BoolObject(~(args[1].kind = "String" /\ args[1].str = s)), st)
    [] sel = Key("at") /\ args[1].kind = "Int" ->
         IF args[1].int \in DOMAIN s THEN Ok(CharObject(s[args[1].int]), st) ELSE Fail("IndexOutOfBounds", st)
    [] sel = Key("do") /\ args[1].kind = "Block" ->
         After(Each(recv, sel, args[1], Len(s), st), recv)
    [] OTHER -> Unhandled(st)

SymbolDispatch(recv, sel, args, st) ==
  CASE sel = Sel("asString") -> Ok(StringObject(recv.sym), st)
    [] sel = Sel("asSymbol") -> Ok(recv, st)
    [] sel = <<"=">> -> Ok(BoolObject(args[1].kind = "Symbol" /\ args[1].sym = recv.sym), st)
    [] OTHER -> Unhandled(st)

-----------------------------------------------------------------------------
NewArray(items, st) == LET s == Allocate(st, [items |-> items]) IN Ok(ArrayRef(Newest(s)), s)

ArrayAccess(recv, sel, args, st) ==
  LET items == Items(recv, st)  n == Len(items)
      inside == args[1].int \in 1..n
  IN CASE sel = Key("at") /\ inside          -> Ok(items[args[1].int], st)
       [] sel = Key2("at", "put") /\ inside  ->
            Ok(args[2], [st EXCEPT !.heap[recv.ref].items[args[1].int] = args[2]])
       [] OTHER                              -> Fail("IndexOutOfBounds", st)

ArrayLoop(recv, sel, blk, st) ==
  LET n == Len(Items(recv, st))
      Item(i, s) == Items(recv, s)[i]
      all == Each(recv, sel, blk, n, st)
      \* The items passed to the block, read when they were.
      found == FoldLeft(LAMBDA acc, i :
                 IF Failed(acc) \/ acc.done THEN acc
                 ELSE LET r == CallBlock(blk, <<Item(i, acc.st)>>, acc.st)
                          hit == ~Failed(r) /\ Truthy(r.val)
                      IN  [err |-> r.err, st |-> r.st, done |-> hit /\ sel = Key("detect"),
                           vals |-> IF hit THEN Append(acc.vals, Item(i, acc.st)) ELSE acc.vals],
                 [err |-> "none", st |-> st, done |-> FALSE, vals |-> <<>>], [i \in 1..n |-> i])
  IN CASE sel \in {Key("do"), Key("withIndexDo")} -> After(all, recv)
       [] sel = Key("collect") -> IF Failed(all) THEN After(all, Nil) ELSE NewArray(all.vals, all.st)
       [] sel = Key("select")  -> IF Failed(found) THEN After(found, Nil) ELSE NewArray(found.vals, found.st)
       [] sel = Key("detect")  -> IF Failed(found) THEN After(found, Nil)
                                  ELSE IF found.done THEN Ok(found.vals[1], found.st)
                                  ELSE Fail("ElementNotFound", found.st)

Inject(recv, start, blk, st) ==
  FoldLeft(LAMBDA acc, i : IF Failed(acc) THEN acc
                           ELSE CallBlock(blk, <<acc.val, Items(recv, acc.st)[i]>>, acc.st),
           Ok(start, st), [i \in 1..Len(Items(recv, st)) |-> i])

ArrayDispatch(recv, sel, args, st) ==
  LET items == Items(recv, st) IN
  CASE sel = Sel("size")  -> Ok(IntObject(Len(items)), st)
    [] sel = Sel("first") -> Ok(IF items = <<>> THEN Nil ELSE items[1], st)
    [] sel = Sel("last")  -> Ok(IF items = <<>> THEN Nil ELSE items[Len(items)], st)
    [] sel \in {Key("at"), Key2("at", "put")} /\ args[1].kind = "Int" -> ArrayAccess(recv, sel, args, st)
    [] sel \in {Key("do"), Key("collect"), Key("select"), Key("detect"), Key("withIndexDo")}
         /\ args[1].kind = "Block" -> ArrayLoop(recv, sel, args[1], st)
    [] sel = Key2("inject", "into") /\ args[2].kind = "Block" -> Inject(recv, args[1], args[2], st)
    [] OTHER -> Unhandled(st)

-----------------------------------------------------------------------------
\* test whileTrue: body, and without a body: until the test answers sense.
WhileLoop(test, sense, body, st) ==
  LET RECURSIVE Loop(_)
      Loop(s) ==
        LET cond == CallBlock(test, <<>>, s)
            once == IF body = <<>> THEN cond ELSE CallBlock(body[1], <<>>, cond.st)
        IN IF Failed(cond) THEN cond
           ELSE IF Truthy(cond.val) # sense THEN Ok(Nil, cond.st)
           ELSE IF Failed(once) THEN once ELSE Loop(once.st)
  IN Loop(st)

\* The value of the block is dropped; only errors of the language are handled.
OnDo(recv, handler, st) ==
  LET r == CallBlock(recv, <<>>, st) IN
  CASE ~Failed(r)         -> Ok(Nil, r.st)
    [] r.err \in Catchable -> CallBlock(handler, <<StringObject(<<r.err>>)>>, r.st)
    [] OTHER              -> r

\* The clean-up block runs after a failure too, and its own outcome is dropped.
Ensure(recv, cleanup, st) ==
  LET r == CallBlock(recv, <<>>, st)
      c == CallBlock(cleanup, <<>>, r.st)
  IN  IF r.err \in Fatal \/ c.err \in Fatal THEN (IF r.err \in Fatal THEN r ELSE c)
      ELSE [r EXCEPT !.st = c.st]

BlockDispatch(recv, sel, args, st) ==
  CASE sel \in {Sel("value"), Key("value"), Key2("value", "value")} -> CallBlock(recv, args, st)
    [] sel = Key("valueWithArguments") /\ args[1].kind = "Array" ->
         CallBlock(recv, Items(args[1], st), st)
    [] sel = Key("whileTrue") /\ args[1].kind = "Block"  -> WhileLoop(recv, TRUE, args, st)
    [] sel = Sel("whileTrue")                            -> WhileLoop(recv, TRUE, <<>>, st)
    [] sel = Key("whileFalse") /\ args[1].kind = "Block" -> WhileLoop(recv, FALSE, args, st)
    [] sel = Key2("on", "do")                            -> OnDo(recv, args[2], st)
    [] sel = Key("ensure") /\ args[1].kind = "Block"     -> Ensure(recv, args[1], st)
    [] OTHER -> Unhandled(st)

\* BuiltinDispatch.  isNil and notNil are the same in every dispatcher.
Dispatch(recv, sel, args, st) ==
  CASE recv.kind \in {"Object", "Char", "ByteArray"} -> Unhandled(st)
    [] sel = Sel("isNil")     -> Ok(BoolObject(recv.kind = "Nil"), st)
    [] sel = Sel("notNil")    -> Ok(BoolObject(recv.kind # "Nil"), st)
    [] IsNumber(recv)         -> NumberDispatch(recv, sel, args, st)
    [] recv.kind = "Bool"     -> BoolDispatch(recv, sel, args, st)
    [] recv.kind = "String"   -> StringDispatch(recv, sel, args, st)
    [] recv.kind = "Symbol"   -> SymbolDispatch(recv, sel, args, st)
    [] recv.kind = "Array"    -> ArrayDispatch(recv, sel, args, st)
    [] recv.kind = "Block"    -> BlockDispatch(recv, sel, args, st)
    [] recv.kind = "Nil"      -> NilDispatch(sel, args, st)
=============================================================================
