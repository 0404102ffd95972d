-------------------------------- MODULE Objects --------------------------------
(***************************************************************************)
(* Runtime values (pkg/object/object.go) and the type names declarations   *)
(* give them (zeroValueFor, typeMatches and kindTypeName, of which         *)
(* pkg/eval/eval.go and pkg/bytecode/compiler.go hold a copy each).        *)
(*                                                                         *)
(* Whatever can be changed through one reference and seen through another  *)
(* lives in a heap, a sequence of records that a value refers to by index: *)
(* arrays (their items) and objects.  The machines of Builtins, Machine    *)
(* and TreeWalker all have a state with the fields heap, fuel (a bound on  *)
(* the calls of one command) and raised (how many errors were made).       *)
(***************************************************************************)
EXTENDS Integers, Sequences
LOCAL INSTANCE SequencesExt

Nil             == [kind |-> "Nil"]
BoolObject(b)   == [kind |-> "Bool", bool |-> b]
IntObject(n)    == [kind |-> "Int", int |-> n]
CharObject(c)   == [kind |-> "Char", chr |-> c]
StringObject(s) == [kind |-> "String", str |-> s]
SymbolObject(s) == [kind |-> "Symbol", sym |-> s]
ByteArrayObject(b) == [kind |-> "ByteArray", bytes |-> b]
ObjectRef(r)    == [kind |-> "Object", ref |-> r]
ArrayRef(r)     == [kind |-> "Array", ref |-> r]
EmptyArray      == ArrayRef(0)

\* A float is the fraction it stands for, in lowest terms: rounding is left out.
RECURSIVE Gcd(_, _)
Gcd(a, b) == IF b = 0 THEN a ELSE Gcd(b, a % b)
Abs(n) == IF n < 0 THEN -n ELSE n
FloatObject(n, d) ==
  LET s == IF d < 0 THEN -1 ELSE 1
      g == Gcd(Abs(n), Abs(d))
  IN  IF d = 0 THEN [kind |-> "Float", num |-> IF n < 0 THEN -1 ELSE IF n > 0 THEN 1 ELSE 0, den |-> 0]
      ELSE [kind |-> "Float", num |-> (s * n) \div g, den |-> (s * d) \div g]

Truthy(v) == v.kind # "Nil" /\ (v.kind = "Bool" => v.bool)

-----------------------------------------------------------------------------
\* Types.
BasicTypes == { <<"Int">>, <<"Float">>, <<"Bool">>, <<"String">>, <<"Char">>, <<"Symbol">>,
                <<"ByteArray">>, <<"Array">>, <<"Block">>, <<"Nil">> }

ZeroValueFor(type) ==
  CASE type = <<"Int">>       -> IntObject(0)
    [] type = <<"Float">>     -> FloatObject(0, 1)
    [] type = <<"Bool">>      -> BoolObject(FALSE)
    [] type = <<"String">>    -> StringObject(<<>>)
    [] type = <<"Char">>      -> CharObject("")
    [] type = <<"Symbol">>    -> SymbolObject(<<>>)
    [] type = <<"ByteArray">> -> ByteArrayObject(<<>>)
    [] type = <<"Array">>     -> EmptyArray
    [] OTHER                  -> Nil

-----------------------------------------------------------------------------
NoFields == [x \in {} |-> Nil]
Allocate(st, record) == [st EXCEPT !.heap = Append(@, record)]
Newest(st) == Len(st.heap)

Items(v, st) == IF v.ref = 0 THEN <<>> ELSE st.heap[v.ref].items

\* An object's record: its type name, its slots, their types, its methods and
\* the methods super sends are looked up in.
ObjectRecord(type, slots, slotTypes, methods, composed) ==
  [type |-> type, slots |-> slots, slotTypes |-> slotTypes, methods |-> methods, composed |-> composed]
Object(v, st) == st.heap[v.ref]
Methods(v, st) == IF v.kind = "Object" THEN Object(v, st).methods ELSE NoFields

\* What new makes of a factory: every slot starts at the zero of its type.
Instantiate(factory, slots, st) ==
  LET f == Object(factory, st)
      TypeOf(slot) == IF slot \in DOMAIN f.slotTypes THEN f.slotTypes[slot] ELSE <<"Any">>
  IN  Allocate(st, ObjectRecord(f.type, [slot \in ToSet(slots) |-> ZeroValueFor(TypeOf(slot))],
                                f.slotTypes, f.methods, f.composed))

\* What a command answers with: an error kind ("none" for none), a value, the
\* state it leaves.
Ok(v, st)       == [err |-> "none", val |-> v, st |-> st]
Fail(kind, st)  == [err |-> kind, val |-> Nil, st |-> [st EXCEPT !.raised = @ + 1]]
Failed(r)       == r.err # "none"
\* What follows an answer: v in its place, or an error unless a builtin took it.
Answering(v, r) == IF Failed(r) THEN r ELSE Ok(v, r.st)
Understood(r)   == IF r.err = "unhandled" THEN Fail("MessageNotUnderstood", r.st) ELSE r

\* Errors of type *eval.Error, which on:do: catches; the others are the signal
\* of a ^, Go panics and plain Go errors.
Catchable == { "MessageNotUnderstood", "TypeError", "UndefinedVariable", "ZeroDivision",
               "IndexOutOfBounds", "ArgumentError", "ElementNotFound", "IOError" }
\* A Go panic or a run without end comes back to no caller.
Fatal == { "panic", "Diverged" }

-----------------------------------------------------------------------------
\* The type a value shows.
KindTypeName(v, st) ==
  IF v.kind # "Object" THEN <<v.kind>>
  ELSE IF Object(v, st).type # <<>> THEN Object(v, st).type ELSE <<"Object">>

\* <<>> and Any are no constraint; nil is in every type that is not basic.
TypeMatches(type, v, st) ==
  \/ type \in {<<>>, <<"Any">>}
  \/ type = <<v.kind>> /\ v.kind # "Object"
  \/ type \notin BasicTypes /\ v.kind = "Nil"
  \/ /\ type \notin BasicTypes /\ v.kind = "Object"
     /\ type = <<"Object">> \/ Object(v, st).type \in {<<>>, type}

\* PrintString, as far as it tells values apart.  An object prints the same
\* whatever it is; a cyclic array would print for ever (Depth).
RECURSIVE Shown(_, _, _)
Shown(v, st, depth) ==
  CASE v.kind = "Array"  -> [array |-> IF depth = 0 THEN <<>> ELSE
                               [i \in DOMAIN Items(v, st) |-> Shown(Items(v, st)[i], st, depth - 1)]]
    [] v.kind = "Block"  -> [kind |-> "Block"]
    [] v.kind = "Object" -> [kind |-> "Object"]
    [] OTHER             -> v
PrintDepth == 3
Answer(r) == IF Failed(r) THEN [error |-> r.err] ELSE [value |-> Shown(r.val, r.st, PrintDepth)]
=============================================================================
