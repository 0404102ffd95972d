------------------------------- MODULE Compiler -------------------------------
(***************************************************************************)
(* The bytecode compiler (pkg/bytecode/compiler.go) and its scopes         *)
(* (scope.go).                                                             *)
(*                                                                         *)
(* A compiler is a record: the code of the chunk in progress and the size  *)
(* of its constant pool; the chain of scopes, innermost last; the block    *)
(* table; the globals, their types and the templates of the objects        *)
(* declared so far; the heap factories are made in; whether a method is    *)
(* compiled, the slots it sees, whether top-level variables are globals;   *)
(* and the first error.  Each compile operator takes a node and a compiler *)
(* and returns the compiler after it.  Instructions are records rather     *)
(* than bytes, and hold the constant they name instead of its index, but   *)
(* a slot number is cut to its byte.                                       *)
(***************************************************************************)
EXTENDS Objects, TLC
LOCAL INSTANCE Parser
LOCAL INSTANCE SequencesExt

CONSTANTS ByteLimit,   (* 256: an operand of one byte counts up to it, exclusive *)
          PoolLimit,   (* 65535: constants of one chunk (chunk.go:56)            *)
          IntLimit     (* 2^31: larger literals go to the constant pool          *)

Byte(n) == n % ByteLimit
Put(f, key, value) == (key :> value) @@ f

NewScope == [locals |-> <<>>, upvalues |-> <<>>]

NewCompiler(globals, gtypes, blocks, heap, top) ==
  [code |-> <<>>, pool |-> 0, scopes |-> <<NewScope>>, blocks |-> blocks,
   globals |-> globals, gtypes |-> gtypes, templates |-> NoFields, heap |-> heap,
   isMethod |-> FALSE, slots |-> <<>>, top |-> top, err |-> "none"]

Broken(c) == c.err # "none"

-----------------------------------------------------------------------------
\* Scopes.
Locals(c) == c.scopes[Len(c.scopes)].locals
Depth(c)  == Len(c.scopes) - 1

\* declareLocal: a name declared again gets a new slot.
DeclareLocal(c, name, type) ==
  [c EXCEPT !.scopes[Len(c.scopes)].locals = Append(@, [name |-> name, type |-> type])]

\* resolveLocal: the slot declared last under the name, -1 for none.
ResolveLocal(scope, name) ==
  LET slots == {i \in DOMAIN scope.locals : scope.locals[i].name = name}
  IN  IF slots = {} THEN -1 ELSE (CHOOSE i \in slots : \A j \in slots : j <= i) - 1

\* addUpvalue, in scope d.
AddUpvalue(scopes, d, index, isLocal) ==
  LET uv == [index |-> index, isLocal |-> isLocal]
      have == {i \in DOMAIN scopes[d].upvalues : scopes[d].upvalues[i] = uv}
  IN  IF have # {} THEN [index |-> (CHOOSE i \in have : TRUE) - 1, scopes |-> scopes]
      ELSE [index |-> Len(scopes[d].upvalues),
            scopes |-> [scopes EXCEPT ![d].upvalues = Append(@, uv)]]

\* resolveUpvalue: every scope between the use and the declaration captures the
\* variable from the one outside it.
RECURSIVE ResolveUpvalue(_, _, _)
ResolveUpvalue(scopes, d, name) ==
  IF d = 1 THEN [index |-> -1, scopes |-> scopes]
  ELSE LET slot == ResolveLocal(scopes[d - 1], name)
           outer == ResolveUpvalue(scopes, d - 1, name)
       IN  IF slot >= 0 THEN AddUpvalue(scopes, d, Byte(slot), TRUE)
           ELSE IF outer.index >= 0 THEN AddUpvalue(outer.scopes, d, Byte(outer.index), FALSE)
           ELSE outer

\* Where a name is found: a local, a captured variable, a slot of self, a global.
Resolve(c, name) ==
  LET slot == ResolveLocal(c.scopes[Len(c.scopes)], name)
      up   == ResolveUpvalue(c.scopes, Len(c.scopes), name)
  IN CASE slot >= 0 -> [place |-> "Local", slot |-> Byte(slot), scopes |-> c.scopes]
       [] slot < 0 /\ up.index >= 0 -> [place |-> "Upvalue", slot |-> Byte(up.index), scopes |-> up.scopes]
       [] OTHER -> [place |-> IF c.isMethod /\ name \in ToSet(c.slots) THEN "Inst" ELSE "Global",
                    scopes |-> c.scopes]

-----------------------------------------------------------------------------
\* Emission.
Emit(c, ins) == [c EXCEPT !.code = Append(@, ins)]
Op(op) == [op |-> op]
EmitOp(c, op) == Emit(c, Op(op))

\* An instruction with n constants of the pool.
EmitPooled(c, ins, n) ==
  IF c.pool + n > PoolLimit THEN [c EXCEPT !.err = "pool overflow"]
  ELSE Emit([c EXCEPT !.pool = @ + n], ins)

PushConst(c, v) == EmitPooled(c, [op |-> "PushConst", const |-> v], 1)

EmitObject(c, v) ==
  CASE v.kind = "Nil"  -> EmitOp(c, "PushNil")
    [] v.kind = "Bool" -> EmitOp(c, IF v.bool THEN "PushTrue" ELSE "PushFalse")
    [] v.kind = "Int"  -> Emit(c, [op |-> "PushInt", int |-> v.int])
    [] OTHER           -> PushConst(c, v)

CompileInt(n, c) ==
  IF n.int < IntLimit THEN Emit(c, [op |-> "PushInt", int |-> n.int]) ELSE PushConst(c, IntObject(n.int))

Send(c, op, selector, argc) ==
  EmitPooled(c, [op |-> op, sel |-> selector, argc |-> Byte(argc)], 1)

-----------------------------------------------------------------------------
RECURSIVE CompileNode(_, _)

\* One after the other, each leaving its value; between Pops all but the last.
CompileAll(nodes, c) == FoldLeft(LAMBDA acc, n : CompileNode(n, acc), c, nodes)
CompileBody(nodes, c) ==
  FoldLeft(LAMBDA acc, i : LET d == CompileNode(nodes[i], acc)
                           IN  IF Broken(d) \/ i = Len(nodes) THEN d ELSE EmitOp(d, "Pop"),
           c, [i \in DOMAIN nodes |-> i])

\* A push or a store of the variable resolved to r.
Access(verb, name, r, c) ==
  LET d == [c EXCEPT !.scopes = r.scopes] IN
  IF r.place \in {"Local", "Upvalue"} THEN Emit(d, [op |-> verb \o r.place, slot |-> r.slot])
  ELSE EmitPooled(d, [op |-> verb \o r.place, name |-> name], 1)

CompileIdent(n, c) == Access("Push", n.name, Resolve(c, n.name), c)

\* The value stays on the stack.  Whether the name is declared is known, and
\* an undeclared one refused, only after the value is compiled.
StoreInto(name, r, c) ==
  IF Broken(c) THEN c
  ELSE IF r.place = "Global" /\ name \notin DOMAIN c.gtypes THEN [c EXCEPT !.err = "undeclared"]
  ELSE Access("Store", name, r, c)
AssignTo(name, c) == StoreInto(name, Resolve(c, name), c)
CompileAssign(n, c) == AssignTo(n.name, EmitOp(CompileNode(n.value, c), "Dup"))

\* Variables of a command typed at the REPL are globals; all others are locals
\* of the block, method or program.
AreGlobals(c) == c.top /\ Depth(c) = 0 /\ ~c.isMethod

DeclareGlobal(name, type, c) ==
  LET typed == EmitPooled([c EXCEPT !.gtypes = Put(@, name, type)],
                          [op |-> "SetGlobalType", name |-> name, type |-> type], 2)
  IN  Emit(EmitObject(typed, ZeroValueFor(type)), [op |-> "StoreGlobal", name |-> name])

DeclareTyped(name, type, c0) ==
  LET c == DeclareLocal(c0, name, type)
      slot == Byte(Len(Locals(c)) - 1)
      typed == EmitPooled(c, [op |-> "SetLocalType", slot |-> slot, type |-> type], 1)
  IN  IF AreGlobals(c0) THEN DeclareGlobal(name, type, c0)
      ELSE Emit(EmitObject(typed, ZeroValueFor(type)), [op |-> "StoreLocal", slot |-> slot])

CompileVarDecl(n, c) ==
  EmitOp(FoldLeft(LAMBDA acc, i : DeclareTyped(n.names[i], n.types[i], acc), c, [i \in DOMAIN n.names |-> i]),
         "PushNil")

\* let x := value: the name is declared first, so the value sees the new x.
CompileLetDecl(n, c) ==
  LET global == CompileNode(n.value, [c EXCEPT !.gtypes = Put(@, n.name, AnyType)])
      local  == CompileNode(n.value, DeclareLocal(c, n.name, AnyType))
      slot   == Byte(Len(Locals(c)))
      infer(d, where) == Emit(Emit(d, [op |-> "Infer" \o where.kind \o "Type"] @@ where.at),
                              [op |-> "Store" \o where.kind] @@ where.at)
      done(d, where) == IF Broken(d) THEN d ELSE EmitOp(infer(d, where), "PushNil")
  IN CASE n.value = None -> EmitOp(DeclareTyped(n.name, n.type, c), "PushNil")
       [] n.value # None /\ AreGlobals(c) -> done(global, [kind |-> "Global", at |-> [name |-> n.name]])
       [] OTHER -> done(local, [kind |-> "Local", at |-> [slot |-> slot]])

\* Sends: receiver, arguments, message; super is told by the receiver's node.
CompileMessage(n, c) ==
  LET super == n.receiver.node = "Super"
      recv  == IF super THEN EmitOp(c, "PushSelf") ELSE CompileNode(n.receiver, c)
      args  == CompileAll(n.args, recv)
  IN  IF Broken(args) THEN args ELSE Send(args, IF super THEN "SuperSend" ELSE "Send", n.selector, Len(n.args))

\* Bug: the answers of the messages before the last are left on the stack.
CompileCascade_Mutant(n, c) ==
  LET last == Len(n.messages) IN
  FoldLeft(LAMBDA acc, i :
             LET m == n.messages[i]
                 args == CompileAll(m.args, IF i < last THEN EmitOp(acc, "Dup") ELSE acc)
             IN  IF Broken(args) THEN args ELSE Send(args, "Send", m.selector, Len(m.args)),
           CompileNode(n.receiver, c), [i \in 1..last |-> i])

\* The receiver is evaluated once and copied for every message but the last.
CompileCascade(n, c) ==
  LET last == Len(n.messages) IN
  FoldLeft(LAMBDA acc, i :
             LET m == n.messages[i]
                 args == CompileAll(m.args, IF i < last THEN EmitOp(acc, "Dup") ELSE acc)
                 sent == Send(args, "Send", m.selector, Len(m.args))
             IN CASE Broken(args) -> args
                  [] ~Broken(args) /\ i < last -> EmitOp(sent, "Pop")
                  [] OTHER -> sent,
           CompileNode(n.receiver, c), [i \in 1..last |-> i])

\* ^ leaves a block as OpBlockReturn and a method, or a program, as OpReturn.
CompileReturn(n, c) ==
  LET d == CompileNode(n.value, c)
  IN  IF Broken(d) THEN d ELSE EmitOp(d, IF Depth(c) > 0 THEN "BlockReturn" ELSE "Return")

\* A body with a compiler of its own that shares the tables of the outer one;
\* last is the instruction it ends with.  The result is the inner compiler.
CompileCode(n, c, scopes, isMethod, slots, last) ==
  LET fresh  == [c EXCEPT !.code = <<>>, !.pool = 0, !.scopes = scopes,
                          !.isMethod = isMethod, !.slots = slots, !.top = FALSE]
      params == FoldLeft(LAMBDA acc, p : DeclareLocal(acc, p, AnyType), fresh, n.params)
      locals == FoldLeft(LAMBDA acc, i : DeclareLocal(acc, n.locals[i], n.types[i]), params,
                         [i \in DOMAIN n.locals |-> i])
      body   == CompileBody(n.body, locals)
  IN  IF Broken(body) THEN body
      ELSE EmitOp(IF n.body = <<>> /\ last = "Return" THEN EmitOp(body, "PushNil") ELSE body, last)

CompiledBlock(n, inner) ==
  LET scope == inner.scopes[Len(inner.scopes)] IN
  [arity |-> Len(n.params), types |-> [i \in DOMAIN scope.locals |-> scope.locals[i].type],
   upvalues |-> scope.upvalues, code |-> inner.code]

\* What the outer compiler has learned from the inner one.
BackFrom(c, inner) ==
  [c EXCEPT !.blocks = inner.blocks, !.globals = inner.globals, !.gtypes = inner.gtypes,
            !.heap = inner.heap, !.err = inner.err]

MakeBlock(n, c, inner) ==
  LET outer == [BackFrom(c, inner) EXCEPT !.scopes = Front(inner.scopes),
                                          !.blocks = Append(@, CompiledBlock(n, inner))]
  IN  IF Broken(inner) THEN BackFrom(c, inner)
      ELSE EmitPooled(outer, [op |-> "Closure", block |-> Len(inner.blocks)], 1)
CompileBlock(n, c) ==
  MakeBlock(n, c, CompileCode(n, c, Append(c.scopes, NewScope), c.isMethod, c.slots, "Return"))

\* A method ends with OpReturnSelf whatever its last statement is.
CompileMethod(m, slots, c) == CompileCode(m, c, <<NewScope>>, TRUE, slots, "ReturnSelf")

-----------------------------------------------------------------------------
\* Objects.  NoMethod tells a method of bytecode from the ones written in Go.
NativeNew(slots)  == [native |-> "new", slots |-> slots]
CodeMethod(block) == [native |-> "none", block |-> block]
SlotTypes(v, c)   == IF v.kind = "Object" THEN Object(v, c).slotTypes ELSE NoFields

Typed(types, slots, ts) ==
  FoldLeft(LAMBDA acc, i : Put(acc, slots[i], ts[i]), types, [i \in DOMAIN slots |-> i])

\* The slots, slot types and methods an object gets from the one called name:
\* from the declaration if this compiler has seen it, and from the factory.
FromTemplate(name, acc, c) ==
  LET t == c.templates[name] IN
  IF name \in DOMAIN c.templates THEN [acc EXCEPT !.slots = @ \o t.slots, !.types = Typed(@, t.slots, t.types)]
  ELSE acc
FromFactory(name, a, c) ==
  LET types   == SlotTypes(c.globals[name], c)
      methods == Methods(c.globals[name], c)
  IN  IF name \notin DOMAIN c.globals THEN a
      ELSE [slots |-> a.slots \o SetToSeq(DOMAIN types \ ToSet(a.slots)), types |-> types @@ a.types,
            methods |-> [sel \in DOMAIN methods \ {<<"new">>} |-> methods[sel]] @@ a.methods]
Composition(d, c) ==
  FoldLeft(LAMBDA acc, name : FromFactory(name, FromTemplate(name, acc, c), c),
           [slots |-> <<>>, types |-> NoFields, methods |-> NoFields], d.composes)

\* The methods in order, up to the first that does not compile.
WithMethod(m, acc, inner) ==
  [c |-> BackFrom(acc.c, inner),
   methods |-> IF Broken(inner) THEN acc.methods
               ELSE Put(acc.methods, m.selector, CodeMethod(CompiledBlock(m, inner)))]
CompileMethods(d, slots, composed, c) ==
  FoldLeft(LAMBDA acc, m : IF Broken(acc.c) THEN acc ELSE WithMethod(m, acc, CompileMethod(m, slots, acc.c)),
           [c |-> c, methods |-> composed.methods], d.methods)

DefineFactory(d, slots, composed, built) ==
  LET factory == ObjectRecord(d.name, NoFields, Typed(composed.types, d.slots, d.types),
                              Put(built.methods, <<"new">>, NativeNew(slots)), composed.methods)
      made == Allocate(built.c, factory)
  IN  IF Broken(built.c) THEN built.c
      ELSE [made EXCEPT !.globals = Put(@, d.name, ObjectRef(Newest(made))),
                        !.gtypes = Put(@, d.name, d.name)]

Declare(d, slots, composed, c) == DefineFactory(d, slots, composed, CompileMethods(d, slots, composed, c))
CompileObjectDecl(d, c0) ==
  LET c == [c0 EXCEPT !.templates = Put(@, d.name, d)]
      composed == Composition(d, c)
  IN  Declare(d, composed.slots \o d.slots, composed, c)

\* OpMakeArray takes the elements; an anonymous object is compiled as nil, and
\* thisContext too.  An import does nothing here: a compiler without a loader
\* ignores it (ModuleLoader has the one that does not).
CompileNode(n, c) ==
  CASE Broken(c)              -> c
    [] n.node = "Nil"         -> EmitOp(c, "PushNil")
    [] n.node = "Bool"        -> EmitOp(c, IF n.bool THEN "PushTrue" ELSE "PushFalse")
    [] n.node = "Int"         -> CompileInt(n, c)
    [] n.node = "Float"       -> PushConst(c, FloatObject(n.num, n.den))
    [] n.node = "String"      -> PushConst(c, StringObject(n.str))
    [] n.node = "Symbol"      -> PushConst(c, SymbolObject(n.sym))
    [] n.node = "Char"        -> PushConst(c, CharObject(n.chr))
    [] n.node = "ByteArray"   -> PushConst(c, ByteArrayObject(n.bytes))
    [] n.node = "Array"       -> LET d == CompileAll(n.elements, c) IN
                                 IF Broken(d) THEN d
                                 ELSE Emit(d, [op |-> "MakeArray", count |-> Len(n.elements)])
    [] n.node = "Ident"       -> CompileIdent(n, c)
    [] n.node \in {"Self", "Super"} -> EmitOp(c, "PushSelf")
    [] n.node \in {"ThisContext", "AnonObject"} -> EmitOp(c, "PushNil")
    [] n.node = "Block"       -> CompileBlock(n, c)
    [] n.node = "VarDecl"     -> CompileVarDecl(n, c)
    [] n.node = "Let"         -> CompileLetDecl(n, c)
    [] n.node = "Assign"      -> CompileAssign(n, c)
    [] n.node = "Return"      -> CompileReturn(n, c)
    [] n.node = "Message"     -> CompileMessage(n, c)
    [] n.node = "Cascade"     -> CompileCascade(n, c)
    [] n.node = "Object"      -> CompileObjectDecl(n, c)
    [] n.node \in {"Interface", "Import"} -> c

\* Compile: the values of the statements are left on the stack, one per
\* statement, under the one that is the program's.
Finish(c) == IF Broken(c) THEN c
             ELSE EmitOp(IF c.code = <<>> THEN EmitOp(c, "PushNil") ELSE c, "Return")
Compile(nodes, c) == Finish(CompileAll(nodes, c))
=============================================================================
