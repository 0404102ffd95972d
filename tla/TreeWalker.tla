------------------------------ MODULE TreeWalker ------------------------------
(***************************************************************************)
(* The tree-walking interpreter (pkg/eval/eval.go).                        *)
(*                                                                         *)
(* Its state is a record: the environments made so far, the heap, the      *)
(* object declarations seen (templates), the state of its module loader,   *)
(* and fuel and raised (Objects).  An environment is [vars, types, outer,  *)
(* self]: outer is the index of the one around it, 0 for none, and self is *)
(* nil except in the environment of a method.  Environment 1 holds the     *)
(* globals.  A block value is its syntax and the environment it was made   *)
(* in.  Each operator takes what the Go method takes and the state, and    *)
(* returns an answer (Objects); a ^ is an answer with error "return".      *)
(***************************************************************************)
EXTENDS Objects, TLC
LOCAL INSTANCE SequencesExt

Env(outer, self) == [vars |-> NoFields, types |-> NoFields, outer |-> outer, self |-> self]
NewEnv(st, env) == [st EXCEPT !.envs = Append(@, env)]
NewestEnv(st) == Len(st.envs)
Globals == 1

Slots(env, st)     == IF env.self.kind = "Object" THEN Object(env.self, st).slots ELSE NoFields
SlotTypes(env, st) == IF env.self.kind = "Object" THEN Object(env.self, st).slotTypes ELSE NoFields

\* The environments from e outwards.
Scopes(e, st) ==
  LET from[i \in 0..Len(st.envs)] == IF i = 0 THEN <<>> ELSE <<i>> \o from[st.envs[i].outer]
  IN  from[e]
Nearest(e, st, envs) ==
  LET found == SelectSeq(Scopes(e, st), LAMBDA i : i \in envs) IN IF found = <<>> THEN 0 ELSE found[1]

\* Where a name is bound: a variable hides a slot of the same environment.
Holder(name, e, st) ==
  Nearest(e, st, {i \in DOMAIN st.envs : name \in DOMAIN st.envs[i].vars \cup DOMAIN Slots(st.envs[i], st)})
HasBinding(name, e, st) == Holder(name, e, st) # 0
Get(name, e, st) ==
  LET env == st.envs[Holder(name, e, st)]
  IN  IF name \in DOMAIN env.vars THEN env.vars[name] ELSE Slots(env, st)[name]

\* Bug: an assignment always makes a variable of its own environment.
Set_Mutant(name, v, e, st) == [st EXCEPT !.envs[e].vars = (name :> v) @@ @]

\* Set and setExisting: a name bound nowhere becomes a variable of e.
Set(name, v, e, st) ==
  LET h == IF HasBinding(name, e, st) THEN Holder(name, e, st) ELSE e
      env == st.envs[h]
  IN  IF name \in DOMAIN Slots(env, st) \ DOMAIN env.vars
      THEN [st EXCEPT !.heap[env.self.ref].slots[name] = v]
      ELSE [st EXCEPT !.envs[h].vars = (name :> v) @@ @]

DefineAs(name, type, v, e, st) ==
  [st EXCEPT !.envs[e].types = (name :> type) @@ @, !.envs[e].vars = (name :> v) @@ @]
Define(name, e, st)            == DefineAs(name, <<"Any">>, Nil, e, st)
DefineTyped(name, type, e, st) == DefineAs(name, type, ZeroValueFor(type), e, st)
DefineAll(names, types, e, st) ==
  FoldLeft(LAMBDA acc, i : DefineTyped(names[i], types[i], e, acc), st, [i \in DOMAIN names |-> i])

LookupDeclaredType(name, e, st) ==
  LET h == Nearest(e, st, {i \in DOMAIN st.envs : name \in DOMAIN st.envs[i].types \cup DOMAIN SlotTypes(st.envs[i], st)})
      env == st.envs[h]
  IN  IF h = 0 THEN <<>>
      ELSE IF name \in DOMAIN env.types THEN env.types[name] ELSE SlotTypes(env, st)[name]

\* What self is, nil outside every method.
Self(e, st) == IF HasBinding(<<"self">>, e, st) THEN Get(<<"self">>, e, st) ELSE Nil

-----------------------------------------------------------------------------
RECURSIVE EvalNode(_, _, _)

\* evalStatements: a ^ ends the body it is in, a block's as well as a method's.
EvalStatements(nodes, e, st) ==
  LET r == FoldLeft(LAMBDA acc, n : IF Failed(acc) THEN acc ELSE EvalNode(n, e, acc.st), Ok(Nil, st), nodes)
  IN  IF r.err = "return" THEN Ok(r.val, r.st) ELSE r

\* One after the other, up to the first error.
EvalAll(nodes, e, st) ==
  FoldLeft(LAMBDA acc, n : IF Failed(acc) THEN acc
                           ELSE LET r == EvalNode(n, e, acc.st)
                                IN  [r EXCEPT !.val = Append(acc.val, r.val)],
           [err |-> "none", val |-> <<>>, st |-> st], nodes)

\* Parameters without an argument are nil and arguments without a parameter
\* dropped, for blocks and methods alike.
Bind(params, args, e, st) ==
  FoldLeft(LAMBDA acc, i : DefineAs(params[i], <<"Any">>, IF i <= Len(args) THEN args[i] ELSE Nil, e, acc),
           st, [i \in DOMAIN params |-> i])

EvalBody(code, args, env, st0) ==
  LET st == NewEnv([st0 EXCEPT !.fuel = @ - 1], env)
      e  == NewestEnv(st)
      bound == DefineAll(code.locals, code.types, e, Bind(code.params, args, e, st))
  IN  IF st0.fuel = 0 THEN Fail("Diverged", st0) ELSE EvalStatements(code.body, e, bound)

CallBlock(blk, args, st) ==
  IF blk.kind # "Block" THEN Fail("not a block", st)
  ELSE EvalBody(blk.code, args, Env(blk.env, Nil), st)
Builtin == INSTANCE Builtins

\* applyMethod.  new calls init itself.
RECURSIVE ApplyMethod(_, _, _, _)
Initialize(inst, made) ==
  LET methods == Methods(inst, made) IN
  IF <<"init">> \notin DOMAIN methods THEN Ok(inst, made)
  ELSE Answering(inst, ApplyMethod(inst, methods[<<"init">>], <<>>, made))
MakeInstance(made) == Initialize(ObjectRef(Newest(made)), made)

SelfEnv(self) == [Env(Globals, self) EXCEPT !.vars = <<"self">> :> self, !.types = <<"self">> :> <<"Any">>]
ApplyMethod(self, method, args, st) ==
  CASE method.native = "new"  -> MakeInstance(Instantiate(self, method.slots, st))
    [] method.native = "slot" -> Ok(Object(self, st).slots[method.slot], st)
    [] OTHER                  -> EvalBody(method.code, args, SelfEnv(self), st)

SendMessage(recv, sel, args, st) ==
  IF sel \in DOMAIN Methods(recv, st) THEN ApplyMethod(recv, Methods(recv, st)[sel], args, st)
  ELSE Understood(Builtin!Dispatch(recv, sel, args, st))

\* superSend: the composed methods of the nearest method environment.
SuperSend(sel, args, e, st) ==
  LET h == Nearest(e, st, {i \in DOMAIN st.envs : st.envs[i].self.kind = "Object"})
      composed == Object(st.envs[h].self, st).composed
  IN  IF h # 0 /\ sel \in DOMAIN composed THEN ApplyMethod(Self(e, st), composed[sel], args, st)
      ELSE Fail("MessageNotUnderstood", st)

-----------------------------------------------------------------------------
\* Declarations and assignments.

EvalLet(n, e, st) ==
  LET r == EvalNode(n.value, e, st) IN
  IF n.value.node = "None" THEN Ok(Nil, DefineTyped(n.name, n.type, e, st))
  ELSE IF Failed(r) THEN r
  ELSE Ok(Nil, Set(n.name, r.val, e, DefineTyped(n.name, KindTypeName(r.val, r.st), e, r.st)))

EvalAssign(n, e, st) ==
  LET r == EvalNode(n.value, e, st) IN
  IF ~HasBinding(n.name, e, st) THEN Fail("UndefinedVariable", st)
  ELSE IF Failed(r) THEN r
  ELSE IF ~TypeMatches(LookupDeclaredType(n.name, e, r.st), r.val, r.st) THEN Fail("TypeError", r.st)
  ELSE Ok(r.val, Set(n.name, r.val, e, r.st))

EvalIdent(n, e, st) ==
  IF HasBinding(n.name, e, st) THEN Ok(Get(n.name, e, st), st) ELSE Fail("UndefinedVariable", st)

Slot(name) == [native |-> "slot", slot |-> name]

\* {name: value ...}: an object with an accessor for each slot.
EvalAnonObject(n, e, st) ==
  LET vals == EvalAll([i \in DOMAIN n.slots |-> n.slots[i].value], e, st)
      index == [i \in DOMAIN n.slots |-> i]
      slots == FoldLeft(LAMBDA acc, i : (n.slots[i].name :> vals.val[i]) @@ acc, NoFields, index)
      made == Allocate(vals.st, ObjectRecord(<<>>, slots, NoFields, [s \in DOMAIN slots |-> Slot(s)], NoFields))
  IN  IF Failed(vals) THEN vals ELSE Ok(ObjectRef(Newest(made)), made)

Typed(types, slots, ts) ==
  FoldLeft(LAMBDA acc, i : (slots[i] :> ts[i]) @@ acc, types, [i \in DOMAIN slots |-> i])

\* The slots of an object composed of others are its declared ones and those
\* the composed declarations list themselves: slots these got from others in
\* turn have a type here but are not among the ones new makes.
Compose(name, acc, e, st) ==
  LET t == st.templates[name]
      a == IF name \notin DOMAIN st.templates THEN acc
           ELSE [acc EXCEPT !.slots = @ \o t.slots, !.types = Typed(@, t.slots, t.types)]
      factory == Get(name, e, st)
      methods == Methods(factory, st)
      types == IF factory.kind = "Object" THEN Object(factory, st).slotTypes ELSE NoFields
  IN  IF ~HasBinding(name, e, st) THEN a
      ELSE [slots |-> a.slots, types |-> types @@ a.types,
            methods |-> [s \in DOMAIN methods \ {<<"new">>} |-> methods[s]] @@ a.methods]

Composition(d, e, st) ==
  FoldLeft(LAMBDA acc, name : Compose(name, acc, e, st),
           [slots |-> <<>>, types |-> NoFields, methods |-> NoFields], d.composes)

DefineFactory(d, c, e, st) ==
  LET own == FoldLeft(LAMBDA acc, m : (m.selector :> [native |-> "none", code |-> m]) @@ acc, c.methods, d.methods)
      new == [native |-> "new", slots |-> c.slots \o d.slots]
      made == Allocate(st, ObjectRecord(d.name, NoFields, Typed(c.types, d.slots, d.types),
                                        (<<"new">> :> new) @@ own, c.methods))
  IN  DefineAs(d.name, <<"Any">>, ObjectRef(Newest(made)), e, made)
RegisterObjectDecl(d, e, st0) ==
  LET st == [st0 EXCEPT !.templates = (d.name :> d) @@ @] IN DefineFactory(d, Composition(d, e, st), e, st)

-----------------------------------------------------------------------------
\* The arguments first, then the message: to recv, or to super.
SendTo(recv, sel, args)    == IF Failed(args) THEN args ELSE SendMessage(recv, sel, args.val, args.st)
SendToSuper(sel, args, e)  == IF Failed(args) THEN args ELSE SuperSend(sel, args.val, e, args.st)
SendAfter(recv, n, e)      == IF Failed(recv) THEN recv
                              ELSE SendTo(recv.val, n.selector, EvalAll(n.args, e, recv.st))
EvalMessage(n, e, st) ==
  IF n.receiver.node = "Super" THEN SendToSuper(n.selector, EvalAll(n.args, e, st), e)
  ELSE SendAfter(EvalNode(n.receiver, e, st), n, e)

SendEach(recv, n, e) ==
  FoldLeft(LAMBDA acc, m : IF Failed(acc) THEN acc
                           ELSE SendTo(recv.val, m.selector, EvalAll(m.args, e, acc.st)),
           recv, n.messages)
EvalCascade(n, e, st) == SendEach(EvalNode(n.receiver, e, st), n, e)

EvalReturn(n, e, st) ==
  LET r == EvalNode(n.value, e, st) IN IF Failed(r) THEN r ELSE [r EXCEPT !.err = "return"]

EvalArray(n, e, st) ==
  LET r == EvalAll(n.elements, e, st) IN IF Failed(r) THEN r ELSE Builtin!NewArray(r.val, r.st)

\* An interface is only parsed; an import is Language's.
EvalNode(n, e, st) ==
  CASE n.node = "Nil"       -> Ok(Nil, st)
    [] n.node = "Bool"      -> Ok(BoolObject(n.bool), st)
    [] n.node = "Int"       -> Ok(IntObject(n.int), st)
    [] n.node = "Float"     -> Ok(FloatObject(n.num, n.den), st)
    [] n.node = "String"    -> Ok(StringObject(n.str), st)
    [] n.node = "Symbol"    -> Ok(SymbolObject(n.sym), st)
    [] n.node = "Char"      -> Ok(CharObject(n.chr), st)
    [] n.node = "ByteArray" -> Ok(ByteArrayObject(n.bytes), st)
    [] n.node = "Array"     -> EvalArray(n, e, st)
    [] n.node = "Ident"     -> EvalIdent(n, e, st)
    [] n.node \in {"Self", "Super"} -> Ok(Self(e, st), st)
    [] n.node = "ThisContext" -> Ok(Nil, st)
    [] n.node = "AnonObject" -> EvalAnonObject(n, e, st)
    [] n.node = "Block"     -> Ok([kind |-> "Block", code |-> n, env |-> e], st)
    [] n.node = "VarDecl"   -> Ok(Nil, DefineAll(n.names, n.types, e, st))
    [] n.node = "Let"       -> EvalLet(n, e, st)
    [] n.node = "Assign"    -> EvalAssign(n, e, st)
    [] n.node = "Return"    -> EvalReturn(n, e, st)
    [] n.node = "Message"   -> EvalMessage(n, e, st)
    [] n.node = "Cascade"   -> EvalCascade(n, e, st)
    [] n.node = "Object"    -> Ok(Nil, RegisterObjectDecl(n, e, st))
    [] n.node = "Interface" -> Ok(Nil, st)

\* A statement of a program.
EvalTop(n, st) == EvalNode(n, Globals, st)
=============================================================================
