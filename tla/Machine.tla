-------------------------------- MODULE Machine --------------------------------
(***************************************************************************)
(* The virtual machine that runs compiled code (pkg/bytecode/vm.go).       *)
(*                                                                         *)
(* The state of a VM is a record: the stack, whose slots above sp keep     *)
(* what was last in them, the frames, the globals and their types, the     *)
(* block table, the heap, and fuel and raised (Objects).  A frame is       *)
(* [closure, ip, bp, self, types]; a closure is its compiled block and,    *)
(* for each captured variable, the stack slot it had when the closure was  *)
(* made (upvalues are never closed).  Frames and stack are left as they    *)
(* are by an error: whoever goes on after one goes on from there.          *)
(***************************************************************************)
EXTENDS Objects, TLC
LOCAL INSTANCE SequencesExt

CONSTANTS MaxStackSize,  (* 1024 *)
          MaxFrameCount, (* 256 *)
          StepsLog       (* bound of the model: a frame runs at most 2^StepsLog steps *)

\* A slot of the stack nothing was ever stored in.
Unset == [kind |-> "Unset"]

NewVM(globals, gtypes, blocks, heap, fuel) ==
  [stack |-> <<>>, sp |-> 0, frames |-> <<>>, globals |-> globals, gtypes |-> gtypes,
   blocks |-> blocks, heap |-> heap, fuel |-> fuel, raised |-> 0]

Frame(m) == m.frames[Len(m.frames)]
Slot(m, i) == IF i + 1 \in DOMAIN m.stack THEN m.stack[i + 1] ELSE Unset
SetSlot(m, i, v) ==
  LET padded == m.stack \o [k \in 1..(i + 1 - Len(m.stack)) |-> Unset]
  IN  [m EXCEPT !.stack = [padded EXCEPT ![i + 1] = v]]

Push(m, v) ==
  IF m.sp < Len(m.stack) THEN [m EXCEPT !.stack[m.sp + 1] = v, !.sp = @ + 1]
  ELSE [m EXCEPT !.stack = Append(@, v), !.sp = @ + 1]
Pop(m)  == [m EXCEPT !.sp = @ - 1]
Peek(m) == m.stack[m.sp]

Done(m)     == Ok(Nil, m)
Pushed(m, v) == Done(Push(m, v))

FrameLocalType(f, slot) == IF slot < Len(f.types) THEN f.types[slot + 1] ELSE <<>>
SetFrameLocalType(m, slot, type) ==
  LET f == Len(m.frames)
      padded == m.frames[f].types \o [i \in 1..(slot + 1 - Len(m.frames[f].types)) |-> <<>>]
  IN  [m EXCEPT !.frames[f].types = [padded EXCEPT ![slot + 1] = type]]

-----------------------------------------------------------------------------
\* Instructions that call nothing.

\* A store takes its value off the stack, type error or not.
Store(m, type, stored) ==
  IF TypeMatches(type, Peek(m), m) THEN Done(stored) ELSE Fail("TypeError", Pop(m))

\* Bug: the declared type of a captured variable is not looked at.
StoreUpvalue_Mutant(m, slot) ==
  LET ups == Frame(m).closure.upvalues
  IN  Store(m, <<>>, IF slot < Len(ups) THEN SetSlot(Pop(m), ups[slot + 1].slot, Peek(m)) ELSE Pop(m))

StoreUpvalue(m, slot) ==
  LET ups == Frame(m).closure.upvalues IN
  IF slot >= Len(ups) THEN Done(Pop(m))
  ELSE Store(m, ups[slot + 1].type, SetSlot(Pop(m), ups[slot + 1].slot, Peek(m)))

PushUpvalue(m, slot) ==
  LET ups == Frame(m).closure.upvalues
  IN  Pushed(m, IF slot < Len(ups) THEN Slot(m, ups[slot + 1].slot) ELSE Nil)

\* A slot of self: nil, and a store dropped, in code that has no self.
HasSlots(m) == Frame(m).self.kind = "Object"
PushInst(m, name) ==
  LET slots == Object(Frame(m).self, m).slots
  IN  Pushed(m, IF HasSlots(m) /\ name \in DOMAIN slots THEN slots[name] ELSE Nil)
SlotSet(m, name) == [Pop(m) EXCEPT !.heap[Frame(m).self.ref].slots = (name :> Peek(m)) @@ @]
\* Bug: the declared type of the slot is not looked at.
StoreInst_Mutant(m, name) ==
  Store(m, <<>>, IF HasSlots(m) THEN SlotSet(m, name) ELSE Pop(m))

StoreInst(m, name) ==
  LET types == Object(Frame(m).self, m).slotTypes
      type  == IF name \in DOMAIN types THEN types[name] ELSE <<>>
  IN  IF ~HasSlots(m) THEN Done(Pop(m))
      ELSE Store(m, type, SlotSet(m, name))

PushGlobal(m, name) == Pushed(m, IF name \in DOMAIN m.globals THEN m.globals[name] ELSE Nil)
StoreGlobal(m, name) ==
  Store(m, IF name \in DOMAIN m.gtypes THEN m.gtypes[name] ELSE <<>>,
        [Pop(m) EXCEPT !.globals = (name :> Peek(m)) @@ @])

SetGlobalType(m, name, type) == Done([m EXCEPT !.gtypes = (name :> type) @@ @])

\* OpClosure: captured locals are the frame's stack slots, captured variables
\* of the enclosing block are shared with it.
MakeClosure(m, index) ==
  LET f == Frame(m)
      block == m.blocks[index + 1]
      Capture(uv) == IF uv.isLocal THEN [slot |-> f.bp + uv.index, type |-> FrameLocalType(f, uv.index)]
                     ELSE f.closure.upvalues[uv.index + 1]
  IN  IF index >= Len(m.blocks) THEN Fail("invalid block", m)
      ELSE Pushed(m, [kind |-> "Block",
                      closure |-> [block |-> block,
                                   upvalues |-> [i \in DOMAIN block.upvalues |-> Capture(block.upvalues[i])]]])

MakeArray(m, count) ==
  LET s == Allocate([m EXCEPT !.sp = @ - count], [items |-> SubSeq(m.stack, m.sp - count + 1, m.sp)])
  IN  Pushed(s, ArrayRef(Newest(s)))

\* Return, from the frame or, at the last one, from the program.
Leave(m, v) ==
  LET rest == [m EXCEPT !.frames = Front(@)]
  IN  IF rest.frames = <<>> THEN Ok(v, rest)
      ELSE Pushed([rest EXCEPT !.sp = Frame(m).bp], v)

-----------------------------------------------------------------------------
RECURSIVE Step(_)

\* run and runFrame: until the frames are down to floor, or an error.
Halted(r, floor) == Failed(r) \/ Len(r.st.frames) <= floor
RECURSIVE Loop(_, _, _)
Loop(r, floor, k) ==
  IF Halted(r, floor) THEN r
  ELSE IF k = 0 THEN Step(r.st)
  ELSE Loop(Loop(r, floor, k - 1), floor, k - 1)

\* What a frame has left on the stack is its answer.
Taken(r, floor) ==
  IF Failed(r) THEN r
  ELSE IF Len(r.st.frames) > floor THEN Fail("Diverged", r.st)
  ELSE IF r.st.frames = <<>> THEN r
  ELSE Ok(Peek(r.st), Pop(r.st))
RunFrame(m, floor) == Taken(Loop(Done(m), floor, StepsLog), floor)

\* A frame over the arguments, with the locals beyond them at their zeros.
Enter(m, closure, self, args) ==
  LET block  == closure.block
      pushed == FoldLeft(Push, m, args)
      locals == [i \in 1..(Len(block.types) - Len(args)) |-> ZeroValueFor(block.types[Len(args) + i])]
      frame  == [closure |-> closure, ip |-> 1, bp |-> m.sp, self |-> self, types |-> block.types]
      entered == FoldLeft(Push, [pushed EXCEPT !.frames = Append(@, frame), !.fuel = @ - 1], locals)
  IN  IF m.fuel = 0 THEN Fail("Diverged", m)
      ELSE IF Len(entered.frames) > MaxFrameCount \/ entered.sp > MaxStackSize THEN Fail("panic", entered)
      ELSE RunFrame(entered, Len(m.frames))

\* A block takes whatever arguments it is given, and has no self.
CallBlock(blk, args, m) ==
  IF blk.kind # "Block" THEN Fail("not a block", m) ELSE Enter(m, blk.closure, Nil, args)
Builtin == INSTANCE Builtins

CallCompiledMethod(self, block, args, m) ==
  IF Len(args) # block.arity THEN Fail("ArgumentError", m)
  ELSE Enter(m, [block |-> block, upvalues |-> <<>>], self, args)

ApplyMethod(self, method, args, m) ==
  IF method.native = "new" THEN LET s == Instantiate(self, method.slots, m) IN Ok(ObjectRef(Newest(s)), s)
  ELSE CallCompiledMethod(self, method.block, args, m)

\* send: a method of the receiver, or a builtin, which looks at its arguments
\* and so takes no unset one.  new is followed by init.
Initialized(made) ==
  LET methods == Methods(made.val, made.st) IN
  IF ~Failed(made) /\ <<"init">> \in DOMAIN methods
  THEN Answering(made.val, ApplyMethod(made.val, methods[<<"init">>], <<>>, made.st))
  ELSE made
SendMethod(recv, sel, args, m) ==
  LET r == ApplyMethod(recv, Methods(recv, m)[sel], args, m)
  IN  IF sel = <<"new">> THEN Initialized(r) ELSE r

SendMessage(recv, sel, args, m) ==
  IF sel \in DOMAIN Methods(recv, m) THEN SendMethod(recv, sel, args, m)
  ELSE IF Unset \in ToSet(args) THEN Fail("panic", m)
  ELSE Understood(Builtin!Dispatch(recv, sel, args, m))

\* superSend: the composed methods are the receiver's.
SuperSend(self, sel, args, m) ==
  IF self.kind = "Object" /\ sel \in DOMAIN Object(self, m).composed
  THEN ApplyMethod(self, Object(self, m).composed[sel], args, m)
  ELSE Fail("MessageNotUnderstood", m)

Returned(r) == IF Failed(r) THEN r ELSE Pushed(r.st, r.val)

\* OpSend and OpSuperSend take receiver and arguments off and push the answer.
Sent(m, ins) ==
  LET args == SubSeq(m.stack, m.sp - ins.argc + 1, m.sp)
      recv == Slot(m, m.sp - ins.argc - 1)
      rest == [m EXCEPT !.sp = @ - ins.argc - 1]
  IN  Returned(IF ins.op = "Send" THEN SendMessage(IF recv = Unset THEN Nil ELSE recv, ins.sel, args, rest)
               ELSE SuperSend(recv, ins.sel, args, rest))

-----------------------------------------------------------------------------
\* How many values an instruction takes, or looks at, on the stack.
Operands(ins) ==
  CASE ins.op \in {"Send", "SuperSend"} -> ins.argc + 1
    [] ins.op = "MakeArray" -> ins.count
    [] ins.op \in {"Pop", "Dup", "StoreLocal", "StoreUpvalue", "StoreInst", "StoreGlobal",
                   "InferLocalType", "InferGlobalType", "Return", "BlockReturn"} -> 1
    [] OTHER -> 0

Execute(m, ins) ==
  LET f == Frame(m) IN
  CASE ins.op = "Pop"          -> Done(Pop(m))
    [] ins.op = "Dup"          -> Pushed(m, Peek(m))
    [] ins.op = "PushNil"      -> Pushed(m, Nil)
    [] ins.op = "PushTrue"     -> Pushed(m, BoolObject(TRUE))
    [] ins.op = "PushFalse"    -> Pushed(m, BoolObject(FALSE))
    [] ins.op = "PushSelf"     -> Pushed(m, f.self)
    [] ins.op = "PushInt"      -> Pushed(m, IntObject(ins.int))
    [] ins.op = "PushConst"    -> Pushed(m, ins.const)
    [] ins.op = "PushLocal"    -> Pushed(m, Slot(m, f.bp + ins.slot))
    [] ins.op = "StoreLocal"   -> Store(m, FrameLocalType(f, ins.slot), SetSlot(Pop(m), f.bp + ins.slot, Peek(m)))
    [] ins.op = "PushUpvalue"  -> PushUpvalue(m, ins.slot)
    [] ins.op = "StoreUpvalue" -> StoreUpvalue(m, ins.slot)
    [] ins.op = "PushInst"     -> PushInst(m, ins.name)
    [] ins.op = "StoreInst"    -> StoreInst(m, ins.name)
    [] ins.op = "PushGlobal"   -> PushGlobal(m, ins.name)
    [] ins.op = "StoreGlobal"  -> StoreGlobal(m, ins.name)
    [] ins.op = "SetLocalType" -> Done(SetFrameLocalType(m, ins.slot, ins.type))
    [] ins.op = "InferLocalType"  -> Done(SetFrameLocalType(m, ins.slot, KindTypeName(Peek(m), m)))
    [] ins.op = "SetGlobalType"   -> SetGlobalType(m, ins.name, ins.type)
    [] ins.op = "InferGlobalType" -> SetGlobalType(m, ins.name, KindTypeName(Peek(m), m))
    [] ins.op \in {"Send", "SuperSend"} -> Sent(m, ins)
    [] ins.op = "Closure"      -> MakeClosure(m, ins.block)
    [] ins.op \in {"Return", "BlockReturn"} -> Leave(Pop(m), Peek(m))
    [] ins.op = "ReturnSelf"   -> Leave(m, f.self)
    [] ins.op = "MakeArray"    -> MakeArray(m, ins.count)

\* No instruction pushes beyond the stack.
Within(r, m) == IF r.st.sp > MaxStackSize THEN Fail("panic", m) ELSE r

\* Code that runs off its end leaves its frame and pushes nothing.
Step(m) ==
  LET f == Frame(m)
      code == f.closure.block.code
  IN  IF f.ip > Len(code) THEN Ok(Nil, [m EXCEPT !.frames = Front(@)])
      ELSE IF m.sp < Operands(code[f.ip]) THEN Fail("panic", m)
      ELSE Within(Execute([m EXCEPT !.frames[Len(m.frames)].ip = @ + 1], code[f.ip]), m)

\* Run: a program, on an empty stack.
RunChunk(code, types, m) == Enter(m, [block |-> [arity |-> 0, types |-> types, upvalues |-> <<>>, code |-> code],
                                      upvalues |-> <<>>], Nil, <<>>)
=============================================================================
