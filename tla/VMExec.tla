------------------------------- MODULE VMExec -------------------------------
(***************************************************************************)
(* The execution discipline of the bytecode VM (pkg/bytecode/vm.go) and of *)
(* the builtins that call back into it (pkg/eval/builtins.go): the operand *)
(* stack, the frame array, the nesting of Go calls between them, errors    *)
(* travelling up that nesting, upvalues, and nested runs of source files.  *)
(*                                                                         *)
(* The program being run is not fixed.  A frame executes any instruction   *)
(* its compiler could have emitted: field depth of a frame is the number   *)
(* of operands the COMPILER counts on at the current instruction, and is   *)
(* the only thing that guards an instruction.  Whether the real stack      *)
(* pointer agrees with it is what the properties are about.                *)
(*                                                                         *)
(* Values are abstracted to what the properties tell apart: stack[s] is    *)
(* the activation whose local variable lives in slot s, or 0 when the slot *)
(* holds an operand.  Slots above sp keep their last contents, as in the   *)
(* Go array.                                                               *)
(***************************************************************************)
EXTENDS Integers, Sequences, FiniteSets

CONSTANTS
  MaxStack,        (* maxStackSize, vm.go:14                                *)
  MaxFrames,       (* maxFrameCount, vm.go:15                               *)
  MaxLocals,       (* bound: locals declared by one block or method         *)
  MaxArgs,         (* bound: arguments of a send to a method or a block     *)
  MaxDepth,        (* bound: operands of one frame                          *)
  MaxActivations,  (* bound: activations entered in one behaviour           *)
  MaxClosures,     (* bound: different closures created in one behaviour    *)
  Programs         (* what the programs that may be run make use of         *)

AllFeatures ==
  { "fault",       (* a send or a store fails                               *)
    "onDo",        (* [..] on: Error do: [..]                               *)
    "ensure",      (* [..] ensure: [..]                                     *)
    "loop",        (* a builtin that calls a block repeatedly               *)
    "caret",       (* ^ inside a block                                      *)
    "escape",      (* a block is called after its defining scope returned   *)
    "runContents"  (* File runContents:                                     *) }

ASSUME SizesAssumption ==
  /\ MaxStack \in Nat /\ MaxFrames \in Nat \ {0}
  /\ MaxLocals \in Nat /\ MaxArgs \in Nat /\ MaxDepth \in Nat
  /\ MaxActivations \in Nat \ {0} /\ MaxClosures \in Nat
  /\ MaxLocals <= MaxStack
ASSUME ProgramsAssumption == Programs \subseteq SUBSET AllFeatures

VARIABLES
  stack,     (* vm.stack: slot -> owning activation, 0 for an operand       *)
  sp,        (* vm.sp: next free slot                                       *)
  frames,    (* vm.frames[0 .. frameCount-1]                                *)
  go,        (* the Go calls of run and runFrame in progress, outermost 1st *)
  ctl,       (* "step": the innermost run loop has control; otherwise what  *)
             (* the call it served just returned, or how the program ended  *)
  closures,  (* every closure created so far                                *)
  next,      (* identifier of the next activation                           *)
  failed,    (* history: the activations an instruction failed in           *)
  program    (* what the program being run makes use of                     *)

vars == <<stack, sp, frames, go, ctl, closures, next, failed, program>>

-----------------------------------------------------------------------------
(* Types *)

Slots       == 0 .. MaxStack - 1
Activations == 1 .. MaxActivations
Upvalue     == [slot : Nat, owner : Activations]
Kinds       == {"main", "method", "block"}
Failures    == {"Error", "host"}  (* *eval.Error, or any other Go error *)
Outcomes    == {"ok"} \cup Failures
Ended       == {"done", "failed", "panic"}

(* CallFrame: bp, the locals its code declares, the cells it reserved above *)
(* bp, the closure's upvalues, and the method activation the code is       *)
(* lexically nested in (0: none).                                          *)
Frame ==
  [uid : Activations, kind : Kinds, bp : Nat, locals : Nat, cells : Nat,
   depth : Int, ups : SUBSET Upvalue, home : 0 .. MaxActivations]

(* A compiled block with its captured variables: CompiledBlock + Closure.  *)
Code ==
  [kind : Kinds, locals : Nat, ups : SUBSET Upvalue, home : 0 .. MaxActivations]

(* What the Go caller does with the outcome of the call.  "cleanup-x": the *)
(* ensure: block is running, and x was the outcome of the protected block. *)
Uses ==
  {"main", "file", "value", "loop", "onDo", "handler", "ensure",
   "cleanup-ok", "cleanup-Error", "cleanup-host"}
(* caller is the activation whose send started the call (history).          *)
GoCall == [saved : Nat, use : Uses, caller : 0 .. MaxActivations]

CleanupAfter(outcome) ==
  CASE outcome = "ok"    -> "cleanup-ok"
    [] outcome = "Error" -> "cleanup-Error"
    [] OTHER             -> "cleanup-host"

TypeOK ==
  /\ stack \in [Slots -> 0 .. MaxActivations]
  /\ sp \in 0 .. MaxStack
  /\ frames \in Seq(Frame)
  /\ go \in Seq(GoCall)
  /\ ctl \in {"step"} \cup Outcomes \cup Ended
  /\ closures \subseteq Code
  /\ next \in 1 .. MaxActivations + 1
  /\ failed \subseteq Activations /\ program \in Programs

-----------------------------------------------------------------------------
(* Helpers *)

Larger(m, n)  == IF m < n THEN n ELSE m
DropLast(seq) == SubSeq(seq, 1, Len(seq) - 1)
Top       == frames[Len(frames)]
Innermost == go[Len(go)]
Base(f)   == f.bp + f.cells

(* The loop condition of run (vm.go:292) and runFrame (vm.go:306).          *)
Executing == ctl = "step" /\ Len(frames) > Innermost.saved

(* Frames once the top instruction has popped n operands and pushed m.      *)
Operands(n, m) ==
  [frames EXCEPT ![Len(frames)].depth = @ - n + m]

Panic ==
  /\ ctl' = "panic"
  /\ UNCHANGED <<stack, sp, frames, go, closures, next, failed, program>>

(* Pushing up to slot top panics when the stack is full (749-752).          *)
Overflows(top) == top > MaxStack

(* A mutant of SavedCount: run() in place of runFrame(savedFrameCount).     *)
SavedCount_Mutant(frs) == 0
(* savedFrameCount := vm.frameCount, before the new frame (268, 731).       *)
SavedCount(frs) == Len(frs)

(* A mutant of EnterBase: the frame starts above its arguments.             *)
EnterBase_Mutant(at, nargs) == at + nargs
(* frame.bp = vm.sp - len(args): the arguments are the first locals.        *)
EnterBase(at, nargs) == at

(***************************************************************************)
(* callCompiledMethod (714-745) and CallBlock (249-288): push arguments at *)
(* slot at, push a frame over frs, reserve the locals that are still       *)
(* missing (CallBlock checks no arity, so there may be more arguments than *)
(* locals), and start a runFrame loop inside the Go calls in progress.     *)
(***************************************************************************)
Enter(at, frs, calls, nargs, code, use, caller) ==
  LET cells == Larger(nargs, code.locals)
      frame == [uid |-> next, kind |-> code.kind, bp |-> EnterBase(at, nargs),
                locals |-> code.locals, cells |-> cells, depth |-> 0,
                ups |-> code.ups,
                home |-> IF code.kind = "method" THEN next ELSE code.home]
  IN  /\ next <= MaxActivations
      /\ IF Len(frs) = MaxFrames \/ Overflows(at + cells)
         THEN Panic
         ELSE /\ frames' = Append(frs, frame)
              /\ go' = Append(calls, [saved |-> SavedCount(frs), use |-> use,
                                      caller |-> caller])
              /\ stack' = [s \in Slots |->
                             IF s \in at .. at + cells - 1 THEN next ELSE stack[s]]
              /\ sp' = at + cells
              /\ next' = next + 1
              /\ ctl' = "step"
              /\ UNCHANGED <<closures, failed, program>>

(* A closure may be called when its scope is still active, or at any time  *)
(* by a program that lets blocks outlive their scope.                      *)
Callable(code) ==
  \/ "escape" \in program
  \/ \A u \in code.ups : \E i \in 1 .. Len(frames) : frames[i].uid = u.owner

-----------------------------------------------------------------------------
(* Run (222-246) on a fresh VM *)

MainFrame(uid, lc) ==
  [uid |-> uid, kind |-> "main", bp |-> 0, locals |-> lc, cells |-> lc,
   depth |-> 0, ups |-> {}, home |-> 0]

Init ==
  \E lc \in 0 .. MaxLocals :
    /\ stack = [s \in Slots |-> IF s < lc THEN 1 ELSE 0]
    /\ sp = lc
    /\ frames = <<MainFrame(1, lc)>>
    /\ go = <<[saved |-> 0, use |-> "main", caller |-> 0]>>
    /\ ctl = "step"
    /\ closures = {}
    /\ next = 2
    /\ failed = {} /\ program \in Programs

-----------------------------------------------------------------------------
(* Instructions that stay in the frame (step, 323-622) *)

(* OpDup, OpPushNil .. OpPushGlobal: one more operand. *)
PushOperand ==
  /\ Executing /\ Top.depth < MaxDepth /\ ~ Overflows(sp + 1)
  /\ stack' = [stack EXCEPT ![sp] = 0]
  /\ sp' = sp + 1
  /\ frames' = Operands(0, 1)
  /\ UNCHANGED <<go, ctl, closures, next, failed, program>>

(* OpPop, OpStoreInst, OpStoreGlobal, OpJumpIfFalse, OpJumpIfTrue. *)
PopOperand ==
  /\ Executing /\ Top.depth >= 1
  /\ sp' = sp - 1
  /\ frames' = Operands(1, 0)
  /\ UNCHANGED <<stack, go, ctl, closures, next, failed, program>>

(* OpStoreLocal into slot bp + k. *)
StoreLocal(k) ==
  /\ Executing /\ Top.depth >= 1 /\ k < Top.locals
  /\ sp' = sp - 1
  /\ stack' = [stack EXCEPT ![Top.bp + k] = Top.uid]
  /\ frames' = Operands(1, 0)
  /\ UNCHANGED <<go, ctl, closures, next, failed, program>>

(* OpStoreUpvalue: no upvalue is ever closed, so the value goes to the     *)
(* slot the variable occupied when it was captured (406-410).              *)
StoreUpvalue ==
  /\ Executing /\ Top.depth >= 1
  /\ \E u \in Top.ups : stack' = [stack EXCEPT ![u.slot] = u.owner]
  /\ sp' = sp - 1
  /\ frames' = Operands(1, 0)
  /\ UNCHANGED <<go, ctl, closures, next, failed, program>>

(* OpClosure, capture of a local (527-535): slot := frame.bp + uv.Index.    *)
CaptureSlot(k) == Top.bp + k

(* What OpClosure can capture (525-544): a local of the frame, or one of    *)
(* the frame's own upvalues.                                                *)
Capturable ==
  {[slot |-> CaptureSlot(k), owner |-> Top.uid] : k \in 0 .. Top.locals - 1}
    \cup Top.ups

(* OpClosure (511-552): a block with lc locals and at most one captured     *)
(* variable (a bound).                                                      *)
MakeClosure(lc) ==
  /\ Executing /\ Top.depth < MaxDepth /\ ~ Overflows(sp + 1)
  /\ \E ups \in {{}} \cup {{u} : u \in Capturable} :
       LET code == [kind |-> "block", locals |-> lc, ups |-> ups,
                    home |-> Top.home]
       IN  /\ closures' = closures \cup {code}
           /\ Cardinality(closures') <= MaxClosures
  /\ stack' = [stack EXCEPT ![sp] = 0]
  /\ sp' = sp + 1
  /\ frames' = Operands(0, 1)
  /\ UNCHANGED <<go, ctl, next, failed, program>>

(* OpMakeArray, and sends answered without calling back: argc + 1 operands *)
(* become one.                                                             *)
Combine(argc) ==
  /\ Executing /\ Top.depth >= argc + 1
  /\ sp' = sp - argc
  /\ stack' = [stack EXCEPT ![sp - argc - 1] = 0]
  /\ frames' = Operands(argc + 1, 1)
  /\ UNCHANGED <<go, ctl, closures, next, failed, program>>

(* push onto a full stack panics (749-752). *)
PushOverflow ==
  /\ Executing /\ Overflows(sp + 1)
  /\ Panic

-----------------------------------------------------------------------------
(* Sends that call back into the VM (send, 625-670; applyMethod, 701-712).  *)
(* The pending result of the send is counted in depth from here on.        *)

CallMethod(argc, lc) ==
  /\ Executing /\ Top.depth >= argc + 1
  /\ Enter(sp - argc - 1, Operands(argc + 1, 1), go, argc,
           [kind |-> "method", locals |-> argc + lc, ups |-> {}, home |-> 0],
           "value", Top.uid)

(* A send of a selector with argc arguments whose builtin calls block code  *)
(* with nargs arguments.                                                    *)
CallBlock(code, argc, nargs, use) ==
  /\ Executing /\ Top.depth >= argc + 1 /\ Callable(code)
  /\ Enter(sp - argc - 1, Operands(argc + 1, 1), go, nargs, code, use, Top.uid)

(* value, value:, ifTrue: ...                                               *)
SendValue(code, nargs) == CallBlock(code, nargs, nargs, "value")

(* whileTrue:, timesRepeat:, to:do:, do: ... (one block argument)           *)
SendLoop(code, nargs) ==
  "loop" \in program /\ CallBlock(code, 1, nargs, "loop")

(* on:do: (2311-2324)                                                       *)
SendOnDo(code) ==
  "onDo" \in program /\ CallBlock(code, 2, 0, "onDo")

(* ensure: (2325-2330)                                                      *)
SendEnsure(code) ==
  "ensure" \in program /\ CallBlock(code, 1, 0, "ensure")

(***************************************************************************)
(* File runContents: (builtins.go:1023-1045), EvalSource (186-219) and Run *)
(* (222-246) on the VM that is already running: the frame array is reset   *)
(* to one main frame with bp 0, while its locals are pushed at sp.         *)
(***************************************************************************)
RunContents(lc) ==
  LET at == sp - 2
  IN  /\ "runContents" \in program
      /\ Executing /\ Top.depth >= 2 /\ next <= MaxActivations
      /\ IF Overflows(at + lc)
         THEN Panic
         ELSE /\ frames' = <<MainFrame(next, lc)>>
              /\ go' = Append(go, [saved |-> 0, use |-> "file", caller |-> Top.uid])
              /\ stack' = [s \in Slots |->
                             IF s \in at .. at + lc - 1 THEN next ELSE stack[s]]
              /\ sp' = at + lc
              /\ next' = next + 1
              /\ UNCHANGED <<ctl, closures, failed, program>>

-----------------------------------------------------------------------------
(* Failing instructions: step returns an error, and neither frameCount nor  *)
(* sp is put back.                                                          *)

(* A send fails: not understood, wrong arity, a builtin's error, a          *)
(* non-block where a block is called.                                       *)
FailSend(argc, failure) ==
  /\ "fault" \in program
  /\ Executing /\ Top.depth >= argc + 1
  /\ sp' = sp - argc - 1
  /\ frames' = Operands(argc + 1, 1)
  /\ ctl' = failure
  /\ failed' = failed \cup {Top.uid}
  /\ UNCHANGED <<stack, go, closures, next, program>>

(* A store fails its declared-type check (378, 403, 434, 456).              *)
FailStore ==
  /\ "fault" \in program
  /\ Executing /\ Top.depth >= 1
  /\ sp' = sp - 1
  /\ frames' = Operands(1, 0)
  /\ ctl' = "Error"
  /\ failed' = failed \cup {Top.uid}
  /\ UNCHANGED <<stack, go, closures, next, program>>

-----------------------------------------------------------------------------
(* Returns (575-606) *)

(* Mutants of AfterReturn: the frame's locals stay on the stack; the result *)
(* is forgotten.                                                            *)
AfterReturn_Mutant(f) == sp
AfterReturn_Mutant2(f) == f.bp
(* vm.sp = frame.bp, then the result is pushed.                             *)
AfterReturn(f) == f.bp + 1

(* The frame goes, after its instruction popped n operands.  The result of  *)
(* the last frame goes straight to the Go caller; any other is pushed where *)
(* the frame began.                                                         *)
LeaveFrame(n) ==
  IF Len(frames) = 1
  THEN /\ frames' = <<>>
       /\ ctl' = "ok"
       /\ sp' = sp - n
       /\ UNCHANGED <<stack, go, closures, next>>
  ELSE IF Overflows(AfterReturn(Top))
  THEN /\ ctl' = "panic"
       /\ UNCHANGED <<stack, sp, frames, go, closures, next>>
  ELSE /\ frames' = DropLast(frames)
       /\ sp' = AfterReturn(Top)
       /\ stack' = [stack EXCEPT ![Top.bp] = 0]
       /\ UNCHANGED <<go, ctl, closures, next>>

(* OpReturn *)
Return ==
  /\ Executing /\ Top.depth >= 1
  /\ LeaveFrame(1)
  /\ UNCHANGED <<failed, program>>

(* OpReturnSelf, the last instruction of every method (1070-1075). *)
ReturnSelf ==
  /\ Executing /\ Top.kind = "method"
  /\ LeaveFrame(0)
  /\ UNCHANGED <<failed, program>>

(* OpBlockReturn (597-606): ^ in a block "for now" leaves only the block.   *)
BlockReturn ==
  /\ "caret" \in program
  /\ Executing /\ Top.depth >= 1 /\ Top.kind = "block"
  /\ LeaveFrame(1)
  /\ UNCHANGED <<failed, program>>

-----------------------------------------------------------------------------
(* Back in Go *)

(* The loop of runFrame or run ends because frameCount fell to saved; the   *)
(* result runFrame hands back is popped (315-319).                          *)
LeaveLoop ==
  /\ ctl = "step" /\ Len(frames) <= Innermost.saved
  /\ ctl' = "ok"
  /\ sp' = IF Innermost.use \in {"main", "file"} \/ sp = 0 THEN sp ELSE sp - 1
  /\ UNCHANGED <<stack, frames, go, closures, next, failed, program>>

(* The builtin answers; OpSend pushes the result (492-496) and the next Go  *)
(* loop outwards has control.                                               *)
Deliver ==
  /\ \/ ctl = "ok" /\ Innermost.use \in {"value", "loop", "onDo", "handler", "file"}
     \/ ctl \in Outcomes /\ Innermost.use = "cleanup-ok"
  /\ IF Overflows(sp + 1)
     THEN Panic
     ELSE /\ stack' = [stack EXCEPT ![sp] = 0]
          /\ sp' = sp + 1
          /\ go' = DropLast(go)
          /\ ctl' = "step"
          /\ UNCHANGED <<frames, closures, next, failed, program>>

(* A loop builtin calls a block again. *)
LoopAgain(code, nargs) ==
  /\ ctl = "ok" /\ Innermost.use = "loop" /\ Callable(code)
  /\ Enter(sp, frames, DropLast(go), nargs, code, "loop", Innermost.caller)

(* ensure: runs its block on either outcome. *)
RunCleanup(code) ==
  /\ ctl \in Outcomes /\ Innermost.use = "ensure" /\ Callable(code)
  /\ Enter(sp, frames, DropLast(go), 0, code, CleanupAfter(ctl), Innermost.caller)

(* on:do: calls the handler with the error. *)
Handle(code) ==
  /\ ctl = "Error" /\ Innermost.use = "onDo" /\ Callable(code)
  /\ Enter(sp, frames, DropLast(go), 1, code, "handler", Innermost.caller)

(* Everything else returns the error to its own caller: on:do: with a      *)
(* handler that is not a block, or for a foreign error; runContents: as an *)
(* error of its own (1041).                                                *)
Reraise ==
  /\ \/ ctl \in Failures /\ Innermost.use \in {"value", "loop", "handler"} /\ ctl' = ctl
     \/ ctl \in Failures /\ Innermost.use = "onDo" /\ ctl' = "host"
     \/ ctl \in Failures /\ Innermost.use = "file" /\ ctl' = "Error"
     \/ ctl \in Outcomes /\ Innermost.use = "cleanup-Error" /\ ctl' = "Error"
     \/ ctl \in Outcomes /\ Innermost.use = "cleanup-host" /\ ctl' = "host"
  /\ go' = DropLast(go)
  /\ UNCHANGED <<stack, sp, frames, closures, next, failed, program>>

(* The outermost Run returns. *)
Finish ==
  /\ ctl \in Outcomes /\ Innermost.use = "main"
  /\ ctl' = IF ctl = "ok" THEN "done" ELSE "failed"
  /\ UNCHANGED <<stack, sp, frames, go, closures, next, failed, program>>

-----------------------------------------------------------------------------
Instruction ==
  \/ PushOperand
  \/ PopOperand
  \/ PushOverflow
  \/ \E k \in 0 .. MaxLocals + MaxArgs : StoreLocal(k)
  \/ StoreUpvalue
  \/ \E lc \in 0 .. MaxLocals : MakeClosure(lc)
  \/ \E argc \in 0 .. MaxArgs : Combine(argc)
  \/ Return
  \/ ReturnSelf
  \/ BlockReturn

Send ==
  \/ \E argc \in 0 .. MaxArgs, lc \in 0 .. MaxLocals : CallMethod(argc, lc)
  \/ \E code \in closures :
       \/ \E nargs \in 0 .. MaxArgs : SendValue(code, nargs) \/ SendLoop(code, nargs)
       \/ SendOnDo(code)
       \/ SendEnsure(code)
  \/ \E lc \in 0 .. MaxLocals : RunContents(lc)
  \/ \E argc \in 0 .. MaxArgs, failure \in Failures : FailSend(argc, failure)
  \/ FailStore

Builtin ==
  \/ LeaveLoop
  \/ Deliver
  \/ \E code \in closures :
       \/ \E nargs \in 0 .. MaxArgs : LoopAgain(code, nargs)
       \/ RunCleanup(code)
       \/ Handle(code)
  \/ Reraise
  \/ Finish

Next == Instruction \/ Send \/ Builtin

Spec == Init /\ [][Next]_vars

-----------------------------------------------------------------------------
(* Properties *)

(* While Go code holds a result, or an error, the operand that will stand  *)
(* for it is counted in depth but not yet on the stack.                     *)
Pending == IF ctl \in Outcomes THEN 1 ELSE 0

(* No instruction pops below the operands of its own frame: the stack       *)
(* always reaches as high as the compiler counts on, whatever failed, was   *)
(* handled or was run from a file before (pop, 757-763, would panic or eat  *)
(* another frame's locals).                                                 *)
OperandsAboveLocals ==
  ctl \notin Ended =>
    /\ frames # <<>> => sp >= Base(Top) + Top.depth - Pending
    /\ \A i \in 1 .. Len(frames) - 1 :
         frames[i + 1].bp >= Base(frames[i]) + frames[i].depth - 1
StackSafe == TypeOK /\ OperandsAboveLocals

(* Until something fails the compiler's count is exact: a call, a builtin   *)
(* that calls blocks, a return or a ^ in a block leaves neither a stray     *)
(* value nor a hole behind, and the frame being executed is the one the     *)
(* innermost Go loop was started for.  (Afterwards a failed block is run    *)
(* on, its frame not having been removed: 284-287.)                         *)
StackExact ==
  failed = {} /\ "runContents" \notin program =>
    /\ ctl \notin Ended /\ frames # <<>> => sp = Base(Top) + Top.depth - Pending
    /\ ctl = "step" => Len(frames) <= Innermost.saved + 1

(* A program whose blocks are only called while the scope they were written *)
(* in is active, and that runs no source file on the running VM.            *)
Nesting == program \cap {"escape", "runContents"} = {}

(* The arguments and locals of every active frame are where bp says, and no *)
(* push, capture or return of another frame has overwritten one (OpPush-    *)
(* Local and OpStoreLocal address vm.stack[frame.bp+slot], 369-381).        *)
LocalsIntact ==
  Nesting =>
    \A i \in 1 .. Len(frames) :
      \A s \in frames[i].bp .. Base(frames[i]) - 1 : stack[s] = frames[i].uid

(* An upvalue the running code can reach still names the variable it was    *)
(* created for: its slot has not become some other frame's (383-411).       *)
UpvaluesLive ==
  Nesting /\ Executing => \A u \in Top.ups : stack[u.slot] = u.owner

(* So the running code's variables, its own and those around it, are kept.  *)
VariablesIntact == LocalsIntact /\ UpvaluesLive

(* While a method or a builtin's block is being run for a send, the frame   *)
(* that made the send is still active: control has somewhere to come back   *)
(* to (CallBlock: "Run until this frame returns", vm.go:284).               *)
CallersLive ==
  ctl \notin Ended =>
    \A c \in 1 .. Len(go) :
      \/ go[c].caller = 0
      \/ \E i \in 1 .. Len(frames) : frames[i].uid = go[c].caller

(* The same of every program that runs no source file on the running VM.    *)
CallersStay == "runContents" \notin program => CallersLive
=============================================================================
