---------------------------- MODULE VMExecProofs ----------------------------
(***************************************************************************)
(* Proofs about VMExec, for every size of the stack and of the frame array *)
(* and every set of program features.                                      *)
(***************************************************************************)
EXTENDS VMExec, SequenceTheorems, TLAPS

(* The outermost Go call, and only it, is the host's Run.                   *)
MainFirst(calls) ==
  /\ Len(calls) >= 1
  /\ \A c \in 1 .. Len(calls) : calls[c].use = "main" <=> c = 1

(* Every frame begins above the operands of the frame below it, the result *)
(* of whose current send is still to come.                                  *)
Chained(frs) ==
  \A i \in 1 .. Len(frs) - 1 :
    frs[i + 1].bp >= Base(frs[i]) + frs[i].depth - 1

(* The inductive invariant.                                                 *)
Inv == TypeOK /\ MainFirst(go) /\ OperandsAboveLocals

-----------------------------------------------------------------------------
(* Sequences *)

(* Dropping the last element of a sequence keeps the others in place.       *)
LEMMA DropLastProperties ==
  ASSUME NEW S, NEW seq \in Seq(S), Len(seq) >= 1
  PROVE  /\ DropLast(seq) \in Seq(S)
         /\ Len(DropLast(seq)) = Len(seq) - 1
         /\ \A i \in 1 .. Len(seq) - 1 : DropLast(seq)[i] = seq[i]
<1>1. Len(seq) \in Nat /\ Len(seq) - 1 \in Int
  BY LenProperties
<1>2. \A i \in 1 .. Len(seq) - 1 : seq[i] \in S
  BY <1>1, ElementOfSeq
<1>3. /\ SubSeq(seq, 1, Len(seq) - 1) \in Seq(S)
      /\ Len(SubSeq(seq, 1, Len(seq) - 1)) =
           IF 1 <= Len(seq) - 1 THEN (Len(seq) - 1) - 1 + 1 ELSE 0
      /\ \A i \in 1 .. (Len(seq) - 1) - 1 + 1 :
           SubSeq(seq, 1, Len(seq) - 1)[i] = seq[1 + i - 1]
  BY <1>1, <1>2, SubSeqProperties
<1>4. Len(SubSeq(seq, 1, Len(seq) - 1)) = Len(seq) - 1
  <2>1. ASSUME NEW n \in Nat, NEW m, n >= 1,
               m = IF 1 <= n - 1 THEN (n - 1) - 1 + 1 ELSE 0
        PROVE  m = n - 1
    BY <2>1
  <2>2. QED
    BY <1>1, <1>3, <2>1
<1>5. ASSUME NEW i \in 1 .. Len(seq) - 1
      PROVE  SubSeq(seq, 1, Len(seq) - 1)[i] = seq[i]
  <2>1. i \in 1 .. (Len(seq) - 1) - 1 + 1 /\ 1 + i - 1 = i
    BY <1>1
  <2>2. QED
    BY <1>3, <2>1
<1>6. QED
  BY <1>3, <1>4, <1>5 DEF DropLast

(* A sequence with one more element.                                        *)
LEMMA AppendFacts ==
  ASSUME NEW S, NEW seq \in Seq(S), NEW e \in S
  PROVE  /\ Append(seq, e) \in Seq(S)
         /\ Len(Append(seq, e)) = Len(seq) + 1
         /\ \A i \in 1 .. Len(seq) : Append(seq, e)[i] = seq[i]
         /\ Append(seq, e)[Len(seq) + 1] = e
  BY AppendProperties

(* Counting operands changes the depth of the top frame and nothing else.   *)
LEMMA OperandsFacts ==
  ASSUME TypeOK, frames # <<>>, NEW n \in Nat, NEW m \in Nat
  PROVE  /\ Operands(n, m) \in Seq(Frame)
         /\ Len(Operands(n, m)) = Len(frames)
         /\ \A i \in 1 .. Len(frames) - 1 : Operands(n, m)[i] = frames[i]
         /\ Operands(n, m)[Len(frames)] \in Frame
         /\ Operands(n, m)[Len(frames)].uid = Top.uid
         /\ Operands(n, m)[Len(frames)].bp = Top.bp
         /\ Operands(n, m)[Len(frames)].cells = Top.cells
         /\ Operands(n, m)[Len(frames)].locals = Top.locals
         /\ Operands(n, m)[Len(frames)].ups = Top.ups
         /\ Operands(n, m)[Len(frames)].depth = Top.depth - n + m
<1> DEFINE r == [Top EXCEPT !.depth = Top.depth - n + m]
<1>1. Len(frames) \in Nat \ {0} /\ frames \in [1 .. Len(frames) -> Frame]
  BY EmptySeq, LenProperties DEF TypeOK
<1>2. Top \in Frame
  BY <1>1 DEF Top
<1>3. /\ r \in Frame
      /\ r.uid = Top.uid /\ r.bp = Top.bp /\ r.cells = Top.cells
      /\ r.locals = Top.locals /\ r.ups = Top.ups /\ r.depth = Top.depth - n + m
  BY <1>2 DEF Frame
<1>4. Operands(n, m) = [frames EXCEPT ![Len(frames)] = r]
  BY <1>1 DEF Operands, Top
<1> HIDE DEF r
<1>5. /\ Operands(n, m) \in Seq(Frame)
      /\ Len(Operands(n, m)) = Len(frames)
      /\ \A i \in 1 .. Len(frames) - 1 : Operands(n, m)[i] = frames[i]
      /\ Operands(n, m)[Len(frames)] = r
  <2>1. frames \in Seq(Frame) /\ Len(frames) \in 1 .. Len(frames)
    BY <1>1 DEF TypeOK
  <2>2. /\ Operands(n, m) \in Seq(Frame)
        /\ Len(Operands(n, m)) = Len(frames)
    BY <1>3, <1>4, <2>1, ExceptSeq
  <2>3. /\ \A i \in 1 .. Len(frames) - 1 : Operands(n, m)[i] = frames[i]
        /\ Operands(n, m)[Len(frames)] = r
    <3>1. \A j \in 1 .. Len(frames) :
            Operands(n, m)[j] = IF j = Len(frames) THEN r ELSE frames[j]
      BY <1>3, <1>4, <2>1, ExceptSeq
    <3>2. Len(frames) \in Nat \ {0}
      BY <1>1
    <3>3. Len(frames) \in 1 .. Len(frames)
      BY <3>2
    <3>4. ASSUME NEW i \in 1 .. Len(frames) - 1
          PROVE  i \in 1 .. Len(frames) /\ i # Len(frames)
      BY <3>2
    <3>5. QED
      BY <3>1, <3>3, <3>4
  <2>4. QED
    BY <2>2, <2>3
<1>6. QED
  BY <1>3, <1>5

-----------------------------------------------------------------------------
(* Frames *)

(* The top frame is typed.                                                  *)
LEMMA TopTyped ==
  ASSUME Inv, frames # <<>>
  PROVE  /\ Len(frames) \in Nat \ {0} /\ Top \in Frame
         /\ Base(Top) \in Nat /\ Top.depth \in Int
<1>1. Len(frames) \in Nat \ {0}
  BY EmptySeq, LenProperties DEF Inv, TypeOK
<1>2. Top \in Frame
  BY <1>1, ElementOfSeq DEF Inv, TypeOK, Top
<1>3. QED
  BY <1>1, <1>2 DEF Frame, Base

(* While an instruction executes there is a frame, and it is typed.         *)
LEMMA ExecutingFacts ==
  ASSUME Inv, Executing
  PROVE  /\ ctl = "step" /\ frames # <<>> /\ Len(frames) \in Nat \ {0}
         /\ Len(go) \in Nat \ {0} /\ Innermost \in GoCall
         /\ Top \in Frame /\ Base(Top) \in Nat /\ Top.depth \in Int
         /\ sp \in 0 .. MaxStack /\ sp >= Base(Top) + Top.depth
         /\ Chained(frames)
<1>1. Len(go) \in Nat \ {0} /\ Innermost \in GoCall
  BY LenProperties, ElementOfSeq DEF Inv, TypeOK, MainFirst, Innermost
<1>2. Len(frames) \in Nat \ {0}
  BY <1>1, LenProperties DEF Inv, TypeOK, Executing, GoCall
<1>3. frames # <<>> /\ Top \in Frame
  BY <1>2, ElementOfSeq, EmptySeq DEF Inv, TypeOK, Top
<1>4. Base(Top) \in Nat /\ Top.depth \in Int
  BY <1>3 DEF Frame, Base
<1>5. sp >= Base(Top) + Top.depth /\ Chained(frames)
  BY <1>3, <1>4 DEF Inv, Executing, OperandsAboveLocals, Pending, Outcomes,
     Ended, Failures, Chained
<1>6. QED
  BY <1>1, <1>2, <1>3, <1>4, <1>5 DEF Executing, Inv, TypeOK

(* In Go code one operand of the top frame, if there is one, is pending.    *)
LEMMA InGoFacts ==
  ASSUME Inv, ctl \in Outcomes
  PROVE  /\ Len(go) \in Nat \ {0} /\ Innermost \in GoCall
         /\ sp \in 0 .. MaxStack
         /\ frames # <<>> => sp >= Base(Top) + Top.depth - 1
         /\ Chained(frames)
<1>1. Len(go) \in Nat \ {0} /\ Innermost \in GoCall
  BY LenProperties, ElementOfSeq DEF Inv, TypeOK, MainFirst, Innermost
<1>2. QED
  BY <1>1 DEF Inv, TypeOK, OperandsAboveLocals, Pending, Outcomes, Ended,
     Failures, Chained

(* The operand count of the top frame does not affect what it rests on.     *)
LEMMA OperandsChained ==
  ASSUME Inv, Executing, NEW n \in Nat, NEW m \in Nat
  PROVE  /\ Operands(n, m) \in Seq(Frame)
         /\ Operands(n, m) # <<>> /\ Len(Operands(n, m)) = Len(frames)
         /\ Operands(n, m)[Len(frames)] \in Frame
         /\ Base(Operands(n, m)[Len(frames)]) = Base(Top)
         /\ Operands(n, m)[Len(frames)].depth = Top.depth - n + m
         /\ Chained(Operands(n, m))
<1> DEFINE frs == Operands(n, m)
<1>1. /\ frs \in Seq(Frame) /\ Len(frs) = Len(frames)
      /\ \A i \in 1 .. Len(frames) - 1 : frs[i] = frames[i]
      /\ frs[Len(frames)] \in Frame
      /\ frs[Len(frames)].bp = Top.bp
      /\ frs[Len(frames)].cells = Top.cells
      /\ frs[Len(frames)].depth = Top.depth - n + m
  BY OperandsFacts, ExecutingFacts DEF Inv
<1>2. Len(frames) \in Nat \ {0} /\ Top \in Frame /\ Chained(frames)
  BY ExecutingFacts
<1> HIDE DEF frs
<1>3. \A i \in 1 .. Len(frames) : frs[i].bp = frames[i].bp
  BY <1>1, <1>2 DEF Top
<1>4. Chained(frs)
  BY <1>1, <1>2, <1>3 DEF Chained, Base
<1>5. frs # <<>>
  BY <1>1, <1>2, EmptySeq
<1>6. QED
  BY <1>1, <1>4, <1>5 DEF Base, frs

(* A panic ends the program and changes nothing else.                       *)
LEMMA PanicInv ==
  ASSUME Inv, Panic
  PROVE  Inv'
BY DEF Inv, Panic, TypeOK, MainFirst, OperandsAboveLocals, Ended

(* Writing a slot keeps the stack typed. *)
LEMMA StackWrite ==
  ASSUME Inv, NEW slot, NEW owner \in 0 .. MaxActivations
  PROVE  [stack EXCEPT ![slot] = owner] \in [Slots -> 0 .. MaxActivations]
<1>1. stack \in [Slots -> 0 .. MaxActivations]
  BY DEF Inv, TypeOK
<1>2. QED
  BY <1>1

(* An instruction that stays in its frame, or fails there, keeps the        *)
(* invariant when it pops n operands, pushes m, and leaves the stack as     *)
(* high as the compiler then counts on.                                     *)
LEMMA InFrameInv ==
  ASSUME Inv, Executing, NEW n \in Nat, NEW m \in Nat,
         sp' \in 0 .. MaxStack,
         ctl' \in {"step"} \cup Outcomes,
         sp' >= Base(Top) + Top.depth - n + m - Pending',
         frames' = Operands(n, m),
         stack' \in [Slots -> 0 .. MaxActivations],
         closures' \subseteq Code,
         UNCHANGED <<go, next, program>>,
         failed' \in {failed, failed \cup {Top.uid}}
  PROVE  Inv'
<1>1. /\ frames' \in Seq(Frame) /\ frames' # <<>> /\ Len(frames') = Len(frames)
      /\ Base(Top)' = Base(Top)
      /\ Top'.depth = Top.depth - n + m
      /\ Chained(frames')
  <2>1. Len(frames') = Len(frames)
    BY OperandsChained
  <2>2. Top' = Operands(n, m)[Len(frames)]
    BY <2>1 DEF Top
  <2>3. Base(Top)' = Base(Operands(n, m)[Len(frames)])
    BY <2>2 DEF Base
  <2>4. QED
    BY OperandsChained, <2>1, <2>2, <2>3
<1>2. Base(Top) \in Nat /\ Top.depth \in Int
  BY ExecutingFacts
<1>3. TypeOK'
  <2>1. Top.uid \in Activations
    BY ExecutingFacts DEF Frame
  <2>2. failed' \subseteq Activations
    BY <2>1 DEF Inv, TypeOK
  <2>3. QED
    BY <1>1, <2>2 DEF Inv, TypeOK
<1>4. MainFirst(go)'
  BY DEF Inv, MainFirst
<1>5. sp' >= Base(Top)' + Top'.depth - Pending'
  BY <1>1, <1>2 DEF Pending
<1>6. OperandsAboveLocals'
  BY <1>1, <1>5 DEF OperandsAboveLocals, Chained
<1>7. QED
  BY <1>3, <1>4, <1>6 DEF Inv

(* Entering a method or a block over frames frs, with its first argument in *)
(* slot at, keeps the invariant when at lies above what the top of frs      *)
(* counts on, but for one pending result.                                   *)
LEMMA EnterInv ==
  ASSUME Inv, NEW at \in Nat,
         NEW frs \in Seq(Frame), Chained(frs),
         frs # <<>> => at >= Base(frs[Len(frs)]) + frs[Len(frs)].depth - 1,
         NEW calls \in Seq(GoCall),
         \A c \in 1 .. Len(calls) : calls[c].use = "main" <=> c = 1,
         NEW use \in Uses, use = "main" <=> calls = <<>>,
         NEW nargs \in Nat, NEW code \in Code,
         NEW caller \in 0 .. MaxActivations,
         Enter(at, frs, calls, nargs, code, use, caller)
  PROVE  Inv'
<1> DEFINE cells == Larger(nargs, code.locals)
           frame == [uid |-> next, kind |-> code.kind,
                     bp |-> EnterBase(at, nargs), locals |-> code.locals,
                     cells |-> cells, depth |-> 0, ups |-> code.ups,
                     home |-> IF code.kind = "method" THEN next ELSE code.home]
           call  == [saved |-> SavedCount(frs), use |-> use, caller |-> caller]
<1>1. next \in Activations
  BY DEF Enter, Inv, TypeOK, Activations
<1>2. cells \in Nat
  BY DEF Larger, Code
<1>3. CASE Len(frs) = MaxFrames \/ Overflows(at + cells)
  BY <1>3, PanicInv DEF Enter
<1>4. CASE ~ (Len(frs) = MaxFrames \/ Overflows(at + cells))
  <2>1. /\ frames' = Append(frs, frame)
        /\ go' = Append(calls, call)
        /\ stack' = [s \in Slots |->
                       IF s \in at .. at + cells - 1 THEN next ELSE stack[s]]
        /\ sp' = at + cells
        /\ next' = next + 1
        /\ ctl' = "step"
        /\ UNCHANGED <<closures, failed, program>>
    BY <1>4 DEF Enter
  <2>2. /\ frame \in Frame /\ frame.bp = at /\ frame.cells = cells
        /\ frame.depth = 0
    BY <1>1, <1>2 DEF Frame, Code, EnterBase, Activations
  <2>3. call \in GoCall /\ call.use = use
    BY LenProperties DEF GoCall, SavedCount
  <2> HIDE DEF frame, call, cells
  <2>4. Len(frs) \in Nat /\ Len(calls) \in Nat
    BY LenProperties
  <2>5. /\ frames' \in Seq(Frame) /\ Len(frames') = Len(frs) + 1
        /\ \A i \in 1 .. Len(frs) : frames'[i] = frs[i]
        /\ frames'[Len(frs) + 1] = frame
    BY <2>1, <2>2, AppendFacts
  <2>6. /\ go' \in Seq(GoCall) /\ Len(go') = Len(calls) + 1
        /\ \A c \in 1 .. Len(calls) : go'[c] = calls[c]
        /\ go'[Len(calls) + 1] = call
    BY <2>1, <2>3, AppendFacts
  <2>7. at + cells \in 0 .. MaxStack
    BY <1>2, <1>4, SizesAssumption DEF Overflows
  <2>8. stack' \in [Slots -> 0 .. MaxActivations]
    BY <1>1, <2>1 DEF Inv, TypeOK, Activations
  <2>9. TypeOK'
    BY <1>1, <2>1, <2>5, <2>6, <2>7, <2>8, SizesAssumption DEF Inv, TypeOK,
       Activations
  <2>10. MainFirst(go)'
    <3>1. calls = <<>> <=> Len(calls) = 0
      BY <2>4, EmptySeq
    <3>2. QED
      BY <2>3, <2>4, <2>6, <3>1 DEF MainFirst
  <2>11. Chained(frames')
    <3> SUFFICES ASSUME NEW i \in 1 .. Len(frs)
                 PROVE  frames'[i + 1].bp >=
                          Base(frames'[i]) + frames'[i].depth - 1
      BY <2>4, <2>5 DEF Chained
    <3>1. CASE i = Len(frs)
      <4>1. frs # <<>>
        BY <2>4, <3>1, EmptySeq
      <4>2. QED
        BY <2>2, <2>4, <2>5, <3>1, <4>1
    <3>2. CASE i \in 1 .. Len(frs) - 1
      BY <2>4, <2>5, <3>2 DEF Chained
    <3>3. QED
      BY <2>4, <3>1, <3>2
  <2>12. Top' = frame /\ Base(Top)' = at + cells /\ Pending' = 0
    BY <2>1, <2>2, <2>4, <2>5 DEF Top, Base, Pending, Outcomes, Failures
  <2>13. OperandsAboveLocals'
    BY <2>1, <2>2, <2>7, <2>11, <2>12 DEF OperandsAboveLocals, Chained
  <2>14. QED
    BY <2>9, <2>10, <2>13 DEF Inv
<1>5. QED
  BY <1>3, <1>4

(* A send that calls back into the VM. *)
LEMMA SendInv ==
  ASSUME Inv, Executing, NEW argc \in Nat, Top.depth >= argc + 1,
         NEW nargs \in Nat, NEW code \in Code, NEW use \in Uses \ {"main"},
         Enter(sp - argc - 1, Operands(argc + 1, 1), go, nargs, code, use, Top.uid)
  PROVE  Inv'
<1> DEFINE frs == Operands(argc + 1, 1)
           at  == sp - argc - 1
<1>1. /\ sp \in 0 .. MaxStack /\ Base(Top) \in Nat /\ Top.depth \in Int
      /\ sp >= Base(Top) + Top.depth /\ Top.uid \in 0 .. MaxActivations
      /\ Len(go) \in Nat \ {0}
  BY ExecutingFacts, SizesAssumption DEF Frame, Activations
<1>2. /\ frs \in Seq(Frame) /\ Chained(frs) /\ Len(frs) = Len(frames)
      /\ Base(frs[Len(frames)]) = Base(Top)
      /\ frs[Len(frames)].depth = Top.depth - (argc + 1) + 1
  <2>1. argc + 1 \in Nat /\ 1 \in Nat
    OBVIOUS
  <2>2. QED
    BY <2>1, OperandsChained
<1>3. at \in Nat /\ at >= Base(Top) + (Top.depth - (argc + 1) + 1) - 1
  BY <1>1, SizesAssumption
<1>4. at >= Base(frs[Len(frs)]) + frs[Len(frs)].depth - 1
  BY <1>2, <1>3
<1>5. go \in Seq(GoCall) /\ go # <<>>
  BY <1>1, EmptySeq DEF Inv, TypeOK
<1>6. \A c \in 1 .. Len(go) : go[c].use = "main" <=> c = 1
  BY DEF Inv, MainFirst
<1> HIDE DEF frs, at
<1>7. Enter(at, frs, go, nargs, code, use, Top.uid)
  BY DEF frs, at
<1>8. QED
  BY <1>1, <1>2, <1>3, <1>4, <1>5, <1>6, <1>7, EnterInv

(* The Go calls around a call that is not the host's Run.                   *)
LEMMA OuterCalls ==
  ASSUME Inv, ctl \in Outcomes, Innermost.use # "main"
  PROVE  /\ DropLast(go) \in Seq(GoCall) /\ DropLast(go) # <<>>
         /\ MainFirst(DropLast(go))
         /\ Innermost.caller \in 0 .. MaxActivations
<1>1. Len(go) \in Nat \ {0} /\ Innermost \in GoCall
  BY InGoFacts
<1>2. Len(go) # 1
  BY <1>1 DEF Inv, MainFirst, Innermost
<1>3. /\ DropLast(go) \in Seq(GoCall) /\ Len(DropLast(go)) = Len(go) - 1
      /\ \A i \in 1 .. Len(go) - 1 : DropLast(go)[i] = go[i]
  BY <1>1, DropLastProperties DEF Inv, TypeOK
<1>4. DropLast(go) # <<>>
  BY <1>1, <1>2, <1>3, EmptySeq
<1>5. MainFirst(DropLast(go))
  BY <1>1, <1>2, <1>3 DEF Inv, MainFirst
<1>6. QED
  BY <1>1, <1>3, <1>4, <1>5 DEF GoCall

(* A builtin that calls a further block before it answers. *)
LEMMA ReenterInv ==
  ASSUME Inv, ctl \in Outcomes, Innermost.use # "main",
         NEW nargs \in Nat, NEW code \in Code, NEW use \in Uses \ {"main"},
         Enter(sp, frames, DropLast(go), nargs, code, use, Innermost.caller)
  PROVE  Inv'
<1>1. /\ sp \in Nat /\ Chained(frames) /\ frames \in Seq(Frame)
      /\ frames # <<>> => sp >= Base(Top) + Top.depth - 1
  BY InGoFacts, SizesAssumption DEF Inv, TypeOK
<1>2. frames # <<>> =>
        sp >= Base(frames[Len(frames)]) + frames[Len(frames)].depth - 1
  BY <1>1 DEF Top
<1>3. /\ DropLast(go) \in Seq(GoCall) /\ DropLast(go) # <<>>
      /\ \A c \in 1 .. Len(DropLast(go)) :
           DropLast(go)[c].use = "main" <=> c = 1
      /\ Innermost.caller \in 0 .. MaxActivations
  BY OuterCalls DEF MainFirst
<1>4. QED
  BY <1>1, <1>2, <1>3, EnterInv

(* Leaving a frame uncovers exactly the operands its caller counts on.      *)
LEMMA LeaveFrameInv ==
  ASSUME Inv, Executing, NEW n \in {0, 1},
         n = 1 => Top.depth >= 1, LeaveFrame(n),
         failed' \subseteq Activations, program' \in Programs
  PROVE  Inv'
<1>1. /\ sp \in 0 .. MaxStack /\ Base(Top) \in Nat /\ Top.depth \in Int
      /\ sp >= Base(Top) + Top.depth /\ Chained(frames) /\ ctl = "step"
      /\ Len(frames) \in Nat \ {0} /\ Top \in Frame
  BY ExecutingFacts
<1>2. CASE Len(frames) = 1
  <2>1. /\ frames' = <<>> /\ ctl' = "ok" /\ sp' = sp - n
        /\ UNCHANGED <<stack, go, closures, next>>
    BY <1>2 DEF LeaveFrame
  <2>2. sp' \in 0 .. MaxStack
    BY <1>1, <2>1, SizesAssumption
  <2>3. frames' \in Seq(Frame) /\ Len(frames') = 0
    BY <2>1, EmptySeq
  <2>4. TypeOK'
    BY <2>1, <2>2, <2>3 DEF Inv, TypeOK, Outcomes
  <2>5. MainFirst(go)'
    BY <2>1 DEF Inv, MainFirst
  <2>6. OperandsAboveLocals'
    BY <2>1, <2>3 DEF OperandsAboveLocals
  <2>7. QED
    BY <2>4, <2>5, <2>6 DEF Inv
<1>3. CASE Len(frames) # 1 /\ Overflows(AfterReturn(Top))
  <2>1. ctl' = "panic" /\ UNCHANGED <<stack, sp, frames, go, closures, next>>
    BY <1>3 DEF LeaveFrame
  <2>2. TypeOK'
    BY <2>1 DEF Inv, TypeOK, Ended
  <2>3. QED
    BY <2>1, <2>2 DEF Inv, MainFirst, OperandsAboveLocals, Ended
<1>4. CASE Len(frames) # 1 /\ ~ Overflows(AfterReturn(Top))
  <2>0. Len(frames) \in Nat /\ Len(frames) >= 2
    <3>1. Len(frames) \in Nat \ {0}
      BY <1>1
    <3>2. Len(frames) # 1
      BY <1>4
    <3>3. \A k \in Nat \ {0} : k # 1 => k \in Nat /\ k >= 2
      OBVIOUS
    <3>4. QED
      BY <3>1, <3>2, <3>3
  <2>1. /\ frames' = DropLast(frames) /\ sp' = Top.bp + 1
        /\ stack' = [stack EXCEPT ![Top.bp] = 0]
        /\ UNCHANGED <<go, ctl, closures, next>>
    BY <1>4 DEF LeaveFrame, AfterReturn
  <2>2. Top.bp \in Nat /\ sp' \in 0 .. MaxStack
    BY <1>1, <1>4, <2>1, SizesAssumption DEF Overflows, AfterReturn, Frame
  <2>3. /\ frames' \in Seq(Frame) /\ Len(frames') = Len(frames) - 1
        /\ \A i \in 1 .. Len(frames) - 1 : frames'[i] = frames[i]
    BY <1>1, <2>1, DropLastProperties DEF Inv, TypeOK
  <2>4. TypeOK'
    <3>1. stack' \in [Slots -> 0 .. MaxActivations]
      <4>1. stack \in [Slots -> 0 .. MaxActivations]
        BY DEF Inv, TypeOK
      <4>2. 0 \in 0 .. MaxActivations
        BY SizesAssumption
      <4>3. stack' = [stack EXCEPT ![Top.bp] = 0]
        BY <2>1
      <4>4. QED
        BY <4>1, <4>2, <4>3
    <3>2. QED
      BY <2>1, <2>2, <2>3, <3>1 DEF Inv, TypeOK
  <2>5. MainFirst(go)'
    BY <2>1 DEF Inv, MainFirst
  <2>6. Chained(frames')
    <3> SUFFICES ASSUME NEW i \in 1 .. Len(frames') - 1
                 PROVE  frames'[i + 1].bp >=
                          Base(frames'[i]) + frames'[i].depth - 1
      BY DEF Chained
    <3>1. /\ i \in 1 .. Len(frames) - 1 /\ i + 1 \in 1 .. Len(frames) - 1
      BY <1>1, <2>3
    <3>2. frames'[i] = frames[i] /\ frames'[i + 1] = frames[i + 1]
      BY <2>3, <3>1
    <3>3. QED
      BY <1>1, <3>1, <3>2 DEF Chained
  <2>7. Top' = frames[Len(frames) - 1] /\ Pending' = 0
    BY <1>1, <1>4, <2>1, <2>3 DEF Top, Pending, Outcomes, Failures
  <2>8. Top'.bp \in Nat /\ Top'.cells \in Nat /\ Top'.depth \in Int
    <3>1. Len(frames) - 1 \in 1 .. Len(frames)
      BY <2>0
    <3>2. frames[Len(frames) - 1] \in Frame
      BY <3>1, ElementOfSeq DEF Inv, TypeOK
    <3>3. QED
      BY <2>7, <3>2 DEF Frame
  <2>9. Top.bp >= Base(frames[Len(frames) - 1])
                     + frames[Len(frames) - 1].depth - 1
    <3>1. /\ Len(frames) - 1 \in 1 .. Len(frames) - 1
          /\ (Len(frames) - 1) + 1 = Len(frames)
      BY <2>0
    <3>2. QED
      BY <1>1, <3>1 DEF Chained, Top
  <2>10. sp' >= Base(Top)' + Top'.depth - Pending'
    <3>1. Base(Top)' = Base(frames[Len(frames) - 1]) /\ Base(Top)' \in Nat
      BY <2>7, <2>8 DEF Base
    <3>2. QED
      BY <2>1, <2>2, <2>7, <2>8, <2>9, <3>1
  <2>11. OperandsAboveLocals'
    BY <2>6, <2>10 DEF OperandsAboveLocals, Chained
  <2>12. QED
    BY <2>4, <2>5, <2>11 DEF Inv
<1>5. QED
  BY <1>2, <1>3, <1>4

-----------------------------------------------------------------------------
(* The invariant *)

(* A fresh VM satisfies the invariant. *)
LEMMA InitInv == Init => Inv
<1> SUFFICES ASSUME NEW lc \in 0 .. MaxLocals,
                    stack = [s \in Slots |-> IF s < lc THEN 1 ELSE 0],
                    sp = lc,
                    frames = <<MainFrame(1, lc)>>,
                    go = <<[saved |-> 0, use |-> "main", caller |-> 0]>>,
                    ctl = "step", closures = {}, next = 2, failed = {}, program \in Programs
             PROVE  Inv
  BY DEF Init
<1>1. /\ lc \in Nat /\ lc \in 0 .. MaxStack /\ 1 \in Activations
      /\ 2 \in 1 .. MaxActivations + 1 /\ 0 \in 0 .. MaxActivations
      /\ 1 \in 0 .. MaxActivations
  BY SizesAssumption DEF Activations
<1>2. /\ MainFrame(1, lc) \in Frame
      /\ Base(MainFrame(1, lc)) = lc /\ MainFrame(1, lc).depth = 0
  BY <1>1 DEF MainFrame, Frame, Kinds, Base
<1>3. /\ frames \in Seq(Frame) /\ Len(frames) = 1 /\ Top = MainFrame(1, lc)
  BY <1>2 DEF Top
<1>4. [saved |-> 0, use |-> "main", caller |-> 0] \in GoCall
  BY <1>1 DEF GoCall, Uses
<1>5. go \in Seq(GoCall) /\ Len(go) = 1 /\ go[1].use = "main"
  BY <1>4
<1>6. stack \in [Slots -> 0 .. MaxActivations]
  BY <1>1
<1>7. TypeOK
  BY <1>1, <1>3, <1>5, <1>6 DEF TypeOK
<1>8. MainFirst(go)
  BY <1>5 DEF MainFirst
<1>9. OperandsAboveLocals
  BY <1>1, <1>2, <1>3 DEF OperandsAboveLocals, Pending, Outcomes, Failures
<1>10. QED
  BY <1>7, <1>8, <1>9 DEF Inv

(* An instruction that stays in its frame keeps the invariant. *)
LEMMA InstructionInv ==
  ASSUME Inv, \/ PushOperand
              \/ PopOperand
              \/ \E k \in 0 .. MaxLocals + MaxArgs : StoreLocal(k)
              \/ StoreUpvalue
              \/ \E lc \in 0 .. MaxLocals : MakeClosure(lc)
              \/ \E argc \in 0 .. MaxArgs : Combine(argc)
  PROVE  Inv'
<1> USE SizesAssumption
<1>1. 0 \in Nat /\ 1 \in Nat /\ 0 \in 0 .. MaxActivations
  OBVIOUS
<1>2. stack \in [Slots -> 0 .. MaxActivations] /\ closures \subseteq Code
  BY DEF Inv, TypeOK
<1>3. ctl = "step" => Pending = 0 /\ ctl \in {"step"} \cup Outcomes
  BY DEF Pending, Outcomes, Failures
<1>4. Executing
  BY DEF PushOperand, PopOperand, StoreLocal, StoreUpvalue, MakeClosure, Combine
<1>5. /\ ctl = "step" /\ Top \in Frame /\ sp \in 0 .. MaxStack
      /\ Base(Top) \in Nat /\ Top.depth \in Int
      /\ sp >= Base(Top) + Top.depth
  BY <1>4, ExecutingFacts
<1>6. UNCHANGED ctl => Pending' = 0 /\ ctl' \in {"step"} \cup Outcomes
  BY <1>3, <1>5 DEF Pending
<1>7. CASE PushOperand
  <2>1. /\ sp' = sp + 1 /\ ~ Overflows(sp + 1)
        /\ stack' = [stack EXCEPT ![sp] = 0]
        /\ frames' = Operands(0, 1)
        /\ UNCHANGED <<go, ctl, closures, next, failed, program>>
    BY <1>7 DEF PushOperand
  <2>2. Pending' = 0 /\ ctl' \in {"step"} \cup Outcomes
    BY <1>6, <2>1
  <2>3. /\ sp' \in 0 .. MaxStack
        /\ sp' >= Base(Top) + Top.depth - 0 + 1 - Pending'
    BY <1>5, <2>1, <2>2 DEF Overflows
  <2>4. stack' \in [Slots -> 0 .. MaxActivations]
    BY <1>1, <2>1, StackWrite
  <2>5. QED
    BY <1>1, <1>2, <1>4, <2>1, <2>2, <2>3, <2>4, InFrameInv
<1>8. CASE PopOperand
  <2>1. /\ sp' = sp - 1 /\ Top.depth >= 1
        /\ frames' = Operands(1, 0)
        /\ UNCHANGED <<stack, go, ctl, closures, next, failed, program>>
    BY <1>8 DEF PopOperand
  <2>2. Pending' = 0 /\ ctl' \in {"step"} \cup Outcomes
    BY <1>6, <2>1
  <2>3. /\ sp' \in 0 .. MaxStack
        /\ sp' >= Base(Top) + Top.depth - 1 + 0 - Pending'
    BY <1>5, <2>1, <2>2
  <2>4. QED
    BY <1>1, <1>2, <1>4, <2>1, <2>2, <2>3, InFrameInv
<1>9. ASSUME NEW k \in 0 .. MaxLocals + MaxArgs, StoreLocal(k)
      PROVE  Inv'
  <2>1. /\ sp' = sp - 1 /\ Top.depth >= 1
        /\ stack' = [stack EXCEPT ![Top.bp + k] = Top.uid]
        /\ frames' = Operands(1, 0)
        /\ UNCHANGED <<go, ctl, closures, next, failed, program>>
    BY <1>9 DEF StoreLocal
  <2>2. Pending' = 0 /\ ctl' \in {"step"} \cup Outcomes
    BY <1>6, <2>1
  <2>3. /\ sp' \in 0 .. MaxStack
        /\ sp' >= Base(Top) + Top.depth - 1 + 0 - Pending'
    BY <1>5, <2>1, <2>2
  <2>4. Top.uid \in 0 .. MaxActivations
    BY <1>5 DEF Frame, Activations
  <2>5. stack' \in [Slots -> 0 .. MaxActivations]
    BY <2>1, <2>4, StackWrite
  <2>6. QED
    BY <1>1, <1>2, <1>4, <2>1, <2>2, <2>3, <2>5, InFrameInv
<1>10. CASE StoreUpvalue
  <2>1. /\ sp' = sp - 1 /\ Top.depth >= 1
        /\ frames' = Operands(1, 0)
        /\ UNCHANGED <<go, ctl, closures, next, failed, program>>
    BY <1>10 DEF StoreUpvalue
  <2>2. Pending' = 0 /\ ctl' \in {"step"} \cup Outcomes
    BY <1>6, <2>1
  <2>3. /\ sp' \in 0 .. MaxStack
        /\ sp' >= Base(Top) + Top.depth - 1 + 0 - Pending'
    BY <1>5, <2>1, <2>2
  <2>4. PICK u \in Top.ups : stack' = [stack EXCEPT ![u.slot] = u.owner]
    BY <1>10 DEF StoreUpvalue
  <2>5. u.owner \in 0 .. MaxActivations
    BY <1>5 DEF Frame, Upvalue, Activations
  <2>6. stack' \in [Slots -> 0 .. MaxActivations]
    BY <2>4, <2>5, StackWrite
  <2>7. QED
    BY <1>1, <1>2, <1>4, <2>1, <2>2, <2>3, <2>6, InFrameInv
<1>11. ASSUME NEW lc \in 0 .. MaxLocals, MakeClosure(lc)
       PROVE  Inv'
  <2>1. /\ sp' = sp + 1 /\ ~ Overflows(sp + 1)
        /\ stack' = [stack EXCEPT ![sp] = 0]
        /\ frames' = Operands(0, 1)
        /\ UNCHANGED <<go, ctl, next, failed, program>>
    BY <1>11 DEF MakeClosure
  <2>2. Pending' = 0 /\ ctl' \in {"step"} \cup Outcomes
    BY <1>6, <2>1
  <2>3. /\ sp' \in 0 .. MaxStack
        /\ sp' >= Base(Top) + Top.depth - 0 + 1 - Pending'
    BY <1>5, <2>1, <2>2 DEF Overflows
  <2>4. stack' \in [Slots -> 0 .. MaxActivations]
    BY <1>1, <2>1, StackWrite
  <2>5. Capturable \subseteq Upvalue
    <3>1. ASSUME NEW k \in 0 .. Top.locals - 1
          PROVE  [slot |-> CaptureSlot(k), owner |-> Top.uid] \in Upvalue
      BY <1>5 DEF Frame, Upvalue, CaptureSlot
    <3>2. Top.ups \subseteq Upvalue
      BY <1>5 DEF Frame
    <3>3. QED
      BY <3>1, <3>2 DEF Capturable
  <2>6. closures' \subseteq Code
    <3>1. PICK ups \in {{}} \cup {{u} : u \in Capturable} :
            closures' = closures \cup
                          {[kind |-> "block", locals |-> lc, ups |-> ups,
                            home |-> Top.home]}
      BY <1>11 DEF MakeClosure
    <3>2. /\ ups \in SUBSET Upvalue /\ Top.home \in 0 .. MaxActivations
          /\ lc \in Nat
      BY <1>5, <2>5 DEF Frame
    <3>3. [kind |-> "block", locals |-> lc, ups |-> ups, home |-> Top.home]
            \in Code
      BY <3>2 DEF Code, Kinds
    <3>4. QED
      BY <1>2, <3>1, <3>3
  <2>7. QED
    BY <1>1, <1>4, <2>1, <2>2, <2>3, <2>4, <2>6, InFrameInv
<1>12. ASSUME NEW argc \in 0 .. MaxArgs, Combine(argc)
       PROVE  Inv'
  <2>1. /\ sp' = sp - argc /\ Top.depth >= argc + 1
        /\ stack' = [stack EXCEPT ![sp - argc - 1] = 0]
        /\ frames' = Operands(argc + 1, 1)
        /\ UNCHANGED <<go, ctl, closures, next, failed, program>>
    BY <1>12 DEF Combine
  <2>2. Pending' = 0 /\ ctl' \in {"step"} \cup Outcomes
    BY <1>6, <2>1
  <2>3. /\ argc + 1 \in Nat /\ sp' \in 0 .. MaxStack
        /\ sp' >= Base(Top) + Top.depth - (argc + 1) + 1 - Pending'
    BY <1>5, <2>1, <2>2
  <2>4. stack' \in [Slots -> 0 .. MaxActivations]
    BY <1>1, <2>1, StackWrite
  <2>5. QED
    BY <1>1, <1>2, <1>4, <2>1, <2>2, <2>3, <2>4, InFrameInv
<1>13. QED
  BY <1>7, <1>8, <1>9, <1>10, <1>11, <1>12

(* No return disturbs the invariant.                                        *)
LEMMA ReturnInv ==
  ASSUME Inv, Return \/ ReturnSelf \/ BlockReturn
  PROVE  Inv'
<1>1. failed \subseteq Activations /\ program \in Programs
  BY DEF Inv, TypeOK
<1>2. CASE Return
  BY <1>1, <1>2, LeaveFrameInv DEF Return
<1>3. CASE ReturnSelf
  BY <1>1, <1>3, LeaveFrameInv DEF ReturnSelf
<1>4. CASE BlockReturn
  <2>1. Executing /\ Top.depth >= 1 /\ LeaveFrame(1) /\ UNCHANGED failed
    BY <1>4 DEF BlockReturn
  <2>2. program' = program
    BY <1>4 DEF BlockReturn
  <2>3. QED
    BY <1>1, <2>1, <2>2, LeaveFrameInv
<1>5. QED
  BY <1>2, <1>3, <1>4

(* A file's main frame, alone in the frame array, keeps the invariant:      *)
(* the operands of the frames it replaced are below it.                     *)
LEMMA RunContentsInv ==
  ASSUME Inv, NEW lc \in 0 .. MaxLocals, RunContents(lc)
  PROVE  Inv'
<1> USE SizesAssumption
<1>1. Executing /\ Top.depth >= 2 /\ next <= MaxActivations
  BY DEF RunContents
<1>2. /\ sp \in 0 .. MaxStack /\ Base(Top) \in Nat /\ Top.depth \in Int
      /\ sp >= Base(Top) + Top.depth /\ ctl = "step" /\ Top \in Frame
      /\ Len(go) \in Nat \ {0}
  BY <1>1, ExecutingFacts
<1>3. CASE Overflows(sp - 2 + lc)
  BY <1>3, PanicInv DEF RunContents
<1>4. CASE ~ Overflows(sp - 2 + lc)
  <2> DEFINE call == [saved |-> 0, use |-> "file", caller |-> Top.uid]
  <2>1. /\ frames' = <<MainFrame(next, lc)>>
        /\ go' = Append(go, call)
        /\ stack' = [s \in Slots |->
                       IF s \in sp - 2 .. sp - 2 + lc - 1 THEN next ELSE stack[s]]
        /\ sp' = sp - 2 + lc
        /\ next' = next + 1
        /\ UNCHANGED <<ctl, closures, failed, program>>
    BY <1>4 DEF RunContents
  <2>2. next \in Activations /\ next \in Nat /\ lc \in Nat
    BY <1>1 DEF Inv, TypeOK, Activations
  <2>3. /\ MainFrame(next, lc) \in Frame /\ Base(MainFrame(next, lc)) = lc
        /\ MainFrame(next, lc).depth = 0
    BY <2>2 DEF MainFrame, Frame, Kinds, Base
  <2>4. /\ frames' \in Seq(Frame) /\ Len(frames') = 1
        /\ Top' = MainFrame(next, lc)
    BY <2>1, <2>3 DEF Top
  <2>5. call \in GoCall /\ call.use = "file"
    BY <1>2 DEF GoCall, Uses, Frame, Activations
  <2> HIDE DEF call
  <2>6. /\ go' \in Seq(GoCall) /\ Len(go') = Len(go) + 1
        /\ \A c \in 1 .. Len(go) : go'[c] = go[c]
        /\ go'[Len(go) + 1] = call
    BY <2>1, <2>5, AppendFacts DEF Inv, TypeOK
  <2>7. MainFirst(go)'
    BY <1>2, <2>5, <2>6 DEF Inv, MainFirst
  <2>8. sp' \in 0 .. MaxStack /\ sp' >= lc
    BY <1>1, <1>2, <1>4, <2>1, <2>2 DEF Overflows
  <2>9. stack' \in [Slots -> 0 .. MaxActivations]
    BY <2>1, <2>2 DEF Inv, TypeOK, Activations
  <2>10. TypeOK'
    BY <2>1, <2>2, <2>4, <2>6, <2>8, <2>9 DEF Inv, TypeOK, Activations
  <2>11. Pending' = 0
    BY <1>2, <2>1 DEF Pending, Outcomes, Failures
  <2>12. Base(Top)' = lc /\ Top'.depth = 0
    BY <2>3, <2>4 DEF Base
  <2>13. OperandsAboveLocals'
    BY <2>2, <2>4, <2>8, <2>11, <2>12 DEF OperandsAboveLocals
  <2>14. QED
    BY <2>7, <2>10, <2>13 DEF Inv
<1>5. QED
  BY <1>3, <1>4

(* No send and no failing instruction disturbs the invariant.               *)
LEMMA SendStepInv ==
  ASSUME Inv, Send
  PROVE  Inv'
<1> USE SizesAssumption
<1>1. closures \subseteq Code
  BY DEF Inv, TypeOK
<1>2. {"value", "loop", "onDo", "ensure"} \subseteq Uses \ {"main"}
  BY DEF Uses
<1>3. ASSUME NEW argc \in 0 .. MaxArgs, NEW lc \in 0 .. MaxLocals,
             CallMethod(argc, lc)
      PROVE  Inv'
  <2> DEFINE code == [kind |-> "method", locals |-> argc + lc, ups |-> {},
                      home |-> 0]
  <2>1. argc \in Nat /\ code \in Code
    BY DEF Code, Kinds
  <2>2. /\ Executing /\ Top.depth >= argc + 1
        /\ Enter(sp - argc - 1, Operands(argc + 1, 1), go, argc, code, "value",
                 Top.uid)
    BY <1>3 DEF CallMethod
  <2> HIDE DEF code
  <2>3. QED
    BY <1>2, <2>1, <2>2, SendInv
<1>4. ASSUME NEW code \in closures, NEW argc \in Nat, NEW nargs \in Nat,
             NEW use \in Uses \ {"main"}, CallBlock(code, argc, nargs, use)
      PROVE  Inv'
  <2>1. /\ Executing /\ Top.depth >= argc + 1 /\ code \in Code
        /\ Enter(sp - argc - 1, Operands(argc + 1, 1), go, nargs, code, use,
                 Top.uid)
    BY <1>1, <1>4 DEF CallBlock
  <2>2. QED
    BY <2>1, SendInv
<1>5. ASSUME NEW code \in closures, NEW nargs \in 0 .. MaxArgs,
             SendValue(code, nargs) \/ SendLoop(code, nargs)
      PROVE  Inv'
  <2>1. nargs \in Nat /\ 1 \in Nat
    OBVIOUS
  <2>2. \/ CallBlock(code, nargs, nargs, "value")
        \/ CallBlock(code, 1, nargs, "loop")
    BY <1>5 DEF SendValue, SendLoop
  <2>3. QED
    BY <1>2, <1>4, <2>1, <2>2
<1>6. ASSUME NEW code \in closures, SendOnDo(code) \/ SendEnsure(code)
      PROVE  Inv'
  <2>1. CallBlock(code, 2, 0, "onDo") \/ CallBlock(code, 1, 0, "ensure")
    BY <1>6 DEF SendOnDo, SendEnsure
  <2>2. 0 \in Nat /\ 1 \in Nat /\ 2 \in Nat
    OBVIOUS
  <2>3. QED
    BY <1>2, <1>4, <2>1, <2>2
<1>7. ASSUME NEW lc \in 0 .. MaxLocals, RunContents(lc)
      PROVE  Inv'
  BY <1>7, RunContentsInv
<1>8. ASSUME NEW argc \in 0 .. MaxArgs, NEW failure \in Failures,
             FailSend(argc, failure)
      PROVE  Inv'
  <2>1. /\ Executing /\ Top.depth >= argc + 1 /\ sp' = sp - argc - 1
        /\ frames' = Operands(argc + 1, 1) /\ ctl' = failure
        /\ UNCHANGED <<stack, go, closures, next, program>>
        /\ failed' = failed \cup {Top.uid}
    BY <1>8 DEF FailSend
  <2>2. Pending' = 1 /\ ctl' \in {"step"} \cup Outcomes
    BY <2>1 DEF Pending, Outcomes
  <2>3. /\ sp' \in 0 .. MaxStack /\ argc + 1 \in Nat /\ 1 \in Nat
        /\ sp' >= Base(Top) + Top.depth - (argc + 1) + 1 - Pending'
    BY <2>1, <2>2, ExecutingFacts
  <2>4. stack' \in [Slots -> 0 .. MaxActivations] /\ closures' \subseteq Code
    BY <2>1 DEF Inv, TypeOK
  <2>5. QED
    BY <2>1, <2>2, <2>3, <2>4, InFrameInv
<1>9. CASE FailStore
  <2>1. /\ Executing /\ Top.depth >= 1 /\ sp' = sp - 1
        /\ frames' = Operands(1, 0) /\ ctl' = "Error"
        /\ UNCHANGED <<stack, go, closures, next, program>>
        /\ failed' = failed \cup {Top.uid}
    BY <1>9 DEF FailStore
  <2>2. Pending' = 1 /\ ctl' \in {"step"} \cup Outcomes
    BY <2>1 DEF Pending, Outcomes, Failures
  <2>3. /\ sp' \in 0 .. MaxStack /\ 1 \in Nat /\ 0 \in Nat
        /\ sp' >= Base(Top) + Top.depth - 1 + 0 - Pending'
    BY <2>1, <2>2, ExecutingFacts
  <2>4. stack' \in [Slots -> 0 .. MaxActivations] /\ closures' \subseteq Code
    BY <2>1 DEF Inv, TypeOK
  <2>5. QED
    BY <2>1, <2>2, <2>3, <2>4, InFrameInv
<1>10. QED
  BY <1>3, <1>5, <1>6, <1>7, <1>8, <1>9 DEF Send

(* No step of the Go code around the run loops disturbs the invariant.      *)
LEMMA BuiltinInv ==
  ASSUME Inv, Builtin
  PROVE  Inv'
<1> USE SizesAssumption
<1>1. closures \subseteq Code
  BY DEF Inv, TypeOK
<1>2. CASE LeaveLoop
  <2>1. /\ ctl = "step" /\ ctl' = "ok"
        /\ sp' = IF Innermost.use \in {"main", "file"} \/ sp = 0
                 THEN sp ELSE sp - 1
        /\ UNCHANGED <<stack, frames, go, closures, next, failed, program>>
    BY <1>2 DEF LeaveLoop
  <2>2. sp \in 0 .. MaxStack
    BY DEF Inv, TypeOK
  <2>3. sp' \in 0 .. MaxStack /\ sp' >= sp - 1
    BY <2>1, <2>2
  <2>4. TypeOK'
    BY <2>1, <2>3 DEF Inv, TypeOK, Outcomes
  <2>5. MainFirst(go)'
    BY <2>1 DEF Inv, MainFirst
  <2>6. Pending = 0 /\ Pending' = 1
    BY <2>1 DEF Pending, Outcomes, Failures
  <2>7. Chained(frames')
    BY <2>1 DEF Inv, OperandsAboveLocals, Chained, Ended
  <2>8. frames' # <<>> => sp' >= Base(Top)' + Top'.depth - Pending'
    <3> SUFFICES ASSUME frames # <<>>
                 PROVE  sp' >= Base(Top) + Top.depth - 1
      BY <2>1, <2>6 DEF Top, Base
    <3>1. sp >= Base(Top) + Top.depth - 0
      BY <2>1, <2>6 DEF Inv, OperandsAboveLocals, Ended
    <3>2. Base(Top) \in Nat /\ Top.depth \in Int
      BY TopTyped
    <3>3. QED
      BY <2>2, <2>3, <3>1, <3>2
  <2>9. OperandsAboveLocals'
    BY <2>7, <2>8 DEF OperandsAboveLocals, Chained
  <2>10. QED
    BY <2>4, <2>5, <2>9 DEF Inv
<1>3. CASE Deliver
  <2>1. ctl \in Outcomes /\ Innermost.use # "main"
    BY <1>3 DEF Deliver, Outcomes
  <2>2. CASE Overflows(sp + 1)
    BY <1>3, <2>2, PanicInv DEF Deliver
  <2>3. CASE ~ Overflows(sp + 1)
    <3>1. /\ stack' = [stack EXCEPT ![sp] = 0]
          /\ sp' = sp + 1 /\ go' = DropLast(go) /\ ctl' = "step"
          /\ UNCHANGED <<frames, closures, next, failed, program>>
      BY <1>3, <2>3 DEF Deliver
    <3>2. stack' \in [Slots -> 0 .. MaxActivations]
      BY <3>1, StackWrite
    <3>3. sp \in 0 .. MaxStack /\ sp' \in 0 .. MaxStack
      BY <2>3, <3>1 DEF Inv, TypeOK, Overflows
    <3>4. go' \in Seq(GoCall) /\ MainFirst(go)'
      BY <2>1, <3>1, OuterCalls DEF MainFirst
    <3>5. TypeOK'
      BY <3>1, <3>2, <3>3, <3>4 DEF Inv, TypeOK
    <3>6. Pending' = 0
      BY <3>1 DEF Pending, Outcomes, Failures
    <3>7. Chained(frames')
      BY <2>1, <3>1, InGoFacts DEF Chained
    <3>8. frames' # <<>> => sp' >= Base(Top)' + Top'.depth - Pending'
      <4> SUFFICES ASSUME frames # <<>>
                   PROVE  sp + 1 >= Base(Top) + Top.depth - 0
        BY <3>1, <3>6 DEF Top, Base
      <4>1. sp >= Base(Top) + Top.depth - 1
        BY <2>1, InGoFacts
      <4>2. Base(Top) \in Nat /\ Top.depth \in Int
        BY TopTyped
      <4>3. QED
        BY <3>3, <4>1, <4>2
    <3>9. OperandsAboveLocals'
      BY <3>7, <3>8 DEF OperandsAboveLocals, Chained
    <3>10. QED
      BY <3>4, <3>5, <3>9 DEF Inv
  <2>4. QED
    BY <2>2, <2>3
<1>4. ASSUME NEW code \in closures, NEW nargs \in 0 .. MaxArgs,
             LoopAgain(code, nargs)
      PROVE  Inv'
  <2>1. /\ ctl \in Outcomes /\ Innermost.use # "main" /\ code \in Code
        /\ nargs \in Nat /\ "loop" \in Uses \ {"main"}
        /\ Enter(sp, frames, DropLast(go), nargs, code, "loop",
                 Innermost.caller)
    BY <1>1, <1>4 DEF LoopAgain, Outcomes, Uses
  <2>2. QED
    BY <2>1, ReenterInv
<1>5. ASSUME NEW code \in closures, RunCleanup(code)
      PROVE  Inv'
  <2>1. CleanupAfter(ctl) \in Uses \ {"main"}
    BY DEF CleanupAfter, Uses
  <2>2. /\ ctl \in Outcomes /\ Innermost.use # "main" /\ code \in Code
        /\ 0 \in Nat
        /\ Enter(sp, frames, DropLast(go), 0, code, CleanupAfter(ctl),
                 Innermost.caller)
    BY <1>1, <1>5 DEF RunCleanup
  <2>3. QED
    BY <2>1, <2>2, ReenterInv
<1>6. ASSUME NEW code \in closures, Handle(code)
      PROVE  Inv'
  <2>1. /\ ctl \in Outcomes /\ Innermost.use # "main" /\ code \in Code
        /\ 1 \in Nat /\ "handler" \in Uses \ {"main"}
        /\ Enter(sp, frames, DropLast(go), 1, code, "handler",
                 Innermost.caller)
    BY <1>1, <1>6 DEF Handle, Outcomes, Failures, Uses
  <2>2. QED
    BY <2>1, ReenterInv
<1>7. CASE Reraise
  <2>1. /\ ctl \in Outcomes /\ Innermost.use # "main"
        /\ go' = DropLast(go)
        /\ UNCHANGED <<stack, sp, frames, closures, next, failed, program>>
    BY <1>7 DEF Reraise, Outcomes
  <2>2. ctl' \in Outcomes
    BY <1>7, <2>1 DEF Reraise, Outcomes, Failures
  <2>3. go' \in Seq(GoCall) /\ MainFirst(go)'
    BY <2>1, OuterCalls DEF MainFirst
  <2>4. TypeOK'
    BY <2>1, <2>2, <2>3 DEF Inv, TypeOK
  <2>5. Pending' = Pending
    BY <2>1, <2>2 DEF Pending
  <2>6. ctl \notin Ended
    BY <2>1 DEF Outcomes, Failures, Ended
  <2>7. OperandsAboveLocals'
    BY <2>1, <2>5, <2>6 DEF Inv, OperandsAboveLocals, Top, Base
  <2>8. QED
    BY <2>3, <2>4, <2>7 DEF Inv
<1>8. CASE Finish
  <2>1. /\ ctl' \in Ended
        /\ UNCHANGED <<stack, sp, frames, go, closures, next, failed, program>>
    BY <1>8 DEF Finish, Ended
  <2>2. QED
    BY <2>1 DEF Inv, TypeOK, MainFirst, OperandsAboveLocals
<1>9. QED
  BY <1>2, <1>3, <1>4, <1>5, <1>6, <1>7, <1>8 DEF Builtin

(* Inv is an invariant of the VM.                                           *)
THEOREM InvInductive == Spec => []Inv
<1>1. Inv /\ [Next]_vars => Inv'
  <2> SUFFICES ASSUME Inv, [Next]_vars
               PROVE  Inv'
    OBVIOUS
  <2>1. CASE Instruction
    <3>1. CASE PushOverflow
      BY <3>1, PanicInv DEF PushOverflow
    <3>2. CASE ~ PushOverflow
      BY <2>1, <3>2, InstructionInv, ReturnInv DEF Instruction
    <3>3. QED
      BY <3>1, <3>2
  <2>2. CASE Send
    BY <2>2, SendStepInv
  <2>3. CASE Builtin
    BY <2>3, BuiltinInv
  <2>4. CASE UNCHANGED vars
    BY <2>4 DEF vars, Inv, TypeOK, MainFirst, OperandsAboveLocals, Top, Base,
       Pending
  <2>5. QED
    BY <2>1, <2>2, <2>3, <2>4 DEF Next
<1>2. QED
  BY InitInv, <1>1, PTL DEF Spec

(* The stack pointer stays within the array and the frames well formed, and *)
(* however calls, failures, handlers and files interleave, no frame pops    *)
(* another frame's locals (pop, vm.go:757-763).                             *)
THEOREM StackIsSafe == Spec => []StackSafe
<1>1. Inv => StackSafe
  BY DEF Inv, StackSafe
<1>2. QED
  BY InvInductive, <1>1, PTL

-----------------------------------------------------------------------------
(* The steps of the VM, by what they do to its frames and Go calls *)

(* What is of its type in a state of the VM.                                *)
LEMMA StateTyped ==
  ASSUME Inv
  PROVE  /\ frames \in Seq(Frame) /\ Len(frames) \in Nat
         /\ \A i \in 1 .. Len(frames) :
              /\ frames[i] \in Frame /\ frames[i].uid \in Nat \ {0} /\ frames[i].bp \in Nat
              /\ frames[i].cells \in Nat /\ frames[i].locals \in Nat
              /\ frames[i].depth \in Int /\ frames[i].ups \subseteq Upvalue
              /\ Base(frames[i]) \in Nat
              /\ Base(frames[i]) >= frames[i].bp
         /\ go \in Seq(GoCall) /\ Len(go) \in Nat \ {0}
         /\ \A c \in 1 .. Len(go) : go[c] \in GoCall /\ go[c].saved \in Nat
         /\ Innermost = go[Len(go)]
         /\ sp \in Nat /\ sp <= MaxStack /\ next \in Nat \ {0}
         /\ ctl \in {"step"} \cup Outcomes \cup Ended
<1>1. frames \in Seq(Frame) /\ go \in Seq(GoCall) /\ Len(frames) \in Nat /\ Len(go) \in Nat \ {0}
  BY LenProperties DEF Inv, TypeOK, MainFirst
<1>2. \A i \in 1 .. Len(frames) : frames[i] \in Frame
  BY <1>1, ElementOfSeq
<1>3. \A c \in 1 .. Len(go) : go[c] \in GoCall
  BY <1>1, ElementOfSeq
<1>4. \A f \in Frame : /\ f.uid \in Nat \ {0} /\ f.bp \in Nat /\ f.cells \in Nat
                       /\ f.locals \in Nat /\ f.depth \in Int /\ f.ups \subseteq Upvalue
                       /\ Base(f) \in Nat /\ Base(f) >= f.bp
  BY SizesAssumption DEF Frame, Activations, Base
<1>5. \A c \in GoCall : c.saved \in Nat
  BY DEF GoCall
<1>6. sp \in Nat /\ sp <= MaxStack /\ next \in Nat \ {0} /\ ctl \in {"step"} \cup Outcomes \cup Ended
  BY SizesAssumption DEF Inv, TypeOK
<1>7. QED
  BY <1>1, <1>2, <1>3, <1>4, <1>5, <1>6 DEF Innermost

(* Nothing that goes on has ended.                                          *)
LEMMA GoesOn == ("step" \notin Ended \cup Outcomes) /\ Outcomes \cap Ended = {}
BY DEF Outcomes, Failures, Ended

(* What an instruction that pops n operands may write: an operand of its    *)
(* frame, a local of its frame, or the variable of an upvalue.              *)
Writes(n) ==
  \/ UNCHANGED stack
  \/ stack' = [stack EXCEPT ![sp - n] = 0]
  \/ \E k \in 0 .. Top.locals - 1 : stack' = [stack EXCEPT ![Top.bp + k] = Top.uid]
  \/ \E u \in Top.ups : stack' = [stack EXCEPT ![u.slot] = u.owner]

(* An instruction is carried out in its frame, or fails there.              *)
Stays(n, m) ==
  /\ Executing /\ (n = 0 \/ Top.depth >= n)
  /\ frames' = Operands(n, m)
  /\ UNCHANGED <<go, next>>
  /\ \/ /\ ctl' = "step" /\ sp' = sp - n + m /\ UNCHANGED failed
        /\ Writes(n)
        /\ \/ UNCHANGED closures
           \/ \E code \in Code : closures' = closures \cup {code} /\ code.ups \subseteq Capturable
     \/ /\ ctl' \in Failures /\ sp' = sp - n /\ m <= 1
        /\ failed' # {} /\ UNCHANGED <<stack, closures>>

(* A send calls back into the VM.                                           *)
Calls(argc, nargs, code, use) ==
  /\ Executing /\ Top.depth >= argc + 1
  /\ Enter(sp - argc - 1, Operands(argc + 1, 1), go, nargs, code, use, Top.uid)
  /\ code.ups = {} \/ (code \in closures /\ Callable(code))

(* A builtin calls a further block before it answers.                       *)
Recalls(nargs, code, use) ==
  /\ ctl \in Outcomes /\ Innermost.use # "main"
  /\ Enter(sp, frames, DropLast(go), nargs, code, use, Innermost.caller)
  /\ code \in closures /\ Callable(code)
  /\ use \in {"handler", "cleanup-Error", "cleanup-host"} => ctl \in Failures

(* A frame is left.                                                         *)
Leaves(n) ==
  /\ Executing /\ (n = 1 => Top.depth >= 1)
  /\ LeaveFrame(n)
  /\ UNCHANGED failed

Stops ==
  /\ ctl' \in Ended /\ failed \subseteq failed'
  /\ UNCHANGED <<stack, sp, frames, go, closures, next>>

(* Every step has one of the shapes above.                                  *)
LEMMA StepShapes ==
  ASSUME Inv, Next, "runContents" \notin program
  PROVE  \/ \E n \in Nat, m \in {0, 1} : Stays(n, m)
         \/ \E argc \in Nat, nargs \in Nat, code \in Code,
               use \in {"value", "loop", "onDo", "ensure"} : Calls(argc, nargs, code, use)
         \/ \E nargs \in Nat, code \in Code,
               use \in {"loop", "handler", "cleanup-ok", "cleanup-Error", "cleanup-host"} :
               Recalls(nargs, code, use)
         \/ \E n \in {0, 1} : Leaves(n)
         \/ LeaveLoop \/ (Deliver /\ ~ Overflows(sp + 1)) \/ Reraise \/ Stops
<1> USE SizesAssumption
<1>1. closures \subseteq Code /\ sp \in Int
  BY DEF Inv, TypeOK
<1>2. ASSUME Instruction
      PROVE  (\E n \in Nat, m \in {0, 1} : Stays(n, m)) \/ (\E n \in {0, 1} : Leaves(n)) \/ Stops
  <2>1. Executing => ctl = "step"
    BY DEF Executing
  <2>2. PushOperand => Stays(0, 1)
    BY <1>1, <2>1 DEF PushOperand, Stays, Writes
  <2>3. PopOperand => Stays(1, 0)
    BY <1>1, <2>1 DEF PopOperand, Stays, Writes
  <2>4. ASSUME NEW k \in 0 .. MaxLocals + MaxArgs, StoreLocal(k)
        PROVE  Stays(1, 0)
    <3>1. Top.locals \in Nat
      BY <2>4, ExecutingFacts DEF StoreLocal, Frame
    <3>2. k \in 0 .. Top.locals - 1
      BY <2>4, <3>1 DEF StoreLocal
    <3>3. Writes(1)
      BY <2>4, <3>2 DEF StoreLocal, Writes
    <3>4. QED
      BY <1>1, <2>1, <2>4, <3>3 DEF StoreLocal, Stays
  <2>5. StoreUpvalue => Stays(1, 0)
    <3>1. StoreUpvalue => Writes(1)
      BY DEF StoreUpvalue, Writes
    <3>2. StoreUpvalue => /\ Executing /\ Top.depth >= 1 /\ sp' = sp - 1
                          /\ frames' = Operands(1, 0)
                          /\ UNCHANGED <<go, ctl, closures, next, failed, program>>
      BY DEF StoreUpvalue
    <3>3. QED
      BY <1>1, <2>1, <3>1, <3>2 DEF Stays
  <2>6. ASSUME NEW lc \in 0 .. MaxLocals, MakeClosure(lc)
        PROVE  Stays(0, 1)
    <3>1. Executing /\ closures' \subseteq Code
      BY <2>6, InstructionInv DEF MakeClosure, Inv, TypeOK, Instruction
    <3>2. \E code \in Code : closures' = closures \cup {code} /\ code.ups \subseteq Capturable
      <4>1. PICK ups \in {{}} \cup {{u} : u \in Capturable} :
              closures' = closures \cup
                {[kind |-> "block", locals |-> lc, ups |-> ups, home |-> Top.home]}
        BY <2>6 DEF MakeClosure
      <4> DEFINE code == [kind |-> "block", locals |-> lc, ups |-> ups, home |-> Top.home]
      <4>2. ups \subseteq Capturable /\ code.ups = ups
        OBVIOUS
      <4>3. code \in Code /\ closures' = closures \cup {code}
        BY <3>1, <4>1
      <4> HIDE DEF code
      <4>4. QED
        BY <4>2, <4>3
    <3>3. Writes(0)
      <4>1. stack' = [stack EXCEPT ![sp] = 0] /\ sp - 0 = sp
        BY <1>1, <2>6 DEF MakeClosure
      <4>2. QED
        BY <4>1 DEF Writes
    <3>4. QED
      BY <1>1, <2>1, <2>6, <3>1, <3>2, <3>3 DEF MakeClosure, Stays
  <2>7. ASSUME NEW argc \in 0 .. MaxArgs, Combine(argc)
        PROVE  argc + 1 \in Nat /\ Stays(argc + 1, 1)
    <3>1. sp - argc - 1 = sp - (argc + 1) /\ sp - argc = sp - (argc + 1) + 1 /\ argc + 1 \in Nat
      BY <1>1
    <3>2. QED
      BY <1>1, <2>1, <2>7, <3>1 DEF Combine, Stays, Writes
  <2>8. PushOverflow => Stops
    BY DEF PushOverflow, Panic, Stops, Ended
  <2>9. (Return => Leaves(1)) /\ (ReturnSelf => Leaves(0)) /\ (BlockReturn => Leaves(1))
    BY DEF Return, ReturnSelf, BlockReturn, Leaves
  <2>10. QED
    BY <1>2, <2>2, <2>3, <2>4, <2>5, <2>6, <2>7, <2>8, <2>9 DEF Instruction
<1>3. ASSUME Send
      PROVE  \/ \E n \in Nat, m \in {0, 1} : Stays(n, m)
             \/ \E argc \in Nat, nargs \in Nat, code \in Code,
                   use \in {"value", "loop", "onDo", "ensure"} : Calls(argc, nargs, code, use)
  <2>1. ASSUME NEW argc \in 0 .. MaxArgs, NEW lc \in 0 .. MaxLocals, CallMethod(argc, lc)
        PROVE  \E code \in Code : Calls(argc, argc, code, "value")
    <3> DEFINE code == [kind |-> "method", locals |-> argc + lc, ups |-> {}, home |-> 0]
    <3>1. code \in Code /\ code.ups = {}
      BY DEF Code, Kinds
    <3>2. QED
      BY <2>1, <3>1 DEF CallMethod, Calls
  <2>2. ASSUME NEW code \in closures, NEW argc \in Nat, NEW nargs \in Nat, NEW use,
               CallBlock(code, argc, nargs, use)
        PROVE  code \in Code /\ Calls(argc, nargs, code, use)
    BY <1>1, <2>2 DEF CallBlock, Calls
  <2>3. ASSUME NEW code \in closures, NEW nargs \in 0 .. MaxArgs,
               SendValue(code, nargs) \/ SendLoop(code, nargs)
        PROVE  \E argc \in Nat, use \in {"value", "loop"} : Calls(argc, nargs, code, use)
    <3>1. nargs \in Nat /\ 1 \in Nat
      OBVIOUS
    <3>2. CallBlock(code, nargs, nargs, "value") \/ CallBlock(code, 1, nargs, "loop")
      BY <2>3 DEF SendValue, SendLoop
    <3>3. QED
      BY <2>2, <3>1, <3>2
  <2>4. ASSUME NEW code \in closures, SendOnDo(code) \/ SendEnsure(code)
        PROVE  \E argc \in Nat, nargs \in Nat, use \in {"onDo", "ensure"} :
                 Calls(argc, nargs, code, use)
    <3>1. 0 \in Nat /\ 1 \in Nat /\ 2 \in Nat
      OBVIOUS
    <3>2. CallBlock(code, 2, 0, "onDo") \/ CallBlock(code, 1, 0, "ensure")
      BY <2>4 DEF SendOnDo, SendEnsure
    <3>3. QED
      BY <2>2, <3>1, <3>2
  <2>5. ASSUME NEW argc \in 0 .. MaxArgs, NEW failure \in Failures, FailSend(argc, failure)
        PROVE  argc + 1 \in Nat /\ Stays(argc + 1, 1)
    BY <1>1, <2>5 DEF FailSend, Stays
  <2>6. FailStore => Stays(1, 0)
    BY DEF FailStore, Stays, Failures
  <2>7. ~ \E lc \in 0 .. MaxLocals : RunContents(lc)
    BY DEF RunContents
  <2>8. 0 .. MaxArgs \subseteq Nat
    OBVIOUS
  <2>9. QED
    BY <1>1, <1>3, <2>1, <2>3, <2>4, <2>5, <2>6, <2>7, <2>8 DEF Send
<1>4. ASSUME Builtin
      PROVE  \/ \E nargs \in Nat, code \in Code,
                   use \in {"loop", "handler", "cleanup-ok", "cleanup-Error", "cleanup-host"} :
                   Recalls(nargs, code, use)
             \/ LeaveLoop \/ (Deliver /\ ~ Overflows(sp + 1)) \/ Reraise \/ Stops
  <2>1. ASSUME NEW code \in closures, NEW nargs \in 0 .. MaxArgs, LoopAgain(code, nargs)
        PROVE  Recalls(nargs, code, "loop")
    BY <2>1 DEF LoopAgain, Recalls, Outcomes
  <2>2. ASSUME NEW code \in closures, RunCleanup(code)
        PROVE  Recalls(0, code, CleanupAfter(ctl)) /\ CleanupAfter(ctl) \in Uses
    BY <2>2 DEF RunCleanup, Recalls, CleanupAfter, Outcomes, Failures, Uses
  <2>3. ASSUME NEW code \in closures, Handle(code)
        PROVE  Recalls(1, code, "handler")
    BY <2>3 DEF Handle, Recalls, Outcomes, Failures
  <2>4. Deliver /\ Overflows(sp + 1) => Stops
    BY DEF Deliver, Panic, Stops, Ended
  <2>5. Finish => Stops
    BY DEF Finish, Stops, Ended
  <2>6. CleanupAfter(ctl) \in {"cleanup-ok", "cleanup-Error", "cleanup-host"}
    BY DEF CleanupAfter
  <2>7. 0 \in Nat /\ 1 \in Nat /\ 0 .. MaxArgs \subseteq Nat
    OBVIOUS
  <2>8. QED
    BY <1>1, <1>4, <2>1, <2>2, <2>3, <2>4, <2>5, <2>6, <2>7 DEF Builtin
<1>5. QED
  BY <1>2, <1>3, <1>4 DEF Next

(* A frame entered is on top of the frames it was entered over, above its   *)
(* arguments, and the Go call that runs it is the innermost.                *)
LEMMA EnterFacts ==
  ASSUME Inv, NEW at \in Nat, NEW frs \in Seq(Frame), NEW calls \in Seq(GoCall),
         NEW nargs \in Nat, NEW code \in Code, NEW use \in Uses,
         NEW caller \in 0 .. MaxActivations,
         Enter(at, frs, calls, nargs, code, use, caller), ~ Stops
  PROVE  \E f \in Frame, g \in GoCall :
           /\ f.uid = next /\ f.bp = at /\ f.locals <= f.cells /\ f.depth = 0
           /\ f.ups = code.ups /\ Base(f) = at + f.cells /\ Base(f) <= MaxStack
           /\ g.saved = Len(frs) /\ g.use = use /\ g.caller = caller
           /\ frames' \in Seq(Frame) /\ Len(frames') = Len(frs) + 1
           /\ \A i \in 1 .. Len(frs) : frames'[i] = frs[i]
           /\ frames'[Len(frs) + 1] = f
           /\ go' \in Seq(GoCall) /\ Len(go') = Len(calls) + 1
           /\ \A c \in 1 .. Len(calls) : go'[c] = calls[c]
           /\ go'[Len(calls) + 1] = g
           /\ stack' = [s \in Slots |-> IF s \in at .. Base(f) - 1 THEN next ELSE stack[s]]
           /\ sp' = Base(f) /\ next' = next + 1 /\ ctl' = "step"
           /\ UNCHANGED <<closures, failed, program>>
<1> DEFINE cells == Larger(nargs, code.locals)
           f == [uid |-> next, kind |-> code.kind, bp |-> EnterBase(at, nargs),
                 locals |-> code.locals, cells |-> cells, depth |-> 0, ups |-> code.ups,
                 home |-> IF code.kind = "method" THEN next ELSE code.home]
           g == [saved |-> SavedCount(frs), use |-> use, caller |-> caller]
<1>1. ~ (Len(frs) = MaxFrames \/ Overflows(at + cells))
  BY DEF Enter, Panic, Stops, Ended
<1>2. /\ frames' = Append(frs, f) /\ go' = Append(calls, g)
      /\ stack' = [s \in Slots |-> IF s \in at .. at + cells - 1 THEN next ELSE stack[s]]
      /\ sp' = at + cells /\ next' = next + 1 /\ ctl' = "step"
      /\ UNCHANGED <<closures, failed, program>>
  BY <1>1 DEF Enter
<1>3. cells \in Nat /\ code.locals <= cells /\ next \in Activations
  BY SizesAssumption DEF Larger, Code, Enter, Inv, TypeOK, Activations
<1>4. /\ f \in Frame /\ f.uid = next /\ f.bp = at /\ f.locals = code.locals /\ f.cells = cells
      /\ f.depth = 0 /\ f.ups = code.ups
  BY <1>3, SizesAssumption DEF Frame, Code, EnterBase, Activations
<1>5. g \in GoCall /\ g.saved = Len(frs) /\ g.use = use /\ g.caller = caller
  BY LenProperties DEF GoCall, SavedCount
<1>6. at + cells <= MaxStack
  BY <1>1, <1>3, SizesAssumption DEF Overflows
<1> HIDE DEF f, g, cells
<1>7. /\ Append(frs, f) \in Seq(Frame) /\ Len(Append(frs, f)) = Len(frs) + 1
      /\ \A i \in 1 .. Len(frs) : Append(frs, f)[i] = frs[i]
      /\ Append(frs, f)[Len(frs) + 1] = f
  BY <1>4, AppendFacts
<1>8. /\ Append(calls, g) \in Seq(GoCall) /\ Len(Append(calls, g)) = Len(calls) + 1
      /\ \A c \in 1 .. Len(calls) : Append(calls, g)[c] = calls[c]
      /\ Append(calls, g)[Len(calls) + 1] = g
  BY <1>5, AppendFacts
<1>9. Base(f) = at + cells
  BY <1>4 DEF Base
<1>10. QED
  BY <1>2, <1>3, <1>4, <1>5, <1>6, <1>7, <1>8, <1>9

-----------------------------------------------------------------------------
(* Callers: a program that runs no source files on the running VM *)

(* Every Go call was made with more frames active than the one around it,   *)
(* and none of them runs a source file.                                     *)
Rising(calls) ==
  /\ calls[1].saved = 0
  /\ \A c, d \in 1 .. Len(calls) : c < d => calls[c].saved < calls[d].saved
  /\ \A c \in 1 .. Len(calls) : calls[c].use # "file"

(* The frames a Go call found active are active, its caller's among them.   *)
Rooted(calls, frs) ==
  \A c \in 1 .. Len(calls) :
    /\ calls[c].saved <= Len(frs)
    /\ calls[c].caller = 0 \/ \E i \in 1 .. calls[c].saved : frs[i].uid = calls[c].caller

(* The inductive invariant behind CallersLive.                              *)
Nested == Rising(go) /\ (ctl \notin Ended => Rooted(go, frames))

(* The innermost Go call found at least as many frames as any other.        *)
LEMMA InnermostLast ==
  ASSUME Inv, Nested
  PROVE  /\ \A c \in 1 .. Len(go) : go[c].saved <= Innermost.saved
         /\ \A c \in 1 .. Len(go) - 1 : go[c].saved < Innermost.saved
<1>1. /\ Len(go) \in Nat \ {0} /\ Innermost = go[Len(go)]
      /\ \A c \in 1 .. Len(go) : go[c].saved \in Nat
  BY StateTyped
<1>2. \A c, d \in 1 .. Len(go) : c < d => go[c].saved < go[d].saved
  BY DEF Nested, Rising
<1>3. Len(go) \in 1 .. Len(go) /\ \A c \in 1 .. Len(go) : c = Len(go) \/ c < Len(go)
  BY <1>1
<1>4. QED
  BY <1>1, <1>2, <1>3

(* The calls around a call are nested like the calls they are part of.      *)
LEMMA OuterNested ==
  ASSUME Inv, Nested, ctl \in Outcomes, Innermost.use # "main"
  PROVE  /\ DropLast(go) \in Seq(GoCall) /\ Len(DropLast(go)) = Len(go) - 1 /\ Len(go) >= 2
         /\ \A c \in 1 .. Len(go) - 1 : DropLast(go)[c] = go[c]
         /\ Rising(DropLast(go)) /\ Rooted(DropLast(go), frames)
         /\ \A c \in 1 .. Len(go) - 1 : go[c].saved < Len(frames)
<1>1. /\ go \in Seq(GoCall) /\ Len(go) \in Nat \ {0} /\ Innermost = go[Len(go)]
      /\ \A c \in 1 .. Len(go) : go[c].saved \in Nat
      /\ Len(frames) \in Nat
  BY StateTyped
<1>2. Len(go) >= 2
  BY <1>1 DEF Inv, MainFirst
<1>3. /\ DropLast(go) \in Seq(GoCall) /\ Len(DropLast(go)) = Len(go) - 1
      /\ \A i \in 1 .. Len(go) - 1 : DropLast(go)[i] = go[i]
  BY <1>1, DropLastProperties
<1>4. Rising(go) /\ Rooted(go, frames)
  BY GoesOn DEF Nested
<1>5. Rising(DropLast(go))
  BY <1>1, <1>2, <1>3, <1>4 DEF Rising
<1>6. Rooted(DropLast(go), frames)
  BY <1>1, <1>2, <1>3, <1>4 DEF Rooted
<1>7. \A c \in 1 .. Len(go) - 1 : go[c].saved < Len(frames)
  <2>1. Innermost.saved <= Len(frames) /\ Innermost.saved \in Nat
    BY <1>1, <1>4 DEF Rooted
  <2>2. QED
    BY <1>1, <2>1, InnermostLast
<1>8. QED
  BY <1>2, <1>3, <1>5, <1>6, <1>7

(* A call made over the frames its caller is among is nested.               *)
LEMMA EnterNested ==
  ASSUME Inv, NEW at \in Nat, NEW frs \in Seq(Frame),
         NEW calls \in Seq(GoCall), Len(calls) >= 1,
         Rising(calls), Rooted(calls, frs),
         \A c \in 1 .. Len(calls) : calls[c].saved < Len(frs),
         NEW nargs \in Nat, NEW code \in Code, NEW use \in Uses \ {"file"},
         NEW caller \in 0 .. MaxActivations,
         caller = 0 \/ \E i \in 1 .. Len(frs) : frs[i].uid = caller,
         Enter(at, frs, calls, nargs, code, use, caller), ~ Stops
  PROVE  Nested'
<1>1. PICK f \in Frame, g \in GoCall :
        /\ g.saved = Len(frs) /\ g.use = use /\ g.caller = caller
        /\ Len(frames') = Len(frs) + 1
        /\ \A i \in 1 .. Len(frs) : frames'[i] = frs[i]
        /\ Len(go') = Len(calls) + 1
        /\ \A c \in 1 .. Len(calls) : go'[c] = calls[c]
        /\ go'[Len(calls) + 1] = g
  <2>1. use \in Uses
    OBVIOUS
  <2>2. QED
    BY <2>1, EnterFacts, SMTT(60)
<1>2. Len(frs) \in Nat /\ Len(calls) \in Nat /\ \A c \in 1 .. Len(calls) : calls[c].saved \in Nat
  <2>1. \A c \in 1 .. Len(calls) : calls[c] \in GoCall
    BY ElementOfSeq
  <2>2. QED
    BY <2>1, LenProperties DEF GoCall
<1>3. Rising(go')
  <2>1. go'[1].saved = 0
    BY <1>1, <1>2 DEF Rising
  <2>2. ASSUME NEW c \in 1 .. Len(go'), NEW d \in 1 .. Len(go'), c < d
        PROVE  go'[c].saved < go'[d].saved
    BY <1>1, <1>2, <2>2 DEF Rising
  <2>3. \A c \in 1 .. Len(go') : go'[c].use # "file"
    BY <1>1, <1>2 DEF Rising
  <2>4. QED
    BY <2>1, <2>2, <2>3 DEF Rising
<1>4. Rooted(go', frames')
  <2> SUFFICES ASSUME NEW c \in 1 .. Len(go')
               PROVE  /\ go'[c].saved <= Len(frames')
                      /\ \/ go'[c].caller = 0
                         \/ \E i \in 1 .. go'[c].saved : frames'[i].uid = go'[c].caller
    BY DEF Rooted
  <2>1. CASE c = Len(calls) + 1
    BY <1>1, <1>2, <2>1
  <2>2. CASE c \in 1 .. Len(calls)
    <3>1. go'[c] = calls[c] /\ calls[c].saved \in Nat /\ calls[c].saved < Len(frs)
      BY <1>1, <1>2, <2>2
    <3>2. \A i \in 1 .. calls[c].saved : frames'[i] = frs[i]
      BY <1>1, <1>2, <3>1
    <3>3. QED
      BY <1>1, <1>2, <2>2, <3>1, <3>2 DEF Rooted
  <2>3. QED
    BY <1>1, <1>2, <2>1, <2>2
<1>5. QED
  BY <1>3, <1>4 DEF Nested

(* What a send leaves for the frame it calls to be entered over.            *)
LEMMA CallsFacts ==
  ASSUME Inv, NEW argc \in Nat, NEW nargs \in Nat, NEW code \in Code, NEW use \in Uses,
         Calls(argc, nargs, code, use)
  PROVE  /\ sp - argc - 1 \in Nat /\ Top.uid \in 0 .. MaxActivations
         /\ sp - argc - 1 >= Base(Top) + Top.depth - argc - 1
         /\ Operands(argc + 1, 1) \in Seq(Frame)
         /\ Len(Operands(argc + 1, 1)) = Len(frames)
         /\ \A i \in 1 .. Len(frames) - 1 : Operands(argc + 1, 1)[i] = frames[i]
         /\ Operands(argc + 1, 1)[Len(frames)] \in Frame
         /\ Operands(argc + 1, 1)[Len(frames)].uid = Top.uid
         /\ Operands(argc + 1, 1)[Len(frames)].bp = Top.bp
         /\ Operands(argc + 1, 1)[Len(frames)].cells = Top.cells
         /\ Operands(argc + 1, 1)[Len(frames)].locals = Top.locals
         /\ Operands(argc + 1, 1)[Len(frames)].ups = Top.ups
         /\ Operands(argc + 1, 1)[Len(frames)].depth = Top.depth - argc
<1>1. /\ Executing /\ frames # <<>> /\ Top \in Frame /\ Base(Top) \in Nat /\ Top.depth \in Int
      /\ sp \in Int /\ sp >= Base(Top) + Top.depth /\ Top.depth >= argc + 1
  BY ExecutingFacts, SizesAssumption DEF Calls
<1>2. Top.uid \in 0 .. MaxActivations
  BY <1>1, SizesAssumption DEF Frame, Activations
<1>3. argc + 1 \in Nat /\ 1 \in Nat /\ Top.depth - (argc + 1) + 1 = Top.depth - argc
  BY <1>1
<1>4. sp - argc - 1 \in Nat /\ sp - argc - 1 >= Base(Top) + Top.depth - argc - 1
  BY <1>1
<1>5. TypeOK
  BY DEF Inv
<1>6. QED
  BY <1>1, <1>2, <1>3, <1>4, <1>5, OperandsFacts

(* Leaving a frame either drops the top frame or ends the program.          *)
LEMMA LeavesFacts ==
  ASSUME Inv, NEW n \in {0, 1}, Leaves(n)
  PROVE  \/ ctl' = "panic" /\ UNCHANGED <<stack, sp, frames, go, closures, next>>
         \/ /\ Len(frames) >= 1 /\ Len(frames') = Len(frames) - 1
            /\ \A i \in 1 .. Len(frames) - 1 : frames'[i] = frames[i]
            /\ UNCHANGED <<go, closures, next>>
            /\ \/ Len(frames) = 1 /\ frames' = <<>> /\ ctl' = "ok" /\ sp' = sp - n /\ UNCHANGED stack
               \/ /\ Len(frames) > 1 /\ ctl' = "step" /\ sp' = Top.bp + 1
                  /\ stack' = [stack EXCEPT ![Top.bp] = 0]
<1>1. Executing /\ LeaveFrame(n) /\ ctl = "step" /\ Len(frames) \in Nat \ {0} /\ frames \in Seq(Frame)
  BY ExecutingFacts DEF Leaves, Inv, TypeOK
<1>2. CASE Len(frames) = 1
  <2>1. Len(frames') = 0 /\ frames' = <<>>
    BY <1>1, <1>2, EmptySeq DEF LeaveFrame
  <2>2. QED
    BY <1>1, <1>2, <2>1 DEF LeaveFrame
<1>3. CASE Len(frames) # 1 /\ ~ Overflows(AfterReturn(Top))
  <2>1. /\ Len(DropLast(frames)) = Len(frames) - 1
        /\ \A i \in 1 .. Len(frames) - 1 : DropLast(frames)[i] = frames[i]
    BY <1>1, DropLastProperties
  <2>2. Len(frames) > 1
    BY <1>1, <1>3
  <2>3. /\ frames' = DropLast(frames) /\ ctl' = "step" /\ sp' = Top.bp + 1
        /\ stack' = [stack EXCEPT ![Top.bp] = 0] /\ UNCHANGED <<go, closures, next>>
    BY <1>1, <1>3 DEF LeaveFrame, AfterReturn
  <2>4. QED
    BY <2>1, <2>2, <2>3
<1>4. CASE Len(frames) # 1 /\ Overflows(AfterReturn(Top))
  BY <1>1, <1>4 DEF LeaveFrame
<1>5. QED
  BY <1>2, <1>3, <1>4

(* Every step keeps the Go calls nested.                                    *)
LEMMA NestedStep ==
  ASSUME Inv, Nested, Next, "runContents" \notin program
  PROVE  Nested'
<1>1. /\ Len(go) \in Nat \ {0} /\ Innermost = go[Len(go)] /\ Len(frames) \in Nat
      /\ go \in Seq(GoCall) /\ frames \in Seq(Frame)
      /\ \A c \in 1 .. Len(go) : go[c].saved \in Nat
  BY StateTyped
<1>2. Rising(go) /\ (ctl \notin Ended => Rooted(go, frames))
  BY DEF Nested
<1>3. Executing => /\ ctl \notin Ended /\ Rooted(go, frames)
                   /\ \A c \in 1 .. Len(go) : go[c].saved < Len(frames)
  <2>1. Executing => Innermost.saved < Len(frames) /\ ctl \notin Ended
    BY <1>1, GoesOn DEF Executing
  <2>2. QED
    BY <1>1, <1>2, <2>1, InnermostLast
<1>4. Stops => Nested'
  BY <1>2 DEF Stops, Nested
<1>5. ASSUME NEW n \in Nat, NEW m \in {0, 1}, Stays(n, m)
      PROVE  Nested'
  <2>1. /\ Len(frames') = Len(frames) /\ go' = go
        /\ \A i \in 1 .. Len(frames) : frames'[i].uid = frames[i].uid
    <3>1. /\ frames' = Operands(n, m) /\ frames # <<>> /\ TypeOK
      BY <1>5, ExecutingFacts DEF Stays, Inv
    <3>2. /\ Len(frames') = Len(frames)
          /\ \A i \in 1 .. Len(frames) - 1 : frames'[i] = frames[i]
          /\ frames'[Len(frames)].uid = Top.uid
      BY <3>1, OperandsFacts
    <3>3. QED
      BY <1>1, <1>5, <3>2 DEF Top, Stays
  <2>2. Rooted(go', frames')
    <3>1. Executing
      BY <1>5 DEF Stays
    <3> SUFFICES ASSUME NEW c \in 1 .. Len(go)
                 PROVE  /\ go[c].saved <= Len(frames)
                        /\ \/ go[c].caller = 0
                           \/ \E i \in 1 .. go[c].saved : frames'[i].uid = go[c].caller
      BY <2>1 DEF Rooted
    <3>2. go[c].saved \in Nat /\ go[c].saved < Len(frames)
      BY <1>1, <1>3, <3>1
    <3>3. \A i \in 1 .. go[c].saved : frames'[i].uid = frames[i].uid
      BY <1>1, <2>1, <3>2
    <3>4. QED
      BY <1>1, <1>3, <3>1, <3>2, <3>3 DEF Rooted
  <2>3. QED
    BY <1>2, <2>1, <2>2 DEF Nested
<1>6. ASSUME NEW argc \in Nat, NEW nargs \in Nat, NEW code \in Code,
             NEW use \in {"value", "loop", "onDo", "ensure"}, Calls(argc, nargs, code, use), ~ Stops
      PROVE  Nested'
  <2> DEFINE frs == Operands(argc + 1, 1)
  <2>1. use \in Uses \ {"file"}
    BY DEF Uses
  <2>2. /\ sp - argc - 1 \in Nat /\ frs \in Seq(Frame) /\ Len(frs) = Len(frames)
        /\ \A i \in 1 .. Len(frames) - 1 : frs[i] = frames[i]
        /\ frs[Len(frames)].uid = Top.uid /\ Top.uid \in 0 .. MaxActivations
    BY <1>6, <2>1, CallsFacts
  <2>3. Executing /\ Enter(sp - argc - 1, frs, go, nargs, code, use, Top.uid)
    BY <1>6 DEF Calls
  <2> HIDE DEF frs
  <2>4. Rooted(go, frs) /\ \A c \in 1 .. Len(go) : go[c].saved < Len(frs)
    <3>1. \A i \in 1 .. Len(frames) : frs[i].uid = frames[i].uid
      <4>1. Top = frames[Len(frames)]
        BY DEF Top
      <4>2. \A i \in 1 .. Len(frames) : i = Len(frames) \/ i \in 1 .. Len(frames) - 1
        BY <1>1
      <4>3. QED
        BY <2>2, <4>1, <4>2
    <3> SUFFICES ASSUME NEW c \in 1 .. Len(go)
                 PROVE  /\ go[c].saved < Len(frs)
                        /\ \/ go[c].caller = 0
                           \/ \E i \in 1 .. go[c].saved : frs[i].uid = go[c].caller
      BY <1>1, <2>2 DEF Rooted
    <3>2. go[c].saved \in Nat /\ go[c].saved < Len(frames)
      BY <1>1, <1>3, <2>3
    <3>3. \A i \in 1 .. go[c].saved : frs[i].uid = frames[i].uid
      BY <1>1, <3>1, <3>2
    <3>4. QED
      BY <1>1, <1>3, <2>2, <2>3, <3>2, <3>3 DEF Rooted
  <2>5. \E i \in 1 .. Len(frs) : frs[i].uid = Top.uid
    <3>1. Len(frs) \in 1 .. Len(frs)
      BY <1>1, <2>2, <2>3, ExecutingFacts
    <3>2. QED
      BY <2>2, <3>1
  <2>6. Len(go) >= 1
    BY <1>1
  <2>7. QED
    BY <1>1, <1>2, <1>6, <2>1, <2>2, <2>3, <2>4, <2>5, <2>6, EnterNested
<1>7. ASSUME NEW nargs \in Nat, NEW code \in Code,
             NEW use \in {"loop", "handler", "cleanup-ok", "cleanup-Error", "cleanup-host"},
             Recalls(nargs, code, use), ~ Stops
      PROVE  Nested'
  <2>1. use \in Uses \ {"file"} /\ sp \in Nat
    BY StateTyped DEF Uses
  <2>2. /\ ctl \in Outcomes /\ Innermost.use # "main"
        /\ Enter(sp, frames, DropLast(go), nargs, code, use, Innermost.caller)
    BY <1>7 DEF Recalls
  <2>3. /\ DropLast(go) \in Seq(GoCall) /\ Len(DropLast(go)) = Len(go) - 1 /\ Len(go) >= 2
        /\ \A c \in 1 .. Len(go) - 1 : DropLast(go)[c] = go[c]
        /\ Rising(DropLast(go)) /\ Rooted(DropLast(go), frames)
        /\ \A c \in 1 .. Len(go) - 1 : go[c].saved < Len(frames)
    BY <2>2, OuterNested
  <2>4. \A c \in 1 .. Len(DropLast(go)) : DropLast(go)[c].saved < Len(frames)
    BY <2>3
  <2>5. Innermost.caller = 0 \/ \E i \in 1 .. Len(frames) : frames[i].uid = Innermost.caller
    <3>1. /\ Innermost.saved \in Nat /\ Innermost.saved <= Len(frames)
          /\ Innermost.caller = 0 \/ \E i \in 1 .. Innermost.saved : frames[i].uid = Innermost.caller
      BY <1>1, <1>2, <2>2, GoesOn DEF Rooted
    <3>2. QED
      BY <1>1, <3>1
  <2>6. Innermost.caller \in 0 .. MaxActivations
    BY <2>2, OuterCalls
  <2>7. Len(DropLast(go)) >= 1
    BY <1>1, <2>3
  <2>8. QED
    BY <1>1, <1>7, <2>1, <2>2, <2>3, <2>4, <2>5, <2>6, <2>7, EnterNested
<1>8. ASSUME NEW n \in {0, 1}, Leaves(n)
      PROVE  Nested'
  <2>1. CASE ctl' = "panic" /\ UNCHANGED <<stack, sp, frames, go, closures, next>>
    BY <1>2, <2>1 DEF Nested, Ended
  <2>2. CASE /\ Len(frames) >= 1 /\ Len(frames') = Len(frames) - 1
             /\ \A i \in 1 .. Len(frames) - 1 : frames'[i] = frames[i]
             /\ UNCHANGED <<go, closures, next>>
    <3>1. Executing
      BY <1>8 DEF Leaves
    <3>2. Rooted(go', frames')
      <4> SUFFICES ASSUME NEW c \in 1 .. Len(go)
                   PROVE  /\ go[c].saved <= Len(frames')
                          /\ \/ go[c].caller = 0
                             \/ \E i \in 1 .. go[c].saved : frames'[i].uid = go[c].caller
        BY <2>2 DEF Rooted
      <4>1. go[c].saved \in Nat /\ go[c].saved < Len(frames)
        BY <1>1, <1>3, <3>1
      <4>2. \A i \in 1 .. go[c].saved : frames'[i] = frames[i]
        BY <1>1, <2>2, <4>1
      <4>3. go[c].saved <= Len(frames')
        BY <1>1, <2>2, <4>1
      <4>4. QED
        BY <1>3, <3>1, <4>1, <4>2, <4>3 DEF Rooted
    <3>3. QED
      BY <1>2, <2>2, <3>2 DEF Nested
  <2>3. QED
    BY <1>8, <2>1, <2>2, LeavesFacts
<1>9. LeaveLoop => Nested'
  BY <1>2, GoesOn DEF LeaveLoop, Nested
<1>10. Deliver /\ ~ Overflows(sp + 1) => Nested'
  <2>1. Deliver => ctl \in Outcomes /\ Innermost.use # "main"
    BY DEF Deliver, Outcomes
  <2>2. Deliver /\ ~ Overflows(sp + 1) => go' = DropLast(go) /\ UNCHANGED frames
    BY DEF Deliver
  <2>3. QED
    BY <2>1, <2>2, OuterNested DEF Nested
<1>11. Reraise => Nested'
  <2>1. Reraise => ctl \in Outcomes /\ Innermost.use # "main" /\ go' = DropLast(go) /\ UNCHANGED frames
    BY DEF Reraise, Outcomes
  <2>2. QED
    BY <2>1, OuterNested DEF Nested
<1>12. QED
  BY <1>4, <1>5, <1>6, <1>7, <1>8, <1>9, <1>10, <1>11, StepShapes

(* The machine starts with its activations nested.                          *)
LEMMA NestedInit == Init => Nested
<1> SUFFICES ASSUME Init PROVE Nested
  OBVIOUS
<1>1. /\ go = <<[saved |-> 0, use |-> "main", caller |-> 0]>>
      /\ Len(go) = 1 /\ go[1] = [saved |-> 0, use |-> "main", caller |-> 0]
  BY DEF Init
<1>2. Rising(go)
  BY <1>1 DEF Rising
<1>3. Len(frames) = 1
  BY DEF Init
<1>4. Rooted(go, frames)
  BY <1>1, <1>3 DEF Rooted
<1>5. QED
  BY <1>2, <1>4 DEF Nested

(* What a program makes use of is not changed by running it.                *)
LEMMA SameProgram == [Next]_vars => UNCHANGED program
<1>1. Instruction => UNCHANGED program
  BY DEF Instruction, PushOperand, PopOperand, PushOverflow, Panic, StoreLocal, StoreUpvalue,
         MakeClosure, Combine, Return, ReturnSelf, BlockReturn
<1>2. Send => UNCHANGED program
  BY DEF Send, CallMethod, SendValue, SendLoop, SendOnDo, SendEnsure, CallBlock, Enter, Panic,
         RunContents, FailSend, FailStore
<1>3. Builtin => UNCHANGED program
  BY DEF Builtin, LeaveLoop, Deliver, LoopAgain, RunCleanup, Handle, Enter, Panic, Reraise, Finish
<1>4. UNCHANGED vars => UNCHANGED program
  BY DEF vars
<1>5. QED
  BY <1>1, <1>2, <1>3, <1>4 DEF Next

(* Every step keeps them nested, where no nested VM runs the contents.      *)
LEMMA NestedInductive == Spec => []("runContents" \notin program => Nested)
<1> DEFINE I == "runContents" \notin program => Nested
<1>1. Inv /\ I /\ [Next]_vars => I'
  <2> SUFFICES ASSUME Inv, Nested, [Next]_vars, "runContents" \notin program
               PROVE  Nested'
    BY SameProgram
  <2>1. CASE UNCHANGED vars
    BY <2>1 DEF vars, Nested, Rising, Rooted
  <2>2. QED
    BY <2>1, NestedStep
<1>2. Init => I
  BY NestedInit
<1> HIDE DEF I
<1>3. Spec => []I
  BY <1>1, <1>2, InvInductive, PTL DEF Spec
<1>4. QED
  BY <1>3 DEF I

(* While a method or a builtin's block runs for a send, the frame that made *)
(* the send is still active, whatever fails and is handled meanwhile, in    *)
(* every program that runs no source file on the running VM: runFrame and   *)
(* the frame array unwind in step (vm.go:249-321, 575-606).                 *)
THEOREM CallersThere == Spec => []CallersStay
<1>1. Inv /\ ("runContents" \notin program => Nested) => CallersStay
  <2> SUFFICES ASSUME Inv, Nested, ctl \notin Ended, NEW c \in 1 .. Len(go), go[c].caller # 0
               PROVE  \E i \in 1 .. Len(frames) : frames[i].uid = go[c].caller
    BY DEF CallersStay, CallersLive
  <2>1. PICK i \in 1 .. go[c].saved : frames[i].uid = go[c].caller
    BY DEF Nested, Rooted
  <2>2. i \in 1 .. Len(frames)
    BY <2>1, StateTyped DEF Nested, Rooted
  <2>3. QED
    BY <2>1, <2>2
<1>2. QED
  BY <1>1, NestedInductive, InvInductive, PTL

-----------------------------------------------------------------------------
(* Exactness: nothing has failed *)

(* Each frame begins exactly where the frame below it awaits a result.      *)
Abutting(frs) ==
  \A i \in 1 .. Len(frs) - 1 : frs[i + 1].bp = Base(frs[i]) + frs[i].depth - 1

(* Every Go call runs one frame over those of the calls around it, and each *)
(* of those has the result of its send to come.                             *)
Stacked(calls, frs) ==
  /\ \A c \in 1 .. Len(calls) :
       /\ calls[c].saved = c - 1
       /\ calls[c].use \notin {"handler", "cleanup-Error", "cleanup-host"}
  /\ \A i \in 1 .. Len(calls) - 1 : frs[i].depth >= 1

(* The inductive invariant behind StackExact.                               *)
Exact ==
  failed = {} =>
    /\ ctl \notin Failures
    /\ ctl \notin Ended =>
         /\ Stacked(go, frames) /\ Abutting(frames)
         /\ ctl = "ok" => Len(frames) = Len(go) - 1
         /\ ctl = "step" => Len(frames) \in {Len(go) - 1, Len(go)}
         /\ frames # <<>> => sp = Base(Top) + Top.depth - Pending

(* While an instruction executes, every Go call has its frame.              *)
LEMMA ExactExecuting ==
  ASSUME Inv, Exact, Executing, failed = {}
  PROVE  /\ Len(frames) = Len(go) /\ Stacked(go, frames) /\ Abutting(frames)
         /\ sp = Base(Top) + Top.depth
<1>1. ctl = "step" /\ frames # <<>> /\ ctl \notin Ended /\ Pending = 0
  BY ExecutingFacts, GoesOn DEF Pending
<1>2. /\ Stacked(go, frames) /\ Abutting(frames) /\ Len(frames) \in {Len(go) - 1, Len(go)}
      /\ sp = Base(Top) + Top.depth - 0
  BY <1>1 DEF Exact
<1>3. Len(go) \in Nat \ {0} /\ Innermost.saved = Len(go) - 1
  BY <1>2, StateTyped DEF Stacked
<1>4. Len(frames) = Len(go)
  BY <1>2, <1>3 DEF Executing
<1>5. Base(Top) \in Nat /\ Top.depth \in Int
  BY ExecutingFacts
<1>6. sp = Base(Top) + Top.depth
  BY <1>2, <1>5
<1>7. QED
  BY <1>2, <1>4, <1>6

(* A call in which nothing failed has answered.                             *)
LEMMA ExactInGo ==
  ASSUME Inv, Exact, ctl \in Outcomes, failed = {}
  PROVE  /\ ctl = "ok" /\ Len(frames) = Len(go) - 1 /\ Stacked(go, frames) /\ Abutting(frames)
         /\ frames # <<>> => sp = Base(Top) + Top.depth - 1
BY GoesOn DEF Exact, Outcomes, Pending

(* A frame entered exactly where it is awaited keeps the count exact.       *)
LEMMA EnterExact ==
  ASSUME Inv, NEW at \in Nat, NEW frs \in Seq(Frame), NEW calls \in Seq(GoCall),
         Len(calls) >= 1, Len(frs) = Len(calls), Stacked(calls, frs), Abutting(frs),
         frs[Len(frs)].depth >= 1,
         at = Base(frs[Len(frs)]) + frs[Len(frs)].depth - 1,
         NEW nargs \in Nat, NEW code \in Code,
         NEW use \in Uses \ {"handler", "cleanup-Error", "cleanup-host"},
         NEW caller \in 0 .. MaxActivations,
         Enter(at, frs, calls, nargs, code, use, caller), ~ Stops
  PROVE  Exact'
<1>1. use \in Uses /\ use \notin {"handler", "cleanup-Error", "cleanup-host"}
  OBVIOUS
<1>2. PICK f \in Frame, g \in GoCall :
        /\ f.bp = at /\ f.depth = 0 /\ g.saved = Len(frs) /\ g.use = use
        /\ Len(frames') = Len(frs) + 1
        /\ \A i \in 1 .. Len(frs) : frames'[i] = frs[i]
        /\ frames'[Len(frs) + 1] = f
        /\ Len(go') = Len(calls) + 1
        /\ \A c \in 1 .. Len(calls) : go'[c] = calls[c]
        /\ go'[Len(calls) + 1] = g
        /\ sp' = Base(f) /\ ctl' = "step"
  BY <1>1, EnterFacts
<1>3. Len(frs) \in Nat /\ Len(calls) \in Nat /\ Len(frs) = Len(calls) /\ Len(calls) >= 1
  BY LenProperties
<1>4. Stacked(go', frames')
  <2>1. ASSUME NEW c \in 1 .. Len(go')
        PROVE  /\ go'[c].saved = c - 1
               /\ go'[c].use \notin {"handler", "cleanup-Error", "cleanup-host"}
    <3>1. CASE c = Len(calls) + 1
      BY <1>1, <1>2, <1>3, <3>1
    <3>2. CASE c \in 1 .. Len(calls)
      BY <1>2, <1>3, <3>2 DEF Stacked
    <3>3. QED
      BY <1>2, <1>3, <3>1, <3>2
  <2>2. ASSUME NEW i \in 1 .. Len(go') - 1
        PROVE  frames'[i].depth >= 1
    <3>1. i \in 1 .. Len(frs) /\ (i = Len(frs) \/ i \in 1 .. Len(calls) - 1)
      BY <1>2, <1>3
    <3>2. QED
      BY <1>2, <3>1 DEF Stacked
  <2>3. QED
    BY <2>1, <2>2 DEF Stacked
<1>5. Abutting(frames')
  <2> SUFFICES ASSUME NEW i \in 1 .. Len(frs)
               PROVE  frames'[i + 1].bp = Base(frames'[i]) + frames'[i].depth - 1
    BY <1>2, <1>3 DEF Abutting
  <2>1. CASE i = Len(frs)
    BY <1>2, <2>1
  <2>2. CASE i \in 1 .. Len(frs) - 1
    <3>1. i + 1 \in 1 .. Len(frs)
      BY <1>3, <2>2
    <3>2. QED
      BY <1>2, <2>2, <3>1 DEF Abutting
  <2>3. QED
    BY <1>3, <2>1, <2>2
<1>6. Top' = f /\ Pending' = 0
  BY <1>2, <1>3, GoesOn DEF Top, Pending
<1>7. Base(f) = Base(f) + f.depth - 0
  <2>1. f.bp \in Nat /\ f.cells \in Nat
    BY DEF Frame
  <2>2. Base(f) \in Nat
    BY <2>1 DEF Base
  <2>3. QED
    BY <1>2, <2>2
<1>8. Base(Top)' = Base(f)
  BY <1>6 DEF Base
<1>9. sp' = Base(Top)' + Top'.depth - Pending'
  BY <1>2, <1>6, <1>7, <1>8
<1>10. ctl' \notin Failures /\ ctl' # "ok"
  BY <1>2 DEF Failures
<1>11. Len(frames') = Len(go')
  BY <1>2, <1>3
<1>12. QED
  BY <1>4, <1>5, <1>9, <1>10, <1>11 DEF Exact

(* Every step keeps the count exact until something fails.                  *)
LEMMA ExactStep ==
  ASSUME Inv, Nested, Exact, Next, "runContents" \notin program
  PROVE  Exact'
<1>1. /\ Len(go) \in Nat \ {0} /\ Innermost = go[Len(go)] /\ Len(frames) \in Nat
      /\ go \in Seq(GoCall) /\ frames \in Seq(Frame) /\ sp \in Nat
      /\ \A i \in 1 .. Len(frames) :
           Base(frames[i]) \in Nat /\ frames[i].depth \in Int /\ frames[i].bp \in Nat
  BY StateTyped
<1>2. frames # <<>> <=> Len(frames) >= 1
  BY <1>1, EmptySeq
<1>3. Top = frames[Len(frames)]
  BY DEF Top
<1>4. Stops => Exact'
  BY GoesOn DEF Stops, Exact, Outcomes
<1>5. ASSUME NEW n \in Nat, NEW m \in {0, 1}, Stays(n, m)
      PROVE  Exact'
  <2> SUFFICES ASSUME failed' = {}
               PROVE  Exact'
    BY DEF Exact
  <2>1. /\ Executing /\ failed = {} /\ ctl' = "step" /\ sp' = sp - n + m
        /\ frames' = Operands(n, m) /\ go' = go
    BY <1>5 DEF Stays
  <2>2. /\ Len(frames) = Len(go) /\ Stacked(go, frames) /\ Abutting(frames)
        /\ sp = Base(Top) + Top.depth
    BY <2>1, ExactExecuting
  <2>3. frames # <<>> /\ m \in Nat /\ TypeOK
    BY <2>1, ExecutingFacts DEF Inv
  <2>4. /\ Len(frames') = Len(frames)
        /\ \A i \in 1 .. Len(frames) - 1 : frames'[i] = frames[i]
        /\ frames'[Len(frames)].bp = Top.bp
        /\ frames'[Len(frames)].cells = Top.cells
        /\ frames'[Len(frames)].depth = Top.depth - n + m
    BY <2>1, <2>3, OperandsFacts
  <2>5. Stacked(go', frames')
    BY <2>1, <2>2, <2>4 DEF Stacked
  <2>6. Abutting(frames')
    <3> SUFFICES ASSUME NEW i \in 1 .. Len(frames) - 1
                 PROVE  frames'[i + 1].bp = Base(frames'[i]) + frames'[i].depth - 1
      BY <2>4 DEF Abutting
    <3>1. frames'[i + 1].bp = frames[i + 1].bp
      <4>1. i + 1 = Len(frames) \/ i + 1 \in 1 .. Len(frames) - 1
        BY <1>1
      <4>2. QED
        BY <1>3, <2>4, <4>1
    <3>2. QED
      BY <2>2, <2>4, <3>1 DEF Abutting
  <2>7. Top' = frames'[Len(frames)]
    BY <2>4 DEF Top
  <2>8. Base(Top)' = Base(Top)
    BY <2>4, <2>7 DEF Base
  <2>9. Pending' = 0
    BY <2>1, GoesOn DEF Pending
  <2>10. sp' = Base(Top)' + Top'.depth - Pending'
    <3>1. Base(Top) \in Nat /\ Top.depth \in Int
      BY <2>1, ExecutingFacts
    <3>2. sp' = Base(Top) + (Top.depth - n + m) - 0
      BY <2>1, <2>2, <3>1
    <3>3. QED
      BY <2>4, <2>7, <2>8, <2>9, <3>2
  <2>11. Len(frames') = Len(go')
    BY <2>1, <2>2, <2>4
  <2>12. ctl' \notin Failures /\ ctl' # "ok"
    BY <2>1 DEF Failures
  <2>13. QED
    BY <2>1, <2>5, <2>6, <2>10, <2>11, <2>12 DEF Exact
<1>6. ASSUME NEW argc \in Nat, NEW nargs \in Nat, NEW code \in Code,
             NEW use \in {"value", "loop", "onDo", "ensure"}, Calls(argc, nargs, code, use), ~ Stops
      PROVE  Exact'
  <2> DEFINE frs == Operands(argc + 1, 1)
  <2>1. use \in Uses \ {"handler", "cleanup-Error", "cleanup-host"} /\ use \in Uses
    BY DEF Uses
  <2>2. /\ sp - argc - 1 \in Nat /\ frs \in Seq(Frame) /\ Len(frs) = Len(frames)
        /\ \A i \in 1 .. Len(frames) - 1 : frs[i] = frames[i]
        /\ frs[Len(frames)] \in Frame /\ Top.uid \in 0 .. MaxActivations
        /\ frs[Len(frames)].bp = Top.bp /\ frs[Len(frames)].cells = Top.cells
        /\ frs[Len(frames)].depth = Top.depth - argc
    BY <1>6, <2>1, CallsFacts
  <2>3. /\ Executing /\ Top.depth >= argc + 1
        /\ Enter(sp - argc - 1, frs, go, nargs, code, use, Top.uid)
    BY <1>6 DEF Calls
  <2> HIDE DEF frs
  <2>4. UNCHANGED failed
    BY <2>1, <2>2, <2>3, <1>6, <1>1, EnterFacts
  <2> SUFFICES ASSUME failed = {}
               PROVE  Exact'
    BY <2>4 DEF Exact
  <2>5. /\ Len(frames) = Len(go) /\ Stacked(go, frames) /\ Abutting(frames)
        /\ sp = Base(Top) + Top.depth
    BY <2>3, ExactExecuting
  <2>6. Base(Top) \in Nat /\ Top.depth \in Int /\ Len(frames) >= 1
    BY <2>3, ExecutingFacts
  <2>7. Stacked(go, frs)
    BY <1>1, <2>2, <2>5 DEF Stacked
  <2>8. Abutting(frs)
    <3> SUFFICES ASSUME NEW i \in 1 .. Len(frames) - 1
                 PROVE  frs[i + 1].bp = Base(frs[i]) + frs[i].depth - 1
      BY <2>2 DEF Abutting
    <3>1. frs[i + 1].bp = frames[i + 1].bp
      <4>1. i + 1 = Len(frames) \/ i + 1 \in 1 .. Len(frames) - 1
        BY <1>1
      <4>2. QED
        BY <1>3, <2>2, <4>1
    <3>2. QED
      BY <2>2, <2>5, <3>1 DEF Abutting
  <2>9. Base(frs[Len(frs)]) = Base(Top)
    BY <2>2 DEF Base
  <2>10. frs[Len(frs)].depth >= 1 /\ sp - argc - 1 = Base(frs[Len(frs)]) + frs[Len(frs)].depth - 1
    BY <2>2, <2>3, <2>5, <2>6, <2>9
  <2>11. Len(go) >= 1 /\ Len(frs) = Len(go)
    BY <1>1, <2>2, <2>5
  <2>12. QED
    BY <1>1, <1>6, <2>1, <2>2, <2>3, <2>7, <2>8, <2>10, <2>11, EnterExact
<1>7. ASSUME NEW nargs \in Nat, NEW code \in Code,
             NEW use \in {"loop", "handler", "cleanup-ok", "cleanup-Error", "cleanup-host"},
             Recalls(nargs, code, use), ~ Stops
      PROVE  Exact'
  <2>1. use \in Uses
    BY DEF Uses
  <2>2. /\ ctl \in Outcomes /\ Innermost.use # "main"
        /\ Enter(sp, frames, DropLast(go), nargs, code, use, Innermost.caller)
        /\ use \in {"handler", "cleanup-Error", "cleanup-host"} => ctl \in Failures
    BY <1>7 DEF Recalls
  <2>3. /\ DropLast(go) \in Seq(GoCall) /\ Len(DropLast(go)) = Len(go) - 1 /\ Len(go) >= 2
        /\ \A c \in 1 .. Len(go) - 1 : DropLast(go)[c] = go[c]
    BY <2>2, OuterNested
  <2>4. Innermost.caller \in 0 .. MaxActivations
    BY <2>2, OuterCalls
  <2>5. UNCHANGED failed
    BY <1>1, <1>7, <2>1, <2>2, <2>3, <2>4, EnterFacts
  <2> SUFFICES ASSUME failed = {}
               PROVE  Exact'
    BY <2>5 DEF Exact
  <2>6. /\ ctl = "ok" /\ Len(frames) = Len(go) - 1 /\ Stacked(go, frames) /\ Abutting(frames)
        /\ frames # <<>> => sp = Base(Top) + Top.depth - 1
    BY <2>2, ExactInGo
  <2>7. use \in Uses \ {"handler", "cleanup-Error", "cleanup-host"}
    BY <2>1, <2>2, <2>6 DEF Failures
  <2>8. Len(frames) >= 1 /\ frames # <<>> /\ Len(frames) \in 1 .. Len(go) - 1
    BY <1>1, <1>2, <2>3, <2>6
  <2>9. frames[Len(frames)].depth >= 1
    BY <2>6, <2>8 DEF Stacked
  <2>10. sp = Base(frames[Len(frames)]) + frames[Len(frames)].depth - 1
    BY <1>3, <2>6, <2>8
  <2>11. Stacked(DropLast(go), frames)
    BY <1>1, <2>3, <2>6 DEF Stacked
  <2>12. Len(DropLast(go)) >= 1 /\ Len(frames) = Len(DropLast(go))
    BY <1>1, <2>3, <2>6
  <2>13. QED
    BY <1>1, <1>7, <2>2, <2>3, <2>4, <2>6, <2>7, <2>9, <2>10, <2>11, <2>12, EnterExact
<1>8. ASSUME NEW n \in {0, 1}, Leaves(n)
      PROVE  Exact'
  <2> SUFFICES ASSUME failed' = {}
               PROVE  Exact'
    BY DEF Exact
  <2>1. Executing /\ failed = {}
    BY <1>8 DEF Leaves
  <2>2. /\ Len(frames) = Len(go) /\ Stacked(go, frames) /\ Abutting(frames)
        /\ sp = Base(Top) + Top.depth
    BY <2>1, ExactExecuting
  <2>3. CASE ctl' = "panic"
    BY <2>3 DEF Exact, Ended, Failures
  <2>4. CASE /\ Len(frames) >= 1 /\ Len(frames') = Len(frames) - 1
             /\ \A i \in 1 .. Len(frames) - 1 : frames'[i] = frames[i]
             /\ UNCHANGED <<go, closures, next>>
             /\ \/ Len(frames) = 1 /\ frames' = <<>> /\ ctl' = "ok"
                \/ Len(frames) > 1 /\ ctl' = "step" /\ sp' = Top.bp + 1
    <3>1. Stacked(go', frames') /\ Abutting(frames')
      <4>1. Stacked(go', frames')
        BY <1>1, <2>2, <2>4 DEF Stacked
      <4>2. ASSUME NEW i \in 1 .. Len(frames') - 1
            PROVE  frames'[i + 1].bp = Base(frames'[i]) + frames'[i].depth - 1
        <5>1. i \in 1 .. Len(frames) - 1 /\ i + 1 \in 1 .. Len(frames) - 1
          BY <1>1, <2>4
        <5>2. QED
          BY <2>2, <2>4, <5>1 DEF Abutting
      <4>3. QED
        BY <4>1, <4>2 DEF Abutting
    <3>2. ctl' \notin Failures /\ Len(frames') = Len(go') - 1
      BY <1>1, <2>2, <2>4 DEF Failures
    <3>3. ASSUME frames' # <<>>
          PROVE  sp' = Base(Top)' + Top'.depth - Pending'
      <4>1. Len(frames) > 1 /\ ctl' = "step" /\ sp' = Top.bp + 1
        BY <2>4, <3>3
      <4> DEFINE k == Len(frames) - 1
      <4>2. k \in 1 .. Len(frames) - 1 /\ Len(frames) = k + 1 /\ k \in 1 .. Len(frames)
        BY <1>1, <4>1
      <4>3. Top.bp = Base(frames[k]) + frames[k].depth - 1
        BY <1>3, <2>2, <4>2 DEF Abutting
      <4>4. Top' = frames[k]
        BY <2>4, <4>2 DEF Top
      <4>5. Pending' = 0
        BY <4>1, GoesOn DEF Pending
      <4>6. Base(Top)' = Base(frames[k])
        BY <4>4 DEF Base
      <4>7. Base(frames[k]) \in Nat /\ frames[k].depth \in Int
        BY <1>1, <4>2
      <4> HIDE DEF k
      <4>8. sp' = Base(frames[k]) + frames[k].depth - 0
        BY <4>1, <4>3, <4>7
      <4>9. QED
        BY <4>4, <4>5, <4>6, <4>8
    <3>4. QED
      BY <3>1, <3>2, <3>3 DEF Exact
  <2>5. QED
    BY <1>8, <2>3, <2>4, LeavesFacts
<1>9. ASSUME LeaveLoop
      PROVE  Exact'
  <2> SUFFICES ASSUME failed = {}
               PROVE  Exact'
    BY <1>9 DEF LeaveLoop, Exact
  <2>1. /\ ctl = "step" /\ ctl' = "ok" /\ Len(frames) <= Innermost.saved
        /\ sp' = (IF Innermost.use \in {"main", "file"} \/ sp = 0 THEN sp ELSE sp - 1)
        /\ UNCHANGED <<frames, go, failed>>
    BY <1>9 DEF LeaveLoop
  <2>2. Pending = 0 /\ Pending' = 1
    BY <2>1, GoesOn DEF Pending, Outcomes
  <2>3. /\ Stacked(go, frames) /\ Abutting(frames) /\ Len(frames) \in {Len(go) - 1, Len(go)}
        /\ frames # <<>> => sp = Base(Top) + Top.depth - 0
    BY <2>1, <2>2, GoesOn DEF Exact
  <2>4. Len(frames) = Len(go) - 1
    BY <1>1, <2>1, <2>3 DEF Stacked
  <2>5. ASSUME frames # <<>>
        PROVE  sp' = Base(Top) + Top.depth - 1
    <3>1. Len(frames) \in 1 .. Len(go) - 1 /\ Len(go) > 1 /\ Len(frames) \in 1 .. Len(frames)
      BY <1>1, <1>2, <2>4, <2>5
    <3>2. Top.depth >= 1 /\ Base(Top) \in Nat /\ Top.depth \in Int
      BY <1>1, <1>3, <2>3, <3>1 DEF Stacked
    <3>3. sp = Base(Top) + Top.depth /\ sp # 0
      BY <2>3, <2>5, <3>2
    <3>4. Innermost.use \notin {"main", "file"}
      <4>1. Innermost.use # "file"
        BY <1>1 DEF Nested, Rising
      <4>2. Innermost.use # "main"
        BY <1>1, <3>1 DEF Inv, MainFirst
      <4>3. QED
        BY <4>1, <4>2
    <3>5. QED
      BY <2>1, <3>2, <3>3, <3>4
  <2>6. Top' = Top /\ Base(Top)' = Base(Top)
    BY <2>1 DEF Top, Base
  <2>7. ctl' \notin Failures /\ ctl' # "step"
    BY <2>1 DEF Failures
  <2>8. QED
    BY <2>1, <2>2, <2>3, <2>4, <2>5, <2>6, <2>7 DEF Exact
<1>10. ASSUME Deliver, ~ Overflows(sp + 1)
       PROVE  Exact'
  <2>1. /\ ctl \in Outcomes /\ Innermost.use # "main" /\ go' = DropLast(go) /\ sp' = sp + 1
        /\ ctl' = "step" /\ UNCHANGED <<frames, failed>>
    BY <1>10 DEF Deliver, Outcomes
  <2> SUFFICES ASSUME failed = {}
               PROVE  Exact'
    BY <2>1 DEF Exact
  <2>2. /\ Len(frames) = Len(go) - 1 /\ Stacked(go, frames) /\ Abutting(frames)
        /\ frames # <<>> => sp = Base(Top) + Top.depth - 1
    BY <2>1, ExactInGo
  <2>3. /\ Len(go') = Len(go) - 1 /\ Len(go) >= 2
        /\ \A c \in 1 .. Len(go) - 1 : go'[c] = go[c]
    BY <2>1, OuterNested
  <2>4. Stacked(go', frames')
    BY <1>1, <2>1, <2>2, <2>3 DEF Stacked
  <2>5. Pending' = 0 /\ Top' = Top /\ Base(Top)' = Base(Top)
    BY <2>1, GoesOn DEF Pending, Top, Base
  <2>6. frames # <<>> => sp' = Base(Top) + Top.depth - 0
    <3>1. frames # <<>> => Base(Top) \in Nat /\ Top.depth \in Int
      BY TopTyped
    <3>2. QED
      BY <2>1, <2>2, <3>1
  <2>7. Len(frames') = Len(go') /\ ctl' \notin Failures /\ ctl' # "ok"
    BY <2>1, <2>2, <2>3 DEF Failures
  <2>8. QED
    BY <2>1, <2>2, <2>4, <2>5, <2>6, <2>7 DEF Exact
<1>11. ASSUME Reraise
       PROVE  Exact'
  <2>1. UNCHANGED failed /\ ctl \in Outcomes
    BY <1>11 DEF Reraise, Outcomes
  <2>2. ctl \in Failures \/ Innermost.use \in {"cleanup-Error", "cleanup-host"}
    BY <1>11 DEF Reraise
  <2>3. failed # {}
    <3> SUFFICES ASSUME failed = {}
                 PROVE  FALSE
      OBVIOUS
    <3>1. ctl = "ok" /\ Stacked(go, frames)
      BY <2>1, ExactInGo
    <3>2. QED
      BY <1>1, <2>2, <3>1 DEF Stacked, Failures
  <2>4. QED
    BY <2>1, <2>3 DEF Exact
<1>12. QED
  BY <1>4, <1>5, <1>6, <1>7, <1>8, <1>9, <1>10, <1>11, StepShapes

(* At the start of a program the count is exact.                            *)
LEMMA ExactInit == Init => Exact
<1> SUFFICES ASSUME Init PROVE Exact
  OBVIOUS
<1>1. PICK lc \in 0 .. MaxLocals : sp = lc /\ frames = <<MainFrame(1, lc)>>
  BY DEF Init
<1>2. /\ ctl = "step" /\ Len(go) = 1
      /\ go[1] = [saved |-> 0, use |-> "main", caller |-> 0]
  BY DEF Init
<1>3. Len(frames) = 1 /\ Top = MainFrame(1, lc)
  BY <1>1 DEF Top
<1>4. Base(Top) = lc /\ Top.depth = 0
  BY <1>3, SizesAssumption DEF MainFrame, Base
<1>5. Stacked(go, frames) /\ Abutting(frames)
  BY <1>2, <1>3 DEF Stacked, Abutting
<1>6. Pending = 0
  BY <1>2, GoesOn DEF Pending
<1>7. sp = Base(Top) + Top.depth - Pending
  BY <1>1, <1>4, <1>6, SizesAssumption
<1>8. ctl \notin Failures /\ ctl # "ok"
  BY <1>2 DEF Failures
<1>9. QED
  BY <1>2, <1>3, <1>5, <1>7, <1>8 DEF Exact

(* Until an instruction fails, the real stack pointer is where the compiler *)
(* counts on it and every Go loop runs the one frame it was started for,    *)
(* whatever is called, returned and left by ^ (vm.go:249-321, 575-606,      *)
(* 701-745), in every program that runs no source file on the running VM.   *)
THEOREM CountIsExact == Spec => []StackExact
<1> DEFINE N == "runContents" \notin program => Nested
           I == "runContents" \notin program => Exact
<1>1. Inv /\ N /\ I /\ [Next]_vars => I'
  <2> SUFFICES ASSUME Inv, Nested, Exact, [Next]_vars, "runContents" \notin program
               PROVE  Exact'
    BY SameProgram
  <2>1. CASE UNCHANGED vars
    BY <2>1 DEF vars, Exact, Stacked, Abutting, Top, Base, Pending
  <2>2. QED
    BY <2>1, ExactStep
<1>2. Inv /\ I => StackExact
  <2> SUFFICES ASSUME Inv, Exact, failed = {}, ctl \notin Ended
               PROVE  /\ frames # <<>> => sp = Base(Top) + Top.depth - Pending
                      /\ ctl = "step" => Len(frames) <= Innermost.saved + 1
    BY GoesOn DEF StackExact
  <2>1. Len(go) \in Nat \ {0} /\ Innermost = go[Len(go)] /\ Len(frames) \in Nat
    BY StateTyped
  <2>2. Innermost.saved = Len(go) - 1
    BY <2>1 DEF Exact, Stacked
  <2>3. ctl = "step" => Len(frames) <= Innermost.saved + 1
    BY <2>1, <2>2 DEF Exact
  <2>4. QED
    BY <2>3 DEF Exact
<1>3. Init => I
  BY ExactInit
<1>4. Spec => []N
  BY NestedInductive
<1> HIDE DEF N, I
<1>5. QED
  BY <1>1, <1>2, <1>3, <1>4, InvInductive, PTL DEF Spec

-----------------------------------------------------------------------------
(* Scopes: blocks do not outlive their defining scope *)

(* The variable of upvalue u is a local of frame f.                         *)
Owns(f, u) == f.uid = u.owner /\ u.slot \in f.bp .. Base(f) - 1

(* The variables a frame's code captured belong to frames below it.         *)
Placed(frs) ==
  \A i \in 1 .. Len(frs) :
    /\ frs[i].locals <= frs[i].cells /\ frs[i].uid < next /\ frs[i].depth >= 0
    /\ \A u \in frs[i].ups : \E j \in 1 .. i - 1 : Owns(frs[j], u)

(* Different frames are different activations, with their own part of the   *)
(* stack.                                                                   *)
Disjoint(frs) ==
  \A i, j \in 1 .. Len(frs) : i < j =>
    frs[i].uid # frs[j].uid /\ frs[j].bp >= Base(frs[i])

(* LocalsIntact of a sequence of frames.                                    *)
Intact(frs) ==
  \A i \in 1 .. Len(frs) : \A s \in frs[i].bp .. Base(frs[i]) - 1 : stack[s] = frs[i].uid

(* As long as the activation a closure captured a variable of is active,    *)
(* the variable is among its locals.                                        *)
Resolved(frs) ==
  \A code \in closures : \A u \in code.ups :
    /\ u.owner < next
    /\ \A i \in 1 .. Len(frs) : frs[i].uid = u.owner => Owns(frs[i], u)

(* The stack reaches above the locals of every frame, and one value higher  *)
(* when the value a frame returned is on it.                                *)
Above(frs) ==
  /\ ctl \notin Ended => \A i \in 1 .. Len(frs) : sp >= Base(frs[i])
  /\ ctl = "step" /\ Len(frs) <= Innermost.saved =>
       \A i \in 1 .. Len(frs) : sp >= Base(frs[i]) + 1

(* The inductive invariant behind LocalsIntact and UpvaluesLive.            *)
Scoped ==
  /\ Placed(frames) /\ Disjoint(frames) /\ Intact(frames) /\ Resolved(frames)
  /\ Above(frames)

(* Counting operands changes nothing about scopes.                          *)
LEMMA SameScopes ==
  ASSUME Inv, Scoped, NEW frs, Len(frs) = Len(frames),
         \A i \in 1 .. Len(frames) :
           /\ frs[i].uid = frames[i].uid /\ frs[i].bp = frames[i].bp
           /\ frs[i].cells = frames[i].cells /\ frs[i].locals = frames[i].locals
           /\ frs[i].ups = frames[i].ups /\ frs[i].depth >= 0
  PROVE  /\ \A i \in 1 .. Len(frames) : Base(frs[i]) = Base(frames[i])
         /\ \A i \in 1 .. Len(frames) : \A u : Owns(frs[i], u) <=> Owns(frames[i], u)
         /\ Placed(frs) /\ Disjoint(frs) /\ Intact(frs) /\ Resolved(frs)
<1>1. \A i \in 1 .. Len(frames) : Base(frs[i]) = Base(frames[i])
  BY DEF Base
<1>2. \A i \in 1 .. Len(frames) : \A u : Owns(frs[i], u) <=> Owns(frames[i], u)
  BY <1>1 DEF Owns
<1>3. Len(frames) \in Nat
  BY StateTyped
<1>4. Placed(frs)
  <2> SUFFICES ASSUME NEW i \in 1 .. Len(frames)
               PROVE  /\ frs[i].locals <= frs[i].cells /\ frs[i].uid < next /\ frs[i].depth >= 0
                      /\ \A u \in frs[i].ups : \E j \in 1 .. i - 1 : Owns(frs[j], u)
    BY DEF Placed
  <2>1. \A u \in frames[i].ups : \E j \in 1 .. i - 1 : Owns(frames[j], u)
    BY DEF Scoped, Placed
  <2>2. 1 .. i - 1 \subseteq 1 .. Len(frames)
    BY <1>3
  <2>3. \A u \in frs[i].ups : \E j \in 1 .. i - 1 : Owns(frs[j], u)
    BY <1>2, <2>1, <2>2
  <2>4. QED
    BY <2>3 DEF Scoped, Placed
<1>5. Disjoint(frs)
  BY <1>1 DEF Scoped, Disjoint
<1>6. Intact(frs)
  BY <1>1 DEF Scoped, Intact
<1>7. Resolved(frs)
  BY <1>2 DEF Scoped, Resolved
<1>8. QED
  BY <1>1, <1>2, <1>4, <1>5, <1>6, <1>7

(* The locals of the frames below the top lie below those of the top.       *)
LEMMA TopHighest ==
  ASSUME Inv, Scoped, frames # <<>>
  PROVE  /\ \A i \in 1 .. Len(frames) : Base(frames[i]) <= Base(Top)
         /\ \A i \in 1 .. Len(frames) - 1 : Base(frames[i]) <= Top.bp
<1>1. /\ Len(frames) \in Nat \ {0} /\ Top = frames[Len(frames)]
      /\ \A i \in 1 .. Len(frames) :
           Base(frames[i]) \in Nat /\ frames[i].bp \in Nat /\ Base(frames[i]) >= frames[i].bp
  BY StateTyped, EmptySeq DEF Top
<1>2. \A i \in 1 .. Len(frames) - 1 : Base(frames[i]) <= Top.bp
  <2>1. ASSUME NEW i \in 1 .. Len(frames) - 1
        PROVE  Base(frames[i]) <= Top.bp
    <3>1. i \in 1 .. Len(frames) /\ Len(frames) \in 1 .. Len(frames) /\ i < Len(frames)
      BY <1>1
    <3>2. frames[Len(frames)].bp >= Base(frames[i])
      BY <3>1 DEF Scoped, Disjoint
    <3>3. QED
      BY <1>1, <3>1, <3>2
  <2>2. QED
    BY <2>1
<1>3. ASSUME NEW i \in 1 .. Len(frames)
      PROVE  Base(frames[i]) <= Base(Top)
  <2>1. CASE i = Len(frames)
    BY <1>1, <2>1
  <2>2. CASE i \in 1 .. Len(frames) - 1
    BY <1>1, <1>2, <2>2
  <2>3. QED
    BY <1>1, <2>1, <2>2
<1>4. QED
  BY <1>2, <1>3

(* A write that gives a local its owner, or goes to no local, keeps the     *)
(* locals intact.                                                           *)
LEMMA WriteKeeps ==
  ASSUME Inv, Scoped, ctl \notin Ended, NEW s, NEW o,
         stack' = [stack EXCEPT ![s] = o],
         \A i \in 1 .. Len(frames) :
           s \in frames[i].bp .. Base(frames[i]) - 1 => o = frames[i].uid
  PROVE  \A i \in 1 .. Len(frames) :
           \A x \in frames[i].bp .. Base(frames[i]) - 1 : stack'[x] = frames[i].uid
<1> SUFFICES ASSUME NEW i \in 1 .. Len(frames), NEW x \in frames[i].bp .. Base(frames[i]) - 1
             PROVE  stack'[x] = frames[i].uid
  OBVIOUS
<1>1. /\ frames[i].bp \in Nat /\ Base(frames[i]) \in Nat /\ sp \in Nat /\ sp <= MaxStack
      /\ sp >= Base(frames[i])
  BY StateTyped DEF Scoped, Above
<1>2. x \in Slots
  BY <1>1, SizesAssumption DEF Slots
<1>3. stack[x] = frames[i].uid
  BY DEF Scoped, Intact
<1>4. stack \in [Slots -> 0 .. MaxActivations]
  BY DEF Inv, TypeOK
<1>5. stack'[x] = IF x = s THEN o ELSE stack[x]
  BY <1>2, <1>4
<1>6. QED
  BY <1>3, <1>5

(* The code a block is called with captured variables of active frames.     *)
LEMMA CodeOwned ==
  ASSUME Inv, Scoped, "escape" \notin program, NEW code,
         code.ups = {} \/ (code \in closures /\ Callable(code))
  PROVE  \A u \in code.ups : \E j \in 1 .. Len(frames) : Owns(frames[j], u)
BY DEF Callable, Scoped, Resolved

(* A frame entered above all others keeps the scopes apart.                 *)
LEMMA EnterScoped ==
  ASSUME Inv, NEW at \in Nat, NEW frs \in Seq(Frame), NEW calls \in Seq(GoCall),
         Placed(frs), Disjoint(frs), Intact(frs), Resolved(frs),
         \A i \in 1 .. Len(frs) : at >= Base(frs[i]),
         NEW nargs \in Nat, NEW code \in Code, NEW use \in Uses,
         \A u \in code.ups : \E j \in 1 .. Len(frs) : Owns(frs[j], u),
         NEW caller \in 0 .. MaxActivations,
         Enter(at, frs, calls, nargs, code, use, caller), ~ Stops
  PROVE  Scoped'
<1>1. PICK f \in Frame, g \in GoCall :
        /\ f.uid = next /\ f.bp = at /\ f.locals <= f.cells /\ f.depth = 0
        /\ f.ups = code.ups /\ Base(f) = at + f.cells /\ Base(f) <= MaxStack
        /\ g.saved = Len(frs)
        /\ Len(frames') = Len(frs) + 1
        /\ \A i \in 1 .. Len(frs) : frames'[i] = frs[i]
        /\ frames'[Len(frs) + 1] = f
        /\ Len(go') = Len(calls) + 1
        /\ go'[Len(calls) + 1] = g
        /\ stack' = [s \in Slots |-> IF s \in at .. Base(f) - 1 THEN next ELSE stack[s]]
        /\ sp' = Base(f) /\ next' = next + 1 /\ ctl' = "step"
        /\ closures' = closures
  BY EnterFacts
<1>2. Len(frs) \in Nat /\ Len(calls) \in Nat /\ next \in Nat /\ f.cells \in Nat
  BY LenProperties, StateTyped DEF Frame
<1>3. \A i \in 1 .. Len(frs) : /\ Base(frs[i]) \in Nat /\ frs[i].bp \in Nat
                               /\ frs[i].uid \in Nat /\ frs[i].uid < next
  <2>1. ASSUME NEW i \in 1 .. Len(frs)
        PROVE  frs[i] \in Frame
    BY ElementOfSeq
  <2>2. \A e \in Frame : e.bp \in Nat /\ e.cells \in Nat /\ e.uid \in Nat
    BY SizesAssumption DEF Frame, Activations
  <2>3. QED
    BY <2>1, <2>2 DEF Base, Placed
<1>4. \A i \in 1 .. Len(frames') : i = Len(frs) + 1 \/ i \in 1 .. Len(frs)
  BY <1>1, <1>2
<1>5. Placed(frames)'
  <2> SUFFICES ASSUME NEW i \in 1 .. Len(frames')
               PROVE  /\ frames'[i].locals <= frames'[i].cells /\ frames'[i].uid < next'
                      /\ frames'[i].depth >= 0
                      /\ \A u \in frames'[i].ups : \E j \in 1 .. i - 1 : Owns(frames'[j], u)
    BY DEF Placed, Owns, Base
  <2>1. CASE i = Len(frs) + 1
    BY <1>1, <1>2, <2>1
  <2>2. CASE i \in 1 .. Len(frs)
    <3>1. /\ frs[i].locals <= frs[i].cells /\ frs[i].uid < next + 1 /\ frs[i].depth >= 0
          /\ \A u \in frs[i].ups : \E j \in 1 .. i - 1 : Owns(frs[j], u)
      <4>1. frs[i].uid < next + 1
        BY <1>2, <1>3, <2>2
      <4>2. QED
        BY <2>2, <4>1 DEF Placed
    <3>2. 1 .. i - 1 \subseteq 1 .. Len(frs)
      BY <1>2, <2>2
    <3>3. QED
      BY <1>1, <2>2, <3>1, <3>2
  <2>3. QED
    BY <1>4, <2>1, <2>2
<1>6. Disjoint(frames)'
  <2> SUFFICES ASSUME NEW i \in 1 .. Len(frames'), NEW j \in 1 .. Len(frames'), i < j
               PROVE  frames'[i].uid # frames'[j].uid /\ frames'[j].bp >= Base(frames'[i])
    BY DEF Disjoint, Base
  <2>1. i \in 1 .. Len(frs)
    BY <1>1, <1>2
  <2>2. CASE j = Len(frs) + 1
    BY <1>1, <1>2, <1>3, <2>1, <2>2
  <2>3. CASE j \in 1 .. Len(frs)
    BY <1>1, <2>1, <2>3 DEF Disjoint
  <2>4. QED
    BY <1>4, <2>2, <2>3
<1>7. Intact(frames)'
  <2> SUFFICES ASSUME NEW i \in 1 .. Len(frames'),
                      NEW s \in frames'[i].bp .. Base(frames'[i]) - 1
               PROVE  stack'[s] = frames'[i].uid
    BY DEF Intact, Base
  <2>1. CASE i = Len(frs) + 1
    <3>1. s \in at .. Base(f) - 1 /\ s \in Slots
      BY <1>1, <1>2, <2>1, SizesAssumption DEF Slots
    <3>2. QED
      BY <1>1, <2>1, <3>1
  <2>2. CASE i \in 1 .. Len(frs)
    <3>1. s \in frs[i].bp .. Base(frs[i]) - 1 /\ frames'[i] = frs[i]
      BY <1>1, <2>2
    <3>2. s \in Slots /\ s \notin at .. Base(f) - 1
      <4>1. /\ frs[i].bp \in Nat /\ Base(frs[i]) \in Nat /\ at >= Base(frs[i])
            /\ Base(f) = at + f.cells /\ Base(f) <= MaxStack /\ MaxStack \in Nat
        BY <1>1, <1>3, <2>2, SizesAssumption
      <4>2. s \in Nat /\ s < Base(frs[i])
        BY <3>1, <4>1
      <4>3. s < at /\ s < MaxStack
        BY <1>2, <4>1, <4>2
      <4>4. s \notin at .. Base(f) - 1
        BY <4>2, <4>3
      <4>5. QED
        BY <4>1, <4>2, <4>3, <4>4 DEF Slots
    <3>3. QED
      BY <1>1, <2>2, <3>1, <3>2 DEF Intact
  <2>3. QED
    BY <1>4, <2>1, <2>2
<1>8. Resolved(frames)'
  <2> SUFFICES ASSUME NEW c \in closures, NEW u \in c.ups
               PROVE  /\ u.owner < next + 1
                      /\ \A i \in 1 .. Len(frames') :
                           frames'[i].uid = u.owner => Owns(frames'[i], u)
    BY <1>1 DEF Resolved, Owns, Base
  <2>1. u.owner < next /\ \A i \in 1 .. Len(frs) : frs[i].uid = u.owner => Owns(frs[i], u)
    BY DEF Resolved
  <2>2. u.owner \in Nat
    BY SizesAssumption DEF Inv, TypeOK, Code, Upvalue, Activations
  <2>3. u.owner < next + 1 /\ u.owner # next
    BY <1>2, <2>1, <2>2
  <2>4. \A i \in 1 .. Len(frames') : frames'[i].uid = u.owner => Owns(frames'[i], u)
    BY <1>1, <1>4, <2>1, <2>3
  <2>5. QED
    BY <2>3, <2>4
<1>9. Above(frames)'
  <2>1. \A i \in 1 .. Len(frames') : sp' >= Base(frames'[i])
    <3> SUFFICES ASSUME NEW i \in 1 .. Len(frames')
                 PROVE  Base(f) >= Base(frames'[i])
      BY <1>1
    <3>1. CASE i = Len(frs) + 1
      BY <1>1, <1>2, <3>1
    <3>2. CASE i \in 1 .. Len(frs)
      BY <1>1, <1>2, <1>3, <3>2
    <3>3. QED
      BY <1>4, <3>1, <3>2
  <2>2. ~ (Len(frames') <= Innermost'.saved)
    BY <1>1, <1>2 DEF Innermost
  <2>3. QED
    BY <2>1, <2>2 DEF Above, Base
<1>10. QED
  BY <1>5, <1>6, <1>7, <1>8, <1>9 DEF Scoped

(* An instruction writes no local but those of its frame and the variables  *)
(* of its upvalues, and gives each its owner.                               *)
LEMMA WritesIntact ==
  ASSUME Inv, Scoped, Executing, NEW n \in Nat, n = 0 \/ Top.depth >= n, Writes(n)
  PROVE  \A i \in 1 .. Len(frames) :
           \A x \in frames[i].bp .. Base(frames[i]) - 1 : stack'[x] = frames[i].uid
<1>1. /\ Len(frames) \in Nat \ {0} /\ Top = frames[Len(frames)] /\ frames # <<>>
      /\ Base(Top) \in Nat /\ Top.depth \in Int /\ sp \in Nat /\ sp >= Base(Top) + Top.depth
      /\ ctl \notin Ended /\ Len(frames) \in 1 .. Len(frames)
  BY ExecutingFacts, StateTyped, GoesOn DEF Top
<1>2. \A i \in 1 .. Len(frames) :
        /\ frames[i].bp \in Nat /\ Base(frames[i]) \in Nat /\ frames[i].cells \in Nat
        /\ frames[i].locals \in Nat /\ Base(frames[i]) = frames[i].bp + frames[i].cells
        /\ frames[i].locals <= frames[i].cells /\ frames[i].depth >= 0
  BY StateTyped DEF Scoped, Placed, Base
<1>3. \A i, j \in 1 .. Len(frames) :
        \A s \in Nat : /\ s \in frames[i].bp .. Base(frames[i]) - 1
                       /\ s \in frames[j].bp .. Base(frames[j]) - 1
                       => i = j
  <2> SUFFICES ASSUME NEW i \in 1 .. Len(frames), NEW j \in 1 .. Len(frames), i < j,
                      NEW s \in Nat,
                      s \in frames[i].bp .. Base(frames[i]) - 1,
                      s \in frames[j].bp .. Base(frames[j]) - 1
               PROVE  FALSE
    <3>1. \A i, j \in 1 .. Len(frames) : i = j \/ i < j \/ j < i
      BY <1>1
    <3>2. QED
      BY <3>1
  <2>1. frames[j].bp >= Base(frames[i])
    BY DEF Scoped, Disjoint
  <2>2. QED
    BY <1>2, <2>1
<1>4. CASE UNCHANGED stack
  BY <1>4 DEF Scoped, Intact
<1>5. CASE stack' = [stack EXCEPT ![sp - n] = 0]
  <2>1. Top.depth >= 0
    BY <1>1, <1>2
  <2>2. sp - n \in Int /\ sp - n >= Base(Top)
    BY <1>1, <2>1
  <2>3. ASSUME NEW i \in 1 .. Len(frames)
        PROVE  sp - n \notin frames[i].bp .. Base(frames[i]) - 1
    <3>1. Base(frames[i]) <= Base(Top)
      BY <1>1, TopHighest
    <3>2. QED
      BY <1>1, <1>2, <2>2, <3>1
  <2>4. QED
    BY <1>1, <1>5, <2>3, WriteKeeps
<1>6. ASSUME NEW k \in 0 .. Top.locals - 1, stack' = [stack EXCEPT ![Top.bp + k] = Top.uid]
      PROVE  \A i \in 1 .. Len(frames) :
               \A x \in frames[i].bp .. Base(frames[i]) - 1 : stack'[x] = frames[i].uid
  <2>1. Top.bp + k \in Nat /\ Top.bp + k \in Top.bp .. Base(Top) - 1
    <3>1. /\ Top.bp \in Nat /\ Top.cells \in Nat /\ Top.locals \in Nat
          /\ Base(Top) = Top.bp + Top.cells /\ Top.locals <= Top.cells
      BY <1>1, <1>2
    <3>2. QED
      BY <3>1
  <2>2. \A i \in 1 .. Len(frames) :
          Top.bp + k \in frames[i].bp .. Base(frames[i]) - 1 => Top.uid = frames[i].uid
    BY <1>1, <1>3, <2>1
  <2>3. QED
    BY <1>1, <1>6, <2>2, WriteKeeps
<1>7. ASSUME NEW u \in Top.ups, stack' = [stack EXCEPT ![u.slot] = u.owner]
      PROVE  \A i \in 1 .. Len(frames) :
               \A x \in frames[i].bp .. Base(frames[i]) - 1 : stack'[x] = frames[i].uid
  <2>1. PICK j \in 1 .. Len(frames) - 1 : Owns(frames[j], u)
    BY <1>1 DEF Scoped, Placed
  <2>2. j \in 1 .. Len(frames)
    BY <1>1
  <2>3. u.slot \in Nat
    BY <1>2, <2>1, <2>2 DEF Owns
  <2>4. \A i \in 1 .. Len(frames) :
          u.slot \in frames[i].bp .. Base(frames[i]) - 1 => u.owner = frames[i].uid
    BY <1>3, <2>1, <2>2, <2>3 DEF Owns
  <2>5. QED
    BY <1>1, <1>7, <2>4, WriteKeeps
<1>8. QED
  BY <1>4, <1>5, <1>6, <1>7 DEF Writes

(* What the top frame can capture belongs to an active frame.               *)
LEMMA CapturableOwned ==
  ASSUME Inv, Scoped, Executing, NEW u \in Capturable
  PROVE  /\ u.owner < next
         /\ \A i \in 1 .. Len(frames) : frames[i].uid = u.owner => Owns(frames[i], u)
<1>1. /\ Len(frames) \in Nat \ {0} /\ Top = frames[Len(frames)]
      /\ Len(frames) \in 1 .. Len(frames)
  BY ExecutingFacts DEF Top
<1>2. \E j \in 1 .. Len(frames) : Owns(frames[j], u)
  <2>1. CASE u \in Top.ups
    <3>1. PICK j \in 1 .. Len(frames) - 1 : Owns(frames[j], u)
      BY <1>1, <2>1 DEF Scoped, Placed
    <3>2. j \in 1 .. Len(frames)
      BY <1>1
    <3>3. QED
      BY <3>1, <3>2
  <2>2. ASSUME NEW k \in 0 .. Top.locals - 1, u = [slot |-> CaptureSlot(k), owner |-> Top.uid]
        PROVE  Owns(Top, u)
    <3>1. /\ Top.bp \in Nat /\ Top.cells \in Nat /\ Top.locals \in Nat
          /\ Top.locals <= Top.cells
      BY <1>1, StateTyped DEF Scoped, Placed
    <3>2. u.owner = Top.uid /\ u.slot = Top.bp + k
      BY <2>2 DEF CaptureSlot
    <3>3. Base(Top) = Top.bp + Top.cells
      BY DEF Base
    <3>4. u.slot \in Top.bp .. Base(Top) - 1
      BY <3>1, <3>2, <3>3
    <3>5. QED
      BY <3>2, <3>4 DEF Owns
  <2>3. QED
    BY <1>1, <2>1, <2>2 DEF Capturable
<1>3. PICK j \in 1 .. Len(frames) : Owns(frames[j], u)
  BY <1>2
<1>4. frames[j].uid = u.owner /\ frames[j].uid < next
  BY <1>3 DEF Owns, Scoped, Placed
<1>5. \A i \in 1 .. Len(frames) : i < j \/ i = j \/ j < i
  BY <1>1
<1>6. \A i \in 1 .. Len(frames) : frames[i].uid = u.owner => i = j
  BY <1>4, <1>5 DEF Scoped, Disjoint
<1>7. QED
  BY <1>3, <1>4, <1>6

(* Every step keeps the scopes apart.                                       *)
LEMMA ScopedStep ==
  ASSUME Inv, Scoped, Next, "runContents" \notin program, "escape" \notin program
  PROVE  Scoped'
<1>1. /\ Len(go) \in Nat \ {0} /\ Innermost = go[Len(go)] /\ Len(frames) \in Nat
      /\ go \in Seq(GoCall) /\ frames \in Seq(Frame) /\ sp \in Nat
      /\ \A i \in 1 .. Len(frames) :
           /\ Base(frames[i]) \in Nat /\ frames[i].depth \in Int /\ frames[i].bp \in Nat
           /\ Base(frames[i]) >= frames[i].bp
  BY StateTyped
<1>2. Top = frames[Len(frames)]
  BY DEF Top
<1>3. /\ Placed(frames) /\ Disjoint(frames) /\ Intact(frames) /\ Resolved(frames)
      /\ Above(frames)
  BY DEF Scoped
<1>4. Stops => Scoped'
  <2>1. Stops => ctl' # "step"
    BY GoesOn DEF Stops
  <2>2. QED
    BY <1>3, <2>1 DEF Stops, Scoped, Placed, Disjoint, Intact, Resolved, Above, Owns, Base
<1>5. ASSUME NEW n \in Nat, NEW m \in {0, 1}, Stays(n, m)
      PROVE  Scoped'
  <2>1. /\ Executing /\ (n = 0 \/ Top.depth >= n) /\ frames' = Operands(n, m)
        /\ go' = go /\ next' = next
    BY <1>5 DEF Stays
  <2>2. /\ ctl = "step" /\ frames # <<>> /\ Len(frames) \in Nat \ {0} /\ m \in Nat /\ TypeOK
        /\ Base(Top) \in Nat /\ Top.depth \in Int /\ sp >= Base(Top) + Top.depth
        /\ Len(frames) \in 1 .. Len(frames)
    BY <2>1, ExecutingFacts DEF Inv
  <2>3. Top.depth >= 0
    BY <1>2, <1>3, <2>2 DEF Placed
  <2>4. /\ Len(frames') = Len(frames)
        /\ \A i \in 1 .. Len(frames) - 1 : frames'[i] = frames[i]
        /\ frames'[Len(frames)].uid = Top.uid
        /\ frames'[Len(frames)].bp = Top.bp
        /\ frames'[Len(frames)].cells = Top.cells
        /\ frames'[Len(frames)].locals = Top.locals
        /\ frames'[Len(frames)].ups = Top.ups
        /\ frames'[Len(frames)].depth = Top.depth - n + m
    BY <2>1, <2>2, OperandsFacts
  <2>5. Top.depth - n + m >= 0
    BY <2>1, <2>2, <2>3
  <2>6. \A i \in 1 .. Len(frames) :
          /\ frames'[i].uid = frames[i].uid /\ frames'[i].bp = frames[i].bp
          /\ frames'[i].cells = frames[i].cells /\ frames'[i].locals = frames[i].locals
          /\ frames'[i].ups = frames[i].ups /\ frames'[i].depth >= 0
    <3>1. \A i \in 1 .. Len(frames) : i = Len(frames) \/ i \in 1 .. Len(frames) - 1
      BY <1>1
    <3>2. \A i \in 1 .. Len(frames) : frames[i].depth >= 0
      BY <1>3 DEF Placed
    <3>3. QED
      BY <1>2, <2>4, <2>5, <3>1, <3>2
  <2>7. /\ \A i \in 1 .. Len(frames) : Base(frames'[i]) = Base(frames[i])
        /\ \A i \in 1 .. Len(frames) : \A u : Owns(frames'[i], u) <=> Owns(frames[i], u)
        /\ Placed(frames') /\ Disjoint(frames') /\ Intact(frames') /\ Resolved(frames')
    BY <2>4, <2>6, SameScopes
  <2>8. Placed(frames)' /\ Disjoint(frames)'
    BY <2>1, <2>7 DEF Placed, Disjoint, Owns, Base
  <2>9. Intact(frames)'
    <3>1. \A i \in 1 .. Len(frames) :
            \A x \in frames[i].bp .. Base(frames[i]) - 1 : stack'[x] = frames[i].uid
      <4>1. CASE Writes(n)
        BY <2>1, <4>1, WritesIntact
      <4>2. CASE UNCHANGED stack
        BY <1>3, <4>2 DEF Intact
      <4>3. QED
        BY <1>5, <4>1, <4>2 DEF Stays
    <3>2. QED
      BY <2>4, <2>6, <2>7, <3>1 DEF Intact, Base
  <2>10. Resolved(frames)'
    <3>1. ASSUME NEW c \in closures', NEW u \in c.ups
          PROVE  /\ u.owner < next
                 /\ \A i \in 1 .. Len(frames) : frames[i].uid = u.owner => Owns(frames[i], u)
      <4>1. CASE c \in closures
        BY <1>3, <4>1 DEF Resolved
      <4>2. CASE c \notin closures
        <5>1. u \in Capturable
          BY <1>5, <4>2 DEF Stays
        <5>2. QED
          BY <2>1, <5>1, CapturableOwned
      <4>3. QED
        BY <4>1, <4>2
    <3>2. ASSUME NEW c \in closures', NEW u \in c.ups
          PROVE  /\ u.owner < next'
                 /\ \A i \in 1 .. Len(frames') : frames'[i].uid = u.owner => Owns(frames'[i], u)
      BY <2>1, <2>4, <2>6, <2>7, <3>1
    <3>3. QED
      BY <3>2 DEF Resolved, Owns, Base
  <2>11. Above(frames)'
    <3>1. sp' >= Base(Top) /\ sp' \in Int
      <4>1. sp' = sp - n + m \/ (sp' = sp - n /\ m <= 1)
        BY <1>5 DEF Stays
      <4>2. QED
        <5>1. n <= Top.depth
          BY <2>1, <2>3
        <5>2. QED
          BY <1>1, <2>2, <4>1, <5>1
    <3>2. \A i \in 1 .. Len(frames) : sp' >= Base(frames[i])
      <4>1. \A i \in 1 .. Len(frames) : Base(frames[i]) <= Base(Top)
        BY <2>2, TopHighest
      <4>2. QED
        BY <1>1, <2>2, <3>1, <4>1
    <3>3. ~ (Len(frames') <= Innermost'.saved)
      <4>1. Innermost' = Innermost /\ Innermost.saved \in Nat
        BY <1>1, <2>1, StateTyped DEF Innermost
      <4>2. QED
        BY <2>1, <2>2, <2>4, <4>1 DEF Executing
    <3>4. \A i \in 1 .. Len(frames') : sp' >= Base(frames'[i])
      BY <2>4, <2>7, <3>2
    <3>5. QED
      BY <3>3, <3>4 DEF Above, Base
  <2>12. QED
    BY <2>8, <2>9, <2>10, <2>11 DEF Scoped
<1>6. ASSUME NEW argc \in Nat, NEW nargs \in Nat, NEW code \in Code,
             NEW use \in {"value", "loop", "onDo", "ensure"}, Calls(argc, nargs, code, use), ~ Stops
      PROVE  Scoped'
  <2> DEFINE frs == Operands(argc + 1, 1)
             at  == sp - argc - 1
  <2>1. use \in Uses
    BY DEF Uses
  <2>2. /\ at \in Nat /\ frs \in Seq(Frame) /\ Len(frs) = Len(frames)
        /\ at >= Base(Top) + Top.depth - argc - 1 /\ Top.uid \in 0 .. MaxActivations
        /\ \A i \in 1 .. Len(frames) - 1 : frs[i] = frames[i]
        /\ frs[Len(frames)].uid = Top.uid
        /\ frs[Len(frames)].bp = Top.bp
        /\ frs[Len(frames)].cells = Top.cells
        /\ frs[Len(frames)].locals = Top.locals
        /\ frs[Len(frames)].ups = Top.ups
        /\ frs[Len(frames)].depth = Top.depth - argc
    BY <1>6, <2>1, CallsFacts
  <2>3. /\ Executing /\ Top.depth >= argc + 1
        /\ Enter(at, frs, go, nargs, code, use, Top.uid)
        /\ code.ups = {} \/ (code \in closures /\ Callable(code))
    BY <1>6 DEF Calls
  <2>4. Base(Top) \in Nat /\ Top.depth \in Int /\ frames # <<>> /\ Len(frames) \in Nat \ {0}
    BY <2>3, ExecutingFacts
  <2> HIDE DEF frs, at
  <2>5. \A i \in 1 .. Len(frames) :
          /\ frs[i].uid = frames[i].uid /\ frs[i].bp = frames[i].bp
          /\ frs[i].cells = frames[i].cells /\ frs[i].locals = frames[i].locals
          /\ frs[i].ups = frames[i].ups /\ frs[i].depth >= 0
    <3>1. \A i \in 1 .. Len(frames) : i = Len(frames) \/ i \in 1 .. Len(frames) - 1
      BY <1>1
    <3>2. \A i \in 1 .. Len(frames) : frames[i].depth >= 0
      BY <1>3 DEF Placed
    <3>3. Top.depth - argc >= 0
      BY <2>3, <2>4
    <3>4. QED
      BY <1>2, <2>2, <3>1, <3>2, <3>3
  <2>6. /\ \A i \in 1 .. Len(frames) : Base(frs[i]) = Base(frames[i])
        /\ \A i \in 1 .. Len(frames) : \A u : Owns(frs[i], u) <=> Owns(frames[i], u)
        /\ Placed(frs) /\ Disjoint(frs) /\ Intact(frs) /\ Resolved(frs)
    BY <2>2, <2>5, SameScopes
  <2>7. \A i \in 1 .. Len(frs) : at >= Base(frs[i])
    <3>1. at >= Base(Top)
      BY <2>2, <2>3, <2>4
    <3>2. \A i \in 1 .. Len(frames) : Base(frames[i]) <= Base(Top)
      BY <2>4, TopHighest
    <3>3. QED
      BY <1>1, <2>2, <2>4, <2>6, <3>1, <3>2
  <2>8. \A u \in code.ups : \E j \in 1 .. Len(frs) : Owns(frs[j], u)
    <3>1. \A u \in code.ups : \E j \in 1 .. Len(frames) : Owns(frames[j], u)
      BY <2>3, CodeOwned
    <3>2. QED
      BY <2>2, <2>6, <3>1
  <2>9. QED
    BY <1>1, <1>6, <2>1, <2>2, <2>3, <2>6, <2>7, <2>8, EnterScoped
<1>7. ASSUME NEW nargs \in Nat, NEW code \in Code,
             NEW use \in {"loop", "handler", "cleanup-ok", "cleanup-Error", "cleanup-host"},
             Recalls(nargs, code, use), ~ Stops
      PROVE  Scoped'
  <2>1. use \in Uses
    BY DEF Uses
  <2>2. /\ ctl \in Outcomes /\ Innermost.use # "main"
        /\ Enter(sp, frames, DropLast(go), nargs, code, use, Innermost.caller)
        /\ code \in closures /\ Callable(code)
    BY <1>7 DEF Recalls
  <2>3. DropLast(go) \in Seq(GoCall) /\ Innermost.caller \in 0 .. MaxActivations
    BY <2>2, OuterCalls
  <2>4. \A i \in 1 .. Len(frames) : sp >= Base(frames[i])
    BY <1>3, <2>2, GoesOn DEF Above
  <2>5. \A u \in code.ups : \E j \in 1 .. Len(frames) : Owns(frames[j], u)
    BY <2>2, CodeOwned
  <2>6. QED
    BY <1>1, <1>3, <1>7, <2>1, <2>2, <2>3, <2>4, <2>5, EnterScoped
<1>8. ASSUME NEW n \in {0, 1}, Leaves(n)
      PROVE  Scoped'
  <2>1. CASE ctl' = "panic" /\ UNCHANGED <<stack, sp, frames, go, closures, next>>
    BY <1>3, <2>1 DEF Scoped, Placed, Disjoint, Intact, Resolved, Above, Owns, Base, Ended
  <2>2. CASE UNCHANGED <<go, closures, next>> /\ frames' = <<>>
    <3>1. Len(frames') = 0
      BY <2>2
    <3>2. QED
      BY <1>3, <2>2, <3>1 DEF Scoped, Placed, Disjoint, Intact, Resolved, Above, Owns, Base
  <2>3. CASE /\ Len(frames) > 1 /\ Len(frames') = Len(frames) - 1
             /\ \A i \in 1 .. Len(frames) - 1 : frames'[i] = frames[i]
             /\ UNCHANGED <<go, closures, next>>
             /\ ctl' = "step" /\ sp' = Top.bp + 1 /\ stack' = [stack EXCEPT ![Top.bp] = 0]
    <3>1. /\ \A i \in 1 .. Len(frames') : frames'[i] = frames[i] /\ i \in 1 .. Len(frames)
          /\ frames # <<>> /\ Executing /\ ctl \notin Ended /\ Top.bp \in Nat /\ Base(Top) \in Nat
          /\ Len(frames) \in 1 .. Len(frames)
      <4>1. Len(frames) \in 1 .. Len(frames) /\ Executing /\ ctl \notin Ended /\ frames # <<>>
        BY <1>1, <1>8, <2>3, ExecutingFacts, GoesOn DEF Leaves
      <4>2. \A i \in 1 .. Len(frames') : frames'[i] = frames[i] /\ i \in 1 .. Len(frames)
        BY <1>1, <2>3
      <4>3. QED
        BY <1>1, <1>2, <4>1, <4>2
    <3>2. Placed(frames)'
      <4> SUFFICES ASSUME NEW i \in 1 .. Len(frames')
                   PROVE  /\ frames'[i].locals <= frames'[i].cells /\ frames'[i].uid < next
                          /\ frames'[i].depth >= 0
                          /\ \A u \in frames'[i].ups : \E j \in 1 .. i - 1 : Owns(frames'[j], u)
        BY <2>3 DEF Placed, Owns, Base
      <4>1. 1 .. i - 1 \subseteq 1 .. Len(frames')
        BY <1>1, <2>3
      <4>2. QED
        BY <1>3, <3>1, <4>1 DEF Placed
    <3>3. Disjoint(frames)'
      BY <1>3, <3>1 DEF Disjoint, Base
    <3>4. Intact(frames)'
      <4>1. \A i \in 1 .. Len(frames) - 1 : Top.bp \notin frames[i].bp .. Base(frames[i]) - 1
        <5>1. \A i \in 1 .. Len(frames) - 1 : Base(frames[i]) <= Top.bp /\ i \in 1 .. Len(frames)
          BY <1>1, <3>1, TopHighest
        <5>2. ASSUME NEW b \in Nat, NEW a \in Nat, b <= Top.bp
              PROVE  Top.bp \notin a .. b - 1
          BY <3>1, <5>2
        <5>3. QED
          BY <1>1, <5>1, <5>2
      <4>2. ASSUME NEW i \in 1 .. Len(frames) - 1, NEW x \in frames[i].bp .. Base(frames[i]) - 1
            PROVE  stack'[x] = frames[i].uid
        <5>1. /\ i \in 1 .. Len(frames)
              /\ x # Top.bp
          <6>1. i \in 1 .. Len(frames)
            BY <1>1, <4>2
          <6>2. Top.bp \notin frames[i].bp .. Base(frames[i]) - 1
            BY <4>1, <4>2
          <6>3. QED
            BY <4>2, <6>1, <6>2
        <5>2. /\ frames[i].bp \in Nat /\ Base(frames[i]) \in Nat /\ sp <= MaxStack
              /\ sp >= Base(frames[i])
          BY <1>1, <1>3, <3>1, <5>1, StateTyped DEF Above
        <5>3. x \in Slots
          BY <1>1, <5>2, SizesAssumption DEF Slots
        <5>4. stack[x] = frames[i].uid
          BY <1>3, <5>1 DEF Intact
        <5>5. stack \in [Slots -> 0 .. MaxActivations]
          BY DEF Inv, TypeOK
        <5>6. QED
          BY <2>3, <5>1, <5>3, <5>4, <5>5
      <4>3. QED
        BY <2>3, <3>1, <4>2 DEF Intact, Base
    <3>5. Resolved(frames)'
      BY <1>3, <2>3, <3>1 DEF Resolved, Owns, Base
    <3>6. Above(frames)'
      <4>1. \A i \in 1 .. Len(frames) - 1 : Top.bp + 1 >= Base(frames[i]) + 1
        <5>1. \A i \in 1 .. Len(frames) - 1 : Base(frames[i]) <= Top.bp /\ i \in 1 .. Len(frames)
          BY <1>1, <3>1, TopHighest
        <5>2. QED
          BY <1>1, <3>1, <5>1
      <4>2. \A i \in 1 .. Len(frames') :
              sp' >= Base(frames'[i]) /\ sp' >= Base(frames'[i]) + 1
        <5>1. \A i \in 1 .. Len(frames') : Base(frames[i]) \in Nat /\ i \in 1 .. Len(frames) - 1
          BY <1>1, <2>3, <3>1
        <5>2. QED
          BY <2>3, <3>1, <4>1, <5>1
      <4>3. QED
        BY <4>2 DEF Above, Base
    <3>7. QED
      BY <3>2, <3>3, <3>4, <3>5, <3>6 DEF Scoped
  <2>4. QED
    BY <1>8, <2>1, <2>2, <2>3, LeavesFacts
<1>9. ASSUME LeaveLoop
      PROVE  Scoped'
  <2>1. /\ ctl = "step" /\ Len(frames) <= Innermost.saved /\ ctl' = "ok"
        /\ sp' = sp \/ sp' = sp - 1
        /\ UNCHANGED <<stack, frames, go, closures, next>>
    BY <1>9 DEF LeaveLoop
  <2>2. \A i \in 1 .. Len(frames) : sp' >= Base(frames[i])
    <3>1. \A i \in 1 .. Len(frames) : sp >= Base(frames[i]) + 1
      BY <1>3, <2>1 DEF Above
    <3>2. QED
      BY <1>1, <2>1, <3>1
  <2>3. Above(frames)'
    BY <2>1, <2>2 DEF Above, Base
  <2>4. Placed(frames)' /\ Disjoint(frames)' /\ Intact(frames)' /\ Resolved(frames)'
    BY <1>3, <2>1 DEF Placed, Disjoint, Intact, Resolved, Owns, Base
  <2>5. QED
    BY <2>3, <2>4 DEF Scoped
<1>10. ASSUME Deliver, ~ Overflows(sp + 1)
       PROVE  Scoped'
  <2>1. /\ ctl \in Outcomes /\ stack' = [stack EXCEPT ![sp] = 0] /\ sp' = sp + 1
        /\ ctl' = "step" /\ UNCHANGED <<frames, closures, next>>
    BY <1>10 DEF Deliver, Outcomes
  <2>2. ctl \notin Ended /\ \A i \in 1 .. Len(frames) : sp >= Base(frames[i])
    BY <1>3, <2>1, GoesOn DEF Above
  <2>3. Above(frames)'
    <3>1. \A i \in 1 .. Len(frames) : sp' >= Base(frames[i]) /\ sp' >= Base(frames[i]) + 1
      BY <1>1, <2>1, <2>2
    <3>2. QED
      BY <2>1, <3>1 DEF Above, Base
  <2>4. Intact(frames)'
    <3>1. \A i \in 1 .. Len(frames) : sp \notin frames[i].bp .. Base(frames[i]) - 1
      BY <1>1, <2>2
    <3>2. \A i \in 1 .. Len(frames) :
            \A x \in frames[i].bp .. Base(frames[i]) - 1 : stack'[x] = frames[i].uid
      BY <2>1, <2>2, <3>1, WriteKeeps
    <3>3. QED
      BY <2>1, <3>2 DEF Intact, Base
  <2>5. Placed(frames)' /\ Disjoint(frames)' /\ Resolved(frames)'
    BY <1>3, <2>1 DEF Placed, Disjoint, Resolved, Owns, Base
  <2>6. QED
    BY <2>3, <2>4, <2>5 DEF Scoped
<1>11. ASSUME Reraise
       PROVE  Scoped'
  <2>1. ctl \in Outcomes /\ ctl' # "step" /\ UNCHANGED <<stack, sp, frames, closures, next>>
    BY <1>11 DEF Reraise, Outcomes, Failures
  <2>2. \A i \in 1 .. Len(frames) : sp >= Base(frames[i])
    BY <1>3, <2>1, GoesOn DEF Above
  <2>3. Above(frames)'
    BY <2>1, <2>2 DEF Above, Base
  <2>4. Placed(frames)' /\ Disjoint(frames)' /\ Intact(frames)' /\ Resolved(frames)'
    BY <1>3, <2>1 DEF Placed, Disjoint, Intact, Resolved, Owns, Base
  <2>5. QED
    BY <2>3, <2>4 DEF Scoped
<1>12. QED
  BY <1>4, <1>5, <1>6, <1>7, <1>8, <1>9, <1>10, <1>11, StepShapes

(* At the start there is one frame, and its locals fill the stack.          *)
LEMMA ScopedInit == Init => Scoped
<1> SUFFICES ASSUME Init PROVE Scoped
  OBVIOUS
<1>1. PICK lc \in 0 .. MaxLocals :
        /\ stack = [s \in Slots |-> IF s < lc THEN 1 ELSE 0]
        /\ sp = lc /\ frames = <<MainFrame(1, lc)>>
  BY DEF Init
<1>2. lc \in Nat /\ lc <= MaxStack /\ MaxStack \in Nat
  BY SizesAssumption
<1>3. /\ Len(frames) = 1 /\ frames[1].uid = 1 /\ frames[1].bp = 0 /\ frames[1].locals = lc
      /\ frames[1].cells = lc /\ frames[1].depth = 0 /\ frames[1].ups = {}
  BY <1>1 DEF MainFrame
<1>4. Base(frames[1]) = lc
  BY <1>2, <1>3 DEF Base
<1>5. next = 2 /\ closures = {} /\ Len(go) = 1 /\ Innermost.saved = 0
  BY DEF Init, Innermost
<1>6. Placed(frames)
  BY <1>2, <1>3, <1>5 DEF Placed
<1>7. Disjoint(frames)
  BY <1>3 DEF Disjoint
<1>8. Intact(frames)
  <2> SUFFICES ASSUME NEW s \in 0 .. lc - 1
               PROVE  stack[s] = 1
    BY <1>3, <1>4 DEF Intact
  <2>1. s \in Slots /\ s < lc
    BY <1>2 DEF Slots
  <2>2. QED
    BY <1>1, <2>1
<1>9. Resolved(frames) /\ Above(frames)
  BY <1>1, <1>2, <1>3, <1>4, <1>5 DEF Resolved, Above
<1>10. QED
  BY <1>6, <1>7, <1>8, <1>9 DEF Scoped

(* The scopes are kept apart by every step.                                 *)
LEMMA ScopedInductive == Spec => [](Nesting => Scoped)
<1> DEFINE I == Nesting => Scoped
<1>1. Inv /\ I /\ [Next]_vars => I'
  <2> SUFFICES ASSUME Inv, Scoped, [Next]_vars, Nesting
               PROVE  Scoped'
    BY SameProgram DEF Nesting
  <2>1. CASE UNCHANGED vars
    BY <2>1 DEF vars, Scoped, Placed, Disjoint, Intact, Resolved, Above, Owns, Base, Innermost
  <2>2. "runContents" \notin program /\ "escape" \notin program
    BY DEF Nesting
  <2>3. QED
    BY <2>1, <2>2, ScopedStep
<1>2. Init => I
  BY ScopedInit
<1> HIDE DEF I
<1>3. Spec => []I
  BY <1>1, <1>2, InvInductive, PTL DEF Spec
<1>4. QED
  BY <1>3 DEF I

(* No push, capture, call or return overwrites a local of an active frame   *)
(* (vm.stack[frame.bp+slot], vm.go:369-381), and every upvalue the running  *)
(* code can reach still names the variable it was captured from, although   *)
(* it is never closed (383-411, 525-544), whatever fails, in every program  *)
(* whose blocks are only called while the scope they were written in is     *)
(* active, and that runs no source file on the running VM.                  *)
THEOREM VariablesKept == Spec => []VariablesIntact
<1>1. (Nesting => Scoped) => LocalsIntact
  BY DEF Scoped, Intact, LocalsIntact
<1>2. Inv /\ (Nesting => Scoped) => UpvaluesLive
  <2> SUFFICES ASSUME Inv, Scoped, Executing, NEW u \in Top.ups
               PROVE  stack[u.slot] = u.owner
    BY DEF UpvaluesLive
  <2>1. Len(frames) \in Nat \ {0} /\ Len(frames) \in 1 .. Len(frames) /\ Top = frames[Len(frames)]
    BY ExecutingFacts DEF Top
  <2>2. PICK j \in 1 .. Len(frames) - 1 : Owns(frames[j], u)
    BY <2>1 DEF Scoped, Placed
  <2>3. j \in 1 .. Len(frames)
    BY <2>1
  <2>4. QED
    BY <2>2, <2>3 DEF Owns, Scoped, Intact
<1>3. Inv /\ (Nesting => Scoped) => VariablesIntact
  BY <1>1, <1>2 DEF VariablesIntact
<1>4. QED
  BY <1>3, ScopedInductive, InvInductive, PTL
=============================================================================
