---------------------------- MODULE QueueProofs -----------------------------
(***************************************************************************)
(* Proofs about the two implementations of the Queue interface, for any    *)
(* set of items and tasks and any capacity.                                *)
(*                                                                         *)
(* TinygoQueue, the device's: its type invariant, the absence of lost      *)
(* wake-ups, and that it implements BoundedQueue.  ChannelQueue, the       *)
(* desktop's, as the instance CQ: that it implements BoundedQueue to the   *)
(* tasks whose calls it serves in order, and that it loses no item.        *)
(***************************************************************************)
EXTENDS TinygoQueue, FunctionTheorems, FiniteSetTheorems, SequenceTheorems, TLAPS

Operations == [state : {"locking", "asleep", "woken"}, req : Requests, late : BOOLEAN]

(* Only the deadline of a call that has one can pass.                       *)
OnlyTimedAreLate(tasks) ==
  \A c \in Callers :
    tasks[c] \in Operations /\ tasks[c].late => tasks[c].req.timeout = "finite"

(* The inductive invariant.                                                 *)
Inv == TypeOK /\ SleepersBlocked /\ OnlyTimedAreLate(task)

-----------------------------------------------------------------------------
(* Sequences *)

(* What the three ways to change the list do to its type and length.        *)
LEMMA ListFacts ==
  ASSUME NEW its \in Seq(Items), NEW item \in Items
  PROVE  /\ Len(its) \in Nat
         /\ its = <<>> <=> Len(its) = 0
         /\ Append(its, item) \in Seq(Items) /\ Len(Append(its, item)) = Len(its) + 1
         /\ <<item>> \o its \in Seq(Items) /\ Len(<<item>> \o its) = Len(its) + 1
         /\ its # <<>> => /\ Head(its) \in Items
                          /\ Tail(its) \in Seq(Items)
                          /\ Len(Tail(its)) = Len(its) - 1
<1>1. Len(its) \in Nat /\ (its = <<>> <=> Len(its) = 0)
  BY EmptySeq, LenProperties
<1>2. Append(its, item) \in Seq(Items) /\ Len(Append(its, item)) = Len(its) + 1
  BY AppendProperties
<1>3. <<item>> \o its \in Seq(Items) /\ Len(<<item>> \o its) = Len(its) + 1
  <2>1. <<item>> \in Seq(Items) /\ Len(<<item>>) = 1
    OBVIOUS
  <2>2. <<item>> \o its \in Seq(Items)
    BY <2>1, ConcatProperties
  <2>3. Len(<<item>> \o its) = Len(<<item>>) + Len(its)
    BY <2>1, ConcatProperties
  <2>4. QED
    BY <1>1, <2>1, <2>2, <2>3
<1>4. its # <<>> => /\ Head(its) \in Items
                    /\ Tail(its) \in Seq(Items)
                    /\ Len(Tail(its)) = Len(its) - 1
  BY HeadTailProperties
<1>5. QED
  BY <1>1, <1>2, <1>3, <1>4

-----------------------------------------------------------------------------
(* Tasks *)

(* A task in the middle of an operation, and its request.                   *)
LEMMA OperationFacts ==
  ASSUME TypeOK, NEW c \in Callers, Waiting(c)
  PROVE  /\ task[c] \in Operations /\ task[c].req \in Requests
         /\ task[c].req.op \in Senders \cup Receivers
         /\ task[c].req.op \in Senders => task[c].req.item \in Items
BY DEF TypeOK, Tasks, Waiting, Idle, Finished, Operations, Requests, Senders, Receivers

(* An answer ends the operation of one task.                                *)
LEMMA FinishFacts ==
  ASSUME TypeOK, NEW c \in Callers, NEW answer \in Answers
  PROVE  /\ Finish(c, answer) \in [Callers -> Tasks]
         /\ \A d \in Callers :
              Finish(c, answer)[d] = IF d = c THEN Finished(answer) ELSE task[d]
         /\ Finished(answer).state = "returns"
         /\ OnlyTimedAreLate(task) => OnlyTimedAreLate(Finish(c, answer))
<1>1. /\ Finish(c, answer) \in [Callers -> Tasks]
      /\ \A d \in Callers :
           Finish(c, answer)[d] = IF d = c THEN Finished(answer) ELSE task[d]
  BY DEF TypeOK, Finish, Finished, Tasks
<1>2. Finished(answer).state = "returns" /\ Finished(answer) \notin Operations
  BY DEF Finished, Operations
<1>3. QED
  BY <1>1, <1>2 DEF OnlyTimedAreLate

(* A broadcast leaves nobody asleep and disturbs nobody else.               *)
LEMMA BroadcastFacts ==
  ASSUME NEW tasks \in [Callers -> Tasks]
  PROVE  /\ Broadcast(tasks) \in [Callers -> Tasks]
         /\ \A d \in Callers : Broadcast(tasks)[d].state # "asleep"
         /\ \A d \in Callers : CallOf(Broadcast(tasks)[d]) = CallOf(tasks[d])
         /\ OnlyTimedAreLate(tasks) => OnlyTimedAreLate(Broadcast(tasks))
<1> SUFFICES ASSUME NEW d \in Callers
             PROVE  /\ Broadcast(tasks)[d] \in Tasks
                    /\ Broadcast(tasks)[d].state # "asleep"
                    /\ CallOf(Broadcast(tasks)[d]) = CallOf(tasks[d])
                    /\ Broadcast(tasks)[d] \in Operations =>
                         /\ tasks[d] \in Operations
                         /\ Broadcast(tasks)[d].late = tasks[d].late
                         /\ Broadcast(tasks)[d].req = tasks[d].req
  BY DEF Broadcast, OnlyTimedAreLate
<1>1. CASE tasks[d].state = "asleep"
  <2>1. tasks[d] \in Operations
    BY <1>1 DEF Tasks, Idle, Finished, Operations
  <2>2. Broadcast(tasks)[d] = [tasks[d] EXCEPT !.state = "woken"]
    BY <1>1 DEF Broadcast
  <2>3. /\ Broadcast(tasks)[d] \in Operations
        /\ Broadcast(tasks)[d].state = "woken"
        /\ Broadcast(tasks)[d].req = tasks[d].req
        /\ Broadcast(tasks)[d].late = tasks[d].late
    BY <2>1, <2>2 DEF Operations
  <2>4. Broadcast(tasks)[d] \in Tasks
    BY <2>3 DEF Tasks, Operations
  <2>5. CallOf(Broadcast(tasks)[d]) = CallOf(tasks[d])
    BY <1>1, <2>3 DEF CallOf
  <2>6. QED
    BY <2>1, <2>3, <2>4, <2>5
<1>2. CASE tasks[d].state # "asleep"
  BY <1>2 DEF Broadcast
<1>3. QED
  BY <1>1, <1>2

(* The answers the queue gives are answers.                                 *)
LEMMA AnswerFacts ==
  /\ Failed \in Answers /\ [ok |-> TRUE, item |-> NoItem] \in Answers
  /\ \A item \in Items : [ok |-> TRUE, item |-> item] \in Answers
BY DEF Failed, Answers

-----------------------------------------------------------------------------
(* The invariant *)

(* An empty queue without tasks satisfies the invariant. *)
LEMMA InitInv == Init => Inv
<1> SUFFICES ASSUME Init
             PROVE  Inv
  OBVIOUS
<1>1. items \in Seq(Items) /\ Len(items) = 0
  BY EmptySeq DEF Init
<1>2. \A c \in Callers : task[c] = Idle /\ task[c].state = "idle"
  BY DEF Init, Idle
<1>3. task \in [Callers -> Tasks] /\ deleted \in BOOLEAN
  BY <1>2 DEF Init, Tasks
<1>4. Len(items) <= Capacity
  BY <1>1, QueueAssumption
<1>5. SleepersBlocked
  BY <1>1, <1>2, <1>3, <1>4 DEF SleepersBlocked, TypeOK
<1>6. OnlyTimedAreLate(task)
  <2>1. Idle \notin Operations
    BY DEF Idle, Operations
  <2>2. QED
    BY <1>2, <2>1 DEF OnlyTimedAreLate
<1>7. QED
  BY <1>1, <1>3, <1>4, <1>5, <1>6 DEF Inv, TypeOK

(* Every step keeps the list within its capacity, and wakes every sleeper   *)
(* whose condition it changes.                                              *)
LEMMA NextInv ==
  ASSUME Inv, [Next]_vars
  PROVE  Inv'
<1> USE QueueAssumption
<1>1. /\ items \in Seq(Items) /\ Len(items) \in Nat /\ Len(items) <= Capacity
      /\ deleted \in BOOLEAN /\ task \in [Callers -> Tasks]
      /\ OnlyTimedAreLate(task)
  BY LenProperties DEF Inv, TypeOK
<1>2. ASSUME NEW c \in Callers, NEW req \in Requests, Start(c, req)
      PROVE  Inv'
  <2>1. /\ InOperation("locking", req, FALSE) \in Tasks
        /\ ~ InOperation("locking", req, FALSE).late
        /\ InOperation("locking", req, FALSE).state = "locking"
    BY DEF InOperation, Tasks
  <2>2. /\ task' = [task EXCEPT ![c] = InOperation("locking", req, FALSE)]
        /\ UNCHANGED <<items, deleted>>
    BY <1>2 DEF Start
  <2>3. QED
    BY <1>1, <2>1, <2>2 DEF Inv, TypeOK, SleepersBlocked, MustWait, OnlyTimedAreLate
<1>3. ASSUME NEW c \in Callers, NEW answer \in Answers,
             task' = Finish(c, answer), UNCHANGED <<items, deleted>>
      PROVE  Inv'
  BY <1>1, <1>3, FinishFacts DEF Inv, TypeOK, SleepersBlocked, MustWait
<1>4. ASSUME NEW tasks \in [Callers -> Tasks], OnlyTimedAreLate(tasks),
             task' = Broadcast(tasks),
             items' \in Seq(Items), Len(items') <= Capacity, deleted' \in BOOLEAN
      PROVE  Inv'
  BY <1>4, BroadcastFacts DEF Inv, TypeOK, SleepersBlocked
<1>5. ASSUME NEW c \in Callers, ReturnFalse(c)
      PROVE  Inv'
  BY <1>3, <1>5, AnswerFacts DEF ReturnFalse
<1>6. ASSUME NEW c \in Callers, Sleep(c)
      PROVE  Inv'
  <2>1. /\ ~ deleted /\ MustWait(task[c].req) /\ Waiting(c)
        /\ task' = [task EXCEPT ![c].state = "asleep"]
        /\ UNCHANGED <<items, deleted>>
    BY <1>6 DEF Sleep, HasMutex, Waiting
  <2>2. task[c] \in Operations
    BY <2>1, OperationFacts DEF Inv
  <2>3. /\ [task[c] EXCEPT !.state = "asleep"] \in Operations
        /\ [task[c] EXCEPT !.state = "asleep"].req = task[c].req
        /\ [task[c] EXCEPT !.state = "asleep"].late = task[c].late
    BY <2>2 DEF Operations
  <2>4. task' = [task EXCEPT ![c] = [task[c] EXCEPT !.state = "asleep"]]
    BY <2>1
  <2>5. /\ task' \in [Callers -> Tasks]
        /\ task'[c].req = task[c].req /\ task'[c].late = task[c].late
        /\ \A d \in Callers \ {c} : task'[d] = task[d]
    BY <1>1, <2>3, <2>4 DEF Tasks, Operations
  <2>6. QED
    BY <1>1, <2>1, <2>2, <2>5
    DEF Inv, TypeOK, SleepersBlocked, MustWait, OnlyTimedAreLate
<1>7. ASSUME NEW c \in Callers, Push(c)
      PROVE  Inv'
  <2>1. /\ task[c].req.op \in Senders /\ ~ MustWait(task[c].req) /\ Waiting(c)
        /\ items' = IF task[c].req.op = "SendToFront"
                    THEN <<task[c].req.item>> \o items
                    ELSE Append(items, task[c].req.item)
        /\ task' = Broadcast(Finish(c, [ok |-> TRUE, item |-> NoItem]))
        /\ UNCHANGED deleted
    BY <1>7 DEF Push, HasMutex, Waiting
  <2>2. task[c].req.item \in Items
    BY <2>1, OperationFacts DEF Inv
  <2>3. items' \in Seq(Items) /\ Len(items') = Len(items) + 1
    BY <1>1, <2>1, <2>2, ListFacts
  <2>4. Len(items') <= Capacity
    BY <1>1, <2>1, <2>3 DEF MustWait
  <2>5. /\ Finish(c, [ok |-> TRUE, item |-> NoItem]) \in [Callers -> Tasks]
        /\ OnlyTimedAreLate(Finish(c, [ok |-> TRUE, item |-> NoItem]))
    BY AnswerFacts, FinishFacts DEF Inv
  <2>6. QED
    BY <1>1, <1>4, <2>1, <2>3, <2>4, <2>5
<1>8. ASSUME NEW c \in Callers, Pop(c)
      PROVE  Inv'
  <2>1. /\ task[c].req.op = "Receive" /\ ~ MustWait(task[c].req)
        /\ items' = Tail(items)
        /\ task' = Broadcast(Finish(c, [ok |-> TRUE, item |-> Head(items)]))
        /\ UNCHANGED deleted
    BY <1>8 DEF Pop, Remove
  <2>2. items # <<>>
    BY <1>1, <2>1, EmptySeq DEF MustWait, Senders
  <2>3. /\ Head(items) \in Items /\ items' \in Seq(Items)
        /\ Len(items') = Len(items) - 1
    BY <1>1, <2>1, <2>2, HeadTailProperties
  <2>4. Len(items') <= Capacity
    <3>1. \A m, n \in Nat : m <= n => m - 1 <= n
      OBVIOUS
    <3>2. QED
      BY <1>1, <2>3, <3>1
  <2>5. /\ Finish(c, [ok |-> TRUE, item |-> Head(items)]) \in [Callers -> Tasks]
        /\ OnlyTimedAreLate(Finish(c, [ok |-> TRUE, item |-> Head(items)]))
    BY <2>3, AnswerFacts, FinishFacts DEF Inv
  <2>6. QED
    BY <1>1, <1>4, <2>1, <2>3, <2>4, <2>5
<1>9. ASSUME NEW c \in Callers, Look(c)
      PROVE  Inv'
  <2>1. /\ task[c].req.op = "Peek" /\ ~ MustWait(task[c].req)
        /\ task' = Finish(c, [ok |-> TRUE, item |-> Head(items)])
        /\ UNCHANGED <<items, deleted>>
    BY <1>9 DEF Look
  <2>2. items # <<>>
    BY <1>1, <2>1, EmptySeq DEF MustWait, Senders
  <2>3. Head(items) \in Items
    BY <1>1, <2>2, HeadTailProperties
  <2>4. QED
    BY <1>3, <2>1, <2>3, AnswerFacts
<1>10. ASSUME NEW c \in Callers, TimePasses(c)
       PROVE  Inv'
  <2>1. /\ Waiting(c) /\ task' = [task EXCEPT ![c].late = TRUE]
        /\ task[c].req.timeout = "finite"
        /\ UNCHANGED <<items, deleted>>
    BY <1>10 DEF TimePasses, Waiting
  <2>2. task[c] \in Operations
    BY <2>1, OperationFacts DEF Inv
  <2>3. /\ [task[c] EXCEPT !.late = TRUE] \in Operations
        /\ [task[c] EXCEPT !.late = TRUE].req = task[c].req
        /\ [task[c] EXCEPT !.late = TRUE].state = task[c].state
    BY <2>2 DEF Operations
  <2>4. /\ task' \in [Callers -> Tasks]
        /\ \A d \in Callers : task'[d].state = task[d].state
        /\ \A d \in Callers : Waiting(d) => task'[d].req = task[d].req
        /\ \A d \in Callers \ {c} : task'[d] = task[d]
    BY <1>1, <2>1, <2>3 DEF Tasks, Operations
  <2>5. OnlyTimedAreLate(task')
    BY <1>1, <2>1, <2>4 DEF OnlyTimedAreLate
  <2>6. QED
    BY <1>1, <2>1, <2>4, <2>5 DEF Inv, TypeOK, SleepersBlocked, MustWait, Waiting
<1>11. ASSUME NEW c \in Callers, Return(c)
       PROVE  Inv'
  <2>1. task' = [task EXCEPT ![c] = Idle] /\ UNCHANGED <<items, deleted>>
    BY <1>11 DEF Return
  <2>2. Idle \in Tasks /\ Idle.state = "idle" /\ Idle \notin Operations
    BY DEF Tasks, Idle, Operations
  <2>3. QED
    BY <1>1, <2>1, <2>2
    DEF Inv, TypeOK, SleepersBlocked, MustWait, OnlyTimedAreLate
<1>12. CASE Delete
  BY <1>1, <1>4, <1>12 DEF Delete, WakeOnDelete
<1>13. CASE UNCHANGED vars
  BY <1>13 DEF vars, Inv, TypeOK, SleepersBlocked, MustWait, OnlyTimedAreLate
<1>14. QED
  BY <1>2, <1>5, <1>6, <1>7, <1>8, <1>9, <1>10, <1>11, <1>12, <1>13
  DEF Next, Proceed

(* Inv is an invariant of the queue. *)
THEOREM InvInductive == Spec => []Inv
  BY InitInv, NextInv, PTL DEF Spec

(* No task sleeps on while its operation could proceed or must fail: every  *)
(* change that concerns a sleeper is followed by a broadcast.               *)
THEOREM NoLostWakeup == Spec => []SleepersBlocked
<1>1. Inv => SleepersBlocked
  BY DEF Inv
<1>2. QED
  BY InvInductive, <1>1, PTL

-----------------------------------------------------------------------------
(* Refinement *)

Call == [c \in Callers |-> CallOf(task[c])]

(* The instance speaks of the same calls.                                   *)
LEMMA SameNames ==
  /\ BQ!Idle = Idle /\ BQ!Failed = Failed /\ BQ!Requests = Requests
  /\ BQ!Senders = Senders /\ BQ!Receivers = Receivers
  /\ \A answer : BQ!Finished(answer) = Finished(answer)
BY DEF BQ!Idle, Idle, BQ!Failed, Failed, BQ!Finished, Finished, BQ!Senders,
   Senders, BQ!Receivers, Receivers, BQ!Requests, Requests, BQ!Timeouts, Timeouts

(* The queue starts as the interface says.                                  *)
LEMMA InitRefined == Init => BQ!Init
<1>1. CallOf(Idle) = Idle
  BY DEF CallOf, Idle
<1>2. QED
  BY <1>1, SameNames DEF Init, BQ!Init

(* An operation that ends turns a pending call into its answer.             *)
LEMMA FinishRefined ==
  ASSUME Inv, NEW c \in Callers, HasMutex(c), NEW answer \in Answers,
         \/ task' = Finish(c, answer)
         \/ task' = Broadcast(Finish(c, answer))
  PROVE  /\ Call[c].state = "pending" /\ Call[c].req = task[c].req
         /\ Call' = [Call EXCEPT ![c] = Finished(answer)]
<1>1. /\ Finish(c, answer) \in [Callers -> Tasks]
      /\ \A d \in Callers :
           Finish(c, answer)[d] = IF d = c THEN Finished(answer) ELSE task[d]
  BY FinishFacts DEF Inv
<1>2. \A d \in Callers : CallOf(task'[d]) = CallOf(Finish(c, answer)[d])
  BY <1>1, BroadcastFacts
<1>3. CallOf(Finished(answer)) = Finished(answer)
  BY DEF CallOf, Finished
<1>4. \A d \in Callers :
        CallOf(task'[d]) = IF d = c THEN Finished(answer) ELSE CallOf(task[d])
  BY <1>1, <1>2, <1>3
<1>5. Call' = [d \in Callers |-> CallOf(task'[d])]
  BY DEF Call
<1>6. Call' = [Call EXCEPT ![c] = Finished(answer)]
  BY <1>4, <1>5 DEF Call
<1>7. Call[c] = [state |-> "pending", req |-> task[c].req]
  BY DEF Call, CallOf, HasMutex
<1>8. QED
  BY <1>6, <1>7

(* Every step of the list under its mutex is a step of the interface's      *)
(* queue, or is not visible there: sleeping, waking, and passing time.      *)
LEMMA NextRefined ==
  ASSUME Inv, [Next]_vars
  PROVE  [BQ!Next]_(BQ!vars)
<1> USE QueueAssumption
<1>1. /\ items \in Seq(Items) /\ Len(items) \in Nat
      /\ items = <<>> <=> Len(items) = 0
      /\ task \in [Callers -> Tasks]
  BY LenProperties, EmptySeq DEF Inv, TypeOK
<1>2. /\ BQ!vars = <<items, deleted, Call>>
      /\ BQ!Pending(0) = [state |-> "pending", req |-> 0]
  BY DEF BQ!vars, BQ!Pending, Call
<1>3. ASSUME UNCHANGED <<items, deleted>>,
             \A d \in Callers : CallOf(task'[d]) = CallOf(task[d])
      PROVE  UNCHANGED BQ!vars
  <2>1. Call' = [d \in Callers |-> CallOf(task'[d])]
    BY DEF Call
  <2>2. Call' = Call
    BY <1>3, <2>1 DEF Call
  <2>3. QED
    BY <1>3, <2>2 DEF BQ!vars, Call
<1>4. ASSUME NEW c \in Callers, NEW req \in Requests, Start(c, req)
      PROVE  BQ!Invoke(c)
  <2>1. /\ task[c] = Idle
        /\ task' = [task EXCEPT ![c] = InOperation("locking", req, FALSE)]
        /\ UNCHANGED <<items, deleted>>
    BY <1>4 DEF Start
  <2>2. CallOf(InOperation("locking", req, FALSE)) = BQ!Pending(req)
    BY DEF CallOf, InOperation, BQ!Pending
  <2>3. Call[c] = Idle
    BY <2>1 DEF Call, CallOf, Idle
  <2>4. Call' = [d \in Callers |-> CallOf(task'[d])]
    BY DEF Call
  <2>5. Call' = [Call EXCEPT ![c] = BQ!Pending(req)]
    BY <1>1, <2>1, <2>2, <2>4 DEF Call
  <2>6. QED
    BY <2>1, <2>3, <2>5, SameNames DEF BQ!Invoke, Call
<1>5. ASSUME NEW c \in Callers, ReturnFalse(c)
      PROVE  BQ!GiveUp(c)
  <2>1. /\ HasMutex(c) /\ Waiting(c)
        /\ deleted \/ (MustWait(task[c].req) /\ ~ MayWait(c))
        /\ task' = Finish(c, Failed)
        /\ UNCHANGED <<items, deleted>>
    BY <1>5 DEF ReturnFalse, HasMutex, Waiting
  <2>2. /\ Call[c].state = "pending" /\ Call[c].req = task[c].req
        /\ Call' = [Call EXCEPT ![c] = Finished(Failed)]
    BY <2>1, AnswerFacts, FinishRefined
  <2>3. ~ deleted => /\ task[c].req.timeout # "forever"
                     /\ IF task[c].req.op \in Senders
                        THEN Len(items) >= Capacity ELSE items = <<>>
    <3>1. task[c] \in Operations
      BY <2>1, OperationFacts DEF Inv
    <3>2. task[c].late => task[c].req.timeout # "forever"
      BY <2>1, <3>1 DEF Inv, OnlyTimedAreLate
    <3>3. QED
      BY <1>1, <2>1, <3>2 DEF MustWait, MayWait
  <2>4. \/ deleted
        \/ /\ Call[c].req.timeout # "forever"
           /\ IF Call[c].req.op \in BQ!Senders
              THEN Len(items) >= Capacity ELSE items = <<>>
    BY <2>2, <2>3, SameNames
  <2>5. Call' = [Call EXCEPT ![c] = BQ!Finished(BQ!Failed)]
    BY <2>2, SameNames
  <2>6. QED
    BY <2>1, <2>2, <2>4, <2>5 DEF BQ!GiveUp, Call
<1>6. ASSUME NEW c \in Callers, Sleep(c)
      PROVE  UNCHANGED BQ!vars
  <2>1. /\ Waiting(c) /\ task' = [task EXCEPT ![c].state = "asleep"]
        /\ UNCHANGED <<items, deleted>>
    BY <1>6 DEF Sleep, HasMutex, Waiting
  <2>2. task[c] \in Operations
    BY <2>1, OperationFacts DEF Inv
  <2>3. \A d \in Callers : CallOf(task'[d]) = CallOf(task[d])
    BY <1>1, <2>1, <2>2 DEF CallOf, Operations
  <2>4. QED
    BY <1>3, <2>1, <2>3
<1>7. ASSUME NEW c \in Callers, Push(c)
      PROVE  BQ!Insert(c)
  <2>1. /\ HasMutex(c) /\ Waiting(c) /\ task[c].req.op \in Senders
        /\ ~ deleted /\ ~ MustWait(task[c].req)
        /\ items' = IF task[c].req.op = "SendToFront"
                    THEN <<task[c].req.item>> \o items
                    ELSE Append(items, task[c].req.item)
        /\ task' = Broadcast(Finish(c, [ok |-> TRUE, item |-> NoItem]))
        /\ UNCHANGED deleted
    BY <1>7 DEF Push, HasMutex, Waiting
  <2>2. /\ Call[c].state = "pending" /\ Call[c].req = task[c].req
        /\ Call' = [Call EXCEPT ![c] = Finished([ok |-> TRUE, item |-> NoItem])]
    BY <2>1, AnswerFacts, FinishRefined
  <2>3. Len(items) < Capacity
    BY <1>1, <2>1 DEF MustWait
  <2>4. items' = IF task[c].req.op = "Send" THEN Append(items, task[c].req.item)
                                            ELSE <<task[c].req.item>> \o items
    BY <2>1 DEF Senders
  <2>5. QED
    BY <2>1, <2>2, <2>3, <2>4, SameNames DEF BQ!Insert, Call
<1>8. ASSUME NEW c \in Callers, Pop(c) \/ Look(c)
      PROVE  BQ!Obtain(c)
  <2>1. /\ HasMutex(c) /\ Waiting(c) /\ task[c].req.op \in {"Receive", "Peek"}
        /\ ~ deleted /\ ~ MustWait(task[c].req)
        /\ items' = IF task[c].req.op = "Receive" THEN Tail(items) ELSE items
        /\ \/ task' = Broadcast(Finish(c, [ok |-> TRUE, item |-> Head(items)]))
           \/ task' = Finish(c, [ok |-> TRUE, item |-> Head(items)])
        /\ UNCHANGED deleted
    BY <1>8 DEF Pop, Look, Remove, HasMutex, Waiting
  <2>2. items # <<>>
    BY <1>1, <2>1 DEF MustWait, Senders
  <2>3. [ok |-> TRUE, item |-> Head(items)] \in Answers
    BY <1>1, <2>2, HeadTailProperties, AnswerFacts
  <2>4. /\ Call[c].state = "pending" /\ Call[c].req = task[c].req
        /\ Call' = [Call EXCEPT
                       ![c] = Finished([ok |-> TRUE, item |-> Head(items)])]
    BY <2>1, <2>3, FinishRefined
  <2>5. task[c].req.op \in Receivers
    BY <2>1 DEF Receivers
  <2>6. QED
    BY <2>1, <2>2, <2>4, <2>5, SameNames DEF BQ!Obtain, Call
<1>9. ASSUME NEW c \in Callers, TimePasses(c)
      PROVE  UNCHANGED BQ!vars
  <2>1. /\ Waiting(c) /\ task' = [task EXCEPT ![c].late = TRUE]
        /\ UNCHANGED <<items, deleted>>
    BY <1>9 DEF TimePasses, Waiting
  <2>2. task[c] \in Operations
    BY <2>1, OperationFacts DEF Inv
  <2>3. \A d \in Callers : CallOf(task'[d]) = CallOf(task[d])
    BY <1>1, <2>1, <2>2 DEF CallOf, Operations
  <2>4. QED
    BY <1>3, <2>1, <2>3
<1>10. ASSUME NEW c \in Callers, Return(c)
       PROVE  BQ!Return(c)
  <2>1. /\ task[c].state = "returns" /\ task' = [task EXCEPT ![c] = Idle]
        /\ UNCHANGED <<items, deleted>>
    BY <1>10 DEF Return
  <2>2. CallOf(Idle) = Idle /\ Call[c].state = "returns"
    BY <2>1 DEF Call, CallOf, Idle
  <2>3. Call' = [d \in Callers |-> CallOf(task'[d])]
    BY DEF Call
  <2>4. Call' = [Call EXCEPT ![c] = Idle]
    BY <1>1, <2>1, <2>2, <2>3 DEF Call
  <2>5. QED
    BY <2>1, <2>2, <2>4, SameNames DEF BQ!Return, Call
<1>11. CASE Delete
  <2>1. \A d \in Callers : CallOf(task'[d]) = CallOf(task[d])
    BY <1>1, <1>11, BroadcastFacts DEF Delete, WakeOnDelete
  <2>2. Call' = [d \in Callers |-> CallOf(task'[d])]
    BY DEF Call
  <2>3. Call' = Call
    BY <2>1, <2>2 DEF Call
  <2>4. BQ!Delete
    BY <1>11, <2>3 DEF Delete, BQ!Delete, Call
  <2>5. QED
    BY <2>4 DEF BQ!Next
<1>12. CASE UNCHANGED vars
  BY <1>3, <1>12 DEF vars
<1>13. QED
  BY <1>4, <1>5, <1>6, <1>7, <1>8, <1>9, <1>10, <1>11, <1>12
  DEF Next, Proceed, BQ!Next

(* Whatever the tasks do, and however many, the list under its mutex and    *)
(* condition variable is the queue the interface promises.                  *)
THEOREM Implements == Spec => ImplementsBoundedQueue
<1>1. Inv /\ [Next]_vars => [BQ!Next]_(BQ!vars)
  BY NextRefined
<1>2. QED
  BY InitRefined, <1>1, InvInductive, PTL DEF Spec, ImplementsBoundedQueue, BQ!Spec

-----------------------------------------------------------------------------
(* The desktop's queue *)

CONSTANT FewItems
VARIABLES plain, size, crashed

(* The other implementation of the interface, over variables of its own     *)
(* where it has more of them.                                               *)
CQ == INSTANCE ChannelQueue

(* Where a task in the middle of an operation is.                           *)
Phases == {"entering", "selecting", "parked"}

(* Only Peek puts an item back, and only a closed channel gives it nil.     *)
PutsBack(c) ==
  task[c].state = "restoring" =>
    task[c].req.op = "Peek" /\ (task[c].item = NoItem => deleted)

(* The inductive invariant of the desktop's queue.                          *)
DesktopInv ==
  /\ CQ!TypeOK
  /\ plain => ~ deleted /\ size = Capacity
  /\ CQ!Parked(Receivers) # {} => items = <<>>
  /\ \A c \in Callers : PutsBack(c)

(* The two implementations and their interface speak of the same calls.     *)
LEMMA DesktopNames ==
  /\ CQ!Idle = Idle /\ CQ!Failed = Failed /\ CQ!Requests = Requests /\ CQ!Answers = Answers
  /\ CQ!Senders = Senders /\ CQ!Receivers = Receivers
  /\ \A answer : CQ!Finished(answer) = Finished(answer)
  /\ CQ!BQ!Idle = Idle /\ CQ!BQ!Failed = Failed /\ CQ!BQ!Requests = Requests
  /\ CQ!BQ!Senders = Senders /\ CQ!BQ!Receivers = Receivers
  /\ \A answer : CQ!BQ!Finished(answer) = Finished(answer)
<1>1. /\ CQ!Idle = Idle /\ CQ!Failed = Failed /\ CQ!Senders = Senders
      /\ CQ!Receivers = Receivers /\ \A answer : CQ!Finished(answer) = Finished(answer)
  BY DEF CQ!Idle, Idle, CQ!Failed, Failed, CQ!Senders, Senders, CQ!Receivers, Receivers,
     CQ!Finished, Finished
<1>2. CQ!Requests = Requests /\ CQ!Answers = Answers
  BY DEF CQ!Requests, Requests, CQ!Answers, Answers, CQ!Senders, Senders, CQ!Receivers,
     Receivers, CQ!Timeouts, Timeouts
<1>3. /\ CQ!BQ!Idle = Idle /\ CQ!BQ!Failed = Failed /\ CQ!BQ!Senders = Senders
      /\ CQ!BQ!Receivers = Receivers /\ \A answer : CQ!BQ!Finished(answer) = Finished(answer)
  BY DEF CQ!BQ!Idle, Idle, CQ!BQ!Failed, Failed, CQ!BQ!Senders, Senders, CQ!BQ!Receivers,
     Receivers, CQ!BQ!Finished, Finished
<1>4. CQ!BQ!Requests = Requests
  BY DEF CQ!BQ!Requests, Requests, CQ!BQ!Senders, Senders, CQ!BQ!Receivers, Receivers,
     CQ!BQ!Timeouts, Timeouts
<1>5. QED
  BY <1>1, <1>2, <1>3, <1>4

(* What a task may ask of the desktop's queue.                              *)
LEMMA MineFacts ==
  ASSUME NEW req \in CQ!Mine
  PROVE  /\ req \in Requests /\ req.op \in Senders \cup Receivers
         /\ req.op \in Senders => req.item \in Items /\ req.op \notin Receivers
         /\ plain => req.op \in {"Send", "Receive"} /\ req.timeout # "finite"
         /\ req.op \in CQ!Operations
<1>1. /\ req \in Requests
      /\ IF plain THEN req.op \in {"Send", "Receive"} /\ req.timeout # "finite"
                  ELSE req.op \in CQ!Operations
  BY DesktopNames DEF CQ!Mine
<1>2. /\ req.op \in Senders \cup Receivers
      /\ req.op \in Senders => req.item \in Items /\ req.op \notin Receivers
  BY <1>1 DEF Requests, Senders, Receivers
<1>3. QED
  BY <1>1, <1>2 DEF CQ!Operations

(* Where a task can be.                                                     *)
LEMMA PlaceFacts ==
  ASSUME NEW t \in CQ!Tasks
  PROVE  /\ t.state \in {"idle", "returns", "restoring"} \cup Phases
         /\ t.state = "idle" <=> t = Idle
         /\ t.state \in Phases \cup {"restoring"} => t.req \in CQ!Mine
         /\ t.state = "restoring" => t.item \in Items \cup {NoItem}
BY DesktopNames DEF CQ!Tasks, Idle, Finished, Phases

(* Where an operation's steps take a task.                                  *)
LEMMA NewPlaces ==
  /\ Idle \in CQ!Tasks /\ Idle.state = "idle"
  /\ \A answer \in Answers : /\ Finished(answer) \in CQ!Tasks
                             /\ Finished(answer).state = "returns"
                             /\ Finished(answer).answer = answer
  /\ \A phase \in Phases, req \in CQ!Mine :
       /\ CQ!In(phase, req) \in CQ!Tasks
       /\ CQ!In(phase, req).state = phase /\ CQ!In(phase, req).req = req
  /\ \A req \in CQ!Mine, item \in Items \cup {NoItem} :
       /\ CQ!Restoring(req, item) \in CQ!Tasks
       /\ CQ!Restoring(req, item).state = "restoring"
       /\ CQ!Restoring(req, item).req = req /\ CQ!Restoring(req, item).item = item
<1>1. Idle \in CQ!Tasks /\ Idle.state = "idle"
  BY DesktopNames DEF CQ!Tasks, Idle
<1>2. \A answer \in Answers : /\ Finished(answer) \in CQ!Tasks
                              /\ Finished(answer).state = "returns"
                              /\ Finished(answer).answer = answer
  BY DesktopNames DEF CQ!Tasks, Finished
<1>3. \A phase \in Phases, req \in CQ!Mine :
        /\ CQ!In(phase, req) \in CQ!Tasks
        /\ CQ!In(phase, req).state = phase /\ CQ!In(phase, req).req = req
  BY DEF CQ!Tasks, CQ!In, Phases
<1>4. \A req \in CQ!Mine, item \in Items \cup {NoItem} :
        /\ CQ!Restoring(req, item) \in CQ!Tasks
        /\ CQ!Restoring(req, item).state = "restoring"
        /\ CQ!Restoring(req, item).req = req /\ CQ!Restoring(req, item).item = item
  BY DEF CQ!Tasks, CQ!Restoring
<1>5. QED
  BY <1>1, <1>2, <1>3, <1>4

(* What becomes of a task that received.                                    *)
LEMMA ReceivedFacts ==
  ASSUME NEW t \in CQ!Tasks, t.state \in Phases, t.req.op \in Receivers,
         NEW item \in Items \cup {NoItem}
  PROVE  /\ CQ!Received(t, item) \in CQ!Tasks
         /\ t.req.op = "Peek" => /\ CQ!Received(t, item).state = "restoring"
                                 /\ CQ!Received(t, item).req = t.req
                                 /\ CQ!Received(t, item).item = item
         /\ t.req.op # "Peek" => /\ t.req.op = "Receive"
                                 /\ CQ!Received(t, item) = Finished([ok |-> TRUE, item |-> item])
                                 /\ CQ!Received(t, item).state = "returns"
                                 /\ CQ!Received(t, item).answer = [ok |-> TRUE, item |-> item]
<1>1. t.req \in CQ!Mine
  BY PlaceFacts
<1>2. [ok |-> TRUE, item |-> item] \in Answers
  BY DEF Answers
<1>3. /\ Finished([ok |-> TRUE, item |-> item]) \in CQ!Tasks
      /\ Finished([ok |-> TRUE, item |-> item]).state = "returns"
      /\ Finished([ok |-> TRUE, item |-> item]).answer = [ok |-> TRUE, item |-> item]
  BY <1>2, NewPlaces
<1>4. /\ CQ!Restoring(t.req, item) \in CQ!Tasks
      /\ CQ!Restoring(t.req, item).state = "restoring"
      /\ CQ!Restoring(t.req, item).req = t.req /\ CQ!Restoring(t.req, item).item = item
  BY <1>1, NewPlaces
<1>5. CQ!Received(t, item) = IF t.req.op = "Peek" THEN CQ!Restoring(t.req, item)
                                                  ELSE Finished([ok |-> TRUE, item |-> item])
  BY DesktopNames DEF CQ!Received
<1>6. QED
  BY <1>3, <1>4, <1>5 DEF Receivers

(* What is known of a state of the desktop's queue.                         *)
LEMMA DesktopFacts ==
  ASSUME DesktopInv
  PROVE  /\ items \in Seq(Items) /\ Len(items) \in Nat /\ size \in Nat
         /\ Len(items) <= size /\ size <= Capacity
         /\ items = <<>> <=> Len(items) = 0
         /\ deleted \in BOOLEAN /\ task \in [Callers -> CQ!Tasks]
         /\ items # <<>> => /\ Head(items) \in Items /\ Tail(items) \in Seq(Items)
                            /\ Len(Tail(items)) = Len(items) - 1
         /\ \A c \in Callers :
              c \in CQ!Parked(Receivers) => items = <<>>
<1>1. /\ items \in Seq(Items) /\ size \in 0 .. Capacity /\ Len(items) <= size
      /\ deleted \in BOOLEAN /\ task \in [Callers -> CQ!Tasks]
  BY DEF DesktopInv, CQ!TypeOK
<1>2. Len(items) \in Nat /\ (items = <<>> <=> Len(items) = 0)
  BY <1>1, EmptySeq, LenProperties
<1>3. items # <<>> => /\ Head(items) \in Items /\ Tail(items) \in Seq(Items)
                      /\ Len(Tail(items)) = Len(items) - 1
  BY <1>1, HeadTailProperties
<1>4. \A c \in Callers : c \in CQ!Parked(Receivers) => items = <<>>
  BY DEF DesktopInv
<1>5. QED
  BY <1>1, <1>2, <1>3, <1>4, QueueAssumption

(* The tasks parked in the channel.                                         *)
LEMMA ParkedFacts ==
  ASSUME NEW ops, NEW c
  PROVE  c \in CQ!Parked(ops) <=>
           c \in Callers /\ task[c].state = "parked" /\ task[c].req.op \in ops
BY DEF CQ!Parked

(* Steps that park a receiver only while the channel is empty, and fill the *)
(* channel only while no receiver is parked, keep the invariant.            *)
LEMMA DesktopKeeps ==
  ASSUME DesktopInv, UNCHANGED <<plain, size>>,
         items' \in Seq(Items), Len(items') <= size,
         items' = items \/ CQ!Parked(Receivers) = {},
         deleted' \in BOOLEAN, deleted => deleted', plain => ~ deleted',
         crashed' \in BOOLEAN,
         task' \in [Callers -> CQ!Tasks],
         \A c \in Callers :
           \/ task'[c] = task[c]
           \/ task'[c].state \notin {"parked", "restoring"}
           \/ task'[c].state = "parked" /\ (task'[c].req.op \in Receivers => items' = <<>>)
           \/ /\ task'[c].state = "restoring" /\ task'[c].req.op = "Peek"
              /\ task'[c].item = NoItem => deleted'
  PROVE  DesktopInv'
<1>1. CQ!Tasks' = CQ!Tasks
  BY DEF CQ!Tasks, CQ!Mine
<1>2. CQ!TypeOK'
  BY <1>1 DEF DesktopInv, CQ!TypeOK
<1>3. ASSUME NEW c \in Callers, task'[c].state = "parked", task'[c].req.op \in Receivers
      PROVE  items' = <<>>
  BY <1>3, DesktopFacts, ParkedFacts
<1>4. (CQ!Parked(Receivers) # {} => items = <<>>)'
  BY <1>3 DEF CQ!Parked
<1>5. \A c \in Callers : PutsBack(c)'
  BY DEF DesktopInv, PutsBack
<1>6. QED
  BY <1>2, <1>4, <1>5 DEF DesktopInv


-----------------------------------------------------------------------------
(* The desktop's steps *)

(* The one task a step moves, and the two.                                  *)
OneMoves(c, a) ==
  /\ a \in CQ!Tasks /\ task' \in [Callers -> CQ!Tasks]
  /\ task'[c] = a
  /\ \A e \in Callers \ {c} : task'[e] = task[e]
TwoMove(c, a, d, b) ==
  /\ c # d /\ a \in CQ!Tasks /\ b \in CQ!Tasks /\ task' \in [Callers -> CQ!Tasks]
  /\ task'[c] = a /\ task'[d] = b
  /\ \A e \in Callers \ {c, d} : task'[e] = task[e]

(* A call in the middle of its operation.                                   *)
Calling(c, phase, ops) ==
  /\ task[c].state = phase /\ task[c].req \in CQ!Mine /\ task[c].req.op \in ops

(* A send's answer.                                                         *)
Sent == Finished([ok |-> TRUE, item |-> NoItem])

(* The answers of its operations.                                           *)
LEMMA AnswersPlaced ==
  /\ Failed \in Answers /\ Finished(Failed) \in CQ!Tasks
  /\ Sent \in CQ!Tasks /\ Sent.state = "returns"
  /\ Sent.answer = [ok |-> TRUE, item |-> NoItem]
  /\ \A item \in Items \cup {NoItem} :
       /\ [ok |-> TRUE, item |-> item] \in Answers
       /\ Finished([ok |-> TRUE, item |-> item]) \in CQ!Tasks
       /\ Finished([ok |-> TRUE, item |-> item]).state = "returns"
       /\ Finished([ok |-> TRUE, item |-> item]).answer = [ok |-> TRUE, item |-> item]
<1>1. /\ Failed \in Answers
      /\ \A item \in Items \cup {NoItem} : [ok |-> TRUE, item |-> item] \in Answers
  BY DEF Failed, Answers
<1>2. QED
  BY <1>1, NewPlaces DEF Sent

(* Two different tasks are moved at once.                                   *)
LEMMA BothMove ==
  ASSUME task \in [Callers -> CQ!Tasks], NEW c \in Callers, NEW d \in Callers, c # d,
         NEW a \in CQ!Tasks, NEW b \in CQ!Tasks,
         task' = [[task EXCEPT ![c] = a] EXCEPT ![d] = b]
  PROVE  TwoMove(c, a, d, b)
BY DEF TwoMove

(* One task is moved.                                                       *)
LEMMA OnlyMoves ==
  ASSUME task \in [Callers -> CQ!Tasks], NEW c \in Callers, NEW a \in CQ!Tasks,
         task' = [task EXCEPT ![c] = a]
  PROVE  OneMoves(c, a)
BY DEF OneMoves

(* What each step that serves a call does, to the tasks and to the channel: *)
(* sending to a parked receiver.                                            *)
LEMMA SendHandsFacts ==
  ASSUME DesktopInv, NEW c \in Callers, NEW r \in Callers, CQ!SendHands(c, r)
  PROVE  /\ Calling(c, "selecting", Senders) /\ Calling(r, "parked", Receivers)
         /\ task[c].req.item \in Items /\ ~ deleted /\ items = <<>>
         /\ TwoMove(c, Sent, r, CQ!Received(task[r], task[c].req.item))
         /\ UNCHANGED <<plain, size, items, deleted, crashed>>
<1>1. /\ task[c].state = "selecting" /\ task[c].req.op \in Senders /\ ~ deleted
      /\ r \in CQ!Parked(Receivers)
      /\ UNCHANGED <<plain, size, items, deleted, crashed>>
  BY DesktopNames DEF CQ!SendHands, CQ!At
<1>2. /\ task[r].state = "parked" /\ task[r].req.op \in Receivers /\ items = <<>>
      /\ task[c] \in CQ!Tasks /\ task[r] \in CQ!Tasks /\ task \in [Callers -> CQ!Tasks]
  BY <1>1, ParkedFacts, DesktopFacts
<1>3. /\ task[c].req \in CQ!Mine /\ task[r].req \in CQ!Mine
      /\ task[c].req.item \in Items
  BY <1>1, <1>2, PlaceFacts, MineFacts DEF Phases
<1>4. CQ!Received(task[r], task[c].req.item) \in CQ!Tasks /\ Sent \in CQ!Tasks
  BY <1>2, <1>3, ReceivedFacts, AnswersPlaced DEF Phases
<1>5. c # r
  BY <1>1, <1>2
<1>6. task' = [[task EXCEPT ![c] = Sent]
                 EXCEPT ![r] = CQ!Received(task[r], task[c].req.item)]
  BY <1>2, <1>5, DesktopNames DEF CQ!SendHands, CQ!Sent, Sent
<1>7. TwoMove(c, Sent, r, CQ!Received(task[r], task[c].req.item))
  BY <1>2, <1>4, <1>5, <1>6, BothMove
<1>8. QED
  BY <1>1, <1>2, <1>3, <1>7 DEF Calling

(* Receiving from a parked sender.                                          *)
LEMMA ReceiveHandsFacts ==
  ASSUME DesktopInv, NEW c \in Callers, NEW s \in Callers, CQ!ReceiveHands(c, s)
  PROVE  /\ Calling(c, "selecting", Receivers) /\ Calling(s, "parked", Senders)
         /\ task[s].req.item \in Items /\ items = <<>>
         /\ TwoMove(c, CQ!Received(task[c], task[s].req.item), s, Sent)
         /\ UNCHANGED <<plain, size, items, deleted, crashed>>
<1>1. /\ task[c].state = "selecting" /\ task[c].req.op \in Receivers
      /\ s \in CQ!Parked(Senders) /\ items = <<>>
      /\ UNCHANGED <<plain, size, items, deleted, crashed>>
  BY DesktopNames DEF CQ!ReceiveHands, CQ!At
<1>2. /\ task[s].state = "parked" /\ task[s].req.op \in Senders
      /\ task[c] \in CQ!Tasks /\ task[s] \in CQ!Tasks /\ task \in [Callers -> CQ!Tasks]
  BY <1>1, ParkedFacts, DesktopFacts
<1>3. /\ task[c].req \in CQ!Mine /\ task[s].req \in CQ!Mine
      /\ task[s].req.item \in Items
  BY <1>1, <1>2, PlaceFacts, MineFacts DEF Phases
<1>4. CQ!Received(task[c], task[s].req.item) \in CQ!Tasks /\ Sent \in CQ!Tasks
  BY <1>1, <1>2, <1>3, ReceivedFacts, AnswersPlaced DEF Phases
<1>5. c # s
  BY <1>1, <1>2
<1>6. task' = [[task EXCEPT ![c] = CQ!Received(task[c], task[s].req.item)]
                 EXCEPT ![s] = Sent]
  BY <1>2, <1>5, DesktopNames DEF CQ!ReceiveHands, CQ!Sent, Sent
<1>7. TwoMove(c, CQ!Received(task[c], task[s].req.item), s, Sent)
  BY <1>2, <1>4, <1>5, <1>6, BothMove
<1>8. QED
  BY <1>1, <1>2, <1>3, <1>7 DEF Calling

(* Sending into the buffer.                                                 *)
LEMMA SendBuffersFacts ==
  ASSUME DesktopInv, NEW c \in Callers, CQ!SendBuffers(c)
  PROVE  /\ Calling(c, "selecting", Senders) /\ task[c].req.item \in Items
         /\ ~ deleted /\ CQ!Parked(Receivers) = {} /\ Len(items) < size
         /\ items' = Append(items, task[c].req.item)
         /\ OneMoves(c, Sent)
         /\ UNCHANGED <<plain, size, deleted, crashed>>
<1>1. /\ task[c].state = "selecting" /\ task[c].req.op \in Senders /\ ~ deleted
      /\ CQ!Parked(Receivers) = {} /\ Len(items) < size
      /\ items' = Append(items, task[c].req.item)
      /\ task' = [task EXCEPT ![c] = Sent]
      /\ UNCHANGED <<plain, size, deleted, crashed>>
  BY DesktopNames DEF CQ!SendBuffers, CQ!At, CQ!BufferSize, CQ!Sent, Sent
<1>2. task[c] \in CQ!Tasks /\ task \in [Callers -> CQ!Tasks]
  BY DesktopFacts
<1>3. task[c].req \in CQ!Mine /\ task[c].req.item \in Items
  BY <1>1, <1>2, PlaceFacts, MineFacts DEF Phases
<1>4. OneMoves(c, Sent)
  BY <1>1, <1>2, OnlyMoves, AnswersPlaced
<1>5. QED
  BY <1>1, <1>3, <1>4 DEF Calling

(* Receiving from the buffer, which makes room for a parked sender.         *)
LEMMA ReceiveBufferedFacts ==
  ASSUME DesktopInv, NEW c \in Callers, CQ!ReceiveBuffered(c)
  PROVE  /\ Calling(c, "selecting", Receivers)
         /\ items # <<>> /\ Head(items) \in Items
         /\ \/ /\ CQ!Parked(Senders) = {}
               /\ items' = Tail(items)
               /\ OneMoves(c, CQ!Received(task[c], Head(items)))
            \/ \E s \in Callers :
                 /\ Calling(s, "parked", Senders) /\ task[s].req.item \in Items
                 /\ items' = Append(Tail(items), task[s].req.item)
                 /\ TwoMove(c, CQ!Received(task[c], Head(items)), s, Sent)
         /\ UNCHANGED <<plain, size, deleted, crashed>>
<1>1. /\ task[c].state = "selecting" /\ task[c].req.op \in Receivers /\ items # <<>>
      /\ UNCHANGED <<plain, size, deleted, crashed>>
  BY DesktopNames DEF CQ!ReceiveBuffered, CQ!At
<1>2. /\ task[c] \in CQ!Tasks /\ task \in [Callers -> CQ!Tasks]
      /\ Head(items) \in Items
  BY <1>1, DesktopFacts
<1>3. task[c].req \in CQ!Mine
  BY <1>1, <1>2, PlaceFacts DEF Phases
<1>4. CQ!Received(task[c], Head(items)) \in CQ!Tasks /\ Sent \in CQ!Tasks
  BY <1>1, <1>2, ReceivedFacts, AnswersPlaced DEF Phases
<1>5. CASE CQ!Parked(Senders) = {}
  <2>1. /\ items' = Tail(items)
        /\ task' = [task EXCEPT ![c] = CQ!Received(task[c], Head(items))]
    BY <1>2, <1>5, DesktopNames DEF CQ!ReceiveBuffered
  <2>2. OneMoves(c, CQ!Received(task[c], Head(items)))
    BY <1>2, <1>4, <2>1, OnlyMoves
  <2>3. QED
    BY <1>1, <1>2, <1>3, <1>5, <2>1, <2>2 DEF Calling
<1>6. CASE CQ!Parked(Senders) # {}
  <2>1. PICK s \in CQ!Parked(Senders) :
          /\ items' = Append(Tail(items), task[s].req.item)
          /\ task' = [task EXCEPT ![c] = CQ!Received(@, Head(items)), ![s] = Sent]
    BY <1>6, DesktopNames DEF CQ!ReceiveBuffered, CQ!Sent, Sent
  <2>2. /\ s \in Callers /\ task[s].state = "parked" /\ task[s].req.op \in Senders
        /\ task[s] \in CQ!Tasks
    BY <1>2, ParkedFacts
  <2>3. task[s].req \in CQ!Mine /\ task[s].req.item \in Items /\ c # s
    BY <1>1, <2>2, PlaceFacts, MineFacts DEF Phases
  <2>4. task' = [[task EXCEPT ![c] = CQ!Received(task[c], Head(items))] EXCEPT ![s] = Sent]
    BY <1>2, <2>1, <2>2, <2>3
  <2>5. TwoMove(c, CQ!Received(task[c], Head(items)), s, Sent)
    BY <1>2, <1>4, <2>2, <2>3, <2>4, BothMove
  <2>6. QED
    BY <1>1, <1>2, <1>3, <2>1, <2>2, <2>3, <2>5 DEF Calling
<1>7. QED
  BY <1>5, <1>6

(* Receiving nil from a closed channel.                                     *)
LEMMA ReceiveClosedFacts ==
  ASSUME DesktopInv, NEW c \in Callers, CQ!ReceiveClosed(c)
  PROVE  /\ Calling(c, "selecting", Receivers) /\ items = <<>> /\ deleted
         /\ OneMoves(c, CQ!Received(task[c], NoItem))
         /\ UNCHANGED <<plain, size, items, deleted, crashed>>
<1>1. /\ task[c].state = "selecting" /\ task[c].req.op \in Receivers /\ items = <<>>
      /\ deleted /\ UNCHANGED <<plain, size, items, deleted, crashed>>
  BY DesktopNames DEF CQ!ReceiveClosed, CQ!At
<1>2. /\ task[c] \in CQ!Tasks /\ task \in [Callers -> CQ!Tasks]
  BY DesktopFacts
<1>3. task[c].req \in CQ!Mine /\ CQ!Received(task[c], NoItem) \in CQ!Tasks
  BY <1>1, <1>2, PlaceFacts, ReceivedFacts DEF Phases
<1>4. task' = [task EXCEPT ![c] = CQ!Received(task[c], NoItem)]
  BY <1>2, DesktopNames DEF CQ!ReceiveClosed
<1>5. QED
  BY <1>1, <1>2, <1>3, <1>4, OnlyMoves DEF Calling

(* A Peek putting its item back.                                            *)
LEMMA RestoreFacts ==
  ASSUME DesktopInv, NEW c \in Callers, CQ!Restore(c)
  PROVE  /\ Calling(c, "restoring", {"Peek"})
         /\ task[c].item \in Items /\ ~ deleted
         /\ \/ \E r \in Callers :
                 /\ Calling(r, "parked", Receivers) /\ UNCHANGED items
                 /\ CQ!Parked(Receivers) # {} /\ items = <<>>
                 /\ TwoMove(c, Finished([ok |-> TRUE, item |-> task[c].item]),
                            r, CQ!Received(task[r], task[c].item))
            \/ /\ CQ!Parked(Receivers) = {}
               /\ items' = IF Len(items) < size THEN Append(items, task[c].item)
                                                ELSE items
               /\ OneMoves(c, Finished([ok |-> TRUE, item |-> task[c].item]))
         /\ UNCHANGED <<plain, size, deleted, crashed>>
<1> DEFINE done == Finished([ok |-> TRUE, item |-> task[c].item])
<1>1. /\ task[c].state = "restoring" /\ ~ deleted
      /\ UNCHANGED <<plain, size, deleted, crashed>>
  BY DesktopNames DEF CQ!Restore, CQ!At
<1>2. task[c] \in CQ!Tasks /\ task \in [Callers -> CQ!Tasks]
  BY DesktopFacts
<1>3. task[c].req \in CQ!Mine /\ task[c].item \in Items /\ task[c].req.op = "Peek"
  BY <1>1, <1>2, PlaceFacts DEF DesktopInv, PutsBack
<1>4. done \in CQ!Tasks
  BY <1>3, AnswersPlaced
<1>5. CASE CQ!Parked(Receivers) # {}
  <2>1. PICK r \in CQ!Parked(Receivers) :
          /\ task' = [task EXCEPT ![c] = done, ![r] = CQ!Received(@, task[c].item)]
          /\ UNCHANGED items
    BY <1>5, DesktopNames DEF CQ!Restore
  <2>2. /\ r \in Callers /\ task[r].state = "parked" /\ task[r].req.op \in Receivers
        /\ task[r] \in CQ!Tasks /\ items = <<>>
    BY <1>2, ParkedFacts, DesktopFacts
  <2>3. task[r].req \in CQ!Mine /\ c # r
    BY <1>1, <2>2, PlaceFacts DEF Phases
  <2>4. CQ!Received(task[r], task[c].item) \in CQ!Tasks
    BY <1>3, <2>2, ReceivedFacts DEF Phases
  <2>5. task' = [[task EXCEPT ![c] = done] EXCEPT ![r] = CQ!Received(task[r], task[c].item)]
    BY <1>2, <2>1, <2>2, <2>3
  <2>6. TwoMove(c, done, r, CQ!Received(task[r], task[c].item))
    BY <1>2, <1>4, <2>2, <2>3, <2>4, <2>5, BothMove
  <2>7. QED
    BY <1>1, <1>3, <1>5, <2>1, <2>2, <2>3, <2>6 DEF Calling
<1>6. CASE CQ!Parked(Receivers) = {}
  <2>1. /\ items' = IF Len(items) < size THEN Append(items, task[c].item) ELSE items
        /\ task' = [task EXCEPT ![c] = done]
    BY <1>6, DesktopNames DEF CQ!Restore, CQ!BufferSize
  <2>2. OneMoves(c, done)
    BY <1>2, <1>4, <2>1, OnlyMoves
  <2>3. QED
    BY <1>1, <1>3, <1>6, <2>1, <2>2 DEF Calling
<1>7. QED
  BY <1>5, <1>6

-----------------------------------------------------------------------------
(* The invariant of the desktop's queue *)

(* An empty channel without tasks satisfies the invariant.                  *)
LEMMA DesktopInit == CQ!Init => DesktopInv
<1> SUFFICES ASSUME CQ!Init
             PROVE  DesktopInv
  OBVIOUS
<1>1. /\ plain \in BOOLEAN /\ size \in 0 .. Capacity /\ (plain => size = Capacity)
      /\ items = <<>> /\ deleted = FALSE /\ crashed = FALSE
      /\ task = [c \in Callers |-> Idle]
  BY DesktopNames, QueueAssumption DEF CQ!Init
<1>2. items \in Seq(Items) /\ Len(items) = 0
  BY <1>1, EmptySeq
<1>3. \A c \in Callers : task[c] = Idle /\ task[c].state = "idle"
  BY <1>1, NewPlaces
<1>4. task \in [Callers -> CQ!Tasks]
  BY <1>1, NewPlaces
<1>5. Len(items) <= size
  BY <1>1, <1>2, QueueAssumption
<1>6. CQ!TypeOK
  BY <1>1, <1>2, <1>4, <1>5 DEF CQ!TypeOK
<1>7. \A c \in Callers : PutsBack(c)
  BY <1>3 DEF PutsBack
<1>8. QED
  BY <1>1, <1>6, <1>7 DEF DesktopInv

(* A task that a receive has served, and one that was served an item.       *)
Served(b) == b.state = "returns" \/ (b.state = "restoring" /\ b.req.op = "Peek")
Holds(b)  == b.state = "restoring" => b.item # NoItem

(* One task that leaves the channel, or parks in it while it is empty, and  *)
(* two of which one leaves, keep the invariant.                             *)
LEMMA OneKeeps ==
  ASSUME DesktopInv, UNCHANGED <<plain, size, deleted, crashed>>,
         items' \in Seq(Items), Len(items') <= size,
         items' = items \/ CQ!Parked(Receivers) = {},
         NEW c \in Callers, NEW a, OneMoves(c, a),
         \/ a.state \notin {"parked", "restoring"}
         \/ a.state = "parked" /\ (a.req.op \in Receivers => items' = <<>>)
         \/ Served(a) /\ (Holds(a) \/ deleted)
  PROVE  DesktopInv'
BY DesktopKeeps DEF OneMoves, Served, Holds, DesktopInv, CQ!TypeOK

(* Two tasks that are served at once do too.                                *)
LEMMA TwoKeep ==
  ASSUME DesktopInv, UNCHANGED <<plain, size, deleted, crashed>>,
         items' \in Seq(Items), Len(items') <= size,
         items' = items \/ CQ!Parked(Receivers) = {},
         NEW c \in Callers, NEW d \in Callers, NEW a, NEW b,
         TwoMove(c, a, d, b) \/ TwoMove(d, b, c, a),
         a.state = "returns",
         Served(b), Holds(b)
  PROVE  DesktopInv'
BY DesktopKeeps DEF TwoMove, DesktopInv, CQ!TypeOK, Served, Holds

(* A channel with room takes an item, and one that is not empty gives one.  *)
LEMMA ChannelFacts ==
  ASSUME DesktopInv, NEW item \in Items
  PROVE  /\ Append(items, item) \in Seq(Items) /\ Append(items, item) # <<>>
         /\ Len(items) < size => Len(Append(items, item)) <= size
         /\ items # <<>> => /\ Len(Tail(items)) <= size
                            /\ Tail(items) \in Seq(Items)
                            /\ Append(Tail(items), item) \in Seq(Items)
                            /\ Len(Append(Tail(items), item)) <= size
<1>1. /\ items \in Seq(Items) /\ Len(items) \in Nat /\ size \in Nat /\ Len(items) <= size
      /\ items = <<>> <=> Len(items) = 0
      /\ items # <<>> => Tail(items) \in Seq(Items) /\ Len(Tail(items)) = Len(items) - 1
  BY DesktopFacts
<1>2. /\ Append(items, item) \in Seq(Items)
      /\ Len(Append(items, item)) = Len(items) + 1
  BY <1>1, AppendProperties
<1>3. Append(items, item) # <<>>
  BY <1>1, <1>2, EmptySeq
<1>4. items # <<>> => /\ Append(Tail(items), item) \in Seq(Items)
                      /\ Len(Append(Tail(items), item)) = Len(Tail(items)) + 1
  BY <1>1, AppendProperties
<1>5. QED
  BY <1>1, <1>2, <1>3, <1>4

(* What a receive makes of a task stays within the invariant.               *)
LEMMA ReceivedKeeps ==
  ASSUME NEW t \in CQ!Tasks, t.state \in Phases, t.req.op \in Receivers,
         NEW item \in Items \cup {NoItem}
  PROVE  /\ CQ!Received(t, item) \in CQ!Tasks
         /\ Served(CQ!Received(t, item))
         /\ item \in Items => Holds(CQ!Received(t, item))
<1>1. item \in Items => item # NoItem
  BY QueueAssumption
<1>2. CASE t.req.op = "Peek"
  <2>1. /\ CQ!Received(t, item) \in CQ!Tasks
        /\ CQ!Received(t, item).state = "restoring"
        /\ CQ!Received(t, item).req = t.req /\ CQ!Received(t, item).item = item
    BY <1>2, ReceivedFacts
  <2>2. QED
    BY <1>1, <1>2, <2>1 DEF Served, Holds
<1>3. CASE t.req.op # "Peek"
  <2>1. /\ CQ!Received(t, item) \in CQ!Tasks
        /\ CQ!Received(t, item).state = "returns"
    BY <1>3, ReceivedFacts
  <2>2. QED
    BY <2>1 DEF Served, Holds
<1>4. QED
  BY <1>2, <1>3

(* Every step of the desktop's queue keeps its invariant.                   *)
LEMMA DesktopNext ==
  ASSUME DesktopInv, [CQ!Next]_(CQ!vars)
  PROVE  DesktopInv'
<1>1. /\ items \in Seq(Items) /\ Len(items) <= size /\ task \in [Callers -> CQ!Tasks]
      /\ deleted \in BOOLEAN /\ crashed \in BOOLEAN
  BY DesktopFacts DEF DesktopInv, CQ!TypeOK
<1>2. ASSUME NEW c \in Callers, NEW req \in CQ!Mine, CQ!Start(c, req)
      PROVE  DesktopInv'
  <2>1. /\ task' = [task EXCEPT ![c] = CQ!In("entering", req)]
        /\ UNCHANGED <<plain, size, items, deleted, crashed>>
    BY <1>2 DEF CQ!Start
  <2>2. CQ!In("entering", req) \in CQ!Tasks /\ CQ!In("entering", req).state = "entering"
    BY NewPlaces DEF Phases
  <2>3. OneMoves(c, CQ!In("entering", req))
    BY <1>1, <2>1, <2>2, OnlyMoves
  <2>4. QED
    BY <1>1, <2>1, <2>2, <2>3, OneKeeps
<1>3. ASSUME NEW c \in Callers, NEW a \in CQ!Tasks, task' = [task EXCEPT ![c] = a],
             UNCHANGED <<plain, size, items, deleted, crashed>>,
             \/ a.state \in {"idle", "selecting", "returns"}
             \/ a.state = "parked" /\ (a.req.op \in Receivers => items = <<>>)
      PROVE  DesktopInv'
  <2>1. OneMoves(c, a)
    BY <1>1, <1>3, OnlyMoves
  <2>2. QED
    BY <1>1, <1>3, <2>1, OneKeeps
<1>4. ASSUME NEW c \in Callers, CQ!Check(c)
      PROVE  DesktopInv'
  <2>1. /\ task[c].state = "entering"
        /\ task' = [task EXCEPT ![c] = IF deleted THEN Finished(Failed)
                                       ELSE CQ!In("selecting", task[c].req)]
        /\ UNCHANGED <<plain, size, items, deleted, crashed>>
    BY <1>1, <1>4, DesktopNames DEF CQ!Check, CQ!At
  <2>2. task[c].req \in CQ!Mine
    BY <1>1, <2>1, PlaceFacts DEF Phases
  <2>3. /\ Finished(Failed) \in CQ!Tasks /\ Finished(Failed).state = "returns"
        /\ CQ!In("selecting", task[c].req) \in CQ!Tasks
        /\ CQ!In("selecting", task[c].req).state = "selecting"
    BY <2>2, NewPlaces, AnswersPlaced DEF Phases
  <2>4. QED
    BY <1>3, <2>1, <2>3
<1>5. ASSUME NEW c \in Callers, CQ!SendPanics(c)
      PROVE  DesktopInv'
  BY <1>1, <1>5, DesktopKeeps DEF CQ!SendPanics, CQ!Crash, DesktopInv, CQ!TypeOK
<1>6. ASSUME NEW c \in Callers, NEW r \in Callers, CQ!SendHands(c, r)
      PROVE  DesktopInv'
  <2>1. /\ TwoMove(c, Sent, r, CQ!Received(task[r], task[c].req.item))
        /\ Calling(r, "parked", Receivers) /\ task[c].req.item \in Items
        /\ UNCHANGED <<plain, size, items, deleted, crashed>>
    BY <1>6, SendHandsFacts
  <2>2. Served(CQ!Received(task[r], task[c].req.item)) /\ Holds(CQ!Received(task[r], task[c].req.item))
    BY <1>1, <2>1, ReceivedKeeps DEF Calling, Phases
  <2>3. QED
    BY <1>1, <2>1, <2>2, AnswersPlaced, TwoKeep
<1>7. ASSUME NEW c \in Callers, NEW s \in Callers, CQ!ReceiveHands(c, s)
      PROVE  DesktopInv'
  <2>1. /\ TwoMove(c, CQ!Received(task[c], task[s].req.item), s, Sent)
        /\ Calling(c, "selecting", Receivers) /\ task[s].req.item \in Items
        /\ UNCHANGED <<plain, size, items, deleted, crashed>>
    BY <1>7, ReceiveHandsFacts
  <2>2. Served(CQ!Received(task[c], task[s].req.item)) /\ Holds(CQ!Received(task[c], task[s].req.item))
    BY <1>1, <2>1, ReceivedKeeps DEF Calling, Phases
  <2>3. QED
    BY <1>1, <2>1, <2>2, AnswersPlaced, TwoKeep
<1>8. ASSUME NEW c \in Callers, CQ!SendBuffers(c)
      PROVE  DesktopInv'
  <2>1. /\ OneMoves(c, Sent) /\ task[c].req.item \in Items
        /\ CQ!Parked(Receivers) = {} /\ Len(items) < size
        /\ items' = Append(items, task[c].req.item)
        /\ UNCHANGED <<plain, size, deleted, crashed>>
    BY <1>8, SendBuffersFacts
  <2>2. items' \in Seq(Items) /\ Len(items') <= size
    BY <2>1, ChannelFacts
  <2>3. QED
    BY <2>1, <2>2, AnswersPlaced, OneKeeps
<1>9. ASSUME NEW c \in Callers, CQ!ReceiveBuffered(c)
      PROVE  DesktopInv'
  <2>1. /\ Calling(c, "selecting", Receivers) /\ items # <<>> /\ Head(items) \in Items
        /\ UNCHANGED <<plain, size, deleted, crashed>>
    BY <1>9, ReceiveBufferedFacts
  <2>2. CQ!Parked(Receivers) = {}
    BY <2>1 DEF DesktopInv
  <2>3. Served(CQ!Received(task[c], Head(items))) /\ Holds(CQ!Received(task[c], Head(items)))
    BY <1>1, <2>1, ReceivedKeeps DEF Calling, Phases
  <2>4. CASE items' = Tail(items) /\ OneMoves(c, CQ!Received(task[c], Head(items)))
    <3>1. items' \in Seq(Items) /\ Len(items') <= size
      BY <2>1, <2>4, ChannelFacts
    <3>2. QED
      BY <2>1, <2>2, <2>3, <2>4, <3>1, OneKeeps
  <2>5. ASSUME NEW s \in Callers, task[s].req.item \in Items,
               items' = Append(Tail(items), task[s].req.item),
               TwoMove(c, CQ!Received(task[c], Head(items)), s, Sent)
        PROVE  DesktopInv'
    <3>1. items' \in Seq(Items) /\ Len(items') <= size
      BY <2>1, <2>5, ChannelFacts
    <3>2. QED
      BY <2>1, <2>2, <2>3, <2>5, <3>1, AnswersPlaced, TwoKeep
  <2>6. QED
    BY <1>9, <2>4, <2>5, ReceiveBufferedFacts
<1>10. ASSUME NEW c \in Callers, CQ!ReceiveClosed(c)
       PROVE  DesktopInv'
  <2>1. /\ OneMoves(c, CQ!Received(task[c], NoItem)) /\ deleted
        /\ Calling(c, "selecting", Receivers)
        /\ UNCHANGED <<plain, size, items, deleted, crashed>>
    BY <1>10, ReceiveClosedFacts
  <2>2. Served(CQ!Received(task[c], NoItem))
    BY <1>1, <2>1, ReceivedKeeps DEF Calling, Phases
  <2>3. QED
    BY <1>1, <2>1, <2>2, OneKeeps
<1>11. ASSUME NEW c \in Callers, CQ!Park(c)
       PROVE  DesktopInv'
  <2>1. /\ task[c].state = "selecting" /\ CQ!Blocked(task[c].req)
        /\ task' = [task EXCEPT ![c] = IF task[c].req.timeout = "none" THEN Finished(Failed)
                                       ELSE CQ!In("parked", task[c].req)]
        /\ UNCHANGED <<plain, size, items, deleted, crashed>>
    BY <1>1, <1>11, DesktopNames DEF CQ!Park, CQ!At
  <2>2. task[c].req \in CQ!Mine
    BY <1>1, <2>1, PlaceFacts DEF Phases
  <2>3. /\ Finished(Failed) \in CQ!Tasks /\ Finished(Failed).state = "returns"
        /\ CQ!In("parked", task[c].req) \in CQ!Tasks
        /\ CQ!In("parked", task[c].req).state = "parked"
        /\ CQ!In("parked", task[c].req).req = task[c].req
    BY <2>2, NewPlaces, AnswersPlaced DEF Phases
  <2>4. task[c].req.op \in Receivers => items = <<>>
    BY <2>1, <2>2, MineFacts, DesktopNames DEF CQ!Blocked
  <2>5. QED
    BY <1>3, <2>1, <2>3, <2>4
<1>12. ASSUME NEW c \in Callers, CQ!Restore(c)
       PROVE  DesktopInv'
  <2>1. /\ task[c].item \in Items
        /\ UNCHANGED <<plain, size, deleted, crashed>>
    BY <1>12, RestoreFacts
  <2>2. Finished([ok |-> TRUE, item |-> task[c].item]).state = "returns"
    BY <2>1, AnswersPlaced
  <2>3. ASSUME NEW r \in Callers, Calling(r, "parked", Receivers), UNCHANGED items,
               TwoMove(c, Finished([ok |-> TRUE, item |-> task[c].item]),
                       r, CQ!Received(task[r], task[c].item))
        PROVE  DesktopInv'
    <3>1. Served(CQ!Received(task[r], task[c].item)) /\ Holds(CQ!Received(task[r], task[c].item))
      BY <1>1, <2>1, <2>3, ReceivedKeeps DEF Calling, Phases
    <3>2. QED
      BY <1>1, <2>1, <2>2, <2>3, <3>1, TwoKeep
  <2>4. CASE /\ CQ!Parked(Receivers) = {}
             /\ items' = IF Len(items) < size THEN Append(items, task[c].item) ELSE items
             /\ OneMoves(c, Finished([ok |-> TRUE, item |-> task[c].item]))
    <3>1. items' \in Seq(Items) /\ Len(items') <= size
      BY <1>1, <2>1, <2>4, ChannelFacts
    <3>2. QED
      BY <2>1, <2>2, <2>4, <3>1, OneKeeps
  <2>5. QED
    BY <1>12, <2>3, <2>4, RestoreFacts
<1>13. ASSUME NEW c \in Callers, CQ!TimesOut(c)
       PROVE  DesktopInv'
  <2>1. /\ task' = [task EXCEPT ![c] = Finished(Failed)]
        /\ UNCHANGED <<plain, size, items, deleted, crashed>>
    BY <1>13, DesktopNames DEF CQ!TimesOut
  <2>2. Finished(Failed) \in CQ!Tasks /\ Finished(Failed).state = "returns"
    BY NewPlaces, AnswersPlaced
  <2>3. QED
    BY <1>3, <2>1, <2>2
<1>14. ASSUME NEW c \in Callers, CQ!Return(c)
       PROVE  DesktopInv'
  BY <1>3, <1>14, DesktopNames, NewPlaces DEF CQ!Return
<1>15. CASE CQ!Delete
  <2>1. /\ ~ plain /\ deleted' = TRUE /\ crashed' \in BOOLEAN
        /\ task' = [c \in Callers |-> IF c \in CQ!Parked(Receivers)
                                      THEN CQ!Received(task[c], NoItem) ELSE task[c]]
        /\ UNCHANGED <<plain, size, items>>
    BY <1>15, DesktopNames DEF CQ!Delete
  <2>2. ASSUME NEW c \in CQ!Parked(Receivers)
        PROVE  /\ CQ!Received(task[c], NoItem) \in CQ!Tasks
               /\ Served(CQ!Received(task[c], NoItem))
    <3>1. /\ task[c] \in CQ!Tasks /\ task[c].state \in Phases
          /\ task[c].req.op \in Receivers
      BY <1>1, ParkedFacts DEF Phases
    <3>2. QED
      BY <3>1, ReceivedKeeps
  <2>3. task' \in [Callers -> CQ!Tasks]
    BY <1>1, <2>1, <2>2
  <2>4. \A c \in Callers : \/ task'[c] = task[c]
                           \/ task'[c].state = "returns"
                           \/ task'[c].state = "restoring" /\ task'[c].req.op = "Peek"
    BY <2>1, <2>2 DEF Served
  <2>5. QED
    BY <1>1, <2>1, <2>3, <2>4, DesktopKeeps
<1>16. CASE UNCHANGED CQ!vars
  BY <1>1, <1>16, DesktopKeeps DEF CQ!vars, DesktopInv, CQ!TypeOK
<1>17. QED
  BY <1>2, <1>4, <1>5, <1>6, <1>7, <1>8, <1>9, <1>10, <1>11, <1>12, <1>13, <1>14, <1>15,
     <1>16 DEF CQ!Next, CQ!Proceed

(* DesktopInv is an invariant of the desktop's queue.                       *)
THEOREM DesktopInductive == CQ!Spec => []DesktopInv
  BY DesktopInit, DesktopNext, PTL DEF CQ!Spec

-----------------------------------------------------------------------------
(* The desktop's refinement *)

(* The call the interface sees a task in.                                   *)
SeenAs(t) == IF t.state \in Phases \cup {"restoring"}
             THEN [state |-> "pending", req |-> t.req] ELSE t
Seen == [c \in Callers |-> IF CQ!Waiting(c) THEN [state |-> "pending", req |-> task[c].req]
                                            ELSE task[c]]

(* What the interface sees of each state.                                   *)
LEMMA SeenFacts ==
  /\ \A phase \in Phases : \A req \in CQ!Mine :
       SeenAs(CQ!In(phase, req)) = [state |-> "pending", req |-> req]
  /\ SeenAs(Idle) = Idle /\ \A answer : SeenAs(Finished(answer)) = Finished(answer)
  /\ SeenAs(Sent) = Sent
  /\ Seen = [c \in Callers |-> SeenAs(task[c])]
  /\ \A c \in Callers : Seen[c] = SeenAs(task[c])
<1>1. \A phase \in Phases : \A req \in CQ!Mine :
        SeenAs(CQ!In(phase, req)) = [state |-> "pending", req |-> req]
  BY NewPlaces DEF SeenAs
<1>2. SeenAs(Idle) = Idle /\ \A answer : SeenAs(Finished(answer)) = Finished(answer)
  BY DEF SeenAs, Idle, Finished, Phases
<1>3. Seen = [c \in Callers |-> SeenAs(task[c])]
  BY DEF Seen, SeenAs, CQ!Waiting, Phases
<1>4. QED
  BY <1>1, <1>2, <1>3 DEF Sent

(* The moves of tasks, as the interface sees them.                          *)
LEMMA SeenPrimed == Seen' = [c \in Callers |-> SeenAs(task'[c])]
  BY DEF Seen, SeenAs, CQ!Waiting, Phases

(* One task moves.                                                          *)
LEMMA SeenOne ==
  ASSUME NEW c \in Callers, NEW a, OneMoves(c, a)
  PROVE  Seen' = [Seen EXCEPT ![c] = SeenAs(a)]
BY SeenPrimed, SeenFacts DEF OneMoves

(* Two tasks move.                                                          *)
LEMMA SeenTwo ==
  ASSUME NEW c \in Callers, NEW d \in Callers, NEW a, NEW b, TwoMove(c, a, d, b)
  PROVE  /\ Seen' = [Seen EXCEPT ![c] = SeenAs(a), ![d] = SeenAs(b)]
         /\ Seen' = [Seen EXCEPT ![d] = SeenAs(b), ![c] = SeenAs(a)]
<1>1. \A e \in Callers : task'[e] = IF e = c THEN a ELSE IF e = d THEN b ELSE task[e]
  BY DEF TwoMove
<1>2. c # d
  BY DEF TwoMove
<1>3. Seen' = [e \in Callers |-> IF e = c THEN SeenAs(a)
                                 ELSE IF e = d THEN SeenAs(b) ELSE SeenAs(task[e])]
  BY <1>1, SeenPrimed
<1>4. Seen = [e \in Callers |-> SeenAs(task[e])]
  BY SeenFacts
<1>5. QED
  BY <1>2, <1>3, <1>4

(* The interface's state and steps, in terms of what it sees.               *)
LEMMA SeenState ==
  /\ CQ!BQ!vars = <<items, deleted, Seen>>
  /\ UNCHANGED <<items, deleted, Seen>> => UNCHANGED CQ!BQ!vars
BY DEF CQ!BQ!vars, Seen

(* Each of its steps.                                                       *)
LEMMA SeenSteps ==
  ASSUME NEW c \in Callers, NEW d \in Callers
  PROVE  /\ CQ!BQ!Invoke(c) <=>
              /\ Seen[c] = Idle
              /\ \E req \in Requests : Seen' = [Seen EXCEPT ![c] = CQ!BQ!Pending(req)]
              /\ UNCHANGED <<items, deleted>>
         /\ CQ!BQ!Insert(c) <=>
              /\ Seen[c].state = "pending" /\ Seen[c].req.op \in Senders
              /\ ~ deleted /\ Len(items) < Capacity
              /\ items' = IF Seen[c].req.op = "Send" THEN Append(items, Seen[c].req.item)
                                                     ELSE <<Seen[c].req.item>> \o items
              /\ Seen' = [Seen EXCEPT ![c] = Sent]
              /\ UNCHANGED deleted
         /\ CQ!BQ!Obtain(c) <=>
              /\ Seen[c].state = "pending" /\ Seen[c].req.op \in Receivers
              /\ ~ deleted /\ items # <<>>
              /\ items' = IF Seen[c].req.op = "Receive" THEN Tail(items) ELSE items
              /\ Seen' = [Seen EXCEPT ![c] = Finished([ok |-> TRUE, item |-> Head(items)])]
              /\ UNCHANGED deleted
         /\ CQ!BQ!Pass(c, d) <=>
              /\ Seen[c].state = "pending" /\ Seen[c].req.op \in Senders
              /\ Seen[d].state = "pending" /\ Seen[d].req.op = "Receive"
              /\ ~ deleted /\ items = <<>>
              /\ Seen' = [Seen EXCEPT
                            ![c] = Sent,
                            ![d] = Finished([ok |-> TRUE, item |-> Seen[c].req.item])]
              /\ UNCHANGED <<items, deleted>>
         /\ CQ!BQ!Refill(c, d) <=>
              /\ Seen[c].state = "pending" /\ Seen[c].req.op = "Receive"
              /\ Seen[d].state = "pending" /\ Seen[d].req.op = "Send"
              /\ ~ deleted /\ items # <<>>
              /\ items' = Append(Tail(items), Seen[d].req.item)
              /\ Seen' = [Seen EXCEPT
                            ![d] = Sent,
                            ![c] = Finished([ok |-> TRUE, item |-> Head(items)])]
              /\ UNCHANGED deleted
         /\ CQ!BQ!GiveUp(c) <=>
              /\ Seen[c].state = "pending"
              /\ \/ deleted
                 \/ /\ Seen[c].req.timeout # "forever"
                    /\ IF Seen[c].req.op \in Senders THEN Len(items) >= Capacity
                                                     ELSE items = <<>>
              /\ Seen' = [Seen EXCEPT ![c] = Finished(Failed)]
              /\ UNCHANGED <<items, deleted>>
         /\ CQ!BQ!Return(c) <=>
              /\ Seen[c].state = "returns" /\ Seen' = [Seen EXCEPT ![c] = Idle]
              /\ UNCHANGED <<items, deleted>>
<1> USE DesktopNames
<1>1. CQ!BQ!Invoke(c) <=>
        /\ Seen[c] = Idle
        /\ \E req \in Requests : Seen' = [Seen EXCEPT ![c] = CQ!BQ!Pending(req)]
        /\ UNCHANGED <<items, deleted>>
  BY DEF CQ!BQ!Invoke, Seen
<1>2. CQ!BQ!Insert(c) <=>
        /\ Seen[c].state = "pending" /\ Seen[c].req.op \in Senders
        /\ ~ deleted /\ Len(items) < Capacity
        /\ items' = IF Seen[c].req.op = "Send" THEN Append(items, Seen[c].req.item)
                                               ELSE <<Seen[c].req.item>> \o items
        /\ Seen' = [Seen EXCEPT ![c] = Sent]
        /\ UNCHANGED deleted
  BY DEF CQ!BQ!Insert, Seen, Sent
<1>3. CQ!BQ!Obtain(c) <=>
        /\ Seen[c].state = "pending" /\ Seen[c].req.op \in Receivers
        /\ ~ deleted /\ items # <<>>
        /\ items' = IF Seen[c].req.op = "Receive" THEN Tail(items) ELSE items
        /\ Seen' = [Seen EXCEPT ![c] = Finished([ok |-> TRUE, item |-> Head(items)])]
        /\ UNCHANGED deleted
  BY DEF CQ!BQ!Obtain, Seen
<1>4. CQ!BQ!Pass(c, d) <=>
        /\ Seen[c].state = "pending" /\ Seen[c].req.op \in Senders
        /\ Seen[d].state = "pending" /\ Seen[d].req.op = "Receive"
        /\ ~ deleted /\ items = <<>>
        /\ Seen' = [Seen EXCEPT
                      ![c] = Sent,
                      ![d] = Finished([ok |-> TRUE, item |-> Seen[c].req.item])]
        /\ UNCHANGED <<items, deleted>>
  BY DEF CQ!BQ!Pass, Seen, Sent
<1>5. CQ!BQ!Refill(c, d) <=>
        /\ Seen[c].state = "pending" /\ Seen[c].req.op = "Receive"
        /\ Seen[d].state = "pending" /\ Seen[d].req.op = "Send"
        /\ ~ deleted /\ items # <<>>
        /\ items' = Append(Tail(items), Seen[d].req.item)
        /\ Seen' = [Seen EXCEPT
                      ![d] = Sent,
                      ![c] = Finished([ok |-> TRUE, item |-> Head(items)])]
        /\ UNCHANGED deleted
  BY DEF CQ!BQ!Refill, Seen, Sent
<1>6. CQ!BQ!GiveUp(c) <=>
        /\ Seen[c].state = "pending"
        /\ \/ deleted
           \/ /\ Seen[c].req.timeout # "forever"
              /\ IF Seen[c].req.op \in Senders THEN Len(items) >= Capacity
                                               ELSE items = <<>>
        /\ Seen' = [Seen EXCEPT ![c] = Finished(Failed)]
        /\ UNCHANGED <<items, deleted>>
  BY DEF CQ!BQ!GiveUp, Seen
<1>7. CQ!BQ!Return(c) <=>
        /\ Seen[c].state = "returns" /\ Seen' = [Seen EXCEPT ![c] = Idle]
        /\ UNCHANGED <<items, deleted>>
  BY DEF CQ!BQ!Return, Seen
<1>8. QED
  BY <1>1, <1>2, <1>3, <1>4, <1>5, <1>6, <1>7

(* A task that calls is pending for the interface, and what a plain one     *)
(* asks the interface offers too.                                           *)
LEMMA SeenCalling ==
  ASSUME NEW c \in Callers, NEW phase \in Phases, NEW ops, Calling(c, phase, ops)
  PROVE  /\ Seen[c].state = "pending" /\ Seen[c].req = task[c].req
         /\ task[c].req.op \in ops
         /\ plain /\ ops = Senders => task[c].req.op = "Send"
         /\ plain /\ ops = Receivers =>
              /\ task[c].req.op = "Receive"
              /\ \A item : CQ!Received(task[c], item) = Finished([ok |-> TRUE, item |-> item])
         /\ plain => task[c].req.timeout # "finite"
<1>1. task[c].req \in CQ!Mine /\ task[c].state = phase /\ task[c].req.op \in ops
  BY DEF Calling
<1>2. Seen[c] = [state |-> "pending", req |-> task[c].req]
  BY <1>1, SeenFacts DEF SeenAs
<1>3. plain => task[c].req.op \in {"Send", "Receive"} /\ task[c].req.timeout # "finite"
  BY <1>1, MineFacts
<1>4. \A item : task[c].req.op = "Receive" =>
        CQ!Received(task[c], item) = Finished([ok |-> TRUE, item |-> item])
  BY DesktopNames DEF CQ!Received
<1>5. QED
  BY <1>1, <1>2, <1>3, <1>4 DEF Senders, Receivers

(* The channel starts as the interface says.                                *)
LEMMA DesktopInitRefined == CQ!Init => CQ!BQ!Init
<1> SUFFICES ASSUME CQ!Init
             PROVE  CQ!BQ!Init
  OBVIOUS
<1>1. items = <<>> /\ deleted = FALSE /\ \A c \in Callers : task[c] = Idle
  BY DesktopNames DEF CQ!Init
<1>2. Seen = [c \in Callers |-> Idle]
  BY <1>1, SeenFacts
<1>3. QED
  BY <1>1, <1>2, DesktopNames DEF CQ!BQ!Init, Seen

(* Every step of tasks that only send to the back and receive, and give no  *)
(* finite timeout, is a step of the interface's queue or not visible there. *)
LEMMA DesktopRefined ==
  ASSUME DesktopInv, [CQ!Next]_(CQ!vars), plain
  PROVE  [CQ!BQ!Next]_(CQ!BQ!vars)
<1>1. /\ items \in Seq(Items) /\ Len(items) \in Nat /\ size = Capacity /\ ~ deleted
      /\ items = <<>> <=> Len(items) = 0
      /\ task \in [Callers -> CQ!Tasks]
  BY DesktopFacts DEF DesktopInv
<1>2. ASSUME UNCHANGED <<items, deleted>>, UNCHANGED Seen
      PROVE  UNCHANGED CQ!BQ!vars
  BY <1>2, SeenState
<1>3. ASSUME NEW c \in Callers, NEW req \in CQ!Mine, CQ!Start(c, req)
      PROVE  CQ!BQ!Next
  <2>1. /\ task[c] = Idle /\ task' = [task EXCEPT ![c] = CQ!In("entering", req)]
        /\ UNCHANGED <<items, deleted>>
    BY <1>3, DesktopNames DEF CQ!Start
  <2>2. /\ CQ!In("entering", req) \in CQ!Tasks
        /\ SeenAs(CQ!In("entering", req)) = CQ!BQ!Pending(req)
    BY NewPlaces, SeenFacts DEF Phases, CQ!BQ!Pending
  <2>3. Seen' = [Seen EXCEPT ![c] = CQ!BQ!Pending(req)] /\ Seen[c] = Idle
    <3>1. OneMoves(c, CQ!In("entering", req))
      BY <1>1, <2>1, <2>2, OnlyMoves
    <3>2. Seen' = [Seen EXCEPT ![c] = SeenAs(CQ!In("entering", req))]
      BY <3>1, SeenOne
    <3>3. Seen[c] = Idle
      BY <2>1, SeenFacts
    <3>4. QED
      BY <2>2, <3>2, <3>3
  <2>4. req \in Requests
    BY MineFacts
  <2>5. CQ!BQ!Invoke(c)
    BY <2>1, <2>3, <2>4, SeenSteps
  <2>6. QED
    BY <2>5 DEF CQ!BQ!Next
<1>4. ASSUME NEW c \in Callers, CQ!Check(c)
      PROVE  UNCHANGED CQ!BQ!vars
  <2>1. /\ task[c].state = "entering"
        /\ task' = [task EXCEPT ![c] = CQ!In("selecting", task[c].req)]
        /\ UNCHANGED <<items, deleted>>
    BY <1>1, <1>4, DesktopNames DEF CQ!Check, CQ!At
  <2>2. task[c].req \in CQ!Mine
    BY <1>1, <2>1, PlaceFacts DEF Phases
  <2>3. /\ CQ!In("selecting", task[c].req) \in CQ!Tasks
        /\ SeenAs(CQ!In("selecting", task[c].req)) = SeenAs(task[c])
    BY <2>1, <2>2, NewPlaces, SeenFacts DEF Phases, SeenAs
  <2>4. Seen' = [Seen EXCEPT ![c] = SeenAs(task[c])]
    BY <1>1, <2>1, <2>3, OnlyMoves, SeenOne
  <2>5. UNCHANGED Seen
    BY <2>4, SeenFacts
  <2>6. QED
    BY <1>2, <2>1, <2>5
<1>5. ASSUME NEW c \in Callers, CQ!Park(c)
      PROVE  [CQ!BQ!Next]_(CQ!BQ!vars)
  <2>1. /\ task[c].state = "selecting" /\ CQ!Blocked(task[c].req)
        /\ task' = [task EXCEPT ![c] = IF task[c].req.timeout = "none" THEN Finished(Failed)
                                       ELSE CQ!In("parked", task[c].req)]
        /\ UNCHANGED <<items, deleted>>
    BY <1>1, <1>5, DesktopNames DEF CQ!Park, CQ!At
  <2>2. task[c].req \in CQ!Mine
    BY <1>1, <2>1, PlaceFacts DEF Phases
  <2>3. CASE task[c].req.timeout = "none"
    <3>1. task' = [task EXCEPT ![c] = Finished(Failed)]
      BY <2>1, <2>3
    <3>2. Seen' = [Seen EXCEPT ![c] = Finished(Failed)]
      <4>1. OneMoves(c, Finished(Failed))
        BY <1>1, <3>1, AnswersPlaced, OnlyMoves
      <4>2. Seen' = [Seen EXCEPT ![c] = SeenAs(Finished(Failed))]
        BY <4>1, SeenOne
      <4>3. QED
        BY <4>2, SeenFacts
    <3>3. Seen[c].state = "pending" /\ Seen[c].req = task[c].req
      BY <2>1, SeenFacts DEF SeenAs, Phases
    <3>4. IF task[c].req.op \in Senders THEN Len(items) = size ELSE items = <<>>
      BY <2>1, DesktopNames DEF CQ!Blocked, CQ!BufferSize
    <3>5. /\ Seen[c].req.timeout # "forever"
          /\ IF Seen[c].req.op \in Senders THEN Len(items) >= Capacity ELSE items = <<>>
      BY <1>1, <2>3, <3>3, <3>4
    <3>6. CQ!BQ!GiveUp(c)
      BY <2>1, <3>2, <3>3, <3>5, SeenSteps
    <3>7. QED
      BY <3>6 DEF CQ!BQ!Next
  <2>4. CASE task[c].req.timeout # "none"
    <3>1. /\ CQ!In("parked", task[c].req) \in CQ!Tasks
          /\ SeenAs(CQ!In("parked", task[c].req)) = SeenAs(task[c])
      BY <2>1, <2>2, NewPlaces, SeenFacts DEF Phases, SeenAs
    <3>2. task' = [task EXCEPT ![c] = CQ!In("parked", task[c].req)]
      BY <2>1, <2>4
    <3>3. Seen' = [Seen EXCEPT ![c] = SeenAs(task[c])]
      BY <1>1, <3>1, <3>2, OnlyMoves, SeenOne
    <3>4. UNCHANGED Seen
      BY <3>3, SeenFacts
    <3>5. QED
      BY <1>2, <2>1, <3>4
  <2>5. QED
    BY <2>3, <2>4
<1>6. ASSUME NEW s \in Callers, NEW r \in Callers, NEW p \in Phases, NEW q \in Phases,
             Calling(s, p, Senders), Calling(r, q, Receivers), items = <<>>,
             UNCHANGED <<items, deleted>>,
             \/ TwoMove(s, Sent, r, CQ!Received(task[r], task[s].req.item))
             \/ TwoMove(r, CQ!Received(task[r], task[s].req.item), s, Sent)
      PROVE  CQ!BQ!Next
  <2>1. /\ Seen[s].state = "pending" /\ Seen[s].req = task[s].req
        /\ Seen[s].req.op \in Senders
        /\ Seen[r].state = "pending" /\ Seen[r].req.op = "Receive"
        /\ CQ!Received(task[r], task[s].req.item) =
             Finished([ok |-> TRUE, item |-> task[s].req.item])
    BY <1>6, SeenCalling
  <2>2. Seen' = [Seen EXCEPT ![s] = Sent,
                             ![r] = Finished([ok |-> TRUE, item |-> Seen[s].req.item])]
    BY <1>6, <2>1, SeenTwo, SeenFacts DEF Sent
  <2>3. CQ!BQ!Pass(s, r)
    BY <1>1, <1>6, <2>1, <2>2, SeenSteps
  <2>4. QED
    BY <2>3 DEF CQ!BQ!Next
<1>7. ASSUME NEW c \in Callers, NEW r \in Callers, CQ!SendHands(c, r)
      PROVE  CQ!BQ!Next
  BY <1>6, <1>7, SendHandsFacts DEF Phases
<1>8. ASSUME NEW c \in Callers, NEW s \in Callers, CQ!ReceiveHands(c, s)
      PROVE  CQ!BQ!Next
  BY <1>6, <1>8, ReceiveHandsFacts DEF Phases
<1>9. ASSUME NEW c \in Callers, CQ!SendBuffers(c)
      PROVE  CQ!BQ!Next
  <2>1. /\ Calling(c, "selecting", Senders) /\ Len(items) < Capacity
        /\ items' = Append(items, task[c].req.item)
        /\ OneMoves(c, Sent) /\ UNCHANGED deleted
    BY <1>1, <1>9, SendBuffersFacts
  <2>2. /\ Seen[c].state = "pending" /\ Seen[c].req = task[c].req
        /\ task[c].req.op = "Send"
    BY <2>1, SeenCalling DEF Phases
  <2>3. Seen' = [Seen EXCEPT ![c] = Sent]
    BY <2>1, SeenOne, SeenFacts DEF Sent
  <2>4. CQ!BQ!Insert(c)
    BY <1>1, <2>1, <2>2, <2>3, SeenSteps DEF Senders
  <2>5. QED
    BY <2>4 DEF CQ!BQ!Next
<1>10. ASSUME NEW c \in Callers, CQ!ReceiveBuffered(c)
       PROVE  CQ!BQ!Next
  <2>1. /\ Calling(c, "selecting", Receivers) /\ items # <<>> /\ UNCHANGED deleted
    BY <1>10, ReceiveBufferedFacts
  <2>2. /\ Seen[c].state = "pending" /\ Seen[c].req = task[c].req
        /\ task[c].req.op = "Receive"
        /\ CQ!Received(task[c], Head(items)) =
             Finished([ok |-> TRUE, item |-> Head(items)])
    BY <2>1, SeenCalling DEF Phases
  <2>3. CASE items' = Tail(items) /\ OneMoves(c, CQ!Received(task[c], Head(items)))
    <3>1. Seen' = [Seen EXCEPT ![c] = Finished([ok |-> TRUE, item |-> Head(items)])]
      BY <2>2, <2>3, SeenOne, SeenFacts
    <3>2. CQ!BQ!Obtain(c)
      BY <1>1, <2>1, <2>2, <2>3, <3>1, SeenSteps DEF Receivers
    <3>3. QED
      BY <3>2 DEF CQ!BQ!Next
  <2>4. ASSUME NEW s \in Callers, Calling(s, "parked", Senders),
               items' = Append(Tail(items), task[s].req.item),
               TwoMove(c, CQ!Received(task[c], Head(items)), s, Sent)
        PROVE  CQ!BQ!Next
    <3>1. /\ Seen[s].state = "pending" /\ Seen[s].req = task[s].req
          /\ task[s].req.op = "Send"
      BY <2>4, SeenCalling DEF Phases
    <3>2. Seen' = [Seen EXCEPT ![s] = Sent,
                               ![c] = Finished([ok |-> TRUE, item |-> Head(items)])]
      BY <2>2, <2>4, SeenTwo, SeenFacts DEF Sent
    <3>3. CQ!BQ!Refill(c, s)
      <4>1. /\ Seen[c].state = "pending" /\ Seen[c].req.op = "Receive"
            /\ Seen[s].state = "pending" /\ Seen[s].req.op = "Send"
            /\ items' = Append(Tail(items), Seen[s].req.item)
        BY <2>2, <2>4, <3>1
      <4>2. QED
        BY <1>1, <2>1, <3>2, <4>1, SeenSteps
    <3>4. QED
      BY <3>3 DEF CQ!BQ!Next
  <2>5. QED
    BY <1>10, <2>3, <2>4, ReceiveBufferedFacts
<1>11. ASSUME NEW c \in Callers, CQ!Return(c)
       PROVE  CQ!BQ!Next
  <2>1. /\ task[c].state = "returns" /\ task' = [task EXCEPT ![c] = Idle]
        /\ UNCHANGED <<items, deleted>>
    BY <1>11, DesktopNames DEF CQ!Return
  <2>2. Seen' = [Seen EXCEPT ![c] = Idle] /\ Seen[c].state = "returns"
    <3>1. Seen' = [Seen EXCEPT ![c] = Idle]
      <4>1. OneMoves(c, Idle)
        BY <1>1, <2>1, NewPlaces, OnlyMoves
      <4>2. Seen' = [Seen EXCEPT ![c] = SeenAs(Idle)]
        BY <4>1, SeenOne
      <4>3. QED
        BY <4>2, SeenFacts
    <3>2. Seen[c].state = "returns"
      BY <2>1, SeenFacts DEF SeenAs, Phases
    <3>3. QED
      BY <3>1, <3>2
  <2>3. CQ!BQ!Return(c)
    BY <2>1, <2>2, SeenSteps
  <2>4. QED
    BY <2>3 DEF CQ!BQ!Next
<1>12. ASSUME NEW c \in Callers
       PROVE  /\ ~ CQ!SendPanics(c) /\ ~ CQ!ReceiveClosed(c) /\ ~ CQ!Restore(c)
              /\ ~ CQ!TimesOut(c)
  <2>1. ~ CQ!SendPanics(c) /\ ~ CQ!ReceiveClosed(c)
    BY <1>1 DEF CQ!SendPanics, CQ!ReceiveClosed
  <2>2. ~ CQ!Restore(c)
    <3>1. SUFFICES ASSUME CQ!Restore(c)
                   PROVE  FALSE
      OBVIOUS
    <3>2. Calling(c, "restoring", {"Peek"})
      BY <3>1, RestoreFacts
    <3>3. QED
      BY <3>2, MineFacts DEF Calling
  <2>3. ~ CQ!TimesOut(c)
    <3>1. SUFFICES ASSUME CQ!TimesOut(c)
                   PROVE  FALSE
      OBVIOUS
    <3>2. task[c].state \in Phases /\ task[c].req.timeout = "finite"
      BY <3>1 DEF CQ!TimesOut, CQ!At, Phases
    <3>3. task[c].req \in CQ!Mine
      BY <1>1, <3>2, PlaceFacts
    <3>4. QED
      BY <3>2, <3>3, MineFacts
  <2>4. QED
    BY <2>1, <2>2, <2>3
<1>13. ~ CQ!Delete
  BY DEF CQ!Delete
<1>14. CASE UNCHANGED CQ!vars
  BY <1>2, <1>14, SeenFacts, SeenPrimed DEF CQ!vars
<1>15. QED
  BY <1>3, <1>4, <1>5, <1>7, <1>8, <1>9, <1>10, <1>11, <1>12, <1>13, <1>14
  DEF CQ!Next, CQ!Proceed

(* Whatever the number of tasks and the capacity: to tasks that only send   *)
(* to the back and receive, give no finite timeout and leave the queue      *)
(* where it is, the channel behind its flag is the queue of the interface.  *)
THEOREM DesktopImplements == CQ!Spec => CQ!ImplementsBoundedQueue
<1>1. CQ!Init => (plain => CQ!BQ!Init)
  BY DesktopInitRefined
<1>2. DesktopInv /\ [CQ!Next]_(CQ!vars) => [plain => CQ!BQ!Next]_(CQ!BQ!vars)
  BY DesktopRefined
<1>3. QED
  BY <1>1, <1>2, DesktopInductive, PTL DEF CQ!Spec, CQ!ImplementsBoundedQueue

-----------------------------------------------------------------------------
(* Counting *)

(* 1 or 0, for a fact that holds or does not.                               *)
Has(S, c) == IF c \in S THEN 1 ELSE 0
Is(x, i)  == IF x = i THEN 1 ELSE 0

(* The instance counts as FiniteSets does.                                  *)
LEMMA SameCount == \A S : CQ!Cardinality(S) = Cardinality(S)
BY DEF CQ!Cardinality, Cardinality

(* A set counted apart from one or two of its elements.                     *)
LEMMA CountOne ==
  ASSUME NEW A, IsFiniteSet(A), NEW c
  PROVE  /\ Cardinality(A) \in Nat /\ Cardinality(A \ {c}) \in Nat /\ IsFiniteSet(A \ {c})
         /\ Cardinality(A) = Cardinality(A \ {c}) + Has(A, c)
<1>1. /\ IsFiniteSet(A \ {c})
      /\ Cardinality(A \ {c}) = IF c \in A THEN Cardinality(A) - 1 ELSE Cardinality(A)
  BY FS_RemoveElement
<1>2. Cardinality(A) \in Nat /\ Cardinality(A \ {c}) \in Nat
  BY <1>1, FS_CardinalityType
<1>3. QED
  BY <1>1, <1>2 DEF Has

(* The same for two.                                                        *)
LEMMA CountTwo ==
  ASSUME NEW A, IsFiniteSet(A), NEW c, NEW d, c # d
  PROVE  /\ Cardinality(A) \in Nat /\ Cardinality(A \ {c, d}) \in Nat
         /\ Cardinality(A) = Cardinality(A \ {c, d}) + Has(A, c) + Has(A, d)
<1> DEFINE B == A \ {c}
<1>1. /\ IsFiniteSet(B) /\ Cardinality(A) \in Nat
      /\ Cardinality(A) = Cardinality(B) + Has(A, c)
  BY CountOne
<1>2. /\ Cardinality(B) \in Nat /\ Cardinality(B \ {d}) \in Nat
      /\ Cardinality(B) = Cardinality(B \ {d}) + Has(B, d)
  BY <1>1, CountOne
<1>3. B \ {d} = A \ {c, d} /\ (d \in B <=> d \in A)
  OBVIOUS
<1>4. Has(B, d) = Has(A, d) /\ Has(A, d) \in Nat /\ Has(A, c) \in Nat
  BY <1>3 DEF Has
<1>5. /\ Cardinality(A \ {c, d}) \in Nat
      /\ Cardinality(B) = Cardinality(A \ {c, d}) + Has(A, d)
  <2> HIDE DEF B
  <2>1. QED
    BY <1>2, <1>3, <1>4
<1>6. QED
  <2> HIDE DEF B
  <2>1. QED
    BY <1>1, <1>4, <1>5

(* Where a sequence has an element.                                         *)
Places(s, i) == {n \in 1 .. Len(s) : s[n] = i}

(* They are finitely many.                                                  *)
LEMMA PlacesFinite ==
  ASSUME NEW s \in Seq(Items), NEW i
  PROVE  IsFiniteSet(Places(s, i)) /\ Cardinality(Places(s, i)) \in Nat
<1>1. Len(s) \in Nat
  BY LenProperties
<1>2. IsFiniteSet(1 .. Len(s))
  BY <1>1, FS_Interval
<1>3. QED
  BY <1>2, FS_Subset, FS_CardinalityType DEF Places

(* An element put at the end is one place more of it.                       *)
LEMMA PlacesAppend ==
  ASSUME NEW s \in Seq(Items), NEW x \in Items, NEW i
  PROVE  Cardinality(Places(Append(s, x), i)) = Cardinality(Places(s, i)) + Is(x, i)
<1>1. /\ Len(s) \in Nat /\ Len(Append(s, x)) = Len(s) + 1
      /\ Append(s, x)[Len(s) + 1] = x
      /\ \A n \in 1 .. Len(s) : Append(s, x)[n] = s[n]
  BY LenProperties, AppendProperties
<1>2. IsFiniteSet(Places(s, i)) /\ Cardinality(Places(s, i)) \in Nat
  BY PlacesFinite
<1>3. Len(s) + 1 \notin Places(s, i)
  BY <1>1 DEF Places
<1>4. CASE x = i
  <2>1. Places(Append(s, x), i) = Places(s, i) \cup {Len(s) + 1}
    BY <1>1, <1>4 DEF Places
  <2>2. QED
    BY <1>2, <1>3, <1>4, <2>1, FS_AddElement DEF Is
<1>5. CASE x # i
  <2>1. Places(Append(s, x), i) = Places(s, i)
    BY <1>1, <1>5 DEF Places
  <2>2. QED
    BY <1>2, <1>5, <2>1 DEF Is
<1>6. QED
  BY <1>4, <1>5

(* Without its head a sequence has one place less of it.                    *)
LEMMA PlacesTail ==
  ASSUME NEW s \in Seq(Items), s # <<>>, NEW i
  PROVE  Cardinality(Places(s, i)) = Cardinality(Places(Tail(s), i)) + Is(Head(s), i)
<1> DEFINE T == Places(Tail(s), i)
           S == Places(s, i) \ {1}
           f == [n \in T |-> n + 1]
<1>1. /\ Len(s) \in Nat /\ Tail(s) \in Seq(Items) /\ Len(Tail(s)) = Len(s) - 1
      /\ Len(Tail(s)) \in Nat
      /\ \A n \in 1 .. Len(Tail(s)) : Tail(s)[n] = s[n + 1]
  BY LenProperties, HeadTailProperties
<1>2. /\ IsFiniteSet(T) /\ Cardinality(T) \in Nat
      /\ IsFiniteSet(Places(s, i)) /\ Cardinality(Places(s, i)) \in Nat
  BY <1>1, PlacesFinite
<1>3. f \in [T -> S]
  BY <1>1 DEF Places
<1>4. \A m, n \in T : f[m] = f[n] => m = n
  BY <1>1 DEF Places
<1>5. \A n \in S : \E m \in T : f[m] = n
  <2> SUFFICES ASSUME NEW n \in S
               PROVE  \E m \in T : f[m] = n
    OBVIOUS
  <2>1. n \in 2 .. Len(s) /\ s[n] = i
    BY <1>1 DEF Places
  <2>2. n - 1 \in 1 .. Len(Tail(s)) /\ (n - 1) + 1 = n
    BY <1>1, <2>1
  <2>3. n - 1 \in T
    BY <1>1, <2>1, <2>2 DEF Places
  <2>4. f[n - 1] = n
    BY <2>2, <2>3
  <2>5. QED
    BY <2>3, <2>4
<1>6. ExistsBijection(T, S)
  <2> HIDE DEF T, S, f
  <2>1. f \in Bijection(T, S)
    BY <1>3, <1>4, <1>5, Fun_IsBij
  <2>2. QED
    BY <2>1 DEF ExistsBijection
<1>7. Cardinality(S) = Cardinality(T)
  <2> HIDE DEF T, S, f
  <2>1. QED
    BY <1>2, <1>6, FS_Bijection
<1>8. 1 \in Places(s, i) <=> Head(s) = i
  <2>1. Len(s) # 0 /\ Head(s) = s[1]
    BY <1>1, EmptySeq
  <2>2. QED
    BY <1>1, <2>1 DEF Places
<1>9. Cardinality(Places(s, i)) = Cardinality(S) + Has(Places(s, i), 1)
  BY <1>2, CountOne
<1>10. QED
  BY <1>7, <1>8, <1>9 DEF Has, Is

-----------------------------------------------------------------------------
(* Nothing is lost *)

(* The tasks that hold an item they have peeked at, and those whose call    *)
(* takes one into the queue or out of it in this step.                      *)
Hands(i)  == {c \in Callers : task[c].state = "restoring" /\ task[c].item = i}
Enters(i) == {c \in Callers : CQ!Answered(c, Senders) /\ task[c].req.item = i}
Leaves(i) == {c \in Callers : CQ!Passed(c, i)}

(* The balance of an item, in terms of these sets.                          *)
LEMMA BalanceFacts ==
  ASSUME NEW i
  PROVE  /\ CQ!Held(i) = Cardinality(Places(items, i)) + Cardinality(Hands(i))
         /\ CQ!Held(i)' = Cardinality(Places(items', i)) + Cardinality(Hands(i)')
         /\ CQ!Cardinality({c \in Callers : CQ!Answered(c, CQ!Senders) /\ task[c].req.item = i})
              = Cardinality(Enters(i))
         /\ CQ!Cardinality({c \in Callers : CQ!Passed(c, i)}) = Cardinality(Leaves(i))
<1>1. CQ!Held(i) = Cardinality(Places(items, i)) + Cardinality(Hands(i))
  BY SameCount DEF CQ!Held, Places, Hands
<1>2. CQ!Held(i)' = Cardinality(Places(items', i)) + Cardinality(Hands(i)')
  BY SameCount DEF CQ!Held, Places, Hands
<1>3. QED
  BY <1>1, <1>2, SameCount, DesktopNames DEF Enters, Leaves

(* What one task contributes to the four sides of the balance.              *)
Share(c, i, before, after, in, out) ==
  /\ Has(Hands(i), c) = before /\ Has(Hands(i)', c) = after
  /\ Has(Enters(i), c) = in /\ Has(Leaves(i), c) = out

(* One through which an item passes: into its hands, or out of the queue.   *)
Passes(c, i, n) == Share(c, i, 0, n, 0, 0) \/ Share(c, i, 0, 0, 0, n)

(* A task in the middle of its call, or out of it, contributes nothing.     *)
LEMMA IdleShare ==
  ASSUME NEW c \in Callers, NEW i,
         \/ /\ task[c].state # "restoring" /\ task'[c].state # "restoring"
            /\ task'[c].state # "returns" \/ ~ task'[c].answer.ok
         \/ task'[c] = task[c] /\ task[c].state # "restoring"
  PROVE  Share(c, i, 0, 0, 0, 0)
BY DEF Share, Has, Hands, Enters, Leaves, CQ!Answered, CQ!Passed

(* A task that has sent contributes its item.                               *)
LEMMA SenderShare ==
  ASSUME NEW c \in Callers, NEW phase \in Phases, Calling(c, phase, Senders),
         task'[c] = Sent, NEW i
  PROVE  Share(c, i, 0, 0, Is(task[c].req.item, i), 0)
<1>1. /\ task[c].state \in Phases /\ task[c].req.op \in Senders
      /\ task'[c].state = "returns" /\ task'[c].answer.ok
  BY AnswersPlaced DEF Calling
<1>2. QED
  BY <1>1 DEF Share, Has, Is, Hands, Enters, Leaves, CQ!Answered, CQ!Passed, Phases, Senders

(* A task that has received takes its item out, or into its hands.          *)
LEMMA ReceiverShare ==
  ASSUME NEW c \in Callers, NEW phase \in Phases, Calling(c, phase, Receivers),
         task[c] \in CQ!Tasks, NEW item \in Items \cup {NoItem},
         task'[c] = CQ!Received(task[c], item), NEW i \in Items
  PROVE  Passes(c, i, Is(item, i))
<1>1. task[c].state \in Phases /\ task[c].req.op \in Receivers
  BY DEF Calling
<1>2. CASE task[c].req.op = "Peek"
  <2>1. task'[c].state = "restoring" /\ task'[c].item = item
    <3>1. /\ CQ!Received(task[c], item).state = "restoring"
          /\ CQ!Received(task[c], item).item = item
      BY <1>1, <1>2, ReceivedFacts
    <3>2. QED
      BY <3>1
  <2>2. Share(c, i, 0, Is(item, i), 0, 0)
    BY <1>1, <2>1 DEF Share, Has, Is, Hands, Enters, Leaves, CQ!Answered, CQ!Passed, Phases
  <2>3. QED
    BY <2>2 DEF Passes
<1>3. CASE task[c].req.op # "Peek"
  <2>1. /\ task[c].req.op = "Receive" /\ task'[c].state = "returns"
        /\ task'[c].answer = [ok |-> TRUE, item |-> item]
    BY <1>1, <1>3, ReceivedFacts
  <2>2. Share(c, i, 0, 0, 0, Is(item, i))
    BY <1>1, <2>1
    DEF Share, Has, Is, Hands, Enters, Leaves, CQ!Answered, CQ!Passed, Phases, Senders
  <2>3. QED
    BY <2>2 DEF Passes
<1>4. QED
  BY <1>2, <1>3

(* A Peek that answers gives its item out of its hands, and out of the      *)
(* queue where it finds it full.                                            *)
LEMMA PeekShare ==
  ASSUME NEW c \in Callers, Calling(c, "restoring", {"Peek"}),
         task[c].item \in Items,
         task'[c] = Finished([ok |-> TRUE, item |-> task[c].item]), NEW i
  PROVE  Share(c, i, Is(task[c].item, i), 0, 0,
               IF Len(items) = size /\ CQ!Parked(Receivers) = {}
                    THEN Is(task[c].item, i) ELSE 0)
<1>1. /\ task'[c].state = "returns"
      /\ task'[c].answer = [ok |-> TRUE, item |-> task[c].item]
  BY AnswersPlaced
<1>2. QED
  BY <1>1, DesktopNames
  DEF Calling, Share, Has, Is, Hands, Enters, Leaves, CQ!Answered, CQ!Passed, Senders

(* The four sets differ from one another only in the tasks that move.       *)
LEMMA OneBalance ==
  ASSUME IsFiniteSet(Callers), NEW c \in Callers, NEW a, OneMoves(c, a), NEW i
  PROVE  /\ Cardinality(Hands(i)) \in Nat /\ Cardinality(Hands(i)') \in Nat
         /\ Cardinality(Hands(i)') - Cardinality(Hands(i)) =
              Has(Hands(i)', c) - Has(Hands(i), c)
         /\ Cardinality(Enters(i)) = Has(Enters(i), c)
         /\ Cardinality(Leaves(i)) = Has(Leaves(i), c)
<1> PICK A, B, E, L : A = Hands(i) /\ B = Hands(i)' /\ E = Enters(i) /\ L = Leaves(i)
  OBVIOUS
<1>1. IsFiniteSet(A) /\ IsFiniteSet(B) /\ IsFiniteSet(E) /\ IsFiniteSet(L)
  BY FS_Subset DEF Hands, Enters, Leaves
<1>2. A \ {c} = B \ {c}
  BY DEF OneMoves, Hands
<1>3. E \ {c} = {} /\ L \ {c} = {}
  BY DEF OneMoves, Enters, Leaves, CQ!Passed, CQ!Answered
<1>4. /\ Has(A, c) \in Nat /\ Has(B, c) \in Nat
      /\ Has(E, c) \in Nat /\ Has(L, c) \in Nat
  BY DEF Has
<1>5. Cardinality(E \ {c}) = 0 /\ Cardinality(L \ {c}) = 0
  BY <1>3, FS_EmptySet
<1>6. /\ Cardinality(A) \in Nat /\ Cardinality(A \ {c}) \in Nat /\ Cardinality(B) \in Nat
      /\ Cardinality(A) = Cardinality(A \ {c}) + Has(A, c)
      /\ Cardinality(B) = Cardinality(A \ {c}) + Has(B, c)
  BY <1>1, <1>2, CountOne
<1>7. /\ Cardinality(E) = Cardinality(E \ {c}) + Has(E, c)
      /\ Cardinality(L) = Cardinality(L \ {c}) + Has(L, c)
  BY <1>1, CountOne
<1>8. Cardinality(E) = Has(E, c) /\ Cardinality(L) = Has(L, c)
  BY <1>4, <1>5, <1>7
<1>9. Cardinality(B) - Cardinality(A) = Has(B, c) - Has(A, c)
  BY <1>4, <1>6
<1>10. QED
  BY <1>6, <1>8, <1>9

(* In two tasks.                                                            *)
LEMMA TwoBalance ==
  ASSUME IsFiniteSet(Callers), NEW c \in Callers, NEW a, NEW d \in Callers, NEW b,
         TwoMove(c, a, d, b), NEW i
  PROVE  /\ Cardinality(Hands(i)) \in Nat /\ Cardinality(Hands(i)') \in Nat
         /\ Cardinality(Hands(i)') - Cardinality(Hands(i)) =
              (Has(Hands(i)', c) - Has(Hands(i), c))
                + (Has(Hands(i)', d) - Has(Hands(i), d))
         /\ Cardinality(Enters(i)) = Has(Enters(i), c) + Has(Enters(i), d)
         /\ Cardinality(Leaves(i)) = Has(Leaves(i), c) + Has(Leaves(i), d)
<1> PICK A, B, E, L : A = Hands(i) /\ B = Hands(i)' /\ E = Enters(i) /\ L = Leaves(i)
  OBVIOUS
<1>1. IsFiniteSet(A) /\ IsFiniteSet(B) /\ IsFiniteSet(E) /\ IsFiniteSet(L)
  BY FS_Subset DEF Hands, Enters, Leaves
<1>2. A \ {c, d} = B \ {c, d}
  BY DEF TwoMove, Hands
<1>3. E \ {c, d} = {} /\ L \ {c, d} = {} /\ c # d
  BY DEF TwoMove, Enters, Leaves, CQ!Passed, CQ!Answered
<1>4. /\ Has(A, c) \in Nat /\ Has(B, c) \in Nat
      /\ Has(A, d) \in Nat /\ Has(B, d) \in Nat
      /\ Has(E, c) \in Nat /\ Has(L, c) \in Nat
      /\ Has(E, d) \in Nat /\ Has(L, d) \in Nat
  BY DEF Has
<1>5. Cardinality(E \ {c, d}) = 0 /\ Cardinality(L \ {c, d}) = 0
  BY <1>3, FS_EmptySet
<1>6. /\ Cardinality(A) \in Nat /\ Cardinality(A \ {c, d}) \in Nat /\ Cardinality(B) \in Nat
      /\ Cardinality(A) = Cardinality(A \ {c, d}) + Has(A, c) + Has(A, d)
      /\ Cardinality(B) = Cardinality(A \ {c, d}) + Has(B, c) + Has(B, d)
  BY <1>1, <1>2, <1>3, CountTwo
<1>7. /\ Cardinality(E) = Cardinality(E \ {c, d}) + Has(E, c) + Has(E, d)
      /\ Cardinality(L) = Cardinality(L \ {c, d}) + Has(L, c) + Has(L, d)
  BY <1>1, <1>3, CountTwo
<1>8. /\ Cardinality(E) = Has(E, c) + Has(E, d)
      /\ Cardinality(L) = Has(L, c) + Has(L, d)
  BY <1>4, <1>5, <1>7
<1>9. Cardinality(B) - Cardinality(A) =
        (Has(B, c) - Has(A, c)) + (Has(B, d) - Has(A, d))
  BY <1>4, <1>6
<1>10. QED
  BY <1>6, <1>8, <1>9

(* What a step owes each item.                                              *)
Balanced(i) ==
  CQ!Held(i)' - CQ!Held(i) = Cardinality(Enters(i)) - Cardinality(Leaves(i))

(* A step that moves one task.                                              *)
LEMMA OneSum ==
  ASSUME IsFiniteSet(Callers), NEW c \in Callers, NEW a, OneMoves(c, a), NEW i,
         NEW before \in Nat, NEW after \in Nat, NEW in \in Nat, NEW out \in Nat,
         Share(c, i, before, after, in, out),
         items \in Seq(Items), items' \in Seq(Items),
         Cardinality(Places(items', i)) - Cardinality(Places(items, i)) =
           (in - out) - (after - before)
  PROVE  Balanced(i)
<1>1. /\ Cardinality(Places(items', i)) \in Nat /\ Cardinality(Places(items, i)) \in Nat
  BY PlacesFinite
<1>2. /\ Cardinality(Hands(i)) \in Nat /\ Cardinality(Hands(i)') \in Nat
      /\ Cardinality(Hands(i)') - Cardinality(Hands(i)) = after - before
      /\ Cardinality(Enters(i)) = in /\ Cardinality(Leaves(i)) = out
  BY OneBalance DEF Share
<1>3. /\ CQ!Held(i) = Cardinality(Places(items, i)) + Cardinality(Hands(i))
      /\ CQ!Held(i)' = Cardinality(Places(items', i)) + Cardinality(Hands(i)')
  BY BalanceFacts
<1>4. PICK m \in Nat, n \in Nat, h \in Nat, k \in Nat :
        /\ m = Cardinality(Places(items, i)) /\ n = Cardinality(Places(items', i))
        /\ h = Cardinality(Hands(i)) /\ k = Cardinality(Hands(i)')
  BY <1>1, <1>2
<1>5. n - m = (in - out) - (after - before) /\ k - h = after - before
  BY <1>2, <1>4
<1>6. (n + k) - (m + h) = in - out
  BY <1>5
<1>7. CQ!Held(i)' - CQ!Held(i) = in - out
  BY <1>3, <1>4, <1>6
<1>8. QED
  BY <1>2, <1>7 DEF Balanced

(* A step that moves two, one of which only passes the item on.             *)
LEMMA TwoSum ==
  ASSUME IsFiniteSet(Callers), NEW c \in Callers, NEW a, NEW d \in Callers, NEW b,
         TwoMove(c, a, d, b), NEW i,
         NEW before \in Nat, NEW in \in Nat, Share(c, i, before, 0, in, 0),
         NEW out \in Nat, Passes(d, i, out),
         items \in Seq(Items), items' \in Seq(Items),
         Cardinality(Places(items', i)) - Cardinality(Places(items, i)) = (in + before) - out
  PROVE  Balanced(i)
<1>1. /\ Cardinality(Places(items', i)) \in Nat /\ Cardinality(Places(items, i)) \in Nat
  BY PlacesFinite
<1>2. Share(d, i, 0, out, 0, 0) \/ Share(d, i, 0, 0, 0, out)
  BY DEF Passes
<1>3. /\ CQ!Held(i) = Cardinality(Places(items, i)) + Cardinality(Hands(i))
      /\ CQ!Held(i)' = Cardinality(Places(items', i)) + Cardinality(Hands(i)')
  BY BalanceFacts
<1>4. PICK m \in Nat, n \in Nat, h \in Nat, k \in Nat :
        /\ m = Cardinality(Places(items, i)) /\ n = Cardinality(Places(items', i))
        /\ h = Cardinality(Hands(i)) /\ k = Cardinality(Hands(i)')
  BY <1>1, TwoBalance
<1>5. PICK after \in Nat, left \in Nat :
        /\ after + left = out /\ Share(d, i, 0, after, 0, left)
  <2>1. CASE Share(d, i, 0, out, 0, 0)
    <3>1. out + 0 = out /\ 0 \in Nat
      OBVIOUS
    <3>2. QED
      BY <2>1, <3>1
  <2>2. CASE Share(d, i, 0, 0, 0, out)
    <3>1. 0 + out = out /\ 0 \in Nat
      OBVIOUS
    <3>2. QED
      BY <2>2, <3>1
  <2>3. QED
    BY <1>2, <2>1, <2>2
<1>6. /\ k - h = (0 - before) + (after - 0)
      /\ Cardinality(Enters(i)) = in + 0 /\ Cardinality(Leaves(i)) = 0 + left
  <2>1. /\ Has(Hands(i), c) = before /\ Has(Hands(i)', c) = 0
        /\ Has(Enters(i), c) = in /\ Has(Leaves(i), c) = 0
    BY DEF Share
  <2>2. /\ Has(Hands(i), d) = 0 /\ Has(Hands(i)', d) = after
        /\ Has(Enters(i), d) = 0 /\ Has(Leaves(i), d) = left
    BY <1>5 DEF Share
  <2>3. /\ Cardinality(Hands(i)') - Cardinality(Hands(i)) =
             (Has(Hands(i)', c) - Has(Hands(i), c))
               + (Has(Hands(i)', d) - Has(Hands(i), d))
        /\ Cardinality(Enters(i)) = Has(Enters(i), c) + Has(Enters(i), d)
        /\ Cardinality(Leaves(i)) = Has(Leaves(i), c) + Has(Leaves(i), d)
    BY TwoBalance
  <2>4. k - h = (0 - before) + (after - 0)
    BY <1>4, <2>1, <2>2, <2>3
  <2>5. QED
    BY <2>1, <2>2, <2>3, <2>4
<1>7. n - m = (in + before) - out
  BY <1>4
<1>8. (n + k) - (m + h) = (in + 0) - (0 + left)
  BY <1>5, <1>6, <1>7
<1>9. CQ!Held(i)' - CQ!Held(i) = (in + 0) - (0 + left)
  BY <1>3, <1>4, <1>8
<1>10. QED
  BY <1>6, <1>9 DEF Balanced

(* A step that serves nobody, on a queue it leaves alone.                   *)
LEMMA NoSum ==
  ASSUME NEW i, items \in Seq(Items), items' = items, Hands(i)' = Hands(i),
         Enters(i) = {}, Leaves(i) = {}, IsFiniteSet(Callers)
  PROVE  Balanced(i)
<1>1. Cardinality(Enters(i)) = 0 /\ Cardinality(Leaves(i)) = 0
  BY FS_EmptySet
<1>2. IsFiniteSet(Hands(i))
  BY FS_Subset DEF Hands
<1>3. Cardinality(Hands(i)) \in Nat /\ Cardinality(Places(items, i)) \in Nat
  BY <1>2, FS_CardinalityType, PlacesFinite
<1>4. CQ!Held(i)' = CQ!Held(i) /\ CQ!Held(i) \in Nat
  <2>1. /\ CQ!Held(i) = Cardinality(Places(items, i)) + Cardinality(Hands(i))
        /\ CQ!Held(i)' = Cardinality(Places(items', i)) + Cardinality(Hands(i)')
    BY BalanceFacts
  <2>2. QED
    BY <1>3, <2>1
<1>5. QED
  BY <1>1, <1>4 DEF Balanced

(* Every step keeps the balance of every item.                              *)
LEMMA BalanceKept ==
  ASSUME IsFiniteSet(Callers), DesktopInv, [CQ!Next]_(CQ!vars), NEW i \in Items
  PROVE  Balanced(i)
<1>1. /\ items \in Seq(Items) /\ Len(items) \in Nat /\ size \in Nat /\ Len(items) <= size
      /\ task \in [Callers -> CQ!Tasks] /\ i # NoItem
      /\ items' \in Seq(Items)
  BY DesktopFacts, DesktopNext, QueueAssumption DEF DesktopInv, CQ!TypeOK
<1>2. 0 \in Nat
  OBVIOUS
<1>3. ASSUME NEW c \in Callers, NEW a, OneMoves(c, a), UNCHANGED items,
             task[c].state # "restoring", a.state # "restoring",
             a.state # "returns" \/ ~ a.answer.ok
      PROVE  Balanced(i)
  <2>1. Share(c, i, 0, 0, 0, 0)
    BY <1>3, IdleShare DEF OneMoves
  <2>2. Cardinality(Places(items, i)) \in Nat
    BY <1>1, PlacesFinite
  <2>3. QED
    BY <1>1, <1>2, <1>3, <2>1, <2>2, OneSum
<1>4. ASSUME NEW c \in Callers, NEW a \in CQ!Tasks, task' = [task EXCEPT ![c] = a],
             UNCHANGED items, task[c].state # "restoring",
             a.state \in {"idle"} \cup Phases \/ a = Finished(Failed)
      PROVE  Balanced(i)
  <2>1. OneMoves(c, a)
    BY <1>1, <1>4, OnlyMoves
  <2>2. /\ Finished(Failed).state = "returns" /\ ~ Finished(Failed).answer.ok
    BY DEF Finished, Failed
  <2>3. QED
    BY <1>3, <1>4, <2>1, <2>2 DEF Phases
<1>5. ASSUME NEW c \in Callers, NEW req \in CQ!Mine, CQ!Start(c, req)
      PROVE  Balanced(i)
  <2>1. /\ task' = [task EXCEPT ![c] = CQ!In("entering", req)]
        /\ UNCHANGED items /\ task[c].state # "restoring"
    BY <1>5, DesktopNames, NewPlaces DEF CQ!Start
  <2>2. CQ!In("entering", req) \in CQ!Tasks /\ CQ!In("entering", req).state \in Phases
    BY NewPlaces DEF Phases
  <2>3. QED
    BY <1>4, <2>1, <2>2
<1>6. ASSUME NEW c \in Callers, CQ!Check(c)
      PROVE  Balanced(i)
  <2>1. /\ task[c].state = "entering"
        /\ task' = [task EXCEPT ![c] = IF deleted THEN Finished(Failed)
                                       ELSE CQ!In("selecting", task[c].req)]
        /\ UNCHANGED items
    BY <1>1, <1>6, DesktopNames DEF CQ!Check, CQ!At
  <2>2. task[c].req \in CQ!Mine
    BY <1>1, <2>1, PlaceFacts DEF Phases
  <2>3. /\ Finished(Failed) \in CQ!Tasks
        /\ CQ!In("selecting", task[c].req) \in CQ!Tasks
        /\ CQ!In("selecting", task[c].req).state \in Phases
    BY <2>2, NewPlaces, AnswersPlaced DEF Phases
  <2>4. QED
    BY <1>4, <2>1, <2>3
<1>7. ASSUME NEW c \in Callers, CQ!Park(c)
      PROVE  Balanced(i)
  <2>1. /\ task[c].state = "selecting"
        /\ task' = [task EXCEPT ![c] = IF task[c].req.timeout = "none" THEN Finished(Failed)
                                       ELSE CQ!In("parked", task[c].req)]
        /\ UNCHANGED items
    BY <1>1, <1>7, DesktopNames DEF CQ!Park, CQ!At
  <2>2. task[c].req \in CQ!Mine
    BY <1>1, <2>1, PlaceFacts DEF Phases
  <2>3. /\ Finished(Failed) \in CQ!Tasks
        /\ CQ!In("parked", task[c].req) \in CQ!Tasks
        /\ CQ!In("parked", task[c].req).state \in Phases
    BY <2>2, NewPlaces, AnswersPlaced DEF Phases
  <2>4. QED
    BY <1>4, <2>1, <2>3
<1>8. ASSUME NEW c \in Callers, CQ!TimesOut(c)
      PROVE  Balanced(i)
  <2>1. /\ task' = [task EXCEPT ![c] = Finished(Failed)]
        /\ UNCHANGED items /\ task[c].state # "restoring"
    BY <1>8, DesktopNames DEF CQ!TimesOut, CQ!At
  <2>2. QED
    BY <1>4, <2>1, AnswersPlaced
<1>9. ASSUME NEW c \in Callers, CQ!Return(c)
      PROVE  Balanced(i)
  <2>1. /\ task' = [task EXCEPT ![c] = Idle]
        /\ UNCHANGED items /\ task[c].state # "restoring"
    BY <1>9, DesktopNames DEF CQ!Return
  <2>2. QED
    BY <1>4, <2>1, NewPlaces
<1>10. ASSUME NEW s \in Callers, NEW r \in Callers, NEW p \in Phases, NEW q \in Phases,
              Calling(s, p, Senders), Calling(r, q, Receivers), task[s].req.item \in Items,
              UNCHANGED items,
              \/ TwoMove(s, Sent, r, CQ!Received(task[r], task[s].req.item))
              \/ TwoMove(r, CQ!Received(task[r], task[s].req.item), s, Sent)
       PROVE  Balanced(i)
  <2>1. TwoMove(s, Sent, r, CQ!Received(task[r], task[s].req.item))
    BY <1>10 DEF TwoMove
  <2>2. /\ task'[s] = Sent /\ task'[r] = CQ!Received(task[r], task[s].req.item)
        /\ task[r] \in CQ!Tasks
    BY <1>1, <2>1 DEF TwoMove
  <2>3. Share(s, i, 0, 0, Is(task[s].req.item, i), 0)
    BY <1>10, <2>2, SenderShare
  <2>4. Passes(r, i, Is(task[s].req.item, i))
    BY <1>10, <2>2, ReceiverShare
  <2>5. Cardinality(Places(items, i)) \in Nat /\ Is(task[s].req.item, i) \in Nat
    BY <1>1, PlacesFinite DEF Is
  <2>6. Cardinality(Places(items', i)) - Cardinality(Places(items, i)) =
          (Is(task[s].req.item, i) + 0) - Is(task[s].req.item, i)
    BY <1>10, <2>5
  <2>7. QED
    BY <1>1, <1>2, <2>1, <2>3, <2>4, <2>5, <2>6, TwoSum
<1>11. ASSUME NEW c \in Callers, NEW r \in Callers, CQ!SendHands(c, r)
       PROVE  Balanced(i)
  BY <1>10, <1>11, SendHandsFacts DEF Phases
<1>12. ASSUME NEW c \in Callers, NEW s \in Callers, CQ!ReceiveHands(c, s)
       PROVE  Balanced(i)
  BY <1>10, <1>12, ReceiveHandsFacts DEF Phases
<1>13. ASSUME NEW c \in Callers, CQ!SendBuffers(c)
       PROVE  Balanced(i)
  <2>1. /\ Calling(c, "selecting", Senders) /\ task[c].req.item \in Items
        /\ items' = Append(items, task[c].req.item)
        /\ OneMoves(c, Sent)
    BY <1>13, SendBuffersFacts
  <2>2. Share(c, i, 0, 0, Is(task[c].req.item, i), 0)
    BY <2>1, SenderShare DEF Phases, OneMoves
  <2>3. /\ Cardinality(Places(items, i)) \in Nat /\ Is(task[c].req.item, i) \in Nat
        /\ Cardinality(Places(items', i)) =
             Cardinality(Places(items, i)) + Is(task[c].req.item, i)
    BY <1>1, <2>1, PlacesFinite, PlacesAppend DEF Is
  <2>4. QED
    BY <1>1, <1>2, <2>1, <2>2, <2>3, OneSum
<1>14. ASSUME NEW c \in Callers, CQ!ReceiveBuffered(c)
       PROVE  Balanced(i)
  <2>1. /\ Calling(c, "selecting", Receivers) /\ items # <<>> /\ Head(items) \in Items
        /\ Tail(items) \in Seq(Items)
    BY <1>1, <1>14, ReceiveBufferedFacts, HeadTailProperties
  <2>2. /\ Cardinality(Places(Tail(items), i)) \in Nat /\ Is(Head(items), i) \in Nat
        /\ Cardinality(Places(items, i)) =
             Cardinality(Places(Tail(items), i)) + Is(Head(items), i)
    BY <1>1, <2>1, PlacesFinite, PlacesTail DEF Is
  <2>3. ASSUME task'[c] = CQ!Received(task[c], Head(items))
        PROVE  Passes(c, i, Is(Head(items), i))
    BY <1>1, <2>1, <2>3, ReceiverShare DEF Phases
  <2>4. CASE items' = Tail(items) /\ OneMoves(c, CQ!Received(task[c], Head(items)))
    <3>1. task'[c] = CQ!Received(task[c], Head(items))
      BY <2>4 DEF OneMoves
    <3>2. CASE Share(c, i, 0, Is(Head(items), i), 0, 0)
      BY <1>1, <1>2, <2>2, <2>4, <3>2, OneSum
    <3>3. CASE Share(c, i, 0, 0, 0, Is(Head(items), i))
      BY <1>1, <1>2, <2>2, <2>4, <3>3, OneSum
    <3>4. QED
      BY <2>3, <3>1, <3>2, <3>3 DEF Passes
  <2>5. ASSUME NEW s \in Callers, Calling(s, "parked", Senders), task[s].req.item \in Items,
               items' = Append(Tail(items), task[s].req.item),
               TwoMove(c, CQ!Received(task[c], Head(items)), s, Sent)
        PROVE  Balanced(i)
    <3>1. task'[c] = CQ!Received(task[c], Head(items)) /\ task'[s] = Sent
      BY <2>5 DEF TwoMove
    <3>2. Share(s, i, 0, 0, Is(task[s].req.item, i), 0)
      BY <2>5, <3>1, SenderShare DEF Phases
    <3>3. /\ Is(task[s].req.item, i) \in Nat
          /\ Cardinality(Places(items', i)) =
               Cardinality(Places(Tail(items), i)) + Is(task[s].req.item, i)
      BY <2>1, <2>5, PlacesAppend DEF Is
    <3>4. Cardinality(Places(items', i)) - Cardinality(Places(items, i)) =
            (Is(task[s].req.item, i) + 0) - Is(Head(items), i)
      BY <2>2, <3>3
    <3>5. Passes(c, i, Is(Head(items), i))
      BY <2>3, <3>1
    <3>6. TwoMove(s, Sent, c, CQ!Received(task[c], Head(items)))
      BY <2>5 DEF TwoMove
    <3>7. QED
      BY <1>1, <1>2, <2>2, <3>2, <3>3, <3>4, <3>5, <3>6, TwoSum
  <2>6. QED
    BY <1>14, <2>4, <2>5, ReceiveBufferedFacts
<1>15. ASSUME NEW c \in Callers, CQ!ReceiveClosed(c)
       PROVE  Balanced(i)
  <2>1. /\ Calling(c, "selecting", Receivers) /\ UNCHANGED items
        /\ OneMoves(c, CQ!Received(task[c], NoItem))
    BY <1>15, ReceiveClosedFacts
  <2>2. task'[c] = CQ!Received(task[c], NoItem)
    BY <2>1 DEF OneMoves
  <2>3. Passes(c, i, Is(NoItem, i))
    BY <1>1, <2>1, <2>2, ReceiverShare DEF Phases
  <2>4. Share(c, i, 0, 0, 0, 0)
    BY <1>1, <2>3 DEF Passes, Share, Has, Is
  <2>5. Cardinality(Places(items, i)) \in Nat
    BY <1>1, PlacesFinite
  <2>6. QED
    BY <1>1, <1>2, <2>1, <2>4, <2>5, OneSum
<1>16. ASSUME NEW c \in Callers, CQ!Restore(c)
       PROVE  Balanced(i)
  <2>1. /\ Calling(c, "restoring", {"Peek"}) /\ task[c].item \in Items
        /\ Cardinality(Places(items, i)) \in Nat /\ Is(task[c].item, i) \in Nat
    BY <1>1, <1>16, RestoreFacts, PlacesFinite DEF Is
  <2>2. ASSUME task'[c] = Finished([ok |-> TRUE, item |-> task[c].item])
        PROVE  Share(c, i, Is(task[c].item, i), 0, 0,
                     IF Len(items) = size /\ CQ!Parked(Receivers) = {}
                    THEN Is(task[c].item, i) ELSE 0)
    BY <2>1, <2>2, PeekShare
  <2>3. ASSUME NEW r \in Callers, Calling(r, "parked", Receivers), UNCHANGED items,
               CQ!Parked(Receivers) # {},
               TwoMove(c, Finished([ok |-> TRUE, item |-> task[c].item]),
                       r, CQ!Received(task[r], task[c].item))
        PROVE  Balanced(i)
    <3>1. /\ task'[c] = Finished([ok |-> TRUE, item |-> task[c].item])
          /\ task'[r] = CQ!Received(task[r], task[c].item)
      BY <2>3 DEF TwoMove
    <3>2. Share(c, i, Is(task[c].item, i), 0, 0, 0)
      BY <2>2, <2>3, <3>1 DEF Share, Has, Is
    <3>3. Passes(r, i, Is(task[c].item, i))
      BY <1>1, <2>1, <2>3, <3>1, ReceiverShare DEF Phases
    <3>4. Cardinality(Places(items', i)) - Cardinality(Places(items, i)) =
            (0 + Is(task[c].item, i)) - Is(task[c].item, i)
      BY <2>1, <2>3
    <3>5. QED
      BY <1>1, <1>2, <2>1, <2>3, <3>2, <3>3, <3>4, TwoSum
  <2>4. CASE /\ CQ!Parked(Receivers) = {}
             /\ items' = IF Len(items) < size THEN Append(items, task[c].item) ELSE items
             /\ OneMoves(c, Finished([ok |-> TRUE, item |-> task[c].item]))
    <3>1. task'[c] = Finished([ok |-> TRUE, item |-> task[c].item])
      BY <2>4 DEF OneMoves
    <3>2. CASE Len(items) < size
      <4>1. Share(c, i, Is(task[c].item, i), 0, 0, 0)
        BY <1>1, <2>2, <3>1, <3>2 DEF Share, Has, Is
      <4>2. Cardinality(Places(items', i)) =
              Cardinality(Places(items, i)) + Is(task[c].item, i)
        BY <1>1, <2>1, <2>4, <3>2, PlacesAppend
      <4>3. QED
        BY <1>1, <1>2, <2>1, <2>4, <4>1, <4>2, OneSum
    <3>3. CASE ~ (Len(items) < size)
      <4>1. Len(items) = size /\ items' = items
        BY <1>1, <2>4, <3>3
      <4>2. Share(c, i, Is(task[c].item, i), 0, 0, Is(task[c].item, i))
        BY <2>2, <2>4, <3>1, <4>1 DEF Share, Has, Is
      <4>3. QED
        BY <1>1, <1>2, <2>1, <2>4, <4>1, <4>2, OneSum
    <3>4. QED
      BY <3>2, <3>3
  <2>5. QED
    BY <1>16, <2>3, <2>4, RestoreFacts
<1>17. CASE CQ!Delete
  <2>1. /\ task' = [c \in Callers |-> IF c \in CQ!Parked(Receivers)
                                      THEN CQ!Received(task[c], NoItem) ELSE task[c]]
        /\ UNCHANGED items
    BY <1>17, DesktopNames DEF CQ!Delete
  <2>2. ASSUME NEW c \in Callers
        PROVE  /\ c \in Hands(i)' <=> c \in Hands(i)
               /\ c \notin Enters(i) /\ c \notin Leaves(i)
    <3>1. CASE c \in CQ!Parked(Receivers)
      <4>1. /\ Calling(c, "parked", Receivers)
            /\ task'[c] = CQ!Received(task[c], NoItem)
        BY <1>1, <2>1, <3>1, ParkedFacts, PlaceFacts DEF Calling, Phases
      <4>2. Passes(c, i, Is(NoItem, i))
        BY <1>1, <4>1, ReceiverShare DEF Phases
      <4>3. QED
        BY <1>1, <4>2 DEF Passes, Share, Has, Is
    <3>2. CASE c \notin CQ!Parked(Receivers)
      <4>1. task'[c] = task[c]
        BY <2>1, <3>2
      <4>2. QED
        BY <4>1 DEF Hands, Enters, Leaves, CQ!Passed, CQ!Answered
    <3>3. QED
      BY <3>1, <3>2
  <2>3. Hands(i)' = Hands(i) /\ Enters(i) = {} /\ Leaves(i) = {}
    BY <2>2 DEF Hands, Enters, Leaves
  <2>4. QED
    BY <1>1, <2>1, <2>3, NoSum
<1>18. ASSUME UNCHANGED <<items, task>>
       PROVE  Balanced(i)
  <2>1. Hands(i)' = Hands(i) /\ Enters(i) = {} /\ Leaves(i) = {}
    BY <1>18 DEF Hands, Enters, Leaves, CQ!Passed, CQ!Answered
  <2>2. QED
    BY <1>1, <1>18, <2>1, NoSum
<1>19. ASSUME NEW c \in Callers, CQ!SendPanics(c)
       PROVE  Balanced(i)
  BY <1>18, <1>19 DEF CQ!SendPanics, CQ!Crash
<1>20. CASE UNCHANGED CQ!vars
  BY <1>18, <1>20 DEF CQ!vars
<1>21. QED
  BY <1>5, <1>6, <1>7, <1>8, <1>9, <1>11, <1>12, <1>13, <1>14, <1>15, <1>16, <1>17,
     <1>19, <1>20 DEF CQ!Next, CQ!Proceed

(* On the desktop's channel every item is in the buffer or in the hands of  *)
(* a Peek as often as it was sent and not received, and each step moves as  *)
(* many of it as it answers calls (queue_stub.go, 25-122), for any finite   *)
(* number of tasks; only a Peek that finds the queue full drops its item    *)
(* (106).                                                                   *)
THEOREM DesktopLosesNothing ==
  ASSUME IsFiniteSet(Callers)
  PROVE  CQ!Spec => CQ!NothingLost
<1>1. DesktopInv => CQ!TypeOK
  BY DEF DesktopInv
<1>2. DesktopInv /\ [CQ!Next]_(CQ!vars) =>
        [\A i \in Items :
           CQ!Held(i)' - CQ!Held(i) =
             CQ!Cardinality({c \in Callers : CQ!Answered(c, CQ!Senders) /\ task[c].req.item = i})
               - CQ!Cardinality({c \in Callers : CQ!Passed(c, i)})]_(CQ!vars)
  BY BalanceKept, BalanceFacts DEF Balanced
<1>3. QED
  BY <1>1, <1>2, DesktopInductive, PTL DEF CQ!Spec, CQ!NothingLost
=============================================================================
