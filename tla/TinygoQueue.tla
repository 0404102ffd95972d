---------------------------- MODULE TinygoQueue -----------------------------
(***************************************************************************)
(* The queue the device builds use (pkg/freertos/queue_tinygo.go): a list  *)
(* under a mutex, with one condition variable that senders and receivers   *)
(* alike sleep on.                                                         *)
(*                                                                         *)
(* A task inside an operation waits for the mutex ("locking" before its    *)
(* first look at the queue, "woken" once a broadcast has ended its         *)
(* cond.Wait), or is asleep on the condition variable, or is about to      *)
(* return.  What it does from one acquisition of the mutex to the next     *)
(* release of it is one action.                                            *)
(***************************************************************************)
EXTENDS QueueCalls

VARIABLES
  items,    (* q.items                                                      *)
  deleted,  (* q.deleted                                                    *)
  task      (* where each task is in its operation                          *)

vars == <<items, deleted, task>>

(* late: the deadline has passed (time.Now().After(deadline)).              *)
InOperation(phase, req, late) == [state |-> phase, req |-> req, late |-> late]
Tasks ==
  {Idle} \cup {Finished(answer) : answer \in Answers}
    \cup [state : {"locking", "asleep", "woken"}, req : Requests, late : BOOLEAN]

TypeOK ==
  /\ items \in Seq(Items) /\ Len(items) <= Capacity
  /\ deleted \in BOOLEAN
  /\ task \in [Callers -> Tasks]

-----------------------------------------------------------------------------
Waiting(c)  == task[c].state \in {"locking", "asleep", "woken"}
HasMutex(c) == task[c].state \in {"locking", "woken"}

(* The loop conditions of sendAt (54), Receive (92) and Peek (127).         *)
MustWait(req) ==
  IF req.op \in Senders THEN Len(items) >= Capacity ELSE Len(items) = 0

(* A mutant of Broadcast: cond.Signal wakes one sleeper only.               *)
Broadcast_Mutant(tasks) ==
  LET sleepers == {c \in Callers : tasks[c].state = "asleep"}
  IN  IF sleepers = {} THEN tasks
      ELSE [tasks EXCEPT ![CHOOSE c \in sleepers : TRUE].state = "woken"]
(* cond.Broadcast: every sleeper sets out for the mutex again.              *)
Broadcast(tasks) ==
  [c \in Callers |-> IF tasks[c].state = "asleep"
                     THEN [tasks[c] EXCEPT !.state = "woken"] ELSE tasks[c]]

(* The tests before cond.Wait (58-63): 0 is not to wait, a deadline is over *)
(* once found to have passed.                                               *)
MayWait(c) == task[c].req.timeout # "none" /\ ~ task[c].late

Finish(c, answer) == [task EXCEPT ![c] = Finished(answer)]

-----------------------------------------------------------------------------
Init ==
  /\ items = <<>>
  /\ deleted = FALSE
  /\ task = [c \in Callers |-> Idle]

Start(c, req) ==
  /\ task[c] = Idle
  /\ task' = [task EXCEPT ![c] = InOperation("locking", req, FALSE)]
  /\ UNCHANGED <<items, deleted>>

(* deleted, timeoutMs = 0, or the deadline found to have passed.            *)
ReturnFalse(c) ==
  /\ HasMutex(c)
  /\ \/ deleted
     \/ MustWait(task[c].req) /\ ~ MayWait(c)
  /\ task' = Finish(c, Failed)
  /\ UNCHANGED <<items, deleted>>

(* cond.Wait() *)
Sleep(c) ==
  /\ HasMutex(c)
  /\ ~ deleted /\ MustWait(task[c].req) /\ MayWait(c)
  /\ task' = [task EXCEPT ![c].state = "asleep"]
  /\ UNCHANGED <<items, deleted>>

(* The end of sendAt (67-77): PushBack or PushFront.                        *)
Push(c) ==
  /\ HasMutex(c) /\ task[c].req.op \in Senders
  /\ ~ deleted /\ ~ MustWait(task[c].req)
  /\ items' = IF task[c].req.op = "SendToFront"
              THEN <<task[c].req.item>> \o items
              ELSE Append(items, task[c].req.item)
  /\ task' = Broadcast(Finish(c, [ok |-> TRUE, item |-> NoItem]))
  /\ UNCHANGED deleted

(* A mutant of Remove: the front element is answered but not removed.       *)
Remove_Mutant(its) == its
(* q.items.Remove(q.items.Front())                                          *)
Remove(its) == Tail(its)

(* The end of Receive (105-112). *)
Pop(c) ==
  /\ HasMutex(c) /\ task[c].req.op = "Receive"
  /\ ~ deleted /\ ~ MustWait(task[c].req)
  /\ items' = Remove(items)
  /\ task' = Broadcast(Finish(c, [ok |-> TRUE, item |-> Head(items)]))
  /\ UNCHANGED deleted

(* The end of Peek (140-144): nothing changes, nobody is woken.             *)
Look(c) ==
  /\ HasMutex(c) /\ task[c].req.op = "Peek"
  /\ ~ deleted /\ ~ MustWait(task[c].req)
  /\ task' = Finish(c, [ok |-> TRUE, item |-> Head(items)])
  /\ UNCHANGED <<items, deleted>>

(* The deadline of a task that did not get through at once passes.          *)
TimePasses(c) ==
  /\ task[c].state \in {"asleep", "woken"}
  /\ task[c].req.timeout = "finite" /\ ~ task[c].late
  /\ task' = [task EXCEPT ![c].late = TRUE]
  /\ UNCHANGED <<items, deleted>>

(* The operation returns; the task may start another.                       *)
Return(c) ==
  /\ task[c].state = "returns"
  /\ task' = [task EXCEPT ![c] = Idle]
  /\ UNCHANGED <<items, deleted>>

(* A mutant of WakeOnDelete: Delete does not broadcast.                     *)
WakeOnDelete_Mutant(tasks) == tasks
WakeOnDelete(tasks) == Broadcast(tasks)

(* Delete (165-171) *)
Delete ==
  /\ deleted' = TRUE
  /\ task' = WakeOnDelete(task)
  /\ UNCHANGED items

-----------------------------------------------------------------------------
(* What a task does once it has the mutex. *)
Proceed(c) == ReturnFalse(c) \/ Sleep(c) \/ Push(c) \/ Pop(c) \/ Look(c)

Next ==
  \/ \E c \in Callers :
       \/ \E req \in Requests : Start(c, req)
       \/ Proceed(c)
       \/ TimePasses(c)
       \/ Return(c)
  \/ Delete

Spec == Init /\ [][Next]_vars

(* The scheduler runs every task that can run, and hands the mutex over;    *)
(* time passes.  Nothing obliges a task to start an operation, or anyone to *)
(* delete the queue.                                                        *)
Fairness ==
  \A c \in Callers : WF_vars(Proceed(c)) /\ WF_vars(TimePasses(c))

FairSpec == Spec /\ Fairness

-----------------------------------------------------------------------------
(* The queue as BoundedQueue sees it: a task that has not got through yet   *)
(* has a call pending.                                                      *)
CallOf(t) ==
  IF t.state \in {"locking", "asleep", "woken"}
  THEN [state |-> "pending", req |-> t.req] ELSE t
BQ == INSTANCE BoundedQueue WITH call <- [c \in Callers |-> CallOf(task[c])]

(* The list under its mutex is the queue the interface promises: calls take *)
(* effect at one instant, in first-in first-out order but for SendToFront,  *)
(* none is answered twice or wrongly refused (queue.go:6-33).               *)
ImplementsBoundedQueue == BQ!Spec

(* No wake-up is lost: a task sleeps on the condition variable only while   *)
(* there is nothing for it to do (43-78, 80-113, 115-145).                  *)
SleepersBlocked ==
  /\ TypeOK
  /\ \A c \in Callers :
       task[c].state = "asleep" => ~ deleted /\ MustWait(task[c].req)

(* A call returns once the queue is deleted, and one that was told not to   *)
(* wait returns in any case.                                                *)
CallsReturn ==
  \A c \in Callers :
    Waiting(c) /\ (deleted \/ task[c].req.timeout = "none") ~> ~ Waiting(c)
=============================================================================
