---------------------------- MODULE ChannelQueue -----------------------------
(***************************************************************************)
(* The queue of the desktop builds (pkg/freertos/queue_stub.go): a Go      *)
(* channel, and a flag under a mutex that says it was deleted.             *)
(*                                                                         *)
(* Every operation tests the flag, gives the mutex back, and then turns to *)
(* the channel: two steps, with room for the others in between.  What the  *)
(* channel does in one step is the Go language's: a send hands its item to *)
(* a parked receiver or buffers it, a receive makes room for a parked      *)
(* sender, and which of several parked tasks is served is left open.       *)
(***************************************************************************)
EXTENDS QueueCalls, Integers, FiniteSets

CONSTANT
  FewItems   (* bound: the items of tasks that make use of everything       *)

ASSUME ChannelAssumption == FewItems \subseteq Items

VARIABLES
  plain,    (* the tasks only send to the back and receive, give no finite  *)
            (* timeout, and leave the queue where it is                     *)
  size,     (* q.capacity                                                   *)
  items,    (* the buffer of q.ch                                           *)
  deleted,  (* q.deleted; q.ch is closed in the same section of the mutex   *)
  task,     (* where each task is in its operation                          *)
  crashed   (* a goroutine has panicked, which ends the program             *)

vars == <<plain, size, items, deleted, task, crashed>>

Operations == {"Send", "Receive", "Peek"}   (* SendToFront is Send (57-62)  *)
Mine ==
  {req \in Requests :
     IF plain THEN req.op \in {"Send", "Receive"} /\ req.timeout # "finite"
              ELSE req.op \in Operations /\ req.item \in FewItems \cup {NoItem}}

(* entering: before the test of the flag; selecting: about to turn to the   *)
(* channel; parked: waiting in the channel; restoring: a Peek that has      *)
(* taken its item out and not yet put it back.                              *)
In(phase, req)       == [state |-> phase, req |-> req]
Restoring(req, item) == [state |-> "restoring", req |-> req, item |-> item]
Tasks ==
  {Idle} \cup {Finished(answer) : answer \in Answers}
    \cup [state : {"entering", "selecting", "parked"}, req : Mine]
    \cup [state : {"restoring"}, req : Mine, item : Items \cup {NoItem}]

TypeOK ==
  /\ items \in Seq(Items) /\ size \in 0 .. Capacity /\ Len(items) <= size
  /\ deleted \in BOOLEAN /\ crashed \in BOOLEAN /\ plain \in BOOLEAN
  /\ task \in [Callers -> Tasks]

-----------------------------------------------------------------------------
Parked(ops) ==
  {c \in Callers : task[c].state = "parked" /\ task[c].req.op \in ops}

At(c, phase, ops) ==
  ~ crashed /\ task[c].state = phase /\ task[c].req.op \in ops

(* What becomes of a task that received: Receive answers (a closed channel  *)
(* gives nil, which counts as received), Peek still has to put the item     *)
(* back.                                                                    *)
Received(t, item) ==
  IF t.req.op = "Peek" THEN Restoring(t.req, item)
                       ELSE Finished([ok |-> TRUE, item |-> item])
Sent == Finished([ok |-> TRUE, item |-> NoItem])

(* make(chan interface{}, capacity)                                         *)
BufferSize == size

Crash ==
  /\ crashed' = TRUE
  /\ UNCHANGED <<plain, size, items, deleted, task>>

-----------------------------------------------------------------------------
Init ==
  /\ plain \in BOOLEAN
  /\ size \in IF plain THEN {Capacity} ELSE 0 .. Capacity
  /\ items = <<>>
  /\ deleted = FALSE
  /\ task = [c \in Callers |-> Idle]
  /\ crashed = FALSE

Start(c, req) ==
  /\ ~ crashed /\ task[c] = Idle
  /\ task' = [task EXCEPT ![c] = In("entering", req)]
  /\ UNCHANGED <<plain, size, items, deleted, crashed>>

(* The test of q.deleted under q.mu (26-31, 65-70).                         *)
Check(c) ==
  /\ At(c, "entering", Operations)
  /\ task' = [task EXCEPT ![c] = IF deleted THEN Finished(Failed)
                                 ELSE In("selecting", @.req)]
  /\ UNCHANGED <<plain, size, items, deleted, crashed>>

-----------------------------------------------------------------------------
(* q.ch <- item                                                             *)

SendPanics(c) ==
  /\ At(c, "selecting", Senders) \/ At(c, "restoring", Receivers)
  /\ deleted
  /\ Crash

SendHands(c, r) ==
  /\ At(c, "selecting", Senders) /\ ~ deleted
  /\ r \in Parked(Receivers)
  /\ task' = [task EXCEPT ![c] = Sent, ![r] = Received(@, task[c].req.item)]
  /\ UNCHANGED <<plain, size, items, deleted, crashed>>

SendBuffers(c) ==
  /\ At(c, "selecting", Senders) /\ ~ deleted
  /\ Parked(Receivers) = {} /\ Len(items) < BufferSize
  /\ items' = Append(items, task[c].req.item)
  /\ task' = [task EXCEPT ![c] = Sent]
  /\ UNCHANGED <<plain, size, deleted, crashed>>

(* item := <-q.ch, with an item in the buffer; a parked sender's item takes *)
(* the place.                                                               *)
ReceiveBuffered(c) ==
  /\ At(c, "selecting", Receivers) /\ items # <<>>
  /\ IF Parked(Senders) = {}
     THEN /\ items' = Tail(items)
          /\ task' = [task EXCEPT ![c] = Received(@, Head(items))]
     ELSE \E s \in Parked(Senders) :
            /\ items' = Append(Tail(items), task[s].req.item)
            /\ task' = [task EXCEPT ![c] = Received(@, Head(items)), ![s] = Sent]
  /\ UNCHANGED <<plain, size, deleted, crashed>>

(* item := <-q.ch from a parked sender, when the channel has no buffer.     *)
ReceiveHands(c, s) ==
  /\ At(c, "selecting", Receivers) /\ items = <<>>
  /\ s \in Parked(Senders)
  /\ task' = [task EXCEPT ![c] = Received(@, task[s].req.item), ![s] = Sent]
  /\ UNCHANGED <<plain, size, items, deleted, crashed>>

(* item := <-q.ch on a closed, empty channel gives nil.                     *)
ReceiveClosed(c) ==
  /\ At(c, "selecting", Receivers) /\ items = <<>> /\ deleted
  /\ task' = [task EXCEPT ![c] = Received(@, NoItem)]
  /\ UNCHANGED <<plain, size, items, deleted, crashed>>

(* Nothing in the select is ready.                                          *)
Blocked(req) ==
  /\ ~ deleted
  /\ IF req.op \in Senders
     THEN Len(items) = BufferSize /\ Parked(Receivers) = {}
     ELSE items = <<>> /\ Parked(Senders) = {}

(* A mutant of Park: a call told not to wait waits (default left out).      *)
Park_Mutant(c) ==
  /\ At(c, "selecting", Operations)
  /\ Blocked(task[c].req)
  /\ task' = [task EXCEPT ![c].state = "parked"]
  /\ UNCHANGED <<plain, size, items, deleted, crashed>>
Park(c) ==
  /\ At(c, "selecting", Operations)
  /\ Blocked(task[c].req)
  /\ task' = [task EXCEPT ![c] = IF @.req.timeout = "none" THEN Finished(Failed)
                                 ELSE In("parked", @.req)]
  /\ UNCHANGED <<plain, size, items, deleted, crashed>>

(* A mutant of TimesOut: MaxTimeout taken for a number of milliseconds.     *)
TimesOut_Mutant(c) ==
  /\ At(c, "selecting", Operations) \/ At(c, "parked", Operations)
  /\ task[c].req.timeout # "none"
  /\ task' = [task EXCEPT ![c] = Finished(Failed)]
  /\ UNCHANGED <<plain, size, items, deleted, crashed>>
(* The case of time.After is ready, and chosen: possibly at once, if the    *)
(* goroutine was slow to reach its select.                                  *)
TimesOut(c) ==
  /\ At(c, "selecting", Operations) \/ At(c, "parked", Operations)
  /\ task[c].req.timeout = "finite"
  /\ task' = [task EXCEPT ![c] = Finished(Failed)]
  /\ UNCHANGED <<plain, size, items, deleted, crashed>>

(* A mutant of Restore: the item is not put back.                           *)
Restore_Mutant(c) ==
  /\ At(c, "restoring", Receivers) /\ ~ deleted
  /\ task' = [task EXCEPT ![c] = Finished([ok |-> TRUE, item |-> @.item])]
  /\ UNCHANGED <<plain, size, items, deleted, crashed>>
(* Peek puts its item back, at the end, or drops it (100-108).              *)
Restore(c) ==
  /\ At(c, "restoring", Receivers) /\ ~ deleted
  /\ LET item == task[c].item
         done == Finished([ok |-> TRUE, item |-> item])
     IN  IF Parked(Receivers) # {}
         THEN \E r \in Parked(Receivers) :
                /\ task' = [task EXCEPT ![c] = done, ![r] = Received(@, item)]
                /\ UNCHANGED items
         ELSE /\ items' = IF Len(items) < BufferSize THEN Append(items, item)
                                                     ELSE items
              /\ task' = [task EXCEPT ![c] = done]
  /\ UNCHANGED <<plain, size, deleted, crashed>>

(* Delete (124-129): close(q.ch) panics if it is closed, or makes a parked  *)
(* sender panic; every parked receiver gets nil.                            *)
Delete ==
  /\ ~ plain /\ ~ crashed
  /\ deleted' = TRUE
  /\ crashed' = (deleted \/ Parked(Senders) # {})
  /\ task' = [c \in Callers |-> IF c \in Parked(Receivers)
                                THEN Received(task[c], NoItem) ELSE task[c]]
  /\ UNCHANGED <<plain, size, items>>

Return(c) ==
  /\ ~ crashed /\ task[c].state = "returns"
  /\ task' = [task EXCEPT ![c] = Idle]
  /\ UNCHANGED <<plain, size, items, deleted, crashed>>

-----------------------------------------------------------------------------
Proceed(c) ==
  \/ Check(c)
  \/ SendPanics(c)
  \/ \E r \in Callers : SendHands(c, r) \/ ReceiveHands(c, r)
  \/ SendBuffers(c)
  \/ ReceiveBuffered(c)
  \/ ReceiveClosed(c)
  \/ Park(c)
  \/ Restore(c)

Next ==
  \/ \E c \in Callers :
       \/ \E req \in Mine : Start(c, req)
       \/ Proceed(c)
       \/ TimesOut(c)
       \/ Return(c)
  \/ Delete

Spec == Init /\ [][Next]_vars

(* Go runs every goroutine that can run, and timers fire.                   *)
FairSpec == Spec /\ \A c \in Callers : WF_vars(Proceed(c)) /\ WF_vars(TimesOut(c))

-----------------------------------------------------------------------------
Waiting(c) == task[c].state \in {"entering", "selecting", "parked", "restoring"}

BQ == INSTANCE BoundedQueue WITH
        call <- [c \in Callers |-> IF Waiting(c)
                                   THEN [state |-> "pending", req |-> task[c].req]
                                   ELSE task[c]]

(* The channel behind its flag is the queue the interface promises          *)
(* (queue.go:6-33) to tasks that only send to the back and receive and      *)
(* leave finite timeouts alone.                                             *)
ImplementsBoundedQueue ==
  /\ plain => BQ!Init
  /\ [][plain => BQ!Next]_(BQ!vars)

(* An item is in the queue, or in the hands of a Peek, as often as it was    *)
(* sent and not yet received: a step that answers calls moves as many of it *)
(* in as sends are answered true, and out as receives are answered with it. *)
(* The one exception is a Peek that finds the queue full again (106).       *)
Held(i) ==
  Cardinality({n \in 1 .. Len(items) : items[n] = i})
    + Cardinality({c \in Callers : task[c].state = "restoring" /\ task[c].item = i})
Answered(c, ops) ==
  /\ task[c].state # "returns" /\ task'[c].state = "returns"
  /\ task[c].req.op \in ops /\ task'[c].answer.ok
Passed(c, i) ==
  \/ Answered(c, {"Receive"}) /\ task'[c].answer.item = i
  \/ /\ Answered(c, {"Peek"}) /\ task'[c].answer.item = i
     /\ Len(items) = size /\ Parked(Receivers) = {}
NothingLost ==
  []TypeOK /\
  [][\A i \in Items :
       Held(i)' - Held(i) =
         Cardinality({c \in Callers : Answered(c, Senders) /\ task[c].req.item = i})
           - Cardinality({c \in Callers : Passed(c, i)})]_vars

(* A call that was given a bound on its waiting returns (queue.go:9), or    *)
(* the program ends: a send on the channel of a deleted queue panics (128). *)
BoundedCallsReturn ==
  \A c \in Callers :
    Waiting(c) /\ task[c].req.timeout # "forever" ~> ~ Waiting(c) \/ crashed
=============================================================================
