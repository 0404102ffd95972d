---------------------------- MODULE BoundedQueue ----------------------------
(***************************************************************************)
(* What the Queue interface (pkg/freertos/queue.go) promises to the tasks  *)
(* that share a queue: a bounded sequence of items, operated on by calls   *)
(* that take effect at one instant between their start and their return, a *)
(* send and the receive it serves possibly at the same one.                *)
(* A call answers true only with its effect, and false only because the    *)
(* queue was deleted, or because it could not proceed and was not told to  *)
(* wait forever.                                                           *)
(***************************************************************************)
EXTENDS QueueCalls

VARIABLES
  items,     (* front of the queue first                                    *)
  deleted,
  call       (* the call each task has in progress                          *)

vars == <<items, deleted, call>>

Pending(req) == [state |-> "pending", req |-> req]

-----------------------------------------------------------------------------
Init ==
  /\ items = <<>>
  /\ deleted = FALSE
  /\ call = [c \in Callers |-> Idle]

Invoke(c) ==
  /\ call[c] = Idle
  /\ \E req \in Requests : call' = [call EXCEPT ![c] = Pending(req)]
  /\ UNCHANGED <<items, deleted>>

Insert(c) ==
  LET req == call[c].req
  IN  /\ call[c].state = "pending" /\ req.op \in Senders
      /\ ~ deleted /\ Len(items) < Capacity
      /\ items' = IF req.op = "Send" THEN Append(items, req.item)
                                     ELSE <<req.item>> \o items
      /\ call' = [call EXCEPT ![c] = Finished([ok |-> TRUE, item |-> NoItem])]
      /\ UNCHANGED deleted

Obtain(c) ==
  LET req == call[c].req
  IN  /\ call[c].state = "pending" /\ req.op \in Receivers
      /\ ~ deleted /\ items # <<>>
      /\ items' = IF req.op = "Receive" THEN Tail(items) ELSE items
      /\ call' = [call EXCEPT ![c] =
                     Finished([ok |-> TRUE, item |-> Head(items)])]
      /\ UNCHANGED deleted

(* The item of s goes straight to r, past an empty queue.                   *)
Pass(s, r) ==
  /\ call[s].state = "pending" /\ call[s].req.op \in Senders
  /\ call[r].state = "pending" /\ call[r].req.op = "Receive"
  /\ ~ deleted /\ items = <<>>
  /\ call' = [call EXCEPT
                ![s] = Finished([ok |-> TRUE, item |-> NoItem]),
                ![r] = Finished([ok |-> TRUE, item |-> call[s].req.item])]
  /\ UNCHANGED <<items, deleted>>

(* r takes the front item, and s puts one at the back of the full queue.    *)
Refill(r, s) ==
  /\ call[r].state = "pending" /\ call[r].req.op = "Receive"
  /\ call[s].state = "pending" /\ call[s].req.op = "Send"
  /\ ~ deleted /\ items # <<>>
  /\ items' = Append(Tail(items), call[s].req.item)
  /\ call' = [call EXCEPT
                ![s] = Finished([ok |-> TRUE, item |-> NoItem]),
                ![r] = Finished([ok |-> TRUE, item |-> Head(items)])]
  /\ UNCHANGED deleted

GiveUp(c) ==
  LET req == call[c].req
  IN  /\ call[c].state = "pending"
      /\ \/ deleted
         \/ /\ req.timeout # "forever"
            /\ IF req.op \in Senders THEN Len(items) >= Capacity
                                      ELSE items = <<>>
      /\ call' = [call EXCEPT ![c] = Finished(Failed)]
      /\ UNCHANGED <<items, deleted>>

Return(c) ==
  /\ call[c].state = "returns"
  /\ call' = [call EXCEPT ![c] = Idle]
  /\ UNCHANGED <<items, deleted>>

Delete ==
  /\ deleted' = TRUE
  /\ UNCHANGED <<items, call>>

Next ==
  \/ \E c \in Callers :
       Invoke(c) \/ Insert(c) \/ Obtain(c) \/ GiveUp(c) \/ Return(c)
  \/ \E s, r \in Callers : Pass(s, r) \/ Refill(r, s)
  \/ Delete

Spec == Init /\ [][Next]_vars
=============================================================================
