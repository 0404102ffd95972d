----------------------------- MODULE QueueCalls -----------------------------
(***************************************************************************)
(* The calls of the Queue interface (pkg/freertos/queue.go): what a task   *)
(* may ask of a queue and what it may be told.                             *)
(***************************************************************************)
EXTENDS Naturals, Sequences

CONSTANTS
  Items,     (* the objects tasks pass to each other                        *)
  Callers,   (* the tasks                                                   *)
  Capacity,  (* of the queue                                                *)
  NoItem     (* nil                                                         *)

ASSUME QueueAssumption == Capacity \in Nat /\ NoItem \notin Items

(* timeoutMs: 0, MaxTimeout, or a number of milliseconds.                   *)
Timeouts  == {"none", "forever", "finite"}
Senders   == {"Send", "SendToFront"}
Receivers == {"Receive", "Peek"}
Requests  ==
  [op : Senders, item : Items, timeout : Timeouts]
    \cup [op : Receivers, item : {NoItem}, timeout : Timeouts]

Answers == [ok : BOOLEAN, item : Items \cup {NoItem}]
Failed  == [ok |-> FALSE, item |-> NoItem]

Idle             == [state |-> "idle"]
Finished(answer) == [state |-> "returns", answer |-> answer]
=============================================================================
