----------------------------- MODULE Semaphore ------------------------------
(***************************************************************************)
(* What the Semaphore interface (pkg/freertos/semaphore.go) promises to    *)
(* the tasks that share a semaphore: a number of units, taken and given by *)
(* calls that take effect at one instant between their start and their     *)
(* return, a Give and the Take it serves possibly at the same one.         *)
(* A Take answers true only with a unit, and false only because there was  *)
(* none, or because its time was up; one told to wait forever never does.  *)
(* A Give answers false only because all units are there.  The answers of  *)
(* a deleted semaphore mean nothing.                                       *)
(***************************************************************************)
EXTENDS Integers

CONSTANTS
  Callers,   (* the tasks                                                   *)
  MaxCounts, (* the sizes of semaphores                                     *)
  Uses,      (* "lock": full at first; "signal": empty at first             *)
  Waits      (* the timeouts given to Take                                  *)

VARIABLES
  maxCount, use,
  units,     (* those that no task has                                      *)
  deleted,
  holders,   (* the tasks whose last answered call was a Take that succeeded *)
  call       (* the call each task has in progress                          *)

vars == <<maxCount, use, units, deleted, holders, call>>

NoCall == [op |-> "none", wait |-> "none"]
Taking(w) == [op |-> "Take", wait |-> w]
Giving == [op |-> "Give", wait |-> "none"]

Answered(tasks) == call' = [c \in Callers |-> IF c \in tasks THEN NoCall ELSE call[c]]

-----------------------------------------------------------------------------
Init ==
  /\ maxCount \in MaxCounts /\ use \in Uses
  /\ units = IF use = "lock" THEN maxCount ELSE 0
  /\ deleted = FALSE
  /\ holders = {}
  /\ call = [c \in Callers |-> NoCall]

(* A task takes a lock it does not have, and gives one it has.              *)
Invoke(c) ==
  /\ call[c] = NoCall
  /\ \/ /\ use = "signal" \/ c \notin holders
        /\ \E w \in Waits : call' = [call EXCEPT ![c] = Taking(w)]
     \/ /\ use = "signal" \/ c \in holders
        /\ call' = [call EXCEPT ![c] = Giving]
  /\ UNCHANGED <<maxCount, use, units, deleted, holders>>

Acquire(c) ==
  /\ call[c].op = "Take" /\ units > 0
  /\ units' = units - 1
  /\ holders' = holders \cup {c}
  /\ Answered({c})
  /\ UNCHANGED <<maxCount, use, deleted>>

GiveUp(c) ==
  /\ call[c].op = "Take"
  /\ \/ call[c].wait = "none" /\ units = 0
     \/ call[c].wait = "finite"
  /\ Answered({c})
  /\ UNCHANGED <<maxCount, use, units, deleted, holders>>

Release(c) ==
  /\ call[c].op = "Give" /\ ~ deleted /\ units < maxCount
  /\ units' = units + 1
  /\ holders' = holders \ {c}
  /\ Answered({c})
  /\ UNCHANGED <<maxCount, use, deleted>>

(* The unit of g goes straight to t.                                        *)
Pass(g, t) ==
  /\ call[g].op = "Give" /\ call[t].op = "Take"
  /\ ~ deleted /\ units = 0
  /\ holders' = (holders \ {g}) \cup {t}
  /\ Answered({g, t})
  /\ UNCHANGED <<maxCount, use, units, deleted>>

Refuse(c) ==
  /\ call[c].op = "Give" /\ ~ deleted /\ units = maxCount
  /\ holders' = holders \ {c}
  /\ Answered({c})
  /\ UNCHANGED <<maxCount, use, units, deleted>>

(* A call on a deleted semaphore may answer anything.                       *)
AnswerDeleted(c) ==
  /\ call[c] # NoCall /\ deleted
  /\ holders' \in IF call[c].op = "Take" THEN {holders, holders \cup {c}}
                                         ELSE {holders \ {c}}
  /\ Answered({c})
  /\ UNCHANGED <<maxCount, use, units, deleted>>

(* It answers some of the Takes in progress, true without a unit.           *)
Delete ==
  /\ deleted' = TRUE
  /\ \E tasks \in SUBSET {c \in Callers : call[c].op = "Take"} :
       holders' = holders \cup tasks /\ Answered(tasks)
  /\ UNCHANGED <<maxCount, use, units>>

Next ==
  \/ \E c \in Callers :
       \/ Invoke(c) \/ Acquire(c) \/ GiveUp(c) \/ Release(c)
       \/ Refuse(c) \/ AnswerDeleted(c)
  \/ \E g, t \in Callers : Pass(g, t)
  \/ Delete

Spec == Init /\ [][Next]_vars
=============================================================================
