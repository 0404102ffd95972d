-------------------------- MODULE ChannelSemaphore ---------------------------
(***************************************************************************)
(* Semaphores and mutexes (pkg/freertos/semaphore_stub.go; the device      *)
(* builds' semaphore_tinygo.go is the same code): units are tokens in a Go *)
(* channel.                                                                *)
(*                                                                         *)
(* Take and Give test the deleted flag under the mutex, give the mutex     *)
(* back, and then turn to the channel, which serves the tasks parked in it *)
(* first come, first served.                                               *)
(*                                                                         *)
(* Tasks use it as a lock: full at first, one takes a unit only while it   *)
(* has none, and gives only a unit it has; or to signal each other: empty  *)
(* at first, any task may give, and take again and again.                  *)
(***************************************************************************)
EXTENDS Integers, Sequences, FiniteSets, SequencesExt

CONSTANTS
  Callers,   (* the tasks                                                   *)
  MaxCounts, (* the sizes of semaphores; 1 for a mutex                      *)
  Uses,      (* what programs use semaphores for                            *)
  Waits      (* the timeouts given to Take                                  *)

ASSUME SemaphoreAssumption ==
  /\ IsFiniteSet(Callers)
  /\ MaxCounts \subseteq Nat \ {0}
  /\ Uses \subseteq {"lock", "signal"}
  /\ Waits \subseteq {"none", "forever", "finite"}

VARIABLES
  maxCount, (* s.maxCount                                                   *)
  use,      (* what this semaphore is used for                              *)
  count,    (* tokens in s.ch                                               *)
  waiting,  (* the tasks parked in a Take, in the order they came           *)
  deleted,  (* s.deleted; s.ch is closed in the same section of the mutex   *)
  phase,    (* where each task is: idle, or in a Take or a Give             *)
  wait,     (* the timeout of the Take each task is in                      *)
  holders,  (* the tasks whose last answered call was a Take that succeeded *)
  crashed   (* a goroutine has panicked, which ends the program             *)

kind == <<maxCount, use>>
vars == <<kind, count, waiting, deleted, phase, wait, holders, crashed>>

TypeOK ==
  /\ maxCount \in MaxCounts /\ use \in Uses
  /\ count \in 0 .. maxCount
  /\ waiting \in Seq(Callers)
  /\ deleted \in BOOLEAN /\ crashed \in BOOLEAN
  /\ phase \in [Callers -> {"idle", "takes", "taking", "parked", "gives", "giving"}]
  /\ wait \in [Callers -> {"none", "forever", "finite"}]
  /\ holders \subseteq Callers

-----------------------------------------------------------------------------
At(c, p) == ~ crashed /\ phase[c] = p

Moved(c, p) ==
  /\ phase' = [phase EXCEPT ![c] = p]
  /\ wait' = IF p = "idle" THEN [wait EXCEPT ![c] = "none"] ELSE wait
Acquired(c) == holders' = holders \cup {c}

(* newSemaphore and the Gives of the constructors (semaphore.go:39-62).     *)
Init ==
  /\ maxCount \in MaxCounts /\ use \in Uses
  /\ count = IF use = "lock" THEN maxCount ELSE 0
  /\ waiting = <<>>
  /\ deleted = FALSE
  /\ phase = [c \in Callers |-> "idle"]
  /\ wait = [c \in Callers |-> "none"]
  /\ holders = {}
  /\ crashed = FALSE

-----------------------------------------------------------------------------
(* Take (27-60) *)

TakeStart(c, w) ==
  /\ At(c, "idle") /\ (use = "signal" \/ c \notin holders)
  /\ phase' = [phase EXCEPT ![c] = "takes"]
  /\ wait' = [wait EXCEPT ![c] = w]
  /\ UNCHANGED <<kind, count, waiting, deleted, holders, crashed>>

(* The test of s.deleted (28-33). *)
TakeCheck(c) ==
  /\ At(c, "takes")
  /\ Moved(c, IF deleted THEN "idle" ELSE "taking")
  /\ UNCHANGED <<kind, count, waiting, deleted, holders, crashed>>

(* A mutant of TakeToken: the count is looked at, not taken from.           *)
TakeToken_Mutant(c) ==
  /\ At(c, "taking") /\ count > 0
  /\ Acquired(c)
  /\ Moved(c, "idle")
  /\ UNCHANGED <<kind, count, waiting, deleted, crashed>>
(* <-s.ch takes a token.                                                    *)
TakeToken(c) ==
  /\ At(c, "taking") /\ count > 0
  /\ count' = count - 1
  /\ Acquired(c)
  /\ Moved(c, "idle")
  /\ UNCHANGED <<kind, waiting, deleted, crashed>>

(* <-s.ch on a closed channel answers at once, and Take answers true.       *)
TakeClosed(c) ==
  /\ At(c, "taking") /\ count = 0 /\ deleted
  /\ Acquired(c)
  /\ Moved(c, "idle")
  /\ UNCHANGED <<kind, count, waiting, deleted, crashed>>

(* No token: the task parks, unless it was told not to wait.                *)
TakeBlocks(c) ==
  /\ At(c, "taking") /\ count = 0 /\ ~ deleted
  /\ IF wait[c] = "none"
     THEN Moved(c, "idle") /\ UNCHANGED waiting
     ELSE Moved(c, "parked") /\ waiting' = Append(waiting, c)
  /\ UNCHANGED <<kind, count, deleted, holders, crashed>>

(* A mutant of TakeTimesOut: MaxTimeout is a duration like any other.       *)
TakeTimesOut_Mutant(c) ==
  /\ wait[c] # "none"
  /\ \/ At(c, "taking") /\ UNCHANGED waiting
     \/ /\ At(c, "parked")
        /\ \E n \in 1 .. Len(waiting) :
             waiting[n] = c /\ waiting' = RemoveAt(waiting, n)
  /\ Moved(c, "idle")
  /\ UNCHANGED <<kind, count, deleted, holders, crashed>>
(* time.After fires (57), possibly before the select is reached.            *)
TakeTimesOut(c) ==
  /\ wait[c] = "finite"
  /\ \/ At(c, "taking") /\ UNCHANGED waiting
     \/ /\ At(c, "parked")
        /\ \E n \in 1 .. Len(waiting) :
             waiting[n] = c /\ waiting' = RemoveAt(waiting, n)
  /\ Moved(c, "idle")
  /\ UNCHANGED <<kind, count, deleted, holders, crashed>>

-----------------------------------------------------------------------------
(* Give (62-76) *)

GiveStart(c) ==
  /\ At(c, "idle") /\ (use = "signal" \/ c \in holders)
  /\ Moved(c, "gives")
  /\ UNCHANGED <<kind, count, waiting, deleted, holders, crashed>>

(* The test of s.deleted (63-68).  A holder refused here has let go of its  *)
(* unit all the same.                                                       *)
GiveCheck(c) ==
  /\ At(c, "gives")
  /\ Moved(c, IF deleted THEN "idle" ELSE "giving")
  /\ holders' = IF deleted THEN holders \ {c} ELSE holders
  /\ UNCHANGED <<kind, count, waiting, deleted, crashed>>

(* s.ch <- struct{}{} on a closed channel.                                  *)
GivePanics(c) ==
  /\ At(c, "giving") /\ deleted
  /\ crashed' = TRUE
  /\ UNCHANGED <<kind, count, waiting, deleted, phase, wait, holders>>

(* The token goes to the task that has been parked longest.                 *)
GiveHands(c) ==
  /\ At(c, "giving") /\ ~ deleted /\ waiting # <<>>
  /\ LET taker == Head(waiting)
     IN  /\ phase' = [phase EXCEPT ![c] = "idle", ![taker] = "idle"]
         /\ wait' = [wait EXCEPT ![taker] = "none"]
         /\ holders' = (holders \ {c}) \cup {taker}
  /\ waiting' = Tail(waiting)
  /\ UNCHANGED <<kind, count, deleted, crashed>>

(* A mutant of GiveToken: the token is put back before waiters are looked   *)
(* for.                                                                     *)
GiveToken_Mutant(c) ==
  /\ At(c, "giving") /\ ~ deleted /\ count < maxCount
  /\ count' = count + 1
  /\ holders' = holders \ {c}
  /\ Moved(c, "idle")
  /\ UNCHANGED <<kind, waiting, deleted, crashed>>
(* The token is buffered. *)
GiveToken(c) ==
  /\ At(c, "giving") /\ ~ deleted /\ waiting = <<>> /\ count < maxCount
  /\ count' = count + 1
  /\ holders' = holders \ {c}
  /\ Moved(c, "idle")
  /\ UNCHANGED <<kind, waiting, deleted, crashed>>

(* default: the channel is full.                                            *)
GiveRefused(c) ==
  /\ At(c, "giving") /\ ~ deleted /\ waiting = <<>> /\ count = maxCount
  /\ holders' = holders \ {c}
  /\ Moved(c, "idle")
  /\ UNCHANGED <<kind, count, waiting, deleted, crashed>>

-----------------------------------------------------------------------------
(* Delete (82-88): close(s.ch) answers every parked Take with true, and     *)
(* panics when the channel was closed before.                               *)
Delete ==
  /\ ~ crashed
  /\ deleted' = TRUE
  /\ crashed' = deleted
  /\ holders' = holders \cup ToSet(waiting)
  /\ phase' = [c \in Callers |-> IF phase[c] = "parked" THEN "idle" ELSE phase[c]]
  /\ wait' = [c \in Callers |-> IF phase[c] = "parked" THEN "none" ELSE wait[c]]
  /\ waiting' = <<>>
  /\ UNCHANGED <<kind, count>>

-----------------------------------------------------------------------------
Take(c) ==
  TakeCheck(c) \/ TakeToken(c) \/ TakeClosed(c) \/ TakeBlocks(c)
Give(c) ==
  GiveCheck(c) \/ GivePanics(c) \/ GiveHands(c) \/ GiveToken(c) \/ GiveRefused(c)

Next ==
  \/ \E c \in Callers :
       \/ \E w \in Waits : TakeStart(c, w)
       \/ Take(c)
       \/ TakeTimesOut(c)
       \/ GiveStart(c)
       \/ Give(c)
  \/ Delete

Spec == Init /\ [][Next]_vars

(* A task that has a unit of a lock gives it back.                          *)
GivesBack(c) == use = "lock" /\ GiveStart(c)

(* Go runs every goroutine that can run, and timers fire.                   *)
Fairness ==
  \A c \in Callers :
    /\ WF_vars(Take(c)) /\ WF_vars(Give(c))
    /\ WF_vars(TakeTimesOut(c)) /\ WF_vars(GivesBack(c))

FairSpec == Spec /\ Fairness

-----------------------------------------------------------------------------
(* Until it is deleted, every unit of a lock is a token in the channel or   *)
(* held by one task: at most maxCount tasks, of a mutex one, are in their   *)
(* critical sections (semaphore_test.go, TestMutexProtection).  Deletion    *)
(* answers every waiting Take with true (87).                               *)
UnitsConserved ==
  /\ TypeOK
  /\ use = "lock" /\ ~ deleted => count + Cardinality(holders) = maxCount

(* A task is parked only while there is no token for it: a Give that finds  *)
(* takers waiting goes to one of them.                                      *)
NoIdleToken == waiting # <<>> => count = 0 /\ ~ deleted

(* A call of the interface begins when it is made and is over when it is    *)
(* answered.                                                                *)
CallOf(c) ==
  CASE phase[c] \in {"takes", "taking", "parked"} -> [op |-> "Take", wait |-> wait[c]]
    [] phase[c] \in {"gives", "giving"}           -> [op |-> "Give", wait |-> "none"]
    [] phase[c] = "idle"                          -> [op |-> "none", wait |-> "none"]

SM == INSTANCE Semaphore WITH units <- count, call <- [c \in Callers |-> CallOf(c)]

(* The channel behind its flag is the semaphore the interface promises      *)
(* (semaphore.go:18-37): a Take succeeds with a unit of its own, one told   *)
(* to wait forever never comes back without, and a Give is refused only by  *)
(* a semaphore that is full.                                                *)
ImplementsSemaphore == SM!Spec

(* A Take returns: one with a bound on its waiting always, and one without  *)
(* if the semaphore is a lock, however often the others take it.  (Give and *)
(* a second Delete on a closed channel end the program.)                    *)
TakersServed ==
  \A c \in Callers :
    phase[c] = "takes" /\ (use = "lock" \/ wait[c] # "forever")
      ~> phase[c] = "idle" \/ crashed
=============================================================================
