-------------------------------- MODULE Timer --------------------------------
(***************************************************************************)
(* Software timers (pkg/freertos/timer_stub.go; the device builds'         *)
(* timer_tinygo.go is the same code).                                      *)
(*                                                                         *)
(* Every Start makes a runtime timer of its own.  That of a one-shot timer *)
(* is a time.Timer, whose function runs in a goroutine and takes the mutex *)
(* first.  That of a periodic timer is a time.Ticker, with a goroutine     *)
(* that loops: it waits for a tick of the ticker t.ticker names when the   *)
(* wait begins, or for a signal on t.stopCh; on a tick it looks at the     *)
(* timer under the mutex and then calls t.fn.  Stop offers the signal to   *)
(* whoever is waiting at that moment and gives up otherwise.  So a timer   *)
(* is stopped, started, reset and deleted while functions are in flight    *)
(* and loops of earlier Starts are alive.                                  *)
(***************************************************************************)
EXTENDS Naturals, FiniteSets

CONSTANTS
  MaxStarts,   (* bound: calls of Start                                     *)
  MaxInFlight  (* bound: functions of one time.Timer waiting for the mutex  *)

ASSUME TimerAssumption == MaxStarts \in Nat \ {0} /\ MaxInFlight \in Nat \ {0}

VARIABLES
  periodic,  (* t.periodic: TimerEvery or TimerAfter                        *)
  active,    (* t.active                                                    *)
  deleted,   (* t.deleted; that of a periodic timer closes t.stopCh as well *)
  starts,    (* Starts so far; t.timer or t.ticker is the one of the last   *)
  armed,     (* the Starts whose time.Timer or time.Ticker is running       *)
  inFlight,  (* functions of each time.Timer before their mutex section     *)
  fired,     (* calls of t.fn by functions of time.Timers (history)         *)
  ready,     (* the tickers with a tick in their channel                    *)
  loop       (* the goroutine of each Start                                 *)

shot == <<inFlight, fired>>
turns == <<ready, loop>>
vars == <<periodic, active, deleted, starts, armed, shot, turns>>

Starts == 1 .. MaxStarts
Gone   == [at |-> "gone"]
Loops  ==
  {[at |-> p] : p \in {"gone", "turning", "ticked", "called", "calling"}}
    \cup [at : {"waiting"}, ticker : Starts]

TypeOK ==
  /\ periodic \in BOOLEAN /\ active \in BOOLEAN /\ deleted \in BOOLEAN
  /\ starts \in Starts
  /\ armed \subseteq 1 .. starts /\ ready \subseteq 1 .. starts
  /\ inFlight \in [Starts -> 0 .. MaxInFlight]
  /\ fired \in Nat
  /\ loop \in [Starts -> Loops]
  /\ \A n \in Starts : n > starts => loop[n] = Gone

-----------------------------------------------------------------------------
Goes(n, p) == loop' = [loop EXCEPT ![n] = [at |-> p]]
Waiters    == {n \in Starts : loop[n].at = "waiting"}

(* newTimer starts the timer (23-33).                                       *)
Init ==
  /\ periodic \in BOOLEAN
  /\ active = TRUE
  /\ deleted = FALSE
  /\ starts = 1
  /\ armed = {1}
  /\ inFlight = [n \in Starts |-> 0]
  /\ fired = 0
  /\ ready = {}
  /\ loop = [n \in Starts |-> IF periodic /\ n = 1 THEN [at |-> "turning"] ELSE Gone]

(* go func() { for { .. (47), for a periodic timer.                         *)
Spawn(n) == IF periodic THEN Goes(n, "turning") ELSE UNCHANGED loop

(* Start (35-83) *)
Start ==
  /\ ~ deleted /\ ~ active /\ starts < MaxStarts
  /\ active' = TRUE
  /\ starts' = starts + 1
  /\ armed' = armed \cup {starts + 1}
  /\ Spawn(starts + 1)
  /\ UNCHANGED <<periodic, deleted, shot, ready>>

(* Stopping the runtime's timer does not reach a function in flight; a tick *)
(* in a ticker's channel may or may not be discarded, depending on the      *)
(* version of Go.                                                           *)
Disarm ==
  /\ armed' = armed \ {starts}
  /\ ready' \in {ready, ready \ {starts}}

(* t.stopCh is unbuffered, and the send does not wait (96-99).              *)
OfferStop ==
  IF Waiters = {} THEN UNCHANGED loop ELSE \E n \in Waiters : Goes(n, "gone")

(* A mutant of Stop: active is not reset.                                   *)
Stop_Mutant ==
  /\ ~ deleted /\ active
  /\ Disarm /\ OfferStop
  /\ UNCHANGED <<periodic, active, deleted, starts, shot>>
(* Stop (85-106) *)
Stop ==
  /\ ~ deleted /\ active
  /\ active' = FALSE
  /\ Disarm /\ OfferStop
  /\ UNCHANGED <<periodic, deleted, starts, shot>>

(* Reset (108-127) of an active timer: it runs again, expired or not; of    *)
(* any other, it changes the period only.                                   *)
Reset ==
  /\ ~ deleted /\ active
  /\ armed' = armed \cup {starts}
  /\ UNCHANGED <<periodic, active, deleted, starts, shot, turns>>

(* Delete (145-162) *)
Delete ==
  /\ ~ deleted
  /\ deleted' = TRUE
  /\ active' = FALSE
  /\ Disarm
  /\ UNCHANGED <<periodic, starts, shot, loop>>

-----------------------------------------------------------------------------
(* A one-shot timer *)

(* The time is over: a goroutine for the function sets out.                 *)
Expire(n) ==
  /\ ~ periodic /\ n \in armed /\ inFlight[n] < MaxInFlight
  /\ armed' = armed \ {n}
  /\ inFlight' = [inFlight EXCEPT ![n] = @ + 1]
  /\ UNCHANGED <<periodic, active, deleted, starts, fired, turns>>

(* A mutant of Fire: active is left as it is.                               *)
Fire_Mutant(n) ==
  /\ inFlight[n] > 0
  /\ inFlight' = [inFlight EXCEPT ![n] = @ - 1]
  /\ fired' = IF active THEN fired + 1 ELSE fired
  /\ UNCHANGED <<periodic, active, deleted, starts, armed, turns>>
(* The function's mutex section (67-79), and the call of t.fn it leads to.  *)
Fire(n) ==
  /\ inFlight[n] > 0
  /\ inFlight' = [inFlight EXCEPT ![n] = @ - 1]
  /\ IF deleted \/ ~ active
     THEN UNCHANGED <<active, fired>>
     ELSE active' = FALSE /\ fired' = fired + 1
  /\ UNCHANGED <<periodic, deleted, starts, armed, turns>>

-----------------------------------------------------------------------------
(* The loops of a periodic timer *)

timer == <<periodic, active, deleted, starts, armed, shot>>

(* The ticker's channel has room for one tick.                              *)
Tick ==
  /\ periodic /\ starts \in armed
  /\ ready' = ready \cup {starts}
  /\ UNCHANGED <<timer, loop>>

(* The loop evaluates t.ticker.C, without the mutex (50).                   *)
Wait(n) ==
  /\ loop[n].at = "turning"
  /\ loop' = [loop EXCEPT ![n] = [at |-> "waiting", ticker |-> starts]]
  /\ UNCHANGED <<timer, ready>>

(* A waiting loop takes the tick.                                           *)
Ticks(n) ==
  /\ n \in Waiters /\ loop[n].ticker \in ready
  /\ ready' = ready \ {loop[n].ticker}
  /\ Goes(n, "ticked")
  /\ UNCHANGED timer

(* A mutant of StopChClosed: Delete does not close t.stopCh.                *)
StopChClosed_Mutant == FALSE
(* close(t.stopCh) (158)                                                    *)
StopChClosed == deleted

(* A closed t.stopCh ends a wait; with a tick ready too, either is taken.   *)
SeesClosed(n) ==
  /\ n \in Waiters /\ StopChClosed
  /\ Goes(n, "gone")
  /\ UNCHANGED <<timer, ready>>

(* The mutex section (51-57).                                               *)
Look(n) ==
  /\ loop[n].at = "ticked"
  /\ Goes(n, IF ~ deleted /\ active THEN "called" ELSE "gone")
  /\ UNCHANGED <<timer, ready>>

(* t.fn begins, and ends (58-60).                                           *)
Call(n) ==
  /\ loop[n].at = "called"
  /\ Goes(n, "calling")
  /\ UNCHANGED <<timer, ready>>
(* A mutant of CallReturns: the loop ends after one call.                   *)
CallReturns_Mutant(n) ==
  /\ loop[n].at = "calling"
  /\ Goes(n, "gone")
  /\ UNCHANGED <<timer, ready>>
CallReturns(n) ==
  /\ loop[n].at = "calling"
  /\ Goes(n, "turning")
  /\ UNCHANGED <<timer, ready>>

LoopStep(n) ==
  Wait(n) \/ Ticks(n) \/ SeesClosed(n) \/ Look(n) \/ Call(n) \/ CallReturns(n)

-----------------------------------------------------------------------------
Next ==
  \/ Start \/ Stop \/ Reset \/ Delete
  \/ \E n \in Starts : Expire(n) \/ Fire(n)
  \/ Tick
  \/ \E n \in Starts : LoopStep(n)

Spec == Init /\ [][Next]_vars

(* Go runs every goroutine that can run, t.fn returns, and a running ticker *)
(* ticks.                                                                   *)
FairSpec == Spec /\ WF_vars(Tick) /\ \A n \in Starts : WF_vars(LoopStep(n))

-----------------------------------------------------------------------------
(* A one-shot timer "fires once" for each Start (timer.go:32), in whatever  *)
(* order stops, starts and resets meet functions already on their way.      *)
OncePerStart ==
  /\ TypeOK
  /\ ~ periodic => fired + (IF active THEN 1 ELSE 0) <= starts

(* An active timer is going to fire.  If it is one-shot, its time.Timer     *)
(* runs, or a function that will find it active is on its way; if periodic, *)
(* its ticker has a goroutine, whatever stops were lost or ended another    *)
(* goroutine than the one they were meant for.                              *)
ActiveWillFire ==
  active =>
    IF periodic
    THEN \E n \in Starts :
           \/ loop[n].at \in {"turning", "ticked", "called", "calling"}
           \/ loop[n].at = "waiting" /\ loop[n].ticker = starts
    ELSE starts \in armed \/ \E n \in Starts : inFlight[n] > 0

(* A periodic timer left active keeps calling t.fn.                         *)
KeepsFiring ==
  []<>(periodic => ~ active \/ \E n \in Starts : loop[n].at = "calling")

(* Deleting the timer ends every goroutine it started.                      *)
DeleteEndsLoops == deleted ~> \A n \in Starts : loop[n] = Gone
=============================================================================
