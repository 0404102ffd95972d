---------------------------- MODULE TimerProofs -----------------------------
(***************************************************************************)
(* Proofs about Timer, for any number of starts and of functions in        *)
(* flight: a timer fires at most once for each start, and an active timer  *)
(* has something that will fire it.                                        *)
(***************************************************************************)
EXTENDS Timer, TLAPS

(* The goroutine of n will come to look at the ticker of the last start.    *)
Serves(n) ==
  \/ loop[n].at \in {"turning", "ticked", "called", "calling"}
  \/ loop[n].at = "waiting" /\ loop[n].ticker = starts

(* The inductive invariant.                                                 *)
Inv == OncePerStart /\ ActiveWillFire /\ (deleted => ~ active)

-----------------------------------------------------------------------------
(* A loop's place, and that of the others when it takes a step.             *)
LEMMA LoopFacts ==
  ASSUME TypeOK, NEW n \in Starts,
         NEW place \in Loops, loop' = [loop EXCEPT ![n] = place]
  PROVE  /\ loop' \in [Starts -> Loops]
         /\ loop'[n] = place
         /\ \A m \in Starts \ {n} : loop'[m] = loop[m]
BY DEF TypeOK

(* The places of a loop.                                                    *)
LEMMA PlaceFacts ==
  ASSUME NEW p \in {"gone", "turning", "ticked", "called", "calling"}
  PROVE  [at |-> p] \in Loops /\ [at |-> p].at = p
BY DEF Loops

(* A step of one loop to another place changes nothing else of the type.    *)
LEMMA GoesTyped ==
  ASSUME TypeOK, NEW n \in Starts, n <= starts,
         NEW place \in Loops, loop' = [loop EXCEPT ![n] = place],
         ready' \subseteq ready \cup {starts}, UNCHANGED timer
  PROVE  TypeOK'
<1>1. /\ loop' \in [Starts -> Loops]
      /\ \A m \in Starts \ {n} : loop'[m] = loop[m]
  BY LoopFacts
<1>2. \A m \in Starts : m > starts => m # n
  BY DEF TypeOK, Starts
<1>3. starts \in 1 .. starts
  BY DEF TypeOK, Starts
<1>4. QED
  BY <1>1, <1>2, <1>3 DEF TypeOK, timer, shot

(* A loop that is anywhere belongs to a start there has been.               *)
LEMMA StartedLoop ==
  ASSUME TypeOK, NEW n \in Starts, loop[n].at # "gone"
  PROVE  n <= starts
BY DEF TypeOK, Starts, Gone

(* A timer nobody has started satisfies the invariant.                      *)
LEMMA InitInv ==
  Init => Inv
<1> SUFFICES ASSUME Init
             PROVE  Inv
  OBVIOUS
<1>1. 1 \in Starts
  BY TimerAssumption DEF Starts
<1>2. \A n \in Starts : loop[n] \in Loops /\ (n > 1 => loop[n] = Gone)
  BY PlaceFacts DEF Init, Gone, Starts
<1>3. TypeOK
  <2>1. starts \in Starts /\ armed \subseteq 1 .. starts /\ ready \subseteq 1 .. starts
    BY <1>1 DEF Init
  <2>2. inFlight \in [Starts -> 0 .. MaxInFlight] /\ fired \in Nat
    BY TimerAssumption DEF Init
  <2>3. loop \in [Starts -> Loops] /\ \A n \in Starts : n > starts => loop[n] = Gone
    BY <1>2 DEF Init
  <2>4. QED
    BY <2>1, <2>2, <2>3 DEF Init, TypeOK
<1>4. ActiveWillFire
  BY <1>1 DEF Init, ActiveWillFire
<1>5. QED
  BY <1>3, <1>4 DEF Init, Inv, OncePerStart

-----------------------------------------------------------------------------
(* The calls *)

(* Start keeps the invariant.                                               *)
LEMMA StartInv ==
  ASSUME Inv, Start
  PROVE  Inv'
<1>1. TypeOK /\ ~ active /\ ~ deleted /\ starts \in Starts /\ starts + 1 \in Starts
  BY TimerAssumption DEF Inv, OncePerStart, TypeOK, Start, Starts
<1>2. /\ active' /\ starts' = starts + 1 /\ armed' = armed \cup {starts + 1}
      /\ UNCHANGED <<periodic, deleted, shot, ready>>
      /\ active' \in BOOLEAN
  BY DEF Start
<1>3. /\ loop' \in [Starts -> Loops]
      /\ \A m \in Starts \ {starts + 1} : loop'[m] = loop[m]
      /\ periodic => loop'[starts + 1].at = "turning"
  <2>1. CASE periodic
    <3>1. loop' = [loop EXCEPT ![starts + 1] = [at |-> "turning"]]
      BY <2>1 DEF Start, Spawn, Goes
    <3>2. [at |-> "turning"] \in Loops /\ [at |-> "turning"].at = "turning"
      BY PlaceFacts
    <3>3. QED
      BY <1>1, <3>1, <3>2, LoopFacts
  <2>2. CASE ~ periodic
    BY <1>1, <2>2 DEF Start, Spawn, TypeOK
  <2>3. QED
    BY <2>1, <2>2
<1>4. TypeOK'
  BY <1>1, <1>2, <1>3, TimerAssumption DEF TypeOK, Starts, shot
<1>5. ~ periodic => fired' + 1 <= starts'
  BY <1>1, <1>2 DEF Inv, OncePerStart, TypeOK, Starts, shot
<1>6. ActiveWillFire'
  BY <1>1, <1>2, <1>3 DEF ActiveWillFire
<1>7. QED
  BY <1>1, <1>2, <1>4, <1>5, <1>6 DEF Inv, OncePerStart

(* Stop and Delete leave the timer inactive.                                *)
LEMMA StopInv ==
  ASSUME Inv, Stop \/ Delete
  PROVE  Inv'
<1>1. TypeOK /\ fired \in Nat /\ starts \in Nat
  BY DEF Inv, OncePerStart, TypeOK, Starts
<1>2. /\ ~ active' /\ armed' \subseteq armed /\ ready' \subseteq ready
      /\ active' \in BOOLEAN /\ deleted' \in BOOLEAN
      /\ UNCHANGED <<periodic, starts, shot>>
  BY <1>1 DEF Stop, Delete, Disarm, TypeOK
<1>3. /\ loop' \in [Starts -> Loops]
      /\ \A m \in Starts : loop'[m] \in {loop[m], Gone}
  <2>1. CASE UNCHANGED loop
    BY <1>1, <2>1 DEF TypeOK
  <2>2. ASSUME NEW n \in Starts, Goes(n, "gone")
        PROVE  /\ loop' \in [Starts -> Loops]
               /\ \A m \in Starts : loop'[m] \in {loop[m], Gone}
    <3>1. Gone \in Loops /\ loop' = [loop EXCEPT ![n] = Gone]
      BY <2>2, PlaceFacts DEF Goes, Gone
    <3>2. QED
      BY <1>1, <3>1, LoopFacts
  <2>3. QED
    BY <2>1, <2>2 DEF Stop, Delete, OfferStop, Waiters
<1>4. TypeOK'
  BY <1>1, <1>2, <1>3 DEF TypeOK, shot
<1>5. ~ periodic => fired <= starts
  BY <1>1 DEF Inv, OncePerStart
<1>6. QED
  BY <1>1, <1>2, <1>4, <1>5 DEF Inv, OncePerStart, ActiveWillFire, shot

(* Reset keeps the invariant.                                               *)
LEMMA ResetInv ==
  ASSUME Inv, Reset
  PROVE  Inv'
<1>1. TypeOK /\ starts \in 1 .. starts
  BY DEF Inv, OncePerStart, TypeOK, Starts
<1>2. TypeOK'
  BY <1>1 DEF Reset, TypeOK, shot, turns
<1>3. ActiveWillFire'
  BY DEF Inv, Reset, ActiveWillFire, shot, turns
<1>4. QED
  BY <1>1, <1>2, <1>3 DEF Inv, OncePerStart, Reset, shot, turns

-----------------------------------------------------------------------------
(* The functions of a one-shot timer *)

(* A time that is over keeps the invariant.                                 *)
LEMMA ExpireInv ==
  ASSUME Inv, NEW n \in Starts, Expire(n)
  PROVE  Inv'
<1>1. /\ TypeOK /\ inFlight[n] \in 0 .. MaxInFlight /\ MaxInFlight \in Nat
      /\ inFlight' = [inFlight EXCEPT ![n] = inFlight[n] + 1]
      /\ armed' \subseteq armed /\ ~ periodic /\ inFlight[n] < MaxInFlight
      /\ UNCHANGED <<periodic, active, deleted, starts, fired, turns>>
  BY TimerAssumption DEF Inv, OncePerStart, TypeOK, Expire
<1>2. TypeOK'
  BY <1>1 DEF TypeOK, turns
<1>3. inFlight'[n] > 0
  BY <1>1 DEF TypeOK
<1>4. QED
  BY <1>1, <1>2, <1>3 DEF Inv, OncePerStart, ActiveWillFire

(* The function's mutex section keeps the invariant.                        *)
LEMMA FireInv ==
  ASSUME Inv, NEW n \in Starts, Fire(n)
  PROVE  Inv'
<1>1. /\ TypeOK /\ inFlight[n] \in 0 .. MaxInFlight /\ MaxInFlight \in Nat
      /\ fired \in Nat /\ starts \in Nat
      /\ inFlight' = [inFlight EXCEPT ![n] = inFlight[n] - 1] /\ inFlight[n] > 0
      /\ UNCHANGED <<periodic, deleted, starts, armed, turns>>
      /\ ~ active' /\ active' \in BOOLEAN
      /\ fired' = IF active THEN fired + 1 ELSE fired
  <2>1. TypeOK /\ (deleted => ~ active) /\ MaxInFlight \in Nat /\ starts \in Nat
    BY TimerAssumption DEF Inv, OncePerStart, TypeOK, Starts
  <2>2. fired \in Nat /\ inFlight[n] \in 0 .. MaxInFlight /\ active \in BOOLEAN
    BY <2>1 DEF TypeOK
  <2>3. CASE active
    BY <2>1, <2>2, <2>3 DEF Fire
  <2>4. CASE ~ active
    BY <2>1, <2>2, <2>4 DEF Fire
  <2>5. QED
    BY <2>3, <2>4
<1>2. TypeOK'
  BY <1>1 DEF TypeOK, turns
<1>3. ~ periodic => fired' <= starts
  BY <1>1 DEF Inv, OncePerStart
<1>4. QED
  BY <1>1, <1>2, <1>3 DEF Inv, OncePerStart, ActiveWillFire

-----------------------------------------------------------------------------
(* The loops of a periodic timer *)

(* The ticker keeps the invariant.                                          *)
LEMMA TickInv ==
  ASSUME Inv, Tick
  PROVE  Inv'
<1>1. TypeOK /\ starts \in 1 .. starts
  BY DEF Inv, OncePerStart, TypeOK, Starts
<1>2. TypeOK'
  BY <1>1 DEF Tick, TypeOK, timer, shot
<1>3. QED
  BY <1>1, <1>2 DEF Inv, OncePerStart, ActiveWillFire, Tick, timer, shot

(* A loop that steps while the timer is active still serves it, or another  *)
(* does.                                                                    *)
LEMMA LoopInv ==
  ASSUME Inv, NEW n \in Starts, LoopStep(n)
  PROVE  Inv'
<1>1. TypeOK /\ (deleted => ~ active) /\ starts \in Starts
  BY DEF Inv, OncePerStart, TypeOK
<1>2. ASSUME NEW place \in Loops, loop' = [loop EXCEPT ![n] = place],
             loop[n].at # "gone", ready' \subseteq ready, UNCHANGED timer,
             active => \/ place.at \in {"turning", "ticked", "called", "calling"}
                       \/ place.at = "waiting" /\ place.ticker = starts
      PROVE  Inv'
  <2>1. TypeOK'
    BY <1>1, <1>2, StartedLoop, GoesTyped
  <2>2. /\ loop'[n] = place
        /\ \A m \in Starts \ {n} : loop'[m] = loop[m]
    BY <1>1, <1>2, LoopFacts
  <2>3. active /\ periodic => \E m \in Starts : Serves(m)'
    BY <1>2, <2>2 DEF Serves, timer
  <2>4. active /\ ~ periodic => starts \in armed \/ \E m \in Starts : inFlight[m] > 0
    BY DEF Inv, ActiveWillFire
  <2>5. QED
    BY <1>2, <2>1, <2>3, <2>4
    DEF Inv, OncePerStart, ActiveWillFire, Serves, timer, shot
<1>3. CASE Wait(n)
  <2> DEFINE place == [at |-> "waiting", ticker |-> starts]
  <2>1. place \in Loops /\ place.at = "waiting" /\ place.ticker = starts
    BY <1>1 DEF Loops
  <2>2. /\ loop' = [loop EXCEPT ![n] = place] /\ loop[n].at # "gone"
        /\ ready' \subseteq ready /\ UNCHANGED timer
    BY <1>3 DEF Wait
  <2> HIDE DEF place
  <2>3. QED
    BY <1>2, <2>1, <2>2
<1>4. CASE Ticks(n) \/ Call(n) \/ CallReturns(n)
  <2>1. \E p \in {"ticked", "calling", "turning"} : Goes(n, p)
    BY <1>4 DEF Ticks, Call, CallReturns
  <2>2. PICK p \in {"ticked", "calling", "turning"} : loop' = [loop EXCEPT ![n] = [at |-> p]]
    BY <2>1 DEF Goes
  <2>3. loop[n].at # "gone" /\ ready' \subseteq ready /\ UNCHANGED timer
    BY <1>4 DEF Ticks, Call, CallReturns, Waiters
  <2>4. [at |-> p] \in Loops /\ [at |-> p].at = p
    BY PlaceFacts
  <2>5. QED
    BY <1>2, <2>2, <2>3, <2>4
<1>5. CASE SeesClosed(n)
  <2>1. /\ loop' = [loop EXCEPT ![n] = [at |-> "gone"]]
        /\ loop[n].at # "gone" /\ ready' \subseteq ready /\ UNCHANGED timer /\ ~ active
    BY <1>1, <1>5 DEF SeesClosed, StopChClosed, Goes, Waiters
  <2>2. [at |-> "gone"] \in Loops
    BY PlaceFacts
  <2>3. QED
    BY <1>2, <2>1, <2>2
<1>6. CASE Look(n)
  <2>1. /\ loop[n].at # "gone" /\ ready' \subseteq ready /\ UNCHANGED timer
        /\ loop' = [loop EXCEPT ![n] = [at |-> IF ~ deleted /\ active THEN "called" ELSE "gone"]]
    BY <1>6 DEF Look, Goes
  <2>2. [at |-> "called"] \in Loops /\ [at |-> "called"].at = "called"
        /\ [at |-> "gone"] \in Loops
    BY PlaceFacts
  <2>3. CASE active
    BY <1>1, <1>2, <2>1, <2>2, <2>3
  <2>4. CASE ~ active
    BY <1>2, <2>1, <2>2, <2>4
  <2>5. QED
    BY <2>3, <2>4
<1>7. QED
  BY <1>3, <1>4, <1>5, <1>6 DEF LoopStep

-----------------------------------------------------------------------------
(* The invariant is kept by every step.                                     *)
LEMMA InvInductive ==
  Spec => []Inv
<1>1. Inv /\ [Next]_vars => Inv'
  <2> SUFFICES ASSUME Inv, [Next]_vars
               PROVE  Inv'
    OBVIOUS
  <2>1. CASE Next
    BY <2>1, StartInv, StopInv, ResetInv, ExpireInv, FireInv, TickInv, LoopInv DEF Next
  <2>2. CASE UNCHANGED vars
    BY <2>2 DEF vars, shot, turns, Inv, OncePerStart, TypeOK, ActiveWillFire
  <2>3. QED
    BY <2>1, <2>2
<1>2. QED
  BY InitInv, <1>1, PTL DEF Spec

(* A one-shot timer calls t.fn at most once for each Start, whatever stops, *)
(* resets and functions in flight do (timer_stub.go:67-79).                 *)
THEOREM FiresOncePerStart == Spec => []OncePerStart
<1>1. Inv => OncePerStart
  BY DEF Inv
<1>2. QED
  BY InvInductive, <1>1, PTL

(* An active timer always has a time.Timer, a function or a goroutine that  *)
(* will fire it (timer_stub.go:35-106).                                     *)
THEOREM ActiveIsServed == Spec => []ActiveWillFire
<1>1. Inv => ActiveWillFire
  BY DEF Inv
<1>2. QED
  BY InvInductive, <1>1, PTL
=============================================================================
