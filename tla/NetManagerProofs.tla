-------------------------- MODULE NetManagerProofs ---------------------------
(***************************************************************************)
(* Proofs about NetManager, for any number of tasks, listeners, sockets    *)
(* and calls, on every build: a socket's number is given back by its owner *)
(* alone and not twice, no listener is left open without anyone to close   *)
(* it, Disconnect releases what it was asked to, and the status settles.    *)
(***************************************************************************)
EXTENDS NetManager, WellFoundedInduction, TLAPS

Steps ==
  {"idle", "begin", "open", "register", "address", "joining", "joined", "unjoined",
   "next", "mark", "release", "close", "returned"}
Calls ==
  [op : {"none", "connect", "listen", "disconnect", "close"}, pc : Steps,
   l : Listeners \cup {Nobody}, todo : SUBSET Listeners, asked : SUBSET Listeners]
Loops ==
  [pc : {"off", "accept", "calling", "blocked", "serving", "ended"},
   fd : 0 .. MaxFd, on : Listeners \cup {Nobody}]

Typed == TypeOK /\ call \in [Callers -> Calls] /\ loop \in [Listeners -> Loops]

-----------------------------------------------------------------------------
(* The parts of the inductive invariant *)

(* A call is about a listener that exists, and a disconnect alone has a     *)
(* list of them.                                                            *)
CallsInOrder ==
  /\ \A c \in Callers :
       /\ call[c].pc \in {"register", "address", "mark", "release", "close"} =>
            call[c].l \in Listeners /\ lfd[call[c].l] # 0
       /\ call[c].pc = "next" => call[c].op = "disconnect"
       /\ call[c].pc \in {"mark", "release", "close"} => call[c].op \in {"disconnect", "close"}
       /\ call[c].todo # {} =>
            call[c].op = "disconnect" /\ call[c].pc \in {"next", "mark", "release", "close"}
       /\ \A l \in call[c].todo : lfd[l] # 0
       /\ call[c].pc = "address" => platform = "tinygo"
  /\ \A l \in Listeners : loop[l].pc # "off" => lfd[l] # 0

Opening(c) == call[c].pc \in {"register", "address"}

(* A listener is handed out once, by the call that opened it.               *)
HandedOutOnce ==
  /\ \A c \in Callers : Opening(c) => loop[call[c].l].pc = "off"
  /\ \A c, d \in Callers : Opening(c) /\ Opening(d) /\ call[c].l = call[d].l => c = d

Closing(c) == call[c].pc \in {"release", "close"}

(* An open listener has the number it was given; one task closes it, which  *)
(* is the one that found it not closed.                                     *)
SocketsOwned ==
  /\ \A f \in Fds, l \in Listeners : owner[f] = ListenerOf(l) => lfd[l] = f
  /\ \A l \in Listeners : lfd[l] # 0 /\ ~ closed[l] => owner[lfd[l]] = ListenerOf(l)
  /\ \A l \in Listeners : closed[l] => lfd[l] # 0
  /\ \A c \in Callers : Closing(c) =>
       closed[call[c].l] /\ owner[lfd[call[c].l]] = ListenerOf(call[c].l)
  /\ \A c, d \in Callers : Closing(c) /\ Closing(d) /\ call[c].l = call[d].l => c = d
  /\ \A l \in Listeners : closed[l] /\ Open(l) =>
       \E c \in Callers : Closing(c) /\ call[c].l = l
  /\ \A l \in Listeners : loop[l].pc = "serving" =>
       loop[l].fd \in Fds /\ owner[loop[l].fd] = SessionOf(l)

Covered(l) == \E c \in Callers : OnTheWay(c, l)

NoneStray ==
  \A l \in Listeners : Open(l) =>
    \/ l \in listeners
    \/ Covered(l)
    \/ \E c \in Callers : call[c].l = l /\ call[c].pc = "register"

(* From when it took the map, a disconnect's listeners that are still open  *)
(* have someone on the way to them.                                         *)
Releasing ==
  \A c \in Callers : call[c].op = "disconnect" =>
    \A l \in call[c].asked :
      /\ loop[l].pc # "off"
      /\ Open(l) => Covered(l) \/ (call[c].pc = "begin" /\ l \in listeners)

Inv ==
  /\ Typed
  /\ CallsInOrder
  /\ HandedOutOnce
  /\ SocketsOwned
  /\ NoneStray
  /\ Releasing
  /\ StatusSettles

-----------------------------------------------------------------------------
(* Sockets *)

(* Whose a socket is, is told apart.                                        *)
LEMMA OwnersDiffer ==
  ASSUME NEW l, NEW m
  PROVE  /\ Free # ListenerOf(l) /\ Free # SessionOf(l) /\ ListenerOf(l) # SessionOf(m)
         /\ ListenerOf(l) = ListenerOf(m) => l = m
         /\ SessionOf(l) = SessionOf(m) => l = m
<1>1. /\ Free.is = "free" /\ ListenerOf(l).is = "listener" /\ SessionOf(l).is = "session"
      /\ SessionOf(m).is = "session"
      /\ ListenerOf(l).l = l /\ ListenerOf(m).l = m
      /\ SessionOf(l).l = l /\ SessionOf(m).l = m
  BY DEF Free, ListenerOf, SessionOf
<1>2. QED
  BY <1>1

(* The lowest free number exists: the natural numbers are well-founded.     *)
LEMMA LowestFree ==
  ASSUME FreeFds # {}
  PROVE  Min(FreeFds) \in Fds /\ owner[Min(FreeFds)] = Free
<1>1. FreeFds \subseteq Nat /\ FreeFds \subseteq Fds
  BY NetAssumption DEF FreeFds, Fds
<1>2. PICK f \in FreeFds : \A g \in FreeFds : ~ (<<g, f>> \in OpToRel(<, Nat))
  BY <1>1, NatLessThanWellFounded, WFMin
<1>3. \A g \in FreeFds : f <= g
  <2>1. \A g \in FreeFds : ~ (g < f)
    BY <1>1, <1>2 DEF OpToRel
  <2>2. QED
    BY <1>1, <2>1
<1>4. Min(FreeFds) \in FreeFds
  BY <1>3 DEF Min
<1>5. QED
  BY <1>1, <1>4 DEF FreeFds

(* The socket of an open listener is the one it was given.                  *)
LEMMA OpenFacts ==
  ASSUME Typed, SocketsOwned, NEW l \in Listeners
  PROVE  Open(l) <=> lfd[l] \in Fds /\ owner[lfd[l]] = ListenerOf(l)
BY DEF SocketsOwned, Open

-----------------------------------------------------------------------------
(* Calls *)

(* What becomes of a call: its next step, its listener, its list.           *)
Becomes(c, p, l, todo) ==
  /\ call' \in [Callers -> Calls]
  /\ call'[c].op = call[c].op /\ call'[c].asked = call[c].asked
  /\ call'[c].pc = p /\ call'[c].l = l /\ call'[c].todo = todo
  /\ \A d \in Callers \ {c} : call'[d] = call[d]

(* A step that sets the fields of one call.                                 *)
LEMMA BecomesFacts ==
  ASSUME Typed, NEW c \in Callers, NEW p \in Steps,
         NEW l \in Listeners \cup {Nobody}, NEW todo \in SUBSET Listeners,
         call' = [call EXCEPT ![c].pc = p, ![c].l = l, ![c].todo = todo]
  PROVE  Becomes(c, p, l, todo)
BY DEF Typed, Calls, Becomes

(* A step that only moves a call on.                                        *)
LEMMA ContinueFacts ==
  ASSUME Typed, NEW c \in Callers, NEW p \in Steps, Continue(c, p)
  PROVE  Becomes(c, p, call[c].l, call[c].todo)
BY DEF Typed, Calls, Becomes, Continue

(* A step that ends a call.                                                 *)
LEMMA ReturnFacts ==
  ASSUME Typed, NEW c \in Callers, Return(c)
  PROVE  Becomes(c, "returned", call[c].l, call[c].todo)
BY DEF Typed, Calls, Becomes, Return, Steps

(* A typed call, read field by field.                                       *)
LEMMA CallTyped ==
  ASSUME Typed, NEW c \in Callers
  PROVE  /\ call[c].l \in Listeners \cup {Nobody} /\ call[c].pc \in Steps
         /\ call[c].todo \subseteq Listeners /\ call[c].asked \subseteq Listeners
         /\ call[c].op \in {"none", "connect", "listen", "disconnect", "close"}
BY DEF Typed, Calls

(* A step that moves one loop.                                              *)
LEMMA LoopFacts ==
  ASSUME Typed, NEW l \in Listeners, NEW place \in Loops, Loop(l, place)
  PROVE  /\ loop' \in [Listeners -> Loops]
         /\ loop'[l] = place
         /\ \A m \in Listeners \ {l} : loop'[m] = loop[m]
BY DEF Typed, Loop

-----------------------------------------------------------------------------
(* Steps that leave the sockets alone *)

sockets == <<platform, listeners, lfd, closed, owner, loop>>
status  == <<platform, state, ip>>

(* A step of a call that has no listener in its hands and takes none.       *)
LEMMA QuietStep ==
  ASSUME Inv, NEW c \in Callers,
         NEW p \in {"open", "joining", "joined", "unjoined", "returned"},
         call[c].pc \in {"begin", "open", "joining", "joined", "unjoined", "next"},
         call[c].todo = {},
         call[c].op = "disconnect" => call[c].pc # "begin",
         Becomes(c, p, call[c].l, call[c].todo),
         UNCHANGED sockets
  PROVE  CallsInOrder' /\ HandedOutOnce' /\ SocketsOwned' /\ NoneStray' /\ Releasing'
<1>1. \A d \in Callers, l \in Listeners : OnTheWay(d, l)' <=> OnTheWay(d, l)
  BY DEF Becomes, OnTheWay
<1>2. \A l \in Listeners : (Open(l)' <=> Open(l)) /\ (Covered(l)' <=> Covered(l))
  BY <1>1 DEF Open, sockets, Covered
<1>3. \A d \in Callers : Closing(d)' <=> Closing(d)
  BY DEF Becomes, Closing
<1>4. CallsInOrder'
  BY DEF Inv, CallsInOrder, Becomes, sockets
<1>5. HandedOutOnce'
  BY DEF Inv, HandedOutOnce, Opening, Becomes, sockets
<1>6. SocketsOwned'
  BY <1>2, <1>3 DEF Inv, SocketsOwned, Becomes, sockets, Closing
<1>7. NoneStray'
  BY <1>2 DEF Inv, NoneStray, Becomes, sockets
<1>8. Releasing'
  <2>1. \A d \in Callers :
          /\ call'[d].op = call[d].op /\ call'[d].asked = call[d].asked
          /\ call[d].op = "disconnect" /\ call[d].pc = "begin" => call'[d].pc = "begin"
    BY DEF Becomes
  <2>2. \A d \in Callers : call[d].asked \subseteq Listeners
    BY CallTyped DEF Inv
  <2>3. QED
    BY <1>2, <2>1, <2>2 DEF Inv, Releasing, sockets
<1>9. QED
  BY <1>4, <1>5, <1>6, <1>7, <1>8

(* A step that leaves the status alone, of a call that is not joining.      *)
LEMMA StatusStep ==
  ASSUME StatusSettles, NEW c \in Callers,
         \A d \in Callers \ {c} : call'[d] = call[d],
         call[c].op # "connect" \/ call[c].pc \notin {"joining", "joined", "unjoined"},
         UNCHANGED status
  PROVE  StatusSettles'
BY DEF StatusSettles, status

-----------------------------------------------------------------------------
(* The initial state *)

(* A manager nobody has called satisfies the invariant.                     *)
LEMMA InitInv ==
  ASSUME Init
  PROVE  Inv
<1> USE NetAssumption DEF Init
<1>1. \A f \in Fds, l \in Listeners : owner[f] = Free /\ Free # ListenerOf(l)
  BY OwnersDiffer
<1>2. Typed
  <2>1. IdleCall \in Calls /\ NoLoop \in Loops
    BY DEF IdleCall, Calls, Steps, NoLoop, Loops
  <2>2. call \in [Callers -> Calls] /\ loop \in [Listeners -> Loops]
    BY <2>1
  <2>3. TypeOK
    <3>1. \A c \in Callers : call[c] \in Calls
      BY <2>2
    <3>2. \A l \in Listeners : loop[l] \in Loops
      BY <2>2
    <3>3. lfd \in [Listeners -> 0 .. MaxFd] /\ calls \in 0 .. MaxCalls
      OBVIOUS
    <3>4. closed \in [Listeners -> BOOLEAN] /\ ip \in BOOLEAN
      OBVIOUS
    <3>5. owner \in [Fds -> {Free} \cup {ListenerOf(l) : l \in Listeners}
                               \cup {SessionOf(l) : l \in Listeners}]
      <4>1. Free \in {Free} \cup {ListenerOf(l) : l \in Listeners}
                               \cup {SessionOf(l) : l \in Listeners}
        OBVIOUS
      <4> HIDE DEF Free
      <4>2. QED
        BY <4>1 DEF Init
    <3> HIDE DEF Init
    <3>6. platform \in Platforms /\ state = "idle" /\ listeners = {}
      BY DEF Init
    <3>7. QED
      BY <3>1, <3>2, <3>3, <3>4, <3>5, <3>6 DEF TypeOK, Calls, Loops
  <2>4. QED
    BY <2>2, <2>3 DEF Typed
<1>3. \A c \in Callers : call[c].op = "none" /\ call[c].pc = "idle" /\ call[c].todo = {}
  BY DEF IdleCall
<1>4. \A l \in Listeners : loop[l].pc = "off" /\ ~ Open(l) /\ lfd[l] = 0 /\ ~ closed[l]
  BY <1>1 DEF NoLoop, Open
<1>5. CallsInOrder /\ HandedOutOnce
  BY <1>3, <1>4 DEF CallsInOrder, HandedOutOnce, Opening
<1>6. SocketsOwned
  BY <1>1, <1>3, <1>4 DEF SocketsOwned, Closing
<1>7. NoneStray /\ Releasing
  BY <1>3, <1>4 DEF NoneStray, Releasing
<1>8. StatusSettles
  BY DEF StatusSettles
<1>9. QED
  BY <1>2, <1>5, <1>6, <1>7, <1>8 DEF Inv

-----------------------------------------------------------------------------
(* A call begins *)

(* A call that begins keeps the invariant.                                  *)
LEMMA BeginInv ==
  ASSUME Inv, NEW c \in Callers, NEW op \in {"connect", "listen", "disconnect", "close"},
         NEW l \in Listeners \cup {Nobody}, Begin(c, op, l)
  PROVE  Inv'
<1> DEFINE served == {m \in Listeners : loop[m].pc # "off"}
           start  == IF op = "close" THEN "mark" ELSE "begin"
           asked  == IF op = "disconnect" THEN served ELSE {}
           new    == [IdleCall EXCEPT !.op = op, !.pc = start, !.l = l, !.asked = asked]
<1>1. call[c].pc \in {"idle", "returned"} /\ calls < MaxCalls /\ calls' = calls + 1
  BY DEF Begin
<1>2. call' = [call EXCEPT ![c] = new]
  BY DEF Begin
<1>3. new \in Calls /\ new.op = op /\ new.pc = start /\ new.l = l
      /\ new.todo = {} /\ new.asked = asked
  <2> HIDE DEF asked, start
  <2>1. start \in Steps /\ asked \in SUBSET Listeners
    BY DEF asked, start, Steps
  <2>2. IdleCall \in Calls /\ IdleCall.todo = {}
    BY DEF IdleCall, Calls, Steps
  <2>3. QED
    BY <2>1, <2>2 DEF Calls
<1>4. /\ call' \in [Callers -> Calls]
      /\ call'[c].op = op /\ call'[c].pc = start /\ call'[c].l = l
      /\ call'[c].todo = {} /\ call'[c].asked = asked
      /\ \A d \in Callers \ {c} : call'[d] = call[d]
  <2> HIDE DEF new
  <2>1. QED
    BY <1>2, <1>3 DEF Inv, Typed
<1>5. UNCHANGED <<platform, state, ip, listeners, lfd, closed, owner, loop>>
  BY DEF Begin
<1>6. /\ op = "close" => l \in Listeners /\ loop[l].pc # "off"
      /\ op # "close" => l = Nobody
  BY DEF Begin
<1>7. Typed'
  <2>1. calls' \in 0 .. MaxCalls
    BY <1>1, NetAssumption DEF Inv, Typed, TypeOK
  <2>2. QED
    BY <1>4, <1>5, <2>1 DEF Inv, Typed, TypeOK, Calls
<1>8. call[c].todo = {} /\ ~ Closing(c) /\ ~ Closing(c)' /\ ~ Opening(c)'
      /\ ~ Opening(c) /\ call'[c].todo = {}
  BY <1>1, <1>4 DEF Inv, CallsInOrder, Closing, Opening
<1>9. \A d \in Callers, m \in Listeners : OnTheWay(d, m) => OnTheWay(d, m)'
  BY <1>1, <1>4, <1>8 DEF OnTheWay
<1>10. \A m \in Listeners : (Open(m)' <=> Open(m)) /\ (Covered(m) => Covered(m)')
  BY <1>5, <1>9 DEF Open, Covered
<1>11. CallsInOrder'
  BY <1>4, <1>5, <1>6 DEF Inv, CallsInOrder
<1>12. HandedOutOnce'
  BY <1>4, <1>5, <1>8 DEF Inv, HandedOutOnce, Opening
<1>13. \A d \in Callers : (Closing(d)' <=> Closing(d)) /\ (Closing(d) => call'[d] = call[d])
  BY <1>4, <1>8 DEF Closing
<1>14. SocketsOwned'
  <2>1. \A m \in Listeners : closed'[m] /\ Open(m)' =>
          \E d \in Callers : Closing(d)' /\ call'[d].l = m
    BY <1>5, <1>10, <1>13 DEF Inv, SocketsOwned
  <2>2. QED
    BY <1>5, <1>13, <2>1 DEF Inv, SocketsOwned
<1>15. NoneStray'
  BY <1>4, <1>5, <1>8, <1>10 DEF Inv, NoneStray, Opening
<1>16. Releasing'
  <2>1. ASSUME op = "disconnect", NEW m \in served
        PROVE  loop'[m].pc # "off" /\ (Open(m)' => Covered(m)' \/ m \in listeners')
    <3>1. \A d \in Callers : ~ (call[d].l = m /\ call[d].pc = "register")
      BY DEF Inv, HandedOutOnce, Opening
    <3>2. QED
      BY <1>5, <1>10, <3>1 DEF Inv, NoneStray
  <2>2. \A d \in Callers \ {c} : call[d].asked \subseteq Listeners
    BY CallTyped DEF Inv
  <2>3. QED
    BY <1>4, <1>5, <1>10, <2>1, <2>2 DEF Inv, Releasing
<1>17. StatusSettles'
  BY <1>1, <1>4, <1>5, StatusStep DEF Inv, status
<1>18. QED
  BY <1>7, <1>11, <1>12, <1>14, <1>15, <1>16, <1>17 DEF Inv

-----------------------------------------------------------------------------
(* Connecting, and the steps of listen and disconnect around the sockets *)

(* The type of the state after a step that leaves the sockets alone.        *)
LEMMA QuietTyped ==
  ASSUME Typed, call' \in [Callers -> Calls], UNCHANGED sockets, UNCHANGED <<platform, calls>>,
         state' \in {"idle", "connecting", "connected", "error"},
         ip' \in BOOLEAN
  PROVE  Typed'
BY DEF Typed, TypeOK, Calls, sockets

(* A call other than a disconnect has no list.                              *)
LEMMA NoList ==
  ASSUME Inv, NEW c \in Callers, call[c].op # "disconnect"
  PROVE  call[c].todo = {} /\ call[c].pc # "next"
BY DEF Inv, CallsInOrder

(* The first section of connect keeps the invariant.                        *)
LEMMA ConnectBeginsInv ==
  ASSUME Inv, NEW c \in Callers, ConnectBegins(c)
  PROVE  Inv'
<1>1. call[c].op = "connect" /\ call[c].pc = "begin" /\ call[c].todo = {}
  BY NoList DEF ConnectBegins, InCall
<1>2. UNCHANGED sockets /\ UNCHANGED <<platform, calls>>
  BY DEF ConnectBegins, sockets
<1>3. PICK p \in {"returned", "joining"} :
        Becomes(c, p, call[c].l, call[c].todo) /\ (state' = "connecting" => p = "joining")
  <2>1. CASE Return(c) /\ state' # "connecting"
    BY <2>1, ReturnFacts DEF Inv
  <2>2. CASE Continue(c, "joining")
    BY <2>2, ContinueFacts DEF Inv, Steps
  <2>3. QED
    BY <2>1, <2>2 DEF ConnectBegins
<1>4. /\ state' \in {"connecting", "connected", "error"} /\ ip' \in BOOLEAN
      /\ state' = "connected" => ip'
  BY DEF Inv, ConnectBegins, Typed, TypeOK
<1>5. Typed'
  BY <1>2, <1>3, <1>4, QuietTyped DEF Inv, Becomes, Typed, TypeOK
<1>6. CallsInOrder' /\ HandedOutOnce' /\ SocketsOwned' /\ NoneStray' /\ Releasing'
  BY <1>1, <1>2, <1>3, QuietStep
<1>7. StatusSettles'
  <2>1. state' = "connecting" => call'[c].op = "connect" /\ call'[c].pc = "joining"
    BY <1>1, <1>3 DEF Becomes
  <2>2. QED
    BY <1>4, <2>1 DEF StatusSettles
<1>8. QED
  BY <1>5, <1>6, <1>7 DEF Inv

(* Joining the network keeps the invariant.                                 *)
LEMMA JoinInv ==
  ASSUME Inv, NEW c \in Callers, Join(c)
  PROVE  Inv'
<1>1. call[c].op = "connect" /\ call[c].pc = "joining" /\ call[c].todo = {}
  BY NoList DEF Join, InCall
<1>2. UNCHANGED sockets /\ UNCHANGED <<platform, calls, state, ip>>
  BY DEF Join, sockets
<1>3. PICK p \in {"joined", "unjoined"} : Becomes(c, p, call[c].l, call[c].todo)
  BY ContinueFacts DEF Inv, Join, Steps
<1>4. Typed'
  BY <1>2, <1>3, QuietTyped DEF Inv, Becomes, Typed, TypeOK
<1>5. CallsInOrder' /\ HandedOutOnce' /\ SocketsOwned' /\ NoneStray' /\ Releasing'
  BY <1>1, <1>2, <1>3, QuietStep
<1>6. StatusSettles'
  BY <1>1, <1>2, <1>3 DEF Inv, StatusSettles, Becomes
<1>7. QED
  BY <1>4, <1>5, <1>6 DEF Inv

(* The last section of connect keeps the invariant.                         *)
LEMMA ConnectEndsInv ==
  ASSUME Inv, NEW c \in Callers, ConnectEnds(c)
  PROVE  Inv'
<1>1. call[c].op = "connect" /\ call[c].pc \in {"joined", "unjoined"} /\ call[c].todo = {}
  BY NoList DEF ConnectEnds, InCall
<1>2. UNCHANGED sockets /\ UNCHANGED <<platform, calls>>
  BY DEF ConnectEnds, sockets
<1>3. Becomes(c, "returned", call[c].l, call[c].todo)
  BY ReturnFacts DEF Inv, ConnectEnds
<1>4. /\ state' \in {"connected", "error"} /\ ip' \in BOOLEAN
      /\ state' = "connected" => ip'
  BY DEF Inv, ConnectEnds, Typed, TypeOK
<1>5. Typed'
  BY <1>2, <1>3, <1>4, QuietTyped DEF Inv, Becomes, Typed, TypeOK
<1>6. CallsInOrder' /\ HandedOutOnce' /\ SocketsOwned' /\ NoneStray' /\ Releasing'
  BY <1>1, <1>2, <1>3, QuietStep
<1>7. StatusSettles'
  BY <1>4 DEF StatusSettles
<1>8. QED
  BY <1>5, <1>6, <1>7 DEF Inv

(* The test of listen keeps the invariant.                                  *)
LEMMA ListenTestsInv ==
  ASSUME Inv, NEW c \in Callers, ListenTests(c)
  PROVE  Inv'
<1>1. call[c].op = "listen" /\ call[c].pc = "begin" /\ call[c].todo = {}
  BY NoList DEF ListenTests, InCall
<1>2. UNCHANGED sockets /\ UNCHANGED status /\ UNCHANGED calls
  BY DEF ListenTests, sockets, status
<1>3. PICK p \in {"open", "returned"} : Becomes(c, p, call[c].l, call[c].todo)
  BY ContinueFacts, ReturnFacts DEF Inv, ListenTests, Steps
<1>4. Typed'
  BY <1>2, <1>3, QuietTyped DEF Inv, Becomes, Typed, TypeOK, status
<1>5. CallsInOrder' /\ HandedOutOnce' /\ SocketsOwned' /\ NoneStray' /\ Releasing'
  BY <1>1, <1>2, <1>3, QuietStep
<1>6. StatusSettles'
  BY <1>1, <1>2, <1>3, StatusStep DEF Inv, Becomes
<1>7. QED
  BY <1>4, <1>5, <1>6 DEF Inv

(* A listen that fails keeps the invariant.                                 *)
LEMMA ListenFailsInv ==
  ASSUME Inv, NEW c \in Callers, ListenFails(c)
  PROVE  Inv'
<1>1. call[c].op = "listen" /\ call[c].pc = "open" /\ call[c].todo = {}
  BY NoList DEF ListenFails, InCall
<1>2. UNCHANGED sockets /\ UNCHANGED <<platform, calls, ip>>
  BY DEF ListenFails, sockets
<1>3. Becomes(c, "returned", call[c].l, call[c].todo)
  BY ReturnFacts DEF Inv, ListenFails
<1>4. state' \in {state, "error"}
  BY DEF ListenFails
<1>5. Typed'
  BY <1>2, <1>3, <1>4, QuietTyped DEF Inv, Becomes, Typed, TypeOK
<1>6. CallsInOrder' /\ HandedOutOnce' /\ SocketsOwned' /\ NoneStray' /\ Releasing'
  BY <1>1, <1>2, <1>3, QuietStep
<1>7. StatusSettles'
  <2>1. CASE state' = state
    BY <1>1, <1>2, <1>3, <2>1, StatusStep DEF Inv, Becomes, status
  <2>2. CASE state' = "error"
    BY <2>2 DEF StatusSettles
  <2>3. QED
    BY <1>4, <2>1, <2>2
<1>8. QED
  BY <1>5, <1>6, <1>7 DEF Inv

(* The end of disconnect keeps the invariant.                               *)
LEMMA DisconnectEndsInv ==
  ASSUME Inv, NEW c \in Callers, DisconnectEnds(c)
  PROVE  Inv'
<1>1. call[c].op = "disconnect" /\ call[c].pc = "next" /\ call[c].todo = {}
  BY DEF DisconnectEnds, InCall
<1>2. UNCHANGED sockets /\ UNCHANGED status /\ UNCHANGED calls
  BY DEF DisconnectEnds, sockets, status
<1>3. Becomes(c, "returned", call[c].l, call[c].todo)
  BY ReturnFacts DEF Inv, DisconnectEnds
<1>4. Typed'
  BY <1>2, <1>3, QuietTyped DEF Inv, Becomes, Typed, TypeOK, status
<1>5. CallsInOrder' /\ HandedOutOnce' /\ SocketsOwned' /\ NoneStray' /\ Releasing'
  BY <1>1, <1>2, <1>3, QuietStep
<1>6. StatusSettles'
  BY <1>1, <1>2, <1>3, StatusStep DEF Inv, Becomes
<1>7. QED
  BY <1>4, <1>5, <1>6 DEF Inv

-----------------------------------------------------------------------------
(* A listener is opened and handed out *)

(* Opening a socket keeps the invariant.                                    *)
LEMMA ListenOpensInv ==
  ASSUME Inv, NEW c \in Callers, NEW l \in Listeners, ListenOpens(c, l)
  PROVE  Inv'
<1> DEFINE f == Min(FreeFds)
<1>1. call[c].op = "listen" /\ call[c].pc = "open" /\ call[c].todo = {} /\ lfd[l] = 0
  BY NoList DEF ListenOpens, InCall
<1>2. f \in Fds /\ owner[f] = Free
  BY LowestFree DEF ListenOpens
<1>3. Becomes(c, "register", l, {})
  <2>1. call' = [call EXCEPT ![c].pc = "register", ![c].l = l]
    BY DEF ListenOpens
  <2>2. QED
    BY <1>1, <2>1 DEF Inv, Typed, Calls, Steps, Becomes
<1>4. /\ lfd' = [lfd EXCEPT ![l] = f] /\ owner' = [owner EXCEPT ![f] = ListenerOf(l)]
      /\ UNCHANGED <<platform, state, ip, listeners, closed, loop, calls>>
  BY DEF ListenOpens
<1> HIDE DEF f
<1>5. /\ lfd' \in [Listeners -> 0 .. MaxFd] /\ lfd'[l] = f /\ f # 0
      /\ \A m \in Listeners \ {l} : lfd'[m] = lfd[m]
      /\ owner'[f] = ListenerOf(l)
      /\ \A g \in Fds \ {f} : owner'[g] = owner[g]
  BY <1>2, <1>4, NetAssumption DEF Inv, Typed, TypeOK, Fds
<1>6. owner' \in [Fds -> {Free} \cup {ListenerOf(m) : m \in Listeners}
                                \cup {SessionOf(m) : m \in Listeners}]
  <2>1. ListenerOf(l) \in {ListenerOf(m) : m \in Listeners}
    OBVIOUS
  <2>2. QED
    BY <1>4, <2>1 DEF Inv, Typed, TypeOK
<1>7. Typed'
  <2>1. listeners' \subseteq {m \in Listeners : lfd'[m] # 0}
    BY <1>4, <1>5 DEF Inv, Typed, TypeOK
  <2>2. QED
    BY <1>3, <1>4, <1>5, <1>6, <2>1 DEF Inv, Typed, TypeOK, Becomes, Calls
<1>8. /\ l \notin listeners /\ ~ closed[l] /\ loop[l].pc = "off"
      /\ \A g \in Fds : owner[g] # ListenerOf(l)
      /\ \A d \in Callers : l \notin call[d].todo
      /\ \A d \in Callers : call[d].pc \in {"register", "address", "mark", "release", "close"} =>
           call[d].l \in Listeners \ {l}
  BY <1>1 DEF Inv, Typed, TypeOK, CallsInOrder, SocketsOwned, Fds
<1>9. \A m \in Listeners \ {l} : Open(m)' <=> Open(m)
  BY <1>2, <1>5, OwnersDiffer DEF Open
<1>10. \A d \in Callers, m \in Listeners : OnTheWay(d, m)' <=> OnTheWay(d, m)
  BY <1>1, <1>3 DEF Becomes, OnTheWay
<1>11. \A m \in Listeners : Covered(m)' <=> Covered(m)
  BY <1>10 DEF Covered
<1>12. CallsInOrder'
  BY <1>1, <1>3, <1>4, <1>5 DEF Inv, CallsInOrder, Becomes
<1>13. HandedOutOnce'
  <2>1. \A d \in Callers \ {c} : /\ Opening(d)' <=> Opening(d)
                                 /\ call'[d] = call[d]
                                 /\ Opening(d) => call[d].l # l
    BY <1>3, <1>8 DEF Becomes, Opening
  <2>2. call'[c].l = l
    BY <1>3 DEF Becomes
  <2>3. loop' = loop /\ loop[l].pc = "off"
    BY <1>4, <1>8
  <2>4. \A d \in Callers : Opening(d)' => loop'[call'[d].l].pc = "off"
    BY <2>1, <2>2, <2>3 DEF Inv, HandedOutOnce
  <2>5. \A d, e \in Callers : Opening(d)' /\ Opening(e)' /\ call'[d].l = call'[e].l => d = e
    <3> SUFFICES ASSUME NEW d \in Callers, NEW e \in Callers, Opening(d)', Opening(e)',
                        call'[d].l = call'[e].l, d # e
                 PROVE  FALSE
      OBVIOUS
    <3>1. CASE d = c \/ e = c
      BY <2>1, <2>2, <3>1
    <3>2. CASE d # c /\ e # c
      BY <2>1, <3>2 DEF Inv, HandedOutOnce
    <3>3. QED
      BY <3>1, <3>2
  <2>6. QED
    BY <2>4, <2>5 DEF HandedOutOnce
<1>14. SocketsOwned'
  <2>1. \A g \in Fds, m \in Listeners : owner'[g] = ListenerOf(m) => lfd'[m] = g
    BY <1>5, <1>8, OwnersDiffer DEF Inv, SocketsOwned
  <2>2. \A m \in Listeners : lfd[m] # 0 => (owner[lfd[m]] = ListenerOf(m) => lfd[m] # f /\ m # l)
    BY <1>1, <1>2, OwnersDiffer
  <2>3. \A m \in Listeners : lfd[m] # 0 => lfd[m] \in Fds
    BY DEF Inv, Typed, TypeOK, Fds
  <2>4. \A m \in Listeners : lfd'[m] # 0 /\ ~ closed'[m] => owner'[lfd'[m]] = ListenerOf(m)
    BY <1>4, <1>5, <2>2, <2>3 DEF Inv, SocketsOwned
  <2>5. \A m \in Listeners : closed'[m] => lfd'[m] # 0
    BY <1>4, <1>5 DEF Inv, SocketsOwned
  <2>6. \A d \in Callers : Closing(d)' => Closing(d) /\ call'[d] = call[d]
    BY <1>3 DEF Becomes, Closing
  <2>7. \A d \in Callers : Closing(d)' =>
          closed'[call'[d].l] /\ owner'[lfd'[call'[d].l]] = ListenerOf(call'[d].l)
    <3> SUFFICES ASSUME NEW d \in Callers, Closing(d)'
                 PROVE  closed'[call'[d].l] /\ owner'[lfd'[call'[d].l]] = ListenerOf(call'[d].l)
      OBVIOUS
    <3>1. Closing(d) /\ call'[d].l = call[d].l /\ call[d].l \in Listeners \ {l}
      BY <1>8, <2>6 DEF Closing
    <3>2. closed[call[d].l] /\ owner[lfd[call[d].l]] = ListenerOf(call[d].l)
          /\ lfd[call[d].l] # 0
      BY <3>1 DEF Inv, SocketsOwned
    <3>3. QED
      BY <1>4, <1>5, <2>2, <2>3, <3>1, <3>2
  <2>8. \A d, e \in Callers : Closing(d)' /\ Closing(e)' /\ call'[d].l = call'[e].l => d = e
    BY <2>6 DEF Inv, SocketsOwned
  <2>9. \A m \in Listeners : closed'[m] /\ Open(m)' => \E d \in Callers : Closing(d)' /\ call'[d].l = m
    <3>1. \A d \in Callers : Closing(d) => Closing(d)' /\ call'[d] = call[d]
      BY <1>1, <1>3 DEF Becomes, Closing
    <3>2. QED
      BY <1>4, <1>8, <1>9, <3>1 DEF Inv, SocketsOwned
  <2>10. \A m \in Listeners : loop'[m].pc = "serving" =>
           loop'[m].fd \in Fds /\ owner'[loop'[m].fd] = SessionOf(m)
    BY <1>2, <1>4, <1>5, OwnersDiffer DEF Inv, SocketsOwned
  <2>11. QED
    BY <2>1, <2>4, <2>5, <2>7, <2>8, <2>9, <2>10 DEF SocketsOwned
<1>15. NoneStray'
  <2>1. call'[c].l = l /\ call'[c].pc = "register"
    BY <1>3 DEF Becomes
  <2>2. \A d \in Callers : call[d].pc = "register" => call'[d] = call[d]
    BY <1>1, <1>3 DEF Becomes
  <2>3. QED
    BY <1>4, <1>9, <1>11, <2>1, <2>2 DEF Inv, NoneStray
<1>16. Releasing'
  <2>1. \A d \in Callers : call'[d].op = "disconnect" =>
          call'[d] = call[d] /\ call[d].asked \subseteq Listeners \ {l}
    BY <1>1, <1>3, <1>8, CallTyped DEF Inv, Releasing, Becomes
  <2>2. QED
    BY <1>4, <1>9, <1>11, <2>1 DEF Inv, Releasing
<1>17. StatusSettles'
  BY <1>1, <1>3, <1>4, StatusStep DEF Inv, Becomes, status
<1>18. QED
  BY <1>7, <1>12, <1>13, <1>14, <1>15, <1>16, <1>17 DEF Inv

(* Handing a listener that is entered out keeps the invariant.              *)
LEMMA HandOutStep ==
  ASSUME Inv, NEW c \in Callers, NEW l \in Listeners, l = call[c].l,
         call[c].op = "listen", Opening(c),
         listeners' \in SUBSET {m \in Listeners : lfd[m] # 0}, listeners \subseteq listeners',
         Open(l) /\ call[c].pc = "register" => l \in listeners',
         ip' \in BOOLEAN, StatusSettles',
         HandOut(c), UNCHANGED <<platform, state, lfd, closed, owner, calls>>
  PROVE  Inv'
<1>1. call[c].todo = {} /\ lfd[l] # 0 /\ loop[l].pc = "off"
  BY NoList DEF Opening, Inv, CallsInOrder, HandedOutOnce
<1>2. loop' = [loop EXCEPT ![l].pc = "accept"] /\ Return(c)
  BY DEF HandOut
<1>3. Becomes(c, "returned", l, {})
  BY <1>1, <1>2, ReturnFacts DEF Inv
<1>4. loop' \in [Listeners -> Loops] /\ loop'[l].pc = "accept"
      /\ \A m \in Listeners \ {l} : loop'[m] = loop[m]
  BY <1>1, <1>2 DEF Inv, Typed, Loops
<1>5. Typed'
  BY <1>1, <1>3, <1>4 DEF Inv, Typed, TypeOK, Becomes, Calls, Loops
<1>6. \A d \in Callers, m \in Listeners : OnTheWay(d, m)' <=> OnTheWay(d, m)
  BY <1>1, <1>3 DEF Becomes, OnTheWay, Opening
<1>7. \A m \in Listeners : (Open(m)' <=> Open(m)) /\ (Covered(m)' <=> Covered(m))
  BY <1>6 DEF Open, Covered
<1>8. CallsInOrder'
  BY <1>1, <1>3, <1>4 DEF Inv, CallsInOrder, Becomes
<1>9. HandedOutOnce'
  <2>1. \A d \in Callers : Opening(d)' =>
          Opening(d) /\ d # c /\ call'[d] = call[d] /\ call[d].l # l /\ call[d].l \in Listeners
    BY <1>1, <1>3 DEF Inv, HandedOutOnce, CallsInOrder, Becomes, Opening
  <2>2. QED
    BY <1>4, <2>1 DEF Inv, HandedOutOnce
<1>10. SocketsOwned'
  <2>1. \A d \in Callers : (Closing(d)' <=> Closing(d)) /\ (Closing(d) => call'[d] = call[d])
    BY <1>1, <1>3 DEF Becomes, Closing, Opening
  <2>2. \A m \in Listeners : loop'[m].pc = "serving" => loop'[m] = loop[m]
    BY <1>4
  <2>3. \A m \in Listeners : closed'[m] /\ Open(m)' => \E d \in Callers : Closing(d)' /\ call'[d].l = m
    BY <1>7, <2>1 DEF Inv, SocketsOwned
  <2>4. QED
    BY <2>1, <2>2, <2>3 DEF Inv, SocketsOwned
<1>11. NoneStray'
  <2>1. \A d \in Callers : d # c => call'[d] = call[d]
    BY <1>3 DEF Becomes
  <2>2. \A m \in Listeners : Open(m)' => m \in listeners' \/ Covered(m)'
                             \/ \E d \in Callers : call'[d].l = m /\ call'[d].pc = "register"
    BY <1>7, <2>1 DEF Inv, NoneStray
  <2>3. QED
    BY <2>2 DEF NoneStray
<1>12. Releasing'
  <2>1. \A d \in Callers : call'[d].op = "disconnect" => call'[d] = call[d]
    BY <1>1, <1>3 DEF Becomes
  <2>2. \A d \in Callers : call[d].asked \subseteq Listeners
    BY CallTyped DEF Inv
  <2>3. QED
    BY <1>4, <1>7, <2>1, <2>2 DEF Inv, Releasing
<1>13. QED
  BY <1>5, <1>8, <1>9, <1>10, <1>11, <1>12 DEF Inv

(* Entering a listener keeps the invariant.                                 *)
LEMMA RegisterInv ==
  ASSUME Inv, NEW c \in Callers, Register(c)
  PROVE  Inv'
<1> DEFINE l == call[c].l
<1>1. call[c].op = "listen" /\ call[c].pc = "register" /\ call[c].todo = {}
      /\ l \in Listeners /\ lfd[l] # 0 /\ loop[l].pc = "off"
  BY NoList DEF Register, InCall, Inv, CallsInOrder, HandedOutOnce, Opening
<1>2. listeners' = listeners \cup {l}
      /\ UNCHANGED <<platform, state, ip, lfd, closed, owner, calls>>
  BY DEF Register
<1>3. listeners' \in SUBSET {m \in Listeners : lfd[m] # 0}
  BY <1>1, <1>2 DEF Inv, Typed, TypeOK
<1>4. StatusSettles'
  <2>1. call'[c].op = "listen" /\ \A d \in Callers \ {c} : call'[d] = call[d]
    BY <1>1 DEF Register, HandOut, Return, Continue, Inv, Typed, Calls
  <2>2. QED
    BY <1>1, <1>2, <2>1, StatusStep DEF Inv, status
<1>5. CASE HandOut(c)
  BY <1>1, <1>2, <1>3, <1>4, <1>5, HandOutStep DEF Opening, Inv, Typed, TypeOK
<1>6. CASE platform = "tinygo" /\ Continue(c, "address") /\ UNCHANGED loop
  <2>1. Becomes(c, "address", l, {})
    BY <1>1, <1>6, ContinueFacts DEF Inv, Steps
  <2> HIDE DEF l
  <2>2. Typed'
    BY <1>2, <1>3, <1>6, <2>1 DEF Inv, Typed, TypeOK, Becomes, Calls
  <2>3. \A d \in Callers, m \in Listeners : OnTheWay(d, m)' <=> OnTheWay(d, m)
    BY <1>1, <2>1 DEF Becomes, OnTheWay
  <2>4. \A m \in Listeners : (Open(m)' <=> Open(m)) /\ (Covered(m)' <=> Covered(m))
    BY <1>2, <2>3 DEF Open, Covered
  <2>5. CallsInOrder'
    BY <1>1, <1>2, <1>6, <2>1 DEF Inv, CallsInOrder, Becomes
  <2>6. HandedOutOnce'
    <3>1. \A d \in Callers : /\ Opening(d)' <=> Opening(d)
                             /\ call'[d].l = call[d].l
      BY <1>1, <2>1 DEF Becomes, Opening, l
    <3>2. QED
      BY <1>6, <3>1 DEF Inv, HandedOutOnce
  <2>7. SocketsOwned'
    <3>1. \A d \in Callers : (Closing(d)' <=> Closing(d)) /\ (Closing(d) => call'[d] = call[d])
      BY <1>1, <2>1 DEF Becomes, Closing
    <3>2. \A m \in Listeners : closed'[m] /\ Open(m)' =>
            \E d \in Callers : Closing(d)' /\ call'[d].l = m
      BY <1>2, <2>4, <3>1 DEF Inv, SocketsOwned
    <3>3. QED
      BY <1>2, <1>6, <3>1, <3>2 DEF Inv, SocketsOwned
  <2>8. NoneStray'
    <3>1. \A d \in Callers : d # c => call'[d] = call[d]
      BY <2>1 DEF Becomes
    <3>2. \A m \in Listeners : Open(m)' => m = l \/ m \in listeners \/ Covered(m)'
                               \/ \E d \in Callers : call'[d].l = m /\ call'[d].pc = "register"
      BY <2>4, <3>1 DEF Inv, NoneStray, l
    <3>3. QED
      BY <1>2, <3>2 DEF NoneStray
  <2>9. Releasing'
    <3>1. \A d \in Callers : call'[d].op = "disconnect" => call'[d] = call[d]
      BY <1>1, <2>1 DEF Becomes
    <3>2. \A d \in Callers : call[d].asked \subseteq Listeners
      BY CallTyped DEF Inv
    <3>3. QED
      BY <1>2, <1>6, <2>4, <3>1, <3>2 DEF Inv, Releasing
  <2>10. QED
    BY <1>4, <2>2, <2>5, <2>6, <2>7, <2>8, <2>9 DEF Inv
<1>7. QED
  BY <1>5, <1>6 DEF Register

(* The address a listener brings keeps the invariant.                       *)
LEMMA TakesAddressInv ==
  ASSUME Inv, NEW c \in Callers, TakesAddress(c)
  PROVE  Inv'
<1>1. call[c].op = "listen" /\ call[c].pc = "address" /\ call[c].l \in Listeners
  BY DEF TakesAddress, InCall, Inv, CallsInOrder
<1>2. /\ ip' \in {ip, TRUE} /\ HandOut(c)
      /\ UNCHANGED <<platform, state, listeners, lfd, closed, owner, calls>>
  BY DEF TakesAddress
<1>3. listeners \in SUBSET {m \in Listeners : lfd[m] # 0} /\ ip' \in BOOLEAN
  BY <1>2 DEF Inv, Typed, TypeOK
<1>4. platform = "tinygo"
  BY <1>1 DEF Inv, CallsInOrder
<1>5. StatusSettles'
  <2>1. call'[c].op = "listen" /\ \A d \in Callers \ {c} : call'[d] = call[d]
    BY <1>1, <1>2 DEF HandOut, Return, Inv, Typed, Calls
  <2>2. QED
    <3>1. (state' = "connected" => ip') /\ (state' = "idle" /\ ip' => platform' = "tinygo")
      <4>1. ip => ip'
        BY <1>2
      <4>2. QED
        BY <1>2, <1>4, <4>1 DEF Inv, StatusSettles
    <3>2. \A d \in Callers : call[d].op = "connect" => call'[d] = call[d]
      BY <1>1, <2>1
    <3>3. QED
      BY <1>2, <3>1, <3>2 DEF Inv, StatusSettles
<1>6. QED
  BY <1>1, <1>2, <1>3, <1>5, HandOutStep DEF Opening

-----------------------------------------------------------------------------
(* Listeners are closed *)

(* Taking every listener out keeps the invariant.                           *)
LEMMA TakeAllInv ==
  ASSUME Inv, NEW c \in Callers, TakeAll(c)
  PROVE  Inv'
<1>1. call[c].op = "disconnect" /\ call[c].pc = "begin" /\ call[c].todo = {}
  BY DEF TakeAll, InCall, Inv, CallsInOrder
<1>2. /\ listeners' = {} /\ state' = "idle" /\ ip' = FALSE
      /\ UNCHANGED <<platform, lfd, closed, owner, loop, calls>>
  BY DEF TakeAll
<1>3. listeners \in SUBSET Listeners /\ \A m \in listeners : lfd[m] # 0
  BY DEF Inv, Typed, TypeOK
<1>4. Becomes(c, "next", call[c].l, listeners)
  <2>1. call' = [call EXCEPT ![c].pc = "next", ![c].todo = listeners]
    BY DEF TakeAll
  <2>2. QED
    BY <1>3, <2>1 DEF Inv, Typed, Calls, Steps, Becomes
<1>5. Typed'
  BY <1>2, <1>4 DEF Inv, Typed, TypeOK, Becomes, Calls
<1>6. \A m \in Listeners : (Open(m)' <=> Open(m)) /\ (Covered(m)' <=> Covered(m) \/ m \in listeners)
  <2>1. \A d \in Callers \ {c}, m \in Listeners : OnTheWay(d, m)' <=> OnTheWay(d, m)
    BY <1>4 DEF Becomes, OnTheWay
  <2>2. \A m \in Listeners : ~ OnTheWay(c, m) /\ (OnTheWay(c, m)' <=> m \in listeners)
    BY <1>1, <1>4 DEF Becomes, OnTheWay
  <2>3. QED
    BY <1>2, <2>1, <2>2 DEF Open, Covered
<1>7. CallsInOrder'
  BY <1>1, <1>2, <1>3, <1>4 DEF Inv, CallsInOrder, Becomes
<1>8. HandedOutOnce'
  BY <1>1, <1>2, <1>4 DEF Inv, HandedOutOnce, Opening, Becomes
<1>9. SocketsOwned'
  <2>1. \A d \in Callers : (Closing(d)' <=> Closing(d)) /\ (Closing(d) => call'[d] = call[d])
    BY <1>1, <1>4 DEF Becomes, Closing
  <2>2. \A m \in Listeners : closed'[m] /\ Open(m)' => \E d \in Callers : Closing(d)' /\ call'[d].l = m
    BY <1>2, <1>6, <2>1 DEF Inv, SocketsOwned
  <2>3. QED
    BY <1>2, <2>1, <2>2 DEF Inv, SocketsOwned
<1>10. NoneStray'
  <2>1. \A d \in Callers : call[d].pc = "register" => call'[d] = call[d]
    BY <1>1, <1>4 DEF Becomes
  <2>2. QED
    BY <1>6, <2>1 DEF Inv, NoneStray
<1>11. Releasing'
  <2>1. \A d \in Callers : call'[d].op = call[d].op /\ call'[d].asked = call[d].asked
    BY <1>4 DEF Becomes
  <2>2. \A d \in Callers : call[d].asked \subseteq Listeners
    BY CallTyped DEF Inv
  <2>3. QED
    BY <1>2, <1>6, <2>1, <2>2 DEF Inv, Releasing
<1>12. StatusSettles'
  BY <1>2 DEF StatusSettles
<1>13. QED
  BY <1>5, <1>7, <1>8, <1>9, <1>10, <1>11, <1>12 DEF Inv

(* Turning to the next listener to close keeps the invariant.               *)
LEMMA CloseNextInv ==
  ASSUME Inv, NEW c \in Callers, NEW l \in Listeners, CloseNext(c, l)
  PROVE  Inv'
<1>1. call[c].op = "disconnect" /\ call[c].pc = "next" /\ l \in call[c].todo
      /\ call[c].todo \subseteq Listeners /\ lfd[l] # 0
  BY CallTyped DEF CloseNext, InCall, Inv, CallsInOrder
<1>2. UNCHANGED sockets /\ UNCHANGED status /\ UNCHANGED calls
  BY DEF CloseNext, sockets, status
<1>3. Becomes(c, "mark", l, call[c].todo \ {l})
  <2>1. call' = [call EXCEPT ![c].pc = "mark", ![c].l = l, ![c].todo = call[c].todo \ {l}]
    BY DEF CloseNext, Inv, Typed, Calls
  <2>2. QED
    BY <1>1, <2>1, BecomesFacts DEF Inv, Steps
<1>4. Typed'
  BY <1>2, <1>3, QuietTyped DEF Inv, Becomes, Typed, TypeOK, status
<1>5. \A d \in Callers, m \in Listeners : OnTheWay(d, m)' <=> OnTheWay(d, m)
  BY <1>1, <1>3 DEF Becomes, OnTheWay
<1>6. \A m \in Listeners : (Open(m)' <=> Open(m)) /\ (Covered(m)' <=> Covered(m))
  BY <1>2, <1>5 DEF Open, Covered, sockets
<1>7. CallsInOrder'
  BY <1>1, <1>2, <1>3 DEF Inv, CallsInOrder, Becomes, sockets
<1>8. HandedOutOnce'
  BY <1>1, <1>2, <1>3 DEF Inv, HandedOutOnce, Opening, Becomes, sockets
<1>9. SocketsOwned'
  <2>1. \A d \in Callers : (Closing(d)' <=> Closing(d)) /\ (Closing(d) => call'[d] = call[d])
    BY <1>1, <1>3 DEF Becomes, Closing
  <2>2. \A m \in Listeners : closed'[m] /\ Open(m)' => \E d \in Callers : Closing(d)' /\ call'[d].l = m
    BY <1>2, <1>6, <2>1 DEF Inv, SocketsOwned, sockets
  <2>3. QED
    BY <1>2, <2>1, <2>2 DEF Inv, SocketsOwned, sockets
<1>10. NoneStray'
  <2>1. \A d \in Callers : call[d].pc = "register" => call'[d] = call[d]
    BY <1>1, <1>3 DEF Becomes
  <2>2. QED
    BY <1>2, <1>6, <2>1 DEF Inv, NoneStray, sockets
<1>11. Releasing'
  <2>1. \A d \in Callers : /\ call'[d].op = call[d].op /\ call'[d].asked = call[d].asked
                           /\ call[d].pc = "begin" => call'[d].pc = "begin"
    BY <1>1, <1>3 DEF Becomes
  <2>2. \A d \in Callers : call[d].asked \subseteq Listeners
    BY CallTyped DEF Inv
  <2>3. QED
    BY <1>2, <1>6, <2>1, <2>2 DEF Inv, Releasing, sockets
<1>12. StatusSettles'
  BY <1>1, <1>2, <1>3, StatusStep DEF Inv, Becomes
<1>13. QED
  BY <1>4, <1>7, <1>8, <1>9, <1>10, <1>11, <1>12 DEF Inv

(* The first to find the listener not closed goes on to close it; the       *)
(* others go on with their own.                                             *)
LEMMA MarkInv ==
  ASSUME Inv, NEW c \in Callers, Mark(c)
  PROVE  Inv'
<1>1. call[c].pc = "mark" /\ call[c].op \in {"disconnect", "close"}
  BY DEF Mark, Inv, CallsInOrder
<1>a. PICK l \in Listeners : l = call[c].l /\ lfd[l] # 0
  BY <1>1 DEF Inv, CallsInOrder
<1> DEFINE p == IF closed[l] THEN AfterClose(c) ELSE "release"
<1>2. /\ closed' = [closed EXCEPT ![l] = TRUE]
      /\ UNCHANGED <<platform, state, ip, listeners, lfd, owner, loop, calls>>
  BY <1>a DEF Mark
<1>3. p \in {"next", "returned", "release"} /\ (p = "next" => call[c].op = "disconnect")
      /\ (p = "release" <=> ~ closed[l]) /\ (p = "returned" => call[c].op # "disconnect")
  BY DEF AfterClose
<1>4. Becomes(c, p, l, call[c].todo)
  BY <1>a, <1>3, ContinueFacts DEF Inv, Mark, Steps
<1> HIDE DEF p
<1>5. closed' \in [Listeners -> BOOLEAN] /\ closed'[l]
      /\ \A m \in Listeners \ {l} : closed'[m] = closed[m]
  BY <1>1, <1>2 DEF Inv, Typed, TypeOK
<1>6. Typed'
  BY <1>a, <1>2, <1>4, <1>5 DEF Inv, Typed, TypeOK, Becomes, Calls
<1>7. \A m \in Listeners : Open(m)' <=> Open(m)
  BY <1>2 DEF Open
<1>8. \A m \in Listeners : Open(m) /\ Covered(m) => Covered(m)'
  <2>1. \A d \in Callers, m \in Listeners :
          OnTheWay(d, m) /\ ~ (d = c /\ m = l /\ p # "release") => OnTheWay(d, m)'
    BY <1>a, <1>1, <1>4 DEF Becomes, OnTheWay
  <2>2. ASSUME Open(l), p # "release" PROVE Covered(l)'
    <3>1. PICK d \in Callers : Closing(d) /\ call[d].l = l
      BY <1>1, <1>3, <2>2 DEF Inv, SocketsOwned
    <3>2. d # c /\ OnTheWay(d, l)
      BY <1>1, <3>1 DEF Closing, OnTheWay
    <3>3. QED
      BY <1>1, <2>1, <3>2 DEF Covered
  <2>3. QED
    BY <2>1, <2>2 DEF Covered
<1>9. CallsInOrder'
  BY <1>a, <1>1, <1>2, <1>3, <1>4 DEF Inv, CallsInOrder, Becomes
<1>10. HandedOutOnce'
  BY <1>a, <1>1, <1>2, <1>3, <1>4 DEF Inv, HandedOutOnce, Opening, Becomes
<1>11. SocketsOwned'
  <2>1. \A d \in Callers \ {c} : (Closing(d)' <=> Closing(d)) /\ call'[d] = call[d]
    BY <1>4 DEF Becomes, Closing
  <2>2. ~ Closing(c) /\ (Closing(c)' <=> ~ closed[l]) /\ call'[c].l = l
    BY <1>a, <1>1, <1>3, <1>4 DEF Becomes, Closing
  <2>3. \A m \in Listeners : lfd'[m] # 0 /\ ~ closed'[m] => owner'[lfd'[m]] = ListenerOf(m)
    BY <1>2, <1>5 DEF Inv, SocketsOwned
  <2>4. \A m \in Listeners : closed'[m] => lfd'[m] # 0
    BY <1>a, <1>1, <1>2, <1>5 DEF Inv, SocketsOwned
  <2>5. \A d \in Callers : Closing(d) => call[d].l \in Listeners
    BY DEF Inv, CallsInOrder, Closing
  <2>6. \A d \in Callers : Closing(d)' =>
          closed'[call'[d].l] /\ owner'[lfd'[call'[d].l]] = ListenerOf(call'[d].l)
    BY <1>a, <1>1, <1>2, <1>5, <2>1, <2>2, <2>5 DEF Inv, SocketsOwned
  <2>7. \A d, e \in Callers : Closing(d)' /\ Closing(e)' /\ call'[d].l = call'[e].l => d = e
    BY <2>1, <2>2 DEF Inv, SocketsOwned
  <2>8. \A m \in Listeners : closed'[m] /\ Open(m)' => \E d \in Callers : Closing(d)' /\ call'[d].l = m
    BY <1>5, <1>7, <2>1, <2>2 DEF Inv, SocketsOwned
  <2>9. QED
    BY <1>2, <2>3, <2>4, <2>6, <2>7, <2>8 DEF Inv, SocketsOwned
<1>12. NoneStray'
  <2>1. \A d \in Callers : call[d].pc = "register" => call'[d] = call[d]
    BY <1>1, <1>4 DEF Becomes
  <2>2. QED
    BY <1>2, <1>7, <1>8, <2>1 DEF Inv, NoneStray
<1>13. Releasing'
  <2>1. \A d \in Callers : /\ call'[d].op = call[d].op /\ call'[d].asked = call[d].asked
                           /\ call[d].pc = "begin" => call'[d].pc = "begin"
    BY <1>1, <1>4 DEF Becomes
  <2>2. \A d \in Callers : call[d].asked \subseteq Listeners
    BY CallTyped DEF Inv
  <2>3. QED
    BY <1>2, <1>7, <1>8, <2>1, <2>2 DEF Inv, Releasing
<1>14. StatusSettles'
  BY <1>a, <1>1, <1>2, <1>3, <1>4, StatusStep DEF Inv, Becomes, status
<1>15. QED
  BY <1>6, <1>9, <1>10, <1>11, <1>12, <1>13, <1>14 DEF Inv

(* Closing a listener keeps the invariant.                                  *)
LEMMA ReleaseInv ==
  ASSUME Inv, NEW c \in Callers, Release(c)
  PROVE  Inv'
<1> DEFINE l == call[c].l
<1>1. call[c].pc = "release" /\ call[c].op \in {"disconnect", "close"} /\ l \in Listeners
  BY DEF Release, Inv, CallsInOrder
<1>2. /\ listeners' = listeners \ {l}
      /\ UNCHANGED <<platform, state, ip, lfd, closed, owner, loop, calls>>
  BY DEF Release
<1>3. Becomes(c, "close", l, call[c].todo)
  BY ContinueFacts DEF Inv, Release, Steps
<1>4. Covered(l)
  BY <1>1 DEF Covered, OnTheWay
<1> HIDE DEF l
<1>5. Typed'
  BY <1>2, <1>3 DEF Inv, Typed, TypeOK, Becomes, Calls
<1>6. \A d \in Callers, m \in Listeners : OnTheWay(d, m)' <=> OnTheWay(d, m)
  BY <1>1, <1>3 DEF Becomes, OnTheWay, l
<1>7. \A m \in Listeners : (Open(m)' <=> Open(m)) /\ (Covered(m)' <=> Covered(m))
  BY <1>2, <1>6 DEF Open, Covered
<1>8. CallsInOrder'
  BY <1>1, <1>2, <1>3 DEF Inv, CallsInOrder, Becomes, l
<1>9. HandedOutOnce'
  BY <1>1, <1>2, <1>3 DEF Inv, HandedOutOnce, Opening, Becomes
<1>10. SocketsOwned'
  <2>1. \A d \in Callers : (Closing(d)' <=> Closing(d)) /\ call'[d].l = call[d].l
    BY <1>1, <1>3 DEF Becomes, Closing, l
  <2>2. \A m \in Listeners : closed'[m] /\ Open(m)' => \E d \in Callers : Closing(d)' /\ call'[d].l = m
    BY <1>2, <1>7, <2>1 DEF Inv, SocketsOwned
  <2>3. QED
    BY <1>2, <2>1, <2>2 DEF Inv, SocketsOwned
<1>11. NoneStray'
  <2>1. \A d \in Callers : call[d].pc = "register" => call'[d] = call[d]
    BY <1>1, <1>3 DEF Becomes
  <2>2. QED
    BY <1>2, <1>4, <1>7, <2>1 DEF Inv, NoneStray
<1>12. Releasing'
  <2>1. \A d \in Callers : /\ call'[d].op = call[d].op /\ call'[d].asked = call[d].asked
                           /\ call[d].pc = "begin" => call'[d].pc = "begin"
    BY <1>1, <1>3 DEF Becomes
  <2>2. \A d \in Callers : call[d].asked \subseteq Listeners
    BY CallTyped DEF Inv
  <2>3. QED
    BY <1>2, <1>4, <1>7, <2>1, <2>2 DEF Inv, Releasing
<1>13. StatusSettles'
  BY <1>1, <1>2, <1>3, StatusStep DEF Inv, Becomes, status
<1>14. QED
  BY <1>5, <1>8, <1>9, <1>10, <1>11, <1>12, <1>13 DEF Inv

(* The number that is given back was the listener's, which is open no more. *)
LEMMA CloseInv ==
  ASSUME Inv, NEW c \in Callers, Close(c)
  PROVE  Inv'
<1>1. call[c].pc = "close" /\ call[c].op \in {"disconnect", "close"} /\ Closing(c)
  BY DEF Close, Inv, CallsInOrder, Closing
<1>a. PICK l \in Listeners, f \in Fds :
        l = call[c].l /\ f = lfd[l] /\ owner[f] = ListenerOf(l) /\ closed[l]
  <2>1. call[c].l \in Listeners /\ lfd[call[c].l] \in Fds
    BY <1>1 DEF Inv, Typed, TypeOK, CallsInOrder, Fds
  <2>2. QED
    BY <1>1, <2>1 DEF Inv, SocketsOwned
<1>2. f \in Fds /\ owner[f] = ListenerOf(l) /\ closed[l]
  BY <1>a
<1> DEFINE p == AfterClose(c)
<1>3. /\ owner' = [owner EXCEPT ![f] = Free]
      /\ UNCHANGED <<platform, state, ip, listeners, lfd, closed, loop, calls>>
  BY <1>a DEF Close
<1>4. p \in {"next", "returned"} /\ (p = "next" => call[c].op = "disconnect")
      /\ (p = "returned" => call[c].op # "disconnect")
  BY DEF AfterClose
<1>5. Becomes(c, p, l, call[c].todo)
  BY <1>a, <1>4, ContinueFacts DEF Inv, Close, Steps
<1>6. \A g \in Fds : owner[g] = ListenerOf(l) => g = f
  BY <1>a DEF Inv, SocketsOwned
<1> HIDE DEF p
<1>7. owner'[f] = Free /\ \A g \in Fds \ {f} : owner'[g] = owner[g]
  BY <1>2, <1>3 DEF Inv, Typed, TypeOK
<1>8. Typed'
  <2>1. owner' \in [Fds -> {Free} \cup {ListenerOf(m) : m \in Listeners}
                                  \cup {SessionOf(m) : m \in Listeners}]
    BY <1>3 DEF Inv, Typed, TypeOK
  <2>2. QED
    BY <1>a, <1>3, <1>5, <2>1 DEF Inv, Typed, TypeOK, Becomes, Calls
<1>9. ~ Open(l)' /\ \A m \in Listeners \ {l} : Open(m)' <=> Open(m)
  BY <1>2, <1>6, <1>7, OwnersDiffer DEF Open
<1>10. \A d \in Callers, m \in Listeners \ {l} : OnTheWay(d, m)' <=> OnTheWay(d, m)
  BY <1>a, <1>1, <1>5 DEF Becomes, OnTheWay
<1>11. \A m \in Listeners \ {l} : Covered(m)' <=> Covered(m)
  BY <1>10 DEF Covered
<1>12. CallsInOrder'
  BY <1>a, <1>1, <1>3, <1>4, <1>5 DEF Inv, CallsInOrder, Becomes
<1>13. HandedOutOnce'
  BY <1>a, <1>1, <1>3, <1>4, <1>5 DEF Inv, HandedOutOnce, Opening, Becomes
<1>14. SocketsOwned'
  <2>1. \A d \in Callers : Closing(d)' => d # c /\ Closing(d) /\ call'[d] = call[d]
                                       /\ call[d].l \in Listeners /\ call[d].l # l
    BY <1>a, <1>1, <1>4, <1>5 DEF Inv, SocketsOwned, CallsInOrder, Becomes, Closing
  <2>2. \A d \in Callers \ {c} : Closing(d) => Closing(d)' /\ call'[d] = call[d]
    BY <1>5 DEF Becomes, Closing
  <2>3. \A m \in Listeners \ {l} : lfd[m] # 0 /\ owner[lfd[m]] = ListenerOf(m) =>
          lfd[m] \in Fds \ {f}
    <3>1. \A m \in Listeners : lfd[m] # 0 => lfd[m] \in Fds
      BY DEF Inv, Typed, TypeOK, Fds
    <3>2. QED
      BY <1>a, <3>1, OwnersDiffer
  <2>4. \A g \in Fds, m \in Listeners : owner'[g] = ListenerOf(m) => lfd'[m] = g
    BY <1>3, <1>7, OwnersDiffer DEF Inv, SocketsOwned
  <2>5. \A m \in Listeners : lfd'[m] # 0 /\ ~ closed'[m] => owner'[lfd'[m]] = ListenerOf(m)
    BY <1>a, <1>3, <1>7, <2>3 DEF Inv, SocketsOwned
  <2>6. \A d \in Callers : Closing(d)' =>
          closed'[call'[d].l] /\ owner'[lfd'[call'[d].l]] = ListenerOf(call'[d].l)
    BY <1>3, <1>7, <2>1, <2>3 DEF Inv, SocketsOwned
  <2>7. \A d, e \in Callers : Closing(d)' /\ Closing(e)' /\ call'[d].l = call'[e].l => d = e
    BY <2>1 DEF Inv, SocketsOwned
  <2>8. \A m \in Listeners : closed'[m] /\ Open(m)' => \E d \in Callers : Closing(d)' /\ call'[d].l = m
    <3> SUFFICES ASSUME NEW m \in Listeners, closed'[m], Open(m)'
                 PROVE  \E d \in Callers : Closing(d)' /\ call'[d].l = m
      OBVIOUS
    <3>1. m # l /\ Open(m) /\ closed[m]
      BY <1>3, <1>9
    <3>2. PICK d \in Callers : Closing(d) /\ call[d].l = m
      BY <3>1 DEF Inv, SocketsOwned
    <3>3. d # c
      BY <1>a, <3>1, <3>2
    <3>4. QED
      BY <2>2, <3>2, <3>3
  <2>9. \A m \in Listeners : loop'[m].pc = "serving" =>
          loop'[m].fd \in Fds /\ owner'[loop'[m].fd] = SessionOf(m)
    BY <1>2, <1>3, <1>7, OwnersDiffer DEF Inv, SocketsOwned
  <2>10. \A m \in Listeners : closed'[m] => lfd'[m] # 0
    BY <1>3 DEF Inv, SocketsOwned
  <2>11. QED
    BY <2>4, <2>5, <2>6, <2>7, <2>8, <2>9, <2>10 DEF SocketsOwned
<1>15. NoneStray'
  <2>1. \A d \in Callers : call[d].pc = "register" => call'[d] = call[d]
    BY <1>a, <1>1, <1>5 DEF Becomes
  <2>2. QED
    BY <1>3, <1>9, <1>11, <2>1 DEF Inv, NoneStray
<1>16. Releasing'
  <2>1. \A d \in Callers : /\ call'[d].op = call[d].op /\ call'[d].asked = call[d].asked
                           /\ call[d].pc = "begin" => call'[d].pc = "begin"
    BY <1>a, <1>1, <1>5 DEF Becomes
  <2>2. \A d \in Callers : call[d].asked \subseteq Listeners
    BY CallTyped DEF Inv
  <2>3. QED
    BY <1>3, <1>9, <1>11, <2>1, <2>2 DEF Inv, Releasing
<1>17. StatusSettles'
  BY <1>1, <1>3, <1>4, <1>5, StatusStep DEF Inv, Becomes, status
<1>18. QED
  BY <1>8, <1>12, <1>13, <1>14, <1>15, <1>16, <1>17 DEF Inv

-----------------------------------------------------------------------------
(* The accept loops *)

(* A step of a loop that takes or gives back no listener's socket.          *)
LEMMA LoopStep ==
  ASSUME Inv, NEW l \in Listeners, NEW place \in Loops, Loop(l, place),
         loop[l].pc # "off", place.pc # "off",
         owner' \in [Fds -> {Free} \cup {ListenerOf(m) : m \in Listeners}
                                   \cup {SessionOf(m) : m \in Listeners}],
         \A g \in Fds, m \in Listeners : owner'[g] = ListenerOf(m) <=> owner[g] = ListenerOf(m),
         \A m \in Listeners : loop'[m].pc = "serving" =>
           loop'[m].fd \in Fds /\ owner'[loop'[m].fd] = SessionOf(m),
         UNCHANGED <<status, listeners, lfd, closed, call, calls>>
  PROVE  Inv'
<1>1. UNCHANGED <<platform, state, ip, listeners, lfd, closed, call, calls>>
  BY DEF status
<1>2. /\ loop' \in [Listeners -> Loops]
      /\ \A m \in Listeners : loop'[m].pc # "off" <=> loop[m].pc # "off"
  BY LoopFacts DEF Inv
<1>3. Typed'
  BY <1>1, <1>2 DEF Inv, Typed, TypeOK, Loops
<1>4. \A m \in Listeners : (Open(m)' <=> Open(m)) /\ (Covered(m)' <=> Covered(m))
  BY <1>1 DEF Open, Covered, OnTheWay
<1>5. CallsInOrder'
  BY <1>1, <1>2 DEF Inv, CallsInOrder
<1>6. HandedOutOnce'
  <2>1. \A c \in Callers : Opening(c) => call[c].l \in Listeners
    BY DEF Inv, CallsInOrder, Opening
  <2>2. \A c \in Callers : Opening(c)' <=> Opening(c)
    BY <1>1 DEF Opening
  <2>3. QED
    BY <1>1, <1>2, <2>1, <2>2 DEF Inv, HandedOutOnce
<1>7. SocketsOwned'
  <2>1. \A m \in Listeners : lfd[m] # 0 => lfd[m] \in Fds
    BY DEF Inv, Typed, TypeOK, Fds
  <2>2. \A m \in Listeners : lfd'[m] # 0 /\ ~ closed'[m] => owner'[lfd'[m]] = ListenerOf(m)
    BY <1>1, <2>1 DEF Inv, SocketsOwned
  <2>3. \A c \in Callers : Closing(c) => call[c].l \in Listeners /\ lfd[call[c].l] \in Fds
    BY <2>1 DEF Inv, CallsInOrder, Closing
  <2>4. \A c \in Callers : Closing(c)' <=> Closing(c)
    BY <1>1 DEF Closing
  <2>5. \A c \in Callers : Closing(c)' =>
          closed'[call'[c].l] /\ owner'[lfd'[call'[c].l]] = ListenerOf(call'[c].l)
    BY <1>1, <2>3, <2>4 DEF Inv, SocketsOwned
  <2>6. \A m \in Listeners : closed'[m] /\ Open(m)' => \E c \in Callers : Closing(c)' /\ call'[c].l = m
    BY <1>1, <1>4, <2>4 DEF Inv, SocketsOwned
  <2>7. QED
    BY <1>1, <2>2, <2>4, <2>5, <2>6 DEF Inv, SocketsOwned
<1>8. NoneStray'
  BY <1>1, <1>4 DEF Inv, NoneStray
<1>9. Releasing'
  <2>1. \A c \in Callers : call[c].asked \subseteq Listeners
    BY CallTyped DEF Inv
  <2>2. QED
    BY <1>1, <1>2, <1>4, <2>1 DEF Inv, Releasing
<1>10. StatusSettles'
  BY <1>1 DEF Inv, StatusSettles
<1>11. QED
  BY <1>3, <1>5, <1>6, <1>7, <1>8, <1>9, <1>10 DEF Inv

(* A step of a loop that serves no session, before it or after.             *)
LEMMA LoopWaits ==
  ASSUME Inv, NEW l \in Listeners, NEW place \in Loops, Loop(l, place),
         loop[l].pc # "off", place.pc \notin {"off", "serving"},
         UNCHANGED <<platform, state, ip, listeners, lfd, closed, owner, call, calls>>
  PROVE  Inv'
<1>1. \A m \in Listeners : loop'[m].pc = "serving" =>
        loop'[m].fd \in Fds /\ owner'[loop'[m].fd] = SessionOf(m)
  <2>1. \A m \in Listeners : loop'[m].pc = "serving" => loop'[m] = loop[m]
    BY LoopFacts DEF Inv
  <2>2. QED
    BY <2>1 DEF Inv, SocketsOwned
<1>2. owner' \in [Fds -> {Free} \cup {ListenerOf(m) : m \in Listeners}
                                \cup {SessionOf(m) : m \in Listeners}]
  BY DEF Inv, Typed, TypeOK
<1>3. QED
  BY <1>1, <1>2, LoopStep DEF status

(* Places of a loop that waits.                                             *)
LEMMA Places ==
  /\ \A next \in {"accept", "calling", "ended"} :
       [NoLoop EXCEPT !.pc = next] \in Loops /\ [NoLoop EXCEPT !.pc = next].pc = next
  /\ \A m \in Listeners : [pc |-> "blocked", fd |-> 0, on |-> m] \in Loops
  /\ \A m \in Listeners, f \in Fds : [pc |-> "serving", fd |-> f, on |-> Nobody] \in Loops
BY NetAssumption DEF NoLoop, Loops, Fds

(* A loop that turns to accept keeps the invariant.                         *)
LEMMA AcceptInv ==
  ASSUME Inv, NEW l \in Listeners, Accept(l)
  PROVE  Inv'
<1>1. PICK next \in {"ended", "calling"} : Loop(l, [NoLoop EXCEPT !.pc = next])
  BY DEF Accept
<1> DEFINE place == [NoLoop EXCEPT !.pc = next]
<1>2. place \in Loops /\ place.pc = next
  BY Places
<1>3. /\ Loop(l, place) /\ loop[l].pc = "accept"
      /\ UNCHANGED <<platform, state, ip, listeners, lfd, closed, owner, call, calls>>
  BY <1>1 DEF Accept
<1> HIDE DEF place
<1>4. QED
  BY <1>2, <1>3, LoopWaits

(* An accept that fails keeps the invariant.                                *)
LEMMA WaitFailsInv ==
  ASSUME Inv, NEW l \in Listeners, WaitFails(l)
  PROVE  Inv'
<1>1. PICK next \in {"ended", "accept"} : Loop(l, [NoLoop EXCEPT !.pc = next])
  BY DEF WaitFails
<1> DEFINE place == [NoLoop EXCEPT !.pc = next]
<1>2. place \in Loops /\ place.pc = next
  BY Places
<1>3. /\ Loop(l, place) /\ loop[l].pc = "blocked"
      /\ UNCHANGED <<platform, state, ip, listeners, lfd, closed, owner, call, calls>>
  BY <1>1 DEF WaitFails
<1> HIDE DEF place
<1>4. QED
  BY <1>2, <1>3, LoopWaits

(* An accept that waits keeps the invariant.                                *)
LEMMA WaitInv ==
  ASSUME Inv, NEW l \in Listeners, Wait(l)
  PROVE  Inv'
<1>1. lfd[l] \in Fds
  BY DEF Wait, Inv, Typed, TypeOK, CallsInOrder, Fds
<1>2. \A m : owner[lfd[l]].is = "listener" /\ owner[lfd[l]].l = m => m \in Listeners
  BY <1>1 DEF Inv, Typed, TypeOK, Free, ListenerOf, SessionOf
<1>3. PICK place \in Loops : Loop(l, place) /\ place.pc \in {"blocked", "accept", "ended"}
  <2>1. \/ \E m \in Listeners : Loop(l, [pc |-> "blocked", fd |-> 0, on |-> m])
        \/ \E next \in {"accept", "ended"} : Loop(l, [NoLoop EXCEPT !.pc = next])
    BY <1>2 DEF Wait
  <2>2. QED
    BY <2>1, Places
<1>4. /\ loop[l].pc = "calling"
      /\ UNCHANGED <<platform, state, ip, listeners, lfd, closed, owner, call, calls>>
  BY DEF Wait
<1>5. QED
  BY <1>3, <1>4, LoopWaits

(* A client that comes keeps the invariant.                                 *)
LEMMA ConnectedInv ==
  ASSUME Inv, NEW l \in Listeners, Connected(l)
  PROVE  Inv'
<1> DEFINE f == Min(FreeFds)
<1>1. PICK g \in Fds : g = f /\ owner[g] = Free
  BY LowestFree DEF Connected
<1> DEFINE place == [pc |-> "serving", fd |-> g, on |-> Nobody]
<1>2. /\ owner' = [owner EXCEPT ![g] = SessionOf(l)]
      /\ Loop(l, place) /\ loop[l].pc = "blocked"
      /\ UNCHANGED <<platform, state, ip, listeners, lfd, closed, call, calls>>
  BY <1>1 DEF Connected
<1>3. place \in Loops /\ place.pc = "serving" /\ place.fd = g
  BY Places
<1> HIDE DEF place, f
<1>4. owner' \in [Fds -> {Free} \cup {ListenerOf(m) : m \in Listeners}
                                \cup {SessionOf(m) : m \in Listeners}]
  <2>1. SessionOf(l) \in {SessionOf(m) : m \in Listeners}
    OBVIOUS
  <2>2. QED
    BY <1>2, <2>1 DEF Inv, Typed, TypeOK
<1>5. owner'[g] = SessionOf(l) /\ \A h \in Fds \ {g} : owner'[h] = owner[h]
  BY <1>2 DEF Inv, Typed, TypeOK
<1>6. \A h \in Fds, m \in Listeners : owner'[h] = ListenerOf(m) <=> owner[h] = ListenerOf(m)
  BY <1>1, <1>5, OwnersDiffer
<1>7. \A m \in Listeners : loop'[m].pc = "serving" =>
        loop'[m].fd \in Fds /\ owner'[loop'[m].fd] = SessionOf(m)
  <2>1. loop'[l] = place /\ \A m \in Listeners \ {l} : loop'[m] = loop[m]
    BY <1>2, <1>3, LoopFacts DEF Inv
  <2>2. \A m \in Listeners : loop[m].pc = "serving" =>
          loop[m].fd \in Fds \ {g} /\ owner[loop[m].fd] = SessionOf(m)
    BY <1>1, OwnersDiffer DEF Inv, SocketsOwned
  <2>3. QED
    BY <1>3, <1>5, <2>1, <2>2
<1>8. QED
  BY <1>2, <1>3, <1>4, <1>6, <1>7, LoopStep DEF status

(* A client that leaves keeps the invariant.                                *)
LEMMA SessionEndsInv ==
  ASSUME Inv, NEW l \in Listeners, SessionEnds(l)
  PROVE  Inv'
<1>1. PICK g \in Fds : g = loop[l].fd /\ owner[g] = SessionOf(l)
  BY DEF SessionEnds, Inv, SocketsOwned
<1> DEFINE place == [NoLoop EXCEPT !.pc = "accept"]
<1>2. /\ owner' = [owner EXCEPT ![g] = Free]
      /\ Loop(l, place) /\ loop[l].pc = "serving"
      /\ UNCHANGED <<platform, state, ip, listeners, lfd, closed, call, calls>>
  BY <1>1 DEF SessionEnds
<1>3. place \in Loops /\ place.pc = "accept"
  BY Places
<1> HIDE DEF place
<1>4. owner' \in [Fds -> {Free} \cup {ListenerOf(m) : m \in Listeners}
                                \cup {SessionOf(m) : m \in Listeners}]
  BY <1>2 DEF Inv, Typed, TypeOK
<1>5. owner'[g] = Free /\ \A h \in Fds \ {g} : owner'[h] = owner[h]
  BY <1>2 DEF Inv, Typed, TypeOK
<1>6. \A h \in Fds, m \in Listeners : owner'[h] = ListenerOf(m) <=> owner[h] = ListenerOf(m)
  BY <1>1, <1>5, OwnersDiffer
<1>7. \A m \in Listeners : loop'[m].pc = "serving" =>
        loop'[m].fd \in Fds /\ owner'[loop'[m].fd] = SessionOf(m)
  <2>1. \A m \in Listeners : loop'[m].pc = "serving" => m # l /\ loop'[m] = loop[m]
    BY <1>2, <1>3, LoopFacts DEF Inv
  <2>2. \A m \in Listeners \ {l} : loop[m].pc = "serving" =>
          loop[m].fd \in Fds \ {g} /\ owner[loop[m].fd] = SessionOf(m)
    BY <1>1, OwnersDiffer DEF Inv, SocketsOwned
  <2>3. QED
    BY <1>5, <2>1, <2>2
<1>8. QED
  BY <1>2, <1>3, <1>4, <1>6, <1>7, LoopStep DEF status

-----------------------------------------------------------------------------
(* The invariant holds *)

(* Every step keeps the invariant.                                          *)
LEMMA InvInductive ==
  ASSUME Inv, [Next]_vars
  PROVE  Inv'
<1>1. CASE UNCHANGED vars
  <2>1. UNCHANGED <<platform, state, ip, listeners, lfd, closed, owner, call, loop, calls>>
    BY <1>1 DEF vars
  <2>2. Typed' /\ CallsInOrder' /\ HandedOutOnce' /\ StatusSettles'
    BY <2>1 DEF Inv, Typed, TypeOK, CallsInOrder, HandedOutOnce, Opening, StatusSettles
  <2>3. SocketsOwned' /\ NoneStray' /\ Releasing'
    BY <2>1 DEF Inv, SocketsOwned, NoneStray, Releasing, Open, Covered, OnTheWay, Closing
  <2>4. QED
    BY <2>2, <2>3 DEF Inv
<1>2. ASSUME NEW c \in Callers, NEW op \in {"connect", "listen", "disconnect", "close"},
             NEW l \in Listeners \cup {Nobody}, Begin(c, op, l)
      PROVE  Inv'
  BY <1>2, BeginInv
<1>3. ASSUME NEW c \in Callers, Proceed(c)
      PROVE  Inv'
  BY <1>3, ConnectBeginsInv, JoinInv, ConnectEndsInv, ListenTestsInv, ListenFailsInv,
     RegisterInv, TakesAddressInv, ListenOpensInv, CloseNextInv, TakeAllInv, DisconnectEndsInv,
     MarkInv, ReleaseInv, CloseInv DEF Proceed
<1>4. ASSUME NEW l \in Listeners, Serve(l) \/ Connected(l)
      PROVE  Inv'
  BY <1>4, AcceptInv, WaitInv, WaitFailsInv, SessionEndsInv, ConnectedInv DEF Serve
<1>5. QED
  BY <1>1, <1>2, <1>3, <1>4 DEF Next

(* Inv is an invariant of the network manager.                              *)
LEMMA Invariance == Spec => []Inv
<1>1. Init => Inv
  BY InitInv
<1>2. Inv /\ [Next]_vars => Inv'
  BY InvInductive
<1>3. QED
  BY <1>1, <1>2, PTL DEF Spec

(* A socket's number is given back only by the one it was given to.         *)
THEOREM OwnersClose == Spec => []OwnerCloses
<1>1. Inv => OwnerCloses
  BY DEF Inv, SocketsOwned, OwnerCloses, Closing
<1>2. QED
  BY <1>1, Invariance, PTL

(* Every socket that listens is in the manager's map, about to be, or on    *)
(* the way to be closed; and the state is of its type.                      *)
THEOREM NoneIsStray == Spec => []NoStrayListener
<1>1. Inv => NoStrayListener
  <2>1. ASSUME NEW l \in Listeners, Covered(l)
        PROVE  \E c \in Callers : OnTheWay(c, l) \/ (call[c].l = l /\ call[c].pc = "register")
    BY <2>1 DEF Covered
  <2>2. QED
    BY <2>1 DEF Inv, Typed, NoneStray, NoStrayListener
<1>2. QED
  BY <1>1, Invariance, PTL

(* When Disconnect returns, no listener it was to close is open without     *)
(* another task on the way to close it.                                     *)
THEOREM DisconnectIsThorough == Spec => []DisconnectReleases
<1>1. Inv => DisconnectReleases
  <2> SUFFICES ASSUME Inv, NEW c \in Callers, InCall(c, "disconnect", "returned"),
                      NEW l \in call[c].asked, Open(l)
               PROVE  \E d \in Callers \ {c} : OnTheWay(d, l)
    BY DEF DisconnectReleases
  <2>1. call[c].pc = "returned" /\ Covered(l)
    BY CallTyped DEF Inv, Releasing, InCall
  <2>2. ~ OnTheWay(c, l)
    BY <2>1 DEF Inv, CallsInOrder, OnTheWay
  <2>3. QED
    BY <2>1, <2>2 DEF Covered
<1>2. QED
  BY <1>1, Invariance, PTL

(* However calls overlap, "connecting" is said only while a connect is on   *)
(* its way to say more, a connected manager has an address, and an idle one *)
(* has none but by a late listen of TinyGo.                                 *)
THEOREM StatusSettlesDown == Spec => []StatusSettles
<1>1. Inv => StatusSettles
  BY DEF Inv
<1>2. QED
  BY <1>1, Invariance, PTL

=============================================================================
