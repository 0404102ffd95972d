----------------------------- MODULE NetManager ------------------------------
(***************************************************************************)
(* The WiFi manager, its listeners and the loop that accepts sessions      *)
(* (pkg/net, and acceptLoop of target/esp32s3/main.go), on the three       *)
(* builds: "stub" is the desktop, "tinygo" TinyGo's own network stack, and *)
(* "idf" the ESP-IDF bridge.                                               *)
(*                                                                         *)
(* t.mu and each listener's mu are held for single assignments only, so a  *)
(* call is a sequence of such sections with room for the others between    *)
(* them.  Sockets are numbers that the operating system gives out again    *)
(* once they are closed: Go's network package will not use one it has      *)
(* closed, the bridge passes on whatever number it is given.               *)
(***************************************************************************)
EXTENDS Integers, FiniteSets, FiniteSetsExt

CONSTANTS
  Platforms,   (* the builds looked at                                      *)
  Callers,     (* the tasks that use the manager                            *)
  Listeners,   (* the listeners ever opened                                 *)
  MaxFd,       (* sockets are 1 .. MaxFd                                    *)
  MaxCalls     (* bound: calls of the manager in all                        *)

ASSUME NetAssumption ==
  /\ Platforms \subseteq {"stub", "tinygo", "idf"}
  /\ MaxFd \in Nat /\ MaxCalls \in Nat
  /\ "nobody" \notin Listeners /\ IsFiniteSet(Listeners)

VARIABLES
  platform,
  state,      (* t.state, or what status() makes of connected               *)
  ip,         (* t.ip is set                                                *)
  listeners,  (* t.listeners                                                *)
  lfd,        (* l.fd; 0 before the listener exists                         *)
  closed,     (* l.closed                                                   *)
  owner,      (* whose each open socket is                                  *)
  call,       (* each task: the call it is in                               *)
  loop,       (* the accept loop of each listener                           *)
  calls       (* the calls made                                             *)

vars == <<platform, state, ip, listeners, lfd, closed, owner, call, loop, calls>>

Fds == 1 .. MaxFd
Free          == [is |-> "free"]
ListenerOf(l) == [is |-> "listener", l |-> l]
SessionOf(l)  == [is |-> "session", l |-> l]   (* of the loop of l           *)
Nobody        == "nobody"

Open(l) == \E f \in Fds : owner[f] = ListenerOf(l)
FreeFds == {f \in Fds : owner[f] = Free}

IdleCall == [op |-> "none", pc |-> "idle", l |-> Nobody, todo |-> {}, asked |-> {}]
NoLoop   == [pc |-> "off", fd |-> 0, on |-> Nobody]

TypeOK ==
  /\ platform \in Platforms
  /\ state \in {"idle", "connecting", "connected", "error"}
  /\ ip \in BOOLEAN
  /\ listeners \subseteq {l \in Listeners : lfd[l] # 0}
  /\ lfd \in [Listeners -> 0 .. MaxFd] /\ closed \in [Listeners -> BOOLEAN]
  /\ owner \in [Fds -> {Free} \cup {ListenerOf(l) : l \in Listeners}
                              \cup {SessionOf(l) : l \in Listeners}]
  /\ \A c \in Callers :
       /\ call[c].op \in {"none", "connect", "listen", "disconnect", "close"}
       /\ call[c].todo \cup call[c].asked \subseteq Listeners
       /\ call[c].l \in Listeners \cup {Nobody}
  /\ \A l \in Listeners :
       /\ loop[l].pc \in {"off", "accept", "calling", "blocked", "serving", "ended"}
       /\ loop[l].fd \in 0 .. MaxFd /\ loop[l].on \in Listeners \cup {Nobody}
  /\ calls \in 0 .. MaxCalls

-----------------------------------------------------------------------------
(* newManagerImpl                                                           *)
Init ==
  /\ platform \in Platforms
  /\ state = "idle" /\ ip = FALSE /\ listeners = {}
  /\ lfd = [l \in Listeners |-> 0]
  /\ closed = [l \in Listeners |-> FALSE]
  /\ owner = [f \in Fds |-> Free]
  /\ call = [c \in Callers |-> IdleCall]
  /\ loop = [l \in Listeners |-> NoLoop]
  /\ calls = 0

InCall(c, op, pc) == call[c].op = op /\ call[c].pc = pc
Continue(c, pc)   == call' = [call EXCEPT ![c].pc = pc]
Return(c)         == call' = [call EXCEPT ![c].pc = "returned"]

(* A task calls connect, listen, disconnect, or close of a listener it was  *)
(* given.                                                                   *)
Begin(c, op, l) ==
  /\ call[c].pc \in {"idle", "returned"} /\ calls < MaxCalls
  /\ calls' = calls + 1
  /\ IF op = "close" THEN l # Nobody /\ loop[l].pc # "off"
     ELSE l = Nobody
  /\ call' = [call EXCEPT ![c] =
                [IdleCall EXCEPT !.op = op, !.pc = IF op = "close" THEN "mark" ELSE "begin",
                   !.l = l,
                   !.asked = IF op = "disconnect"
                             THEN {m \in Listeners : loop[m].pc # "off"} ELSE {}]]
  /\ UNCHANGED <<platform, state, ip, listeners, lfd, closed, owner, loop>>

-----------------------------------------------------------------------------
(* connect                                                                  *)

(* The desktop is connected once told to be; elsewhere an empty ssid is     *)
(* refused and any other joined with no mutex held.                         *)
ConnectBegins(c) ==
  /\ InCall(c, "connect", "begin")
  /\ \/ platform = "stub" /\ state' = "connected" /\ ip' = TRUE /\ Return(c)
     \/ platform # "stub" /\ state' = "error" /\ UNCHANGED ip /\ Return(c)
     \/ platform # "stub" /\ state' = "connecting" /\ UNCHANGED ip /\ Continue(c, "joining")
  /\ UNCHANGED <<platform, listeners, lfd, closed, owner, loop, calls>>

(* TinyGo's joinWiFiNetwork always succeeds.  The bridge may fail to start  *)
(* the stack or to get an address in time.                                  *)
Join(c) ==
  /\ InCall(c, "connect", "joining")
  /\ \/ Continue(c, "joined")
     \/ platform = "idf" /\ Continue(c, "unjoined")
  /\ UNCHANGED <<platform, state, ip, listeners, lfd, closed, owner, loop, calls>>

(* A mutant of ConnectEnds: a connect that failed leaves the state alone.   *)
ConnectEnds_Mutant(c) ==
  /\ \/ InCall(c, "connect", "joined") /\ state' = "connected" /\ ip' = TRUE
     \/ InCall(c, "connect", "unjoined") /\ UNCHANGED <<state, ip>>
  /\ Return(c)
  /\ UNCHANGED <<platform, listeners, lfd, closed, owner, loop, calls>>
ConnectEnds(c) ==
  /\ \/ InCall(c, "connect", "joined") /\ state' = "connected" /\ ip' = TRUE
     \/ InCall(c, "connect", "unjoined") /\ state' = "error" /\ UNCHANGED ip
  /\ Return(c)
  /\ UNCHANGED <<platform, listeners, lfd, closed, owner, loop, calls>>

-----------------------------------------------------------------------------
(* listen                                                                   *)

ListenTests(c) ==
  /\ InCall(c, "listen", "begin")
  /\ IF platform = "stub" \/ state = "connected" THEN Continue(c, "open") ELSE Return(c)
  /\ UNCHANGED <<platform, state, ip, listeners, lfd, closed, owner, loop, calls>>

(* The operating system gives the lowest number that is free.               *)
ListenOpens(c, l) ==
  /\ InCall(c, "listen", "open") /\ lfd[l] = 0 /\ FreeFds # {}
  /\ lfd' = [lfd EXCEPT ![l] = Min(FreeFds)]
  /\ owner' = [owner EXCEPT ![Min(FreeFds)] = ListenerOf(l)]
  /\ call' = [call EXCEPT ![c].pc = "register", ![c].l = l]
  /\ UNCHANGED <<platform, state, ip, listeners, closed, loop, calls>>

(* The port is taken, or there is no socket left.                           *)
ListenFails(c) ==
  /\ InCall(c, "listen", "open")
  /\ state' = IF platform = "stub" THEN state ELSE "error"
  /\ Return(c)
  /\ UNCHANGED <<platform, ip, listeners, lfd, closed, owner, loop, calls>>

(* The listener is returned, and a loop started on it.                      *)
HandOut(c) ==
  /\ loop' = [loop EXCEPT ![call[c].l].pc = "accept"]
  /\ Return(c)

(* A mutant of Register: the listener is handed out unregistered.           *)
Register_Mutant(c) ==
  /\ InCall(c, "listen", "register")
  /\ HandOut(c)
  /\ UNCHANGED <<platform, state, ip, listeners, lfd, closed, owner, calls>>
(* The listener is entered in the map.                                      *)
Register(c) ==
  /\ InCall(c, "listen", "register")
  /\ listeners' = listeners \cup {call[c].l}
  /\ IF platform = "tinygo" THEN Continue(c, "address") /\ UNCHANGED loop ELSE HandOut(c)
  /\ UNCHANGED <<platform, state, ip, lfd, closed, owner, calls>>

(* TinyGo's listener may have an address of its own, which becomes the      *)
(* manager's in a section by itself, whatever the state is by then.         *)
TakesAddress(c) ==
  /\ InCall(c, "listen", "address")
  /\ ip' \in {ip, TRUE}
  /\ HandOut(c)
  /\ UNCHANGED <<platform, state, listeners, lfd, closed, owner, calls>>

-----------------------------------------------------------------------------
(* disconnect, and the close of a listener                                  *)

(* A mutant of TakeAll: the listeners are not copied before the map is      *)
(* replaced.                                                                *)
TakeAll_Mutant(c) ==
  /\ InCall(c, "disconnect", "begin")
  /\ listeners' = {}
  /\ state' = "idle" /\ ip' = FALSE
  /\ call' = [call EXCEPT ![c].pc = "next", ![c].todo = {}]
  /\ UNCHANGED <<platform, lfd, closed, owner, loop, calls>>
TakeAll(c) ==
  /\ InCall(c, "disconnect", "begin")
  /\ listeners' = {}
  /\ state' = "idle" /\ ip' = FALSE
  /\ call' = [call EXCEPT ![c].pc = "next", ![c].todo = listeners]
  /\ UNCHANGED <<platform, lfd, closed, owner, loop, calls>>

CloseNext(c, l) ==
  /\ InCall(c, "disconnect", "next") /\ l \in call[c].todo
  /\ call' = [call EXCEPT ![c].pc = "mark", ![c].l = l, ![c].todo = @ \ {l}]
  /\ UNCHANGED <<platform, state, ip, listeners, lfd, closed, owner, loop, calls>>

(* The bridge is told to leave the network; the call may answer its error.  *)
DisconnectEnds(c) ==
  /\ InCall(c, "disconnect", "next") /\ call[c].todo = {}
  /\ Return(c)
  /\ UNCHANGED <<platform, state, ip, listeners, lfd, closed, owner, loop, calls>>

AfterClose(c) == IF call[c].op = "disconnect" THEN "next" ELSE "returned"

(* A mutant of Mark: closed is never tested.                                *)
Mark_Mutant(c) ==
  /\ call[c].pc = "mark"
  /\ closed' = [closed EXCEPT ![call[c].l] = TRUE]
  /\ Continue(c, "release")
  /\ UNCHANGED <<platform, state, ip, listeners, lfd, owner, loop, calls>>
(* Only the first to find closed unset goes on.                             *)
Mark(c) ==
  /\ call[c].pc = "mark"
  /\ closed' = [closed EXCEPT ![call[c].l] = TRUE]
  /\ Continue(c, IF closed[call[c].l] THEN AfterClose(c) ELSE "release")
  /\ UNCHANGED <<platform, state, ip, listeners, lfd, owner, loop, calls>>

Release(c) ==
  /\ call[c].pc = "release"
  /\ listeners' = listeners \ {call[c].l}
  /\ Continue(c, "close")
  /\ UNCHANGED <<platform, state, ip, lfd, closed, owner, loop, calls>>

(* The bridge closes whatever has the number.                               *)
Close(c) ==
  /\ call[c].pc = "close"
  /\ owner' = [owner EXCEPT ![lfd[call[c].l]] = Free]
  /\ Continue(c, AfterClose(c))
  /\ UNCHANGED <<platform, state, ip, listeners, lfd, closed, loop, calls>>

-----------------------------------------------------------------------------
(* acceptLoop: one session after the other                                  *)

Loop(l, next) == loop' = [loop EXCEPT ![l] = next]

(* A mutant of Accept: the bridge's Accept does not look at l.closed.       *)
Accept_Mutant(l) ==
  /\ loop[l].pc = "accept"
  /\ Loop(l, [NoLoop EXCEPT !.pc = "calling"])
  /\ UNCHANGED <<platform, state, ip, listeners, lfd, closed, owner, call, calls>>
(* The bridge's Accept tests l.closed first; its error says "closed".       *)
Accept(l) ==
  /\ loop[l].pc = "accept"
  /\ Loop(l, [NoLoop EXCEPT !.pc = IF platform = "idf" /\ closed[l] THEN "ended" ELSE "calling"])
  /\ UNCHANGED <<platform, state, ip, listeners, lfd, closed, owner, call, calls>>

(* lwip_accept on the number, whoever has it by now, or Go's Accept, which  *)
(* knows its own.  An error of the bridge does not say "closed", so the     *)
(* loop tries again.                                                        *)
Wait(l) ==
  /\ loop[l].pc = "calling"
  /\ LET o == owner[lfd[l]]
     IN  Loop(l, IF platform = "idf"
                 THEN IF o.is = "listener" THEN [pc |-> "blocked", fd |-> 0, on |-> o.l]
                                           ELSE [NoLoop EXCEPT !.pc = "accept"]
                 ELSE IF o = ListenerOf(l) THEN [pc |-> "blocked", fd |-> 0, on |-> l]
                                           ELSE [NoLoop EXCEPT !.pc = "ended"])
  /\ UNCHANGED <<platform, state, ip, listeners, lfd, closed, owner, call, calls>>

(* The socket waited on is closed.                                          *)
WaitFails(l) ==
  /\ loop[l].pc = "blocked" /\ ~ Open(loop[l].on)
  /\ Loop(l, [NoLoop EXCEPT !.pc = IF platform = "idf" THEN "accept" ELSE "ended"])
  /\ UNCHANGED <<platform, state, ip, listeners, lfd, closed, owner, call, calls>>

(* A client comes.                                                          *)
Connected(l) ==
  /\ loop[l].pc = "blocked" /\ Open(loop[l].on) /\ FreeFds # {}
  /\ LET f == Min(FreeFds)
     IN  /\ owner' = [owner EXCEPT ![f] = SessionOf(l)]
         /\ Loop(l, [pc |-> "serving", fd |-> f, on |-> Nobody])
  /\ UNCHANGED <<platform, state, ip, listeners, lfd, closed, call, calls>>

(* The client leaves, and the session is closed.                            *)
SessionEnds(l) ==
  /\ loop[l].pc = "serving"
  /\ owner' = [owner EXCEPT ![loop[l].fd] = Free]
  /\ Loop(l, [NoLoop EXCEPT !.pc = "accept"])
  /\ UNCHANGED <<platform, state, ip, listeners, lfd, closed, call, calls>>

-----------------------------------------------------------------------------
Proceed(c) ==
  \/ ConnectBegins(c) \/ Join(c) \/ ConnectEnds(c)
  \/ ListenTests(c) \/ ListenFails(c) \/ Register(c) \/ TakesAddress(c)
  \/ \E l \in Listeners : ListenOpens(c, l) \/ CloseNext(c, l)
  \/ TakeAll(c) \/ DisconnectEnds(c)
  \/ Mark(c) \/ Release(c) \/ Close(c)

Serve(l) == Accept(l) \/ Wait(l) \/ WaitFails(l) \/ SessionEnds(l)

Next ==
  \/ \E c \in Callers :
       \/ \E op \in {"connect", "listen", "disconnect", "close"},
             l \in Listeners \cup {Nobody} : Begin(c, op, l)
       \/ Proceed(c)
  \/ \E l \in Listeners : Serve(l) \/ Connected(l)

Spec == Init /\ [][Next]_vars

(* Every task runs; clients that came leave, new ones need not come.        *)
FairSpec ==
  /\ Spec
  /\ \A c \in Callers : WF_vars(Proceed(c))
  /\ \A l \in Listeners : WF_vars(Serve(l))

-----------------------------------------------------------------------------
(* Whatever socket listens can still be closed: its listener is in the      *)
(* manager's map, or about to be, or someone is on the way to close it.     *)
OnTheWay(c, l) ==
  \/ call[c].l = l /\ call[c].pc \in {"mark", "release", "close"}
  \/ l \in call[c].todo
NoStrayListener ==
  /\ TypeOK
  /\ \A l \in Listeners : Open(l) =>
       \/ l \in listeners
       \/ \E c \in Callers :
            OnTheWay(c, l) \/ (call[c].l = l /\ call[c].pc = "register")

(* However closes, disconnects and sessions cross, a socket's number is     *)
(* given back only by the one it was given to, and so never twice: the      *)
(* bridge would close the socket of whoever has the number now (217, 231).  *)
OwnerCloses ==
  /\ \A c \in Callers : call[c].pc = "close" =>
       owner[lfd[call[c].l]] = ListenerOf(call[c].l)
  /\ \A l \in Listeners : loop[l].pc = "serving" => owner[loop[l].fd] = SessionOf(l)

(* When Disconnect returns, the listeners that had been returned when it    *)
(* was called are closed, or another is on the way to close them            *)
(* (net.go:101, TestDisconnectClosesListeners).  One that a Listen is still *)
(* opening may be registered after it and stay open.                        *)
DisconnectReleases ==
  \A c \in Callers : InCall(c, "disconnect", "returned") =>
    \A l \in call[c].asked : Open(l) => \E d \in Callers \ {c} : OnTheWay(d, l)

(* However connects, listens and disconnects overlap: "connecting" is said  *)
(* only while some connect is on its way to write what came of it, so it    *)
(* does not stay; a manager that is connected has an address; and one that  *)
(* is idle has none, unless a listen of TinyGo brought it after the         *)
(* disconnect (the last to write wins, so nothing more can be said of which *)
(* call the state speaks of).                                               *)
StatusSettles ==
  /\ state = "connecting" =>
       \E c \in Callers :
         call[c].op = "connect" /\ call[c].pc \in {"joining", "joined", "unjoined"}
  /\ state = "connected" => ip
  /\ state = "idle" /\ ip => platform = "tinygo"

(* Once its listener is closed, an accept loop ends, its session over, and  *)
(* does not try again for ever; unless, on the bridge, it waits on the      *)
(* number of its socket that another listener was given (a client of that   *)
(* one will free it).                                                       *)
LoopsEnd ==
  \A l \in Listeners :
    closed[l] ~> \/ loop[l].pc = "ended"
                 \/ loop[l].pc = "blocked" /\ loop[l].on # l
=============================================================================
