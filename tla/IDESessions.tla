----------------------------- MODULE IDESessions -----------------------------
(***************************************************************************)
(* The REPL sessions of the IDE server (ide/server/server.go).             *)
(*                                                                         *)
(* Every HTTP request runs in a goroutine of its own.  s.mu guards the map *)
(* of sessions, a mutex of each session its interpreter, console and       *)
(* history, and nothing at all the file the session is persisted in.       *)
(* Between two sections of a mutex any other request may take any number   *)
(* of steps, and time may pass.  A section in which nothing else is waited *)
(* for is one step.                                                        *)
(***************************************************************************)
EXTENDS Integers, Sequences, FiniteSets

CONSTANTS
  Requests,   (* the requests; each is sent at most once                    *)
  Deleters,   (* bound: those that only ask for a deletion                  *)
  Ids,        (* what randomID returns, never twice the same                *)
  NoId,
  Olds,       (* bound: the sets of sessions there may be at the start      *)
  TTL,        (* s.sessionTTL, in ticks                                     *)
  MaxNow,     (* bound: the clock stops there                               *)
  MaxFaults,  (* bound: how many writes and removals of a file fail         *)
  Spawners    (* bound: those whose programs may leave a task running       *)

ASSUME SessionsAssumption ==
  /\ NoId \notin Ids /\ IsFiniteSet(Ids)
  /\ TTL \in Nat /\ MaxNow \in Nat /\ MaxFaults \in Nat
  /\ Olds \subseteq SUBSET Ids
  /\ "nobody" \notin Requests /\ Deleters \subseteq Requests
  /\ Spawners \subseteq Requests

VARIABLES
  now,       (* s.now()                                                     *)
  session,   (* the sessions made so far, wherever they are referred to     *)
  listed,    (* the keys of s.sessions                                      *)
  mu,        (* who holds s.mu                                              *)
  smu,       (* who holds the mutex of each session                         *)
  file,      (* what is in each session's file                              *)
  req,       (* each request: what it asks for and how far it has got       *)
  answer,    (* what it was answered                                        *)
  faults,    (* the writes and removals that have failed                    *)
  before,    (* history: the evaluations of its session answered when it    *)
             (* was sent                                                    *)
  torn,      (* history: the sessions removed while a request was at work   *)
             (* in them                                                     *)
  kept,      (* history: the sessions whose file was not removed, and       *)
             (* nobody told                                                 *)
  tasks      (* the evaluations whose program left a task running           *)

vars ==
  <<now, session, listed, mu, smu, file, req, answer, faults, before, torn, kept, tasks>>

Operations == {"create", "eval", "history", "delete"}
NoSession == [state |-> "unborn"]
NoFile    == [state |-> "none"]
Broken    == [state |-> "broken"]
File(h)   == [state |-> "written", history |-> h]
Unsent    == [op |-> "none", id |-> NoId, pc |-> "unsent", at |-> 0,
              todo |-> {}, gone |-> {}]
Nobody    == "nobody"

(* What a console holds: the output of programs, or anything at all once a  *)
(* task has printed into it, beside the session's requests and without a    *)
(* mutex (the console is a bytes.Buffer).                                   *)
Mixed    == <<"mixed">>
Consoles == Seq(Requests) \cup {Mixed}

(* An entry: whose evaluation it is, what the console held, and when.       *)
Entries == [by : Requests, output : Consoles, at : 0 .. MaxNow]

TypeOK ==
  /\ now \in 0 .. MaxNow /\ faults \in 0 .. MaxFaults
  /\ listed \subseteq {s \in Ids : session[s] # NoSession}
  /\ mu \in Requests \cup {Nobody}
  /\ smu \in [Ids -> Requests \cup {Nobody}]
  /\ \A s \in Ids : session[s] # NoSession =>
       /\ session[s].history \in Seq(Entries)
       /\ session[s].console \in Consoles
       /\ {session[s].updatedAt, session[s].created} \subseteq 0 .. MaxNow
  /\ \A s \in Ids : file[s].state \in {"none", "broken", "written"}
  /\ \A r \in Requests :
       /\ req[r].op \in Operations \cup {"none"}
       /\ req[r].id \in Ids \cup {NoId}
       /\ req[r].todo \cup req[r].gone \subseteq Ids
       /\ before[r] \subseteq Requests
       /\ answer[r].is \in {"none", "ok", "missing", "failed"}
  /\ torn \subseteq Ids /\ kept \subseteq Ids
  /\ tasks \subseteq Spawners

-----------------------------------------------------------------------------
At(r, pc) == req[r].pc = pc
Goto(r, pc) == req' = [req EXCEPT ![r].pc = pc]

Answered(r) == answer[r].is # "none"
Answer(r, is) == answer' = [answer EXCEPT ![r] = [is |-> is]]

(* The requests that have found the session and not yet let go of it.       *)
AtWork(s) ==
  {r \in Requests : req[r].id = s /\ req[r].pc \in {"check", "lock", "eval", "output", "persist"}}

Made(t) == [state |-> "made", history |-> <<>>, console |-> <<>>,
            updatedAt |-> t, created |-> t]

(* expired := now.Sub(session.updatedAt) > s.sessionTTL                     *)
Expired(s, t) == t - session[s].updatedAt > TTL

(* The sessions of earlier requests, idle since.                            *)
Init ==
  \E old \in Olds :
    /\ now = 0
    /\ session = [s \in Ids |-> IF s \in old THEN Made(0) ELSE NoSession]
    /\ listed = old
    /\ mu = Nobody
    /\ smu = [s \in Ids |-> Nobody]
    /\ file = [s \in Ids |-> IF s \in old THEN File(<<>>) ELSE NoFile]
    /\ req = [r \in Requests |-> Unsent]
    /\ answer = [r \in Requests |-> [is |-> "none"]]
    /\ faults = 0
    /\ before = [r \in Requests |-> {}]
    /\ torn = {} /\ kept = {} /\ tasks = {}

-----------------------------------------------------------------------------
(* A client knows the ids it was told.                                      *)
Told ==
  {s \in Ids : session[s] # NoSession}
    \ {req[r].id : r \in {q \in Requests : req[q].op = "create" /\ answer[q].is # "ok"}}

(* Bound: no more sessions are asked for than there are ids.                *)
IdLeft ==
  Cardinality({r \in Requests : req[r].op = "create" /\ req[r].id = NoId})
    < Cardinality({s \in Ids : session[s] = NoSession})

(* A request comes in.  Every operation but delete first sweeps the         *)
(* expired sessions, and reads the clock to do so.                          *)
Arrive(r, op, s) ==
  /\ At(r, "unsent") /\ (r \in Deleters => op = "delete")
  /\ IF op = "create" THEN s = NoId /\ IdLeft ELSE s \in Told
  /\ req' = [req EXCEPT ![r] =
               [@ EXCEPT !.op = op, !.id = s, !.at = IF op = "delete" THEN 0 ELSE now,
                         !.pc = IF op = "delete" THEN "remove" ELSE "sweep"]]
  /\ before' = [before EXCEPT ![r] =
                  {q \in Requests : Answered(q) /\ req[q].op = "eval" /\ req[q].id = s}]
  /\ UNCHANGED <<now, session, listed, mu, smu, file, answer, faults, torn, kept, tasks>>

-----------------------------------------------------------------------------
(* cleanupExpiredSessions                                                   *)

SweepStart(r) ==
  /\ At(r, "sweep") /\ mu = Nobody
  /\ mu' = r
  /\ req' = [req EXCEPT ![r].pc = "sweeping", ![r].todo = listed]
  /\ UNCHANGED <<now, session, listed, smu, file, answer, faults, before, torn, kept,
                  tasks>>

(* One session is looked at under its mutex, while s.mu is held: if it is   *)
(* in use, the sweep waits, and with it every request that needs s.mu.      *)
SweepLook(r, s) ==
  /\ At(r, "sweeping") /\ s \in req[r].todo
  /\ smu[s] = Nobody
  /\ req' = [req EXCEPT ![r].todo = @ \ {s},
                        ![r].gone = IF Expired(s, req[r].at) THEN @ \cup {s} ELSE @,
                        ![r].pc = IF Expired(s, req[r].at) THEN "sweepdrop" ELSE @]
  /\ UNCHANGED <<now, session, listed, mu, smu, file, answer, faults, before, torn, kept,
                  tasks>>

(* delete(s.sessions, id), after the session's mutex was given back.        *)
SweepDrop(r) ==
  /\ At(r, "sweepdrop")
  /\ LET out == req[r].gone \cap listed
     IN  /\ listed' = listed \ out
         /\ torn' = torn \cup {s \in out : AtWork(s) # {}}
  /\ Goto(r, "sweeping")
  /\ UNCHANGED <<now, session, mu, smu, file, answer, faults, before, kept, tasks>>

AfterSweep(r) == IF req[r].op = "create" THEN "make" ELSE "find"

SweepEnd(r) ==
  /\ At(r, "sweeping") /\ req[r].todo = {}
  /\ mu' = Nobody
  /\ req' = [req EXCEPT ![r].at = 0,
                        ![r].pc = IF req[r].gone = {} THEN AfterSweep(r) ELSE "unlink"]
  /\ UNCHANGED <<now, session, listed, smu, file, answer, faults, before, torn, kept,
                  tasks>>

(* A mutant of Unlink: only the first file of a sweep is removed.           *)
Unlink_Mutant(r, s) ==
  /\ At(r, "unlink") /\ s \in req[r].gone
  /\ file' = [file EXCEPT ![s] = NoFile]
  /\ req' = [req EXCEPT ![r].gone = {}, ![r].pc = AfterSweep(r)]
  /\ UNCHANGED <<now, session, listed, mu, smu, answer, faults, before, torn, kept,
                  tasks>>
(* os.Remove of each, with no mutex held.                                   *)
Unlink(r, s) ==
  /\ At(r, "unlink") /\ s \in req[r].gone
  /\ file' = [file EXCEPT ![s] = NoFile]
  /\ req' = [req EXCEPT ![r].gone = @ \ {s},
                        ![r].pc = IF req[r].gone = {s} THEN AfterSweep(r) ELSE @]
  /\ UNCHANGED <<now, session, listed, mu, smu, answer, faults, before, torn, kept,
                  tasks>>

(* The error of a removal is ignored (639).                                 *)
UnlinkFails(r, s) ==
  /\ At(r, "unlink") /\ s \in req[r].gone /\ faults < MaxFaults
  /\ faults' = faults + 1
  /\ kept' = kept \cup {s}
  /\ req' = [req EXCEPT ![r].gone = @ \ {s},
                        ![r].pc = IF req[r].gone = {s} THEN AfterSweep(r) ELSE @]
  /\ UNCHANGED <<now, session, listed, mu, smu, file, answer, before, torn, tasks>>

-----------------------------------------------------------------------------
(* newSession, after its sweep                                              *)

Make(r, s) ==
  /\ At(r, "make") /\ session[s] = NoSession
  /\ session' = [session EXCEPT ![s] = Made(now)]
  /\ req' = [req EXCEPT ![r].pc = "register", ![r].id = s]
  /\ UNCHANGED <<now, listed, mu, smu, file, answer, faults, before, torn, kept, tasks>>

Register(r) ==
  /\ At(r, "register") /\ mu = Nobody
  /\ listed' = listed \cup {req[r].id}
  /\ Goto(r, "persist")
  /\ UNCHANGED <<now, session, mu, smu, file, answer, faults, before, torn, kept, tasks>>

-----------------------------------------------------------------------------
(* lookupSession, after its sweep                                           *)

Find(r) ==
  /\ At(r, "find") /\ mu = Nobody
  /\ IF req[r].id \in listed
     THEN Goto(r, "check") /\ UNCHANGED answer
     ELSE Goto(r, "done") /\ Answer(r, "missing")
  /\ UNCHANGED <<now, session, listed, mu, smu, file, faults, before, torn, kept, tasks>>

(* A mutant of Check: deleteSession is called with the session's mutex held *)
(* (a defer instead of the Unlock).                                         *)
Check_Mutant(r) ==
  /\ At(r, "check") /\ smu[req[r].id] = Nobody
  /\ Goto(r, IF Expired(req[r].id, now) THEN "remove" ELSE "lock")
  /\ smu' = IF Expired(req[r].id, now) THEN [smu EXCEPT ![req[r].id] = r] ELSE smu
  /\ UNCHANGED <<now, session, listed, mu, file, answer, faults, before, torn, kept,
                  tasks>>
Check(r) ==
  /\ At(r, "check") /\ smu[req[r].id] = Nobody
  /\ Goto(r, IF Expired(req[r].id, now) THEN "remove" ELSE "lock")
  /\ UNCHANGED <<now, session, listed, mu, smu, file, answer, faults, before, torn, kept,
                  tasks>>

-----------------------------------------------------------------------------
(* deleteSession, for the delete request and for an expired session         *)

Remove(r) ==
  /\ At(r, "remove") /\ mu = Nobody
  /\ IF req[r].id \in listed
     THEN /\ listed' = listed \ {req[r].id}
          /\ torn' = torn \cup {s \in {req[r].id} : AtWork(s) # {}}
          /\ Goto(r, "erase")
          /\ UNCHANGED answer
     ELSE /\ Goto(r, "done")
          /\ Answer(r, "missing")
          /\ UNCHANGED <<listed, torn>>
  /\ UNCHANGED <<now, session, mu, smu, file, faults, before, kept, tasks>>

Erase(r) ==
  /\ At(r, "erase")
  /\ file' = [file EXCEPT ![req[r].id] = NoFile]
  /\ Goto(r, "done")
  /\ Answer(r, IF req[r].op = "delete" THEN "ok" ELSE "missing")
  /\ UNCHANGED <<now, session, listed, mu, smu, faults, before, torn, kept, tasks>>

(* The file cannot be removed: the client that deletes is told (599), with  *)
(* the session gone; a lookup ignores it and says expired (616).            *)
EraseFails(r) ==
  /\ At(r, "erase") /\ faults < MaxFaults
  /\ faults' = faults + 1
  /\ Goto(r, "done")
  /\ IF req[r].op = "delete"
     THEN Answer(r, "failed") /\ UNCHANGED kept
     ELSE Answer(r, "missing") /\ kept' = kept \cup {req[r].id}
  /\ UNCHANGED <<now, session, listed, mu, smu, file, before, torn, tasks>>

-----------------------------------------------------------------------------
(* sessionHistory, in one section of the session's mutex                    *)

History(r) ==
  /\ At(r, "lock") /\ req[r].op = "history" /\ smu[req[r].id] = Nobody
  /\ Goto(r, "done")
  /\ answer' = [answer EXCEPT ![r] = [is |-> "ok", history |-> session[req[r].id].history]]
  /\ UNCHANGED <<now, session, listed, mu, smu, file, faults, before, torn, kept, tasks>>

(* evalSession, in one section of the session's mutex that is seen from     *)
(* outside: the sweep waits for it, and the console is written meanwhile    *)

(* A mutant of Lock: the mutex is taken only when the console is read.      *)
Lock_Mutant(r) ==
  /\ At(r, "lock") /\ req[r].op = "eval"
  /\ smu' = [smu EXCEPT ![req[r].id] = r]
  /\ session' = [session EXCEPT ![req[r].id].console = <<>>]
  /\ Goto(r, "eval")
  /\ UNCHANGED <<now, listed, mu, file, answer, faults, before, torn, kept, tasks>>
Lock(r) ==
  /\ At(r, "lock") /\ req[r].op = "eval" /\ smu[req[r].id] = Nobody
  /\ smu' = [smu EXCEPT ![req[r].id] = r]
  /\ session' = [session EXCEPT ![req[r].id].console = <<>>]
  /\ Goto(r, "eval")
  /\ UNCHANGED <<now, listed, mu, file, answer, faults, before, torn, kept, tasks>>

(* The program prints, and may leave a task running that it spawned         *)
(* (builtins.go:433).                                                       *)
Prints(r) ==
  /\ At(r, "eval")
  /\ session' =
       [session EXCEPT ![req[r].id].console = IF @ = Mixed THEN Mixed ELSE Append(@, r)]
  /\ Goto(r, "output")
  /\ \E left \in SUBSET ({r} \cap Spawners) : tasks' = tasks \cup left
  /\ UNCHANGED <<now, listed, mu, smu, file, answer, faults, before, torn, kept>>

(* A task prints into the session's console while a program runs there, its *)
(* own or a later one. What a write that races with others leaves is not    *)
(* known. What it prints at other times the next Reset discards (555).      *)
TaskPrints(q) ==
  /\ q \in tasks
  /\ \E r \in Requests : req[r].id = req[q].id /\ req[r].pc \in {"eval", "output"}
  /\ session' = [session EXCEPT ![req[q].id].console = Mixed]
  /\ UNCHANGED <<now, listed, mu, smu, file, req, answer, faults, before, torn, kept,
                  tasks>>

(* A mutant of Evaluated: updatedAt is left as it was.                      *)
Evaluated_Mutant(r) ==
  /\ At(r, "output")
  /\ LET s == req[r].id
         entry == [by |-> r, output |-> session[s].console, at |-> now]
     IN  session' = [session EXCEPT ![s].history = Append(@, entry)]
  /\ Goto(r, "persist")
  /\ UNCHANGED <<now, listed, mu, smu, file, answer, faults, before, torn, kept, tasks>>
(* The evaluation ends, well or with an error that is part of the entry.    *)
Evaluated(r) ==
  /\ At(r, "output")
  /\ LET s == req[r].id
         entry == [by |-> r, output |-> session[s].console, at |-> now]
     IN  session' = [session EXCEPT ![s].history = Append(@, entry), ![s].updatedAt = now]
  /\ Goto(r, "persist")
  /\ UNCHANGED <<now, listed, mu, smu, file, answer, faults, before, torn, kept, tasks>>

(* persistSession, for a new session with no mutex held and for an          *)
(* evaluation under the session's, given back on the way out.               *)
Persist(r) ==
  /\ At(r, "persist")
  /\ LET s == req[r].id
     IN  /\ file' = [file EXCEPT ![s] = File(session[s].history)]
         /\ smu' = [smu EXCEPT ![s] = IF @ = r THEN Nobody ELSE @]
  /\ Goto(r, "done")
  /\ Answer(r, "ok")
  /\ UNCHANGED <<now, session, listed, mu, faults, before, torn, kept, tasks>>

(* The write fails, before it has emptied the file or after.                *)
PersistFails(r) ==
  /\ At(r, "persist") /\ faults < MaxFaults
  /\ faults' = faults + 1
  /\ LET s == req[r].id
     IN  /\ \E left \in {file[s], Broken} : file' = [file EXCEPT ![s] = left]
         /\ smu' = [smu EXCEPT ![s] = IF @ = r THEN Nobody ELSE @]
  /\ Goto(r, "done")
  /\ Answer(r, "failed")
  /\ UNCHANGED <<now, session, listed, mu, before, torn, kept, tasks>>

-----------------------------------------------------------------------------
Tick ==
  /\ now < MaxNow
  /\ now' = now + 1
  /\ UNCHANGED <<session, listed, mu, smu, file, req, answer, faults, before, torn, kept,
                  tasks>>

Step(r) ==
  \/ SweepStart(r)
  \/ \E s \in Ids : SweepLook(r, s) \/ Unlink(r, s) \/ Make(r, s)
  \/ SweepDrop(r)
  \/ SweepEnd(r)
  \/ Register(r)
  \/ Find(r)
  \/ Check(r)
  \/ Remove(r)
  \/ Erase(r)
  \/ History(r)
  \/ Lock(r)
  \/ Prints(r)
  \/ Evaluated(r)
  \/ Persist(r)

Next ==
  \/ \E r \in Requests :
       \/ \E op \in Operations, s \in Ids \cup {NoId} : Arrive(r, op, s)
       \/ Step(r)
       \/ PersistFails(r)
       \/ EraseFails(r)
       \/ \E s \in Ids : UnlinkFails(r, s)
       \/ TaskPrints(r)
  \/ Tick

Spec == Init /\ [][Next]_vars

(* Go runs every goroutine that can run, a mutex is handed on, and programs *)
(* end: the server itself does nothing about one that does not. A task left *)
(* running shares the interpreter's maps and the console with whoever else  *)
(* is at work in the session, with no lock, and such an access can end the  *)
(* server: nothing is promised from then on.                                *)
FairSpec == Spec /\ \A r \in Requests : WF_vars(tasks = {} /\ Step(r))

-----------------------------------------------------------------------------
(* Files keep to their sessions.  The file of a session nobody is at work   *)
(* in holds its whole history, unless the client whose entry is the last    *)
(* was told the write failed.  A file outlives its session only if that was *)
(* deleted, or expired, while a request was at work in it, which then       *)
(* writes the file anew (570, 657), or if the file could not be removed:    *)
(* the client that deleted the session was told that (599), and of one that *)
(* expired nobody is told (616, 639). A sweep leaves no other file behind,  *)
(* nor does an expiry found by a lookup, nor a creation whose write failed. *)
WriteFailed(s) ==
  LET h == session[s].history
  IN  \E r \in Requests :
        /\ answer[r].is = "failed" /\ req[r].id = s
        /\ IF h = <<>> THEN req[r].op = "create" ELSE h[Len(h)].by = r
Erasing(r, s) == s \in req[r].gone \/ (At(r, "erase") /\ req[r].id = s)
ToldOfFile(r, s) == req[r].op = "delete" /\ req[r].id = s /\ answer[r].is = "failed"
FilesMatch ==
  /\ \A s \in listed :
       smu[s] = Nobody /\ AtWork(s) \cap {r \in Requests : req[r].op = "create"} = {} =>
         file[s] = File(session[s].history) \/ WriteFailed(s)
  /\ \A s \in Ids \ listed :
       file[s] # NoFile =>
         \/ s \in torn \cup kept
         \/ \E r \in Requests : Erasing(r, s) \/ ToldOfFile(r, s)

(* An evaluation answered with its entry is in its session's history once,  *)
(* after every evaluation answered before it was sent; and a history        *)
(* answered later has it.  Its entry has the output of its own program and  *)
(* of no other, unless that program, or one of an entry before it, left a   *)
(* task running in the session.                                             *)
Places(h, r) == {n \in 1 .. Len(h) : h[n].by = r}
Recorded(r) == req[r].op = "eval" /\ answer[r].is \in {"ok", "failed"}
NothingLost ==
  /\ TypeOK
  /\ \A r \in Requests :
       /\ Recorded(r) =>
            LET h == session[req[r].id].history
            IN  \E n \in 1 .. Len(h) :
                  /\ Places(h, r) = {n}
                  /\ h[n].output = <<r>> \/ \E m \in 1 .. n : h[m].by \in tasks
                  /\ \A q \in before[r] : req[q].id = req[r].id =>
                       \A m \in Places(h, q) : m < n
       /\ req[r].op = "history" /\ answer[r].is = "ok" =>
            \A q \in before[r] : Recorded(q) /\ req[q].id = req[r].id =>
              Places(answer[r].history, q) # {}

(* A session goes only when a client deletes it, or when at some time no    *)
(* evaluation had ended in it for longer than the TTL (638, 613).           *)
Stamps(s) ==
  <<session[s].created>>
    \o [n \in DOMAIN session[s].history |-> session[s].history[n].at] \o <<now>>
Idled(s) ==
  \E n \in 1 .. Len(Stamps(s)) - 1 : Stamps(s)[n + 1] - Stamps(s)[n] > TTL
OnlyIdleSwept ==
  [][\A s \in listed \ listed' :
       \/ Idled(s)
       \/ \E r \in Requests : req[r].op = "delete" /\ req[r].id = s /\ At(r, "remove")]_vars

(* Every request is answered: however sweeps, lookups, evaluations and      *)
(* deletions wait for each other's mutexes, none waits in a circle, as long *)
(* as no program leaves a task running.                                     *)
EveryRequestAnswered ==
  \A r \in Requests : ~ At(r, "unsent") ~> Answered(r) \/ tasks # {}
=============================================================================
