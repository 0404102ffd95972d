------------------------------- MODULE Tasks --------------------------------
(***************************************************************************)
(* Task handles of the desktop builds (pkg/freertos/task_stub.go) and the  *)
(* registry of tasks by name (pkg/freertos/task.go).                       *)
(*                                                                         *)
(* A spawned goroutine looks whether it is suspended, waits for a resume   *)
(* token or 10 ms at a time while it is, runs its function unless it was   *)
(* deleted, closes done, and takes its name out of the registry.           *)
(***************************************************************************)
EXTENDS Naturals, FiniteSets

CONSTANTS
  Names,
  MaxSpawns,   (* bound: tasks spawned                                      *)
  MaxResumes   (* bound: Resumes of one task in progress at once            *)

ASSUME TasksAssumption ==
  /\ MaxSpawns \in Nat /\ MaxResumes \in Nat
  /\ 0 \notin Names

VARIABLES
  spawned,     (* tasks spawned so far: 1 .. spawned                        *)
  name,        (* t.name                                                    *)
  at,          (* where the goroutine of each task is                       *)
  suspended,   (* the tasks with t.suspended                                *)
  deleted,     (* the tasks with t.deleted                                  *)
  token,       (* the tasks with a token in t.resume                        *)
  deleting,    (* the tasks a Delete in progress has yet to resume          *)
  signalling,  (* for each task, the Resumes about to give it a token       *)
  registry,    (* taskRegistry.tasks: name -> task, 0 for none              *)
  beside       (* history: for each task, those of its name that had not    *)
               (* ended when it was spawned                                 *)

vars ==
  <<spawned, name, at, suspended, deleted, token, deleting, signalling, registry, beside>>

Task == 1 .. MaxSpawns
Phases ==
  {"unborn", "checking", "sleeping", "admitted", "running", "closing", "done", "ended"}

TypeOK ==
  /\ spawned \in 0 .. MaxSpawns
  /\ name \in [Task -> Names \cup {0}]
  /\ at \in [Task -> Phases]
  /\ suspended \subseteq Task /\ deleted \subseteq Task
  /\ token \subseteq 1 .. spawned /\ deleting \subseteq deleted
  /\ signalling \in [Task -> 0 .. MaxResumes]
  /\ registry \in [Names -> Task \cup {0}]
  /\ beside \in [Task -> SUBSET Task]

-----------------------------------------------------------------------------
Moves(t, from, to) ==
  /\ at[t] = from
  /\ at' = [at EXCEPT ![t] = to]

Init ==
  /\ spawned = 0
  /\ name = [t \in Task |-> 0]
  /\ at = [t \in Task |-> "unborn"]
  /\ suspended = {} /\ deleted = {} /\ token = {} /\ deleting = {}
  /\ signalling = [t \in Task |-> 0]
  /\ registry = [n \in Names |-> 0]
  /\ beside = [t \in Task |-> {}]

(* spawnTask (25-53): registered, over whatever the name led to, and        *)
(* started.                                                                 *)
Spawn(n) ==
  LET t == spawned + 1
  IN  /\ spawned < MaxSpawns
      /\ spawned' = t
      /\ name' = [name EXCEPT ![t] = n]
      /\ at' = [at EXCEPT ![t] = "checking"]
      /\ registry' = [registry EXCEPT ![n] = t]
      /\ beside' =
           [beside EXCEPT ![t] = {u \in 1 .. spawned : name[u] = n /\ at[u] # "ended"}]
      /\ UNCHANGED <<suspended, deleted, token, deleting, signalling>>

-----------------------------------------------------------------------------
(* The goroutine *)

(* A mutant of Check: the flag is read the wrong way round.                 *)
Check_Mutant(t) ==
  /\ Moves(t, "checking",
           IF t \notin suspended /\ t \notin deleted THEN "sleeping" ELSE "admitted")
  /\ UNCHANGED <<spawned, name, suspended, deleted, token, deleting, signalling, registry,
                  beside>>
(* checkSuspend, with t.mu (58-63). *)
Check(t) ==
  /\ Moves(t, "checking",
           IF t \in suspended /\ t \notin deleted THEN "sleeping" ELSE "admitted")
  /\ UNCHANGED <<spawned, name, suspended, deleted, token, deleting, signalling, registry,
                  beside>>

(* A token ends the wait, whatever the flag says by then (67-68).           *)
TakeToken(t) ==
  /\ t \in token
  /\ Moves(t, "sleeping", "admitted")
  /\ token' = token \ {t}
  /\ UNCHANGED <<spawned, name, suspended, deleted, deleting, signalling, registry, beside>>

(* 10 ms without a token (69). *)
LookAgain(t) ==
  /\ Moves(t, "sleeping", "checking")
  /\ UNCHANGED <<spawned, name, suspended, deleted, token, deleting, signalling, registry,
                  beside>>

(* A mutant of Begin: deletion is not looked at.                            *)
Begin_Mutant(t) ==
  /\ Moves(t, "admitted", "running")
  /\ UNCHANGED <<spawned, name, suspended, deleted, token, deleting, signalling, registry,
                  beside>>
(* The test of IsDeleted, and fn() (47-49). *)
Begin(t) ==
  /\ Moves(t, "admitted", IF t \in deleted THEN "closing" ELSE "running")
  /\ UNCHANGED <<spawned, name, suspended, deleted, token, deleting, signalling, registry,
                  beside>>

FnReturns(t) ==
  /\ Moves(t, "running", "closing")
  /\ UNCHANGED <<spawned, name, suspended, deleted, token, deleting, signalling, registry,
                  beside>>

(* close(t.done): Wait returns.                                             *)
CloseDone(t) ==
  /\ Moves(t, "closing", "done")
  /\ UNCHANGED <<spawned, name, suspended, deleted, token, deleting, signalling, registry,
                  beside>>

(* A mutant of Unregister: the task stays registered.                       *)
Unregister_Mutant(t) ==
  /\ Moves(t, "done", "ended")
  /\ UNCHANGED <<spawned, name, suspended, deleted, token, deleting, signalling, registry,
                  beside>>
(* unregisterTask deletes by name (86-90), whoever bears it by now.         *)
Unregister(t) ==
  /\ Moves(t, "done", "ended")
  /\ registry' = [registry EXCEPT ![name[t]] = 0]
  /\ UNCHANGED <<spawned, name, suspended, deleted, token, deleting, signalling, beside>>

-----------------------------------------------------------------------------
(* The handle *)

Suspend(t) ==
  /\ t <= spawned
  /\ suspended' = suspended \cup {t}
  /\ UNCHANGED <<spawned, name, at, deleted, token, deleting, signalling, registry, beside>>

(* Resume (81-91): the flag under t.mu, and then the token.                 *)
ClearFlag(t) ==
  /\ signalling[t] < MaxResumes
  /\ suspended' = suspended \ {t}
  /\ signalling' = [signalling EXCEPT ![t] = @ + 1]
  /\ UNCHANGED <<spawned, name, at, deleted, token, registry, beside>>

Resume(t) ==
  /\ t <= spawned /\ ClearFlag(t)
  /\ UNCHANGED deleting

Signal(t) ==
  /\ signalling[t] > 0
  /\ token' = token \cup {t}
  /\ signalling' = [signalling EXCEPT ![t] = @ - 1]
  /\ UNCHANGED <<spawned, name, at, suspended, deleted, deleting, registry, beside>>

(* Delete (93-100): the flag, and then a Resume.                            *)
Delete(t) ==
  /\ t <= spawned
  /\ deleted' = deleted \cup {t}
  /\ deleting' = deleting \cup {t}
  /\ UNCHANGED <<spawned, name, at, suspended, token, signalling, registry, beside>>

DeleteResumes(t) ==
  /\ t \in deleting /\ ClearFlag(t)
  /\ deleting' = deleting \ {t}

-----------------------------------------------------------------------------
(* What the goroutine does by itself: all but returning from the task's     *)
(* function, which is the program's.                                        *)
Proceeds(t) ==
  \/ Check(t) \/ TakeToken(t) \/ LookAgain(t) \/ Begin(t)
  \/ CloseDone(t) \/ Unregister(t)
Goroutine(t) == Proceeds(t) \/ FnReturns(t)

Next ==
  \/ \E n \in Names : Spawn(n)
  \/ \E t \in Task :
       \/ Goroutine(t)
       \/ Suspend(t) \/ Resume(t) \/ Signal(t) \/ Delete(t) \/ DeleteResumes(t)

Spec == Init /\ [][Next]_vars

(* Go runs every goroutine that can run, those in the middle of a Resume or *)
(* a Delete too. That a task function ever returns is not assumed.          *)
FairSpec ==
  /\ Spec
  /\ \A t \in Task :
       WF_vars(Proceeds(t)) /\ WF_vars(DeleteResumes(t)) /\ WF_vars(Signal(t))

-----------------------------------------------------------------------------
(* Names are given to tasks freely, while earlier bearers still live too    *)
(* (task_test.go:206-210). A name leads to the last task it was given to    *)
(* for as long as that task lives, unless a task of the name that lived     *)
(* beside it when it was spawned has ended since and, taking the name out   *)
(* (86-90), hidden it; otherwise to nothing. So it never leads to an ended  *)
(* task or to an earlier bearer, and it fails a living task in no other     *)
(* way.                                                                     *)
RegistryFaithful ==
  /\ TypeOK
  /\ \A n \in Names :
       LET bearers == {t \in 1 .. spawned : name[t] = n}
           hidden(t) == \E u \in beside[t] : at[u] = "ended"
       IN  /\ bearers = {} => registry[n] = 0
           /\ \A t \in bearers : (\A u \in bearers : u <= t) =>
                registry[n] = IF at[t] = "ended" \/ hidden(t) THEN 0 ELSE t

(* A task deleted while it waits to begin ends, and without its function:   *)
(* nothing makes a function that began return, so a task whose function     *)
(* began after the deletion might never end.                                *)
DeletedEnds ==
  \A t \in Task :
    t \in deleted /\ at[t] \in {"checking", "sleeping", "admitted"} ~> at[t] = "ended"

(* A task that waits to begin begins once it is left resumed.               *)
ResumedStarts ==
  \A t \in Task :
    at[t] \in {"checking", "sleeping"} /\ t \notin suspended
      ~> at[t] \notin {"checking", "sleeping"} \/ t \in suspended
=============================================================================
