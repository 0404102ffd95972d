----------------------------- MODULE TasksProofs -----------------------------
(***************************************************************************)
(* Proofs about Tasks, for any names and any number of tasks and resumes:  *)
(* what the handles and goroutines of tasks can be, and where a name leads *)
(* when programs give it to tasks as they like.                            *)
(***************************************************************************)
EXTENDS Tasks, TLAPS

(* Only tasks that were spawned have a name, a goroutine, or calls on them. *)
SpawnedOnly ==
  /\ \A t \in Task : t <= spawned => name[t] \in Names
  /\ \A t \in Task : t > spawned => at[t] = "unborn" /\ signalling[t] = 0
  /\ deleted \subseteq 1 .. spawned

(* Beside a task are earlier ones of its name, and the others have ended.   *)
Companions ==
  \A t \in 1 .. spawned :
    /\ \A u \in beside[t] : u \in 1 .. spawned /\ u < t /\ name[u] = name[t]
    /\ \A u \in 1 .. spawned :
         u < t /\ name[u] = name[t] /\ u \notin beside[t] => at[u] = "ended"

(* Where a name leads, as RegistryFaithful has it.                          *)
Leads(n) ==
  /\ (\A t \in 1 .. spawned : name[t] # n) => registry[n] = 0
  /\ \A t \in 1 .. spawned :
       name[t] = n /\ (\A u \in 1 .. spawned : name[u] = n => u <= t) =>
         registry[n] = IF at[t] = "ended" \/ \E u \in beside[t] : at[u] = "ended" THEN 0 ELSE t

TypeInv == TypeOK /\ SpawnedOnly

(* The inductive invariant.                                                 *)
Inv == TypeInv /\ Companions /\ \A n \in Names : Leads(n)

-----------------------------------------------------------------------------
(* Types *)

(* The goroutine of a task that was spawned takes a step.                   *)
LEMMA MovesTyped ==
  ASSUME TypeInv, NEW t \in Task, NEW from \in Phases \ {"unborn"}, NEW to \in Phases,
         Moves(t, from, to)
  PROVE  /\ t \in 1 .. spawned /\ at[t] = from
         /\ at' \in [Task -> Phases] /\ at'[t] = to
         /\ \A u \in Task \ {t} : at'[u] = at[u]
         /\ \A u \in Task : u > spawned => at'[u] = "unborn"
BY DEF TypeInv, TypeOK, SpawnedOnly, Moves, Task

(* Everything a goroutine does besides: a token taken, a name unregistered. *)
LEMMA GoroutineFacts ==
  ASSUME TypeInv, NEW t \in Task, Goroutine(t)
  PROVE  /\ \E from \in Phases \ {"unborn"}, to \in Phases : Moves(t, from, to)
         /\ UNCHANGED <<spawned, name, suspended, deleted, deleting, signalling, beside>>
         /\ token' \subseteq token
         /\ \/ UNCHANGED registry /\ at[t] # "ended" /\ at'[t] # "ended"
            \/ Unregister(t)
<1>1. at \in [Task -> Phases]
  BY DEF TypeInv, TypeOK
<1>2. CASE Check(t)
  <2>1. \E to \in {"sleeping", "admitted"} : Moves(t, "checking", to)
    BY <1>2 DEF Check
  <2>2. QED
    BY <1>1, <1>2, <2>1 DEF Check, Moves, Phases
<1>3. CASE TakeToken(t)
  BY <1>1, <1>3 DEF TakeToken, Moves, Phases
<1>4. CASE LookAgain(t)
  BY <1>1, <1>4 DEF LookAgain, Moves, Phases
<1>5. CASE Begin(t)
  <2>1. \E to \in {"closing", "running"} : Moves(t, "admitted", to)
    BY <1>5 DEF Begin
  <2>2. QED
    BY <1>1, <1>5, <2>1 DEF Begin, Moves, Phases
<1>6. CASE FnReturns(t)
  BY <1>1, <1>6 DEF FnReturns, Moves, Phases
<1>7. CASE CloseDone(t)
  BY <1>1, <1>7 DEF CloseDone, Moves, Phases
<1>8. CASE Unregister(t)
  BY <1>1, <1>8 DEF Unregister, Moves, Phases
<1>9. QED
  BY <1>2, <1>3, <1>4, <1>5, <1>6, <1>7, <1>8 DEF Goroutine, Proceeds

(* What Suspend, Resume and Delete, and their later halves, leave alone.    *)
LEMMA HandleFacts ==
  ASSUME TypeInv, NEW t \in Task,
         Suspend(t) \/ Resume(t) \/ Signal(t) \/ Delete(t) \/ DeleteResumes(t)
  PROVE  /\ UNCHANGED <<spawned, name, at, registry, beside>>
         /\ TypeInv'
<1>1. UNCHANGED <<spawned, name, at, registry, beside>>
  BY DEF Suspend, Resume, ClearFlag, Signal, Delete, DeleteResumes
<1>2. TypeOK /\ SpawnedOnly /\ MaxResumes \in Nat /\ MaxSpawns \in Nat
  BY TasksAssumption DEF TypeInv
<1>3. t \in 1 .. spawned
  <2>1. signalling[t] \in Nat
    BY <1>2 DEF TypeOK
  <2>2. QED
    BY <1>2, <2>1
    DEF TypeOK, SpawnedOnly, Suspend, Resume, Signal, Delete, DeleteResumes, Task
<1>4. signalling' \in [Task -> 0 .. MaxResumes]
      /\ \A u \in Task \ {t} : signalling'[u] = signalling[u]
  BY <1>2 DEF TypeOK, Suspend, Resume, ClearFlag, Signal, Delete, DeleteResumes
<1>5. /\ suspended' \subseteq Task
      /\ deleted' \subseteq Task /\ deleted' \subseteq 1 .. spawned
      /\ token' \subseteq 1 .. spawned /\ deleting' \subseteq deleted'
  BY <1>2, <1>3
  DEF TypeOK, SpawnedOnly, Suspend, Resume, ClearFlag, Signal, Delete, DeleteResumes
<1>6. QED
  BY <1>1, <1>2, <1>3, <1>4, <1>5 DEF TypeInv, TypeOK, SpawnedOnly

(* A new task is the next one.                                              *)
LEMMA SpawnFacts ==
  ASSUME TypeInv, NEW n \in Names, Spawn(n)
  PROVE  /\ spawned' = spawned + 1 /\ spawned' \in Task
         /\ name'[spawned'] = n /\ at'[spawned'] = "checking" /\ registry'[n] = spawned'
         /\ \A t \in Task \ {spawned'} : name'[t] = name[t] /\ at'[t] = at[t]
         /\ \A m \in Names \ {n} : registry'[m] = registry[m]
         /\ beside'[spawned'] = {u \in 1 .. spawned : name[u] = n /\ at[u] # "ended"}
         /\ \A t \in Task \ {spawned'} : beside'[t] = beside[t]
         /\ TypeInv'
<1>1. TypeOK /\ SpawnedOnly /\ MaxSpawns \in Nat
  BY TasksAssumption DEF TypeInv
<1>2. spawned + 1 \in Task /\ spawned \in Nat
  BY <1>1 DEF TypeOK, Spawn, Task
<1>3. /\ spawned' = spawned + 1
      /\ name' = [name EXCEPT ![spawned + 1] = n]
      /\ at' = [at EXCEPT ![spawned + 1] = "checking"]
      /\ registry' = [registry EXCEPT ![n] = spawned + 1]
      /\ beside' = [beside EXCEPT ![spawned + 1] =
                      {u \in 1 .. spawned : name[u] = n /\ at[u] # "ended"}]
      /\ UNCHANGED <<suspended, deleted, token, deleting, signalling>>
  BY DEF Spawn
<1>4. TypeOK'
  <2>1. /\ spawned' \in 0 .. MaxSpawns /\ name' \in [Task -> Names \cup {0}]
        /\ at' \in [Task -> Phases] /\ registry' \in [Names -> Task \cup {0}]
    BY <1>1, <1>2, <1>3 DEF TypeOK, Task, Phases
  <2>2. 1 .. spawned \subseteq 1 .. spawned'
    BY <1>2, <1>3
  <2>3. beside' \in [Task -> SUBSET Task]
    BY <1>1, <1>2, <1>3 DEF TypeOK, Task
  <2>4. QED
    BY <1>1, <1>3, <2>1, <2>2, <2>3 DEF TypeOK
<1>5. SpawnedOnly'
  BY <1>1, <1>2, <1>3 DEF TypeOK, SpawnedOnly, Task
<1>6. QED
  BY <1>1, <1>2, <1>3, <1>4, <1>5 DEF TypeInv, TypeOK

(* A registry without tasks is well typed.                                  *)
LEMMA InitTypeInv ==
  Init => TypeInv
BY TasksAssumption DEF Init, TypeInv, TypeOK, SpawnedOnly, Task, Phases

(* Every step keeps it well typed.                                          *)
LEMMA NextTypeInv ==
  ASSUME TypeInv, [Next]_vars
  PROVE  TypeInv'
<1>1. ASSUME NEW n \in Names, Spawn(n)
      PROVE  TypeInv'
  BY <1>1, SpawnFacts
<1>2. ASSUME NEW t \in Task, Goroutine(t)
      PROVE  TypeInv'
  <2>1. PICK from \in Phases \ {"unborn"}, to \in Phases : Moves(t, from, to)
    BY <1>2, GoroutineFacts
  <2>2. /\ UNCHANGED <<spawned, name, suspended, deleted, deleting, signalling, beside>>
        /\ token' \subseteq token
    BY <1>2, GoroutineFacts
  <2>3. /\ at' \in [Task -> Phases]
        /\ \A u \in Task : u > spawned => at'[u] = "unborn"
    BY <2>1, MovesTyped
  <2>4. registry' \in [Names -> Task \cup {0}]
    <3>1. UNCHANGED registry \/ registry' = [registry EXCEPT ![name[t]] = 0]
      BY <1>2, GoroutineFacts DEF Unregister
    <3>2. QED
      BY <3>1 DEF TypeInv, TypeOK
  <2>5. QED
    BY <2>2, <2>3, <2>4 DEF TypeInv, TypeOK, SpawnedOnly
<1>3. ASSUME NEW t \in Task,
             Suspend(t) \/ Resume(t) \/ Signal(t) \/ Delete(t) \/ DeleteResumes(t)
      PROVE  TypeInv'
  BY <1>3, HandleFacts
<1>4. CASE UNCHANGED vars
  BY <1>4 DEF vars, TypeInv, TypeOK, SpawnedOnly
<1>5. QED
  BY <1>1, <1>2, <1>3, <1>4 DEF Next

-----------------------------------------------------------------------------
(* The registry *)

(* A registry without tasks satisfies the invariant.                        *)
LEMMA InitInv ==
  Init => Inv
<1> SUFFICES ASSUME Init
             PROVE  Inv
  OBVIOUS
<1>1. TypeInv /\ \A t : t \notin 1 .. spawned
  BY InitTypeInv DEF Init
<1>2. QED
  BY <1>1 DEF Init, Inv, Companions, Leads

(* The invariant says what RegistryFaithful says of every name.             *)
LEMMA InvFaithful ==
  ASSUME Inv
  PROVE  RegistryFaithful
<1> SUFFICES ASSUME NEW n \in Names
             PROVE  LET bearers == {t \in 1 .. spawned : name[t] = n}
                        hidden(t) == \E u \in beside[t] : at[u] = "ended"
                    IN  /\ bearers = {} => registry[n] = 0
                        /\ \A t \in bearers : (\A u \in bearers : u <= t) =>
                             registry[n] = IF at[t] = "ended" \/ hidden(t) THEN 0 ELSE t
  BY DEF Inv, TypeInv, RegistryFaithful
<1>1. Leads(n)
  BY DEF Inv
<1>2. QED
  BY <1>1 DEF Leads

(* A name goes to a new task, beside those of the name that still live.     *)
LEMMA SpawnInv ==
  ASSUME Inv, NEW n \in Names, Spawn(n)
  PROVE  Companions' /\ \A m \in Names : Leads(m)'
<1>1. TypeInv /\ Companions /\ (\A m \in Names : Leads(m)) /\ spawned \in Nat
  BY TasksAssumption DEF Inv, TypeInv, TypeOK
<1>2. /\ spawned' = spawned + 1 /\ spawned' \in Task
      /\ name'[spawned'] = n /\ at'[spawned'] = "checking" /\ registry'[n] = spawned'
      /\ \A t \in Task \ {spawned'} : name'[t] = name[t] /\ at'[t] = at[t]
      /\ \A m \in Names \ {n} : registry'[m] = registry[m]
      /\ beside'[spawned'] = {u \in 1 .. spawned : name[u] = n /\ at[u] # "ended"}
      /\ \A t \in Task \ {spawned'} : beside'[t] = beside[t]
      /\ TypeInv'
  BY <1>1, SpawnFacts
<1>3. /\ \A t \in 1 .. spawned' : t = spawned' \/ t \in 1 .. spawned
      /\ \A t \in 1 .. spawned :
           /\ t \in 1 .. spawned' /\ t \in Task \ {spawned'} /\ t < spawned'
           /\ name'[t] = name[t] /\ at'[t] = at[t] /\ beside'[t] = beside[t]
  <2>1. spawned + 1 \in 1 .. MaxSpawns /\ MaxSpawns \in Nat /\ spawned' = spawned + 1
    BY <1>2, TasksAssumption DEF Task
  <2>2. /\ \A t \in 1 .. spawned' : t = spawned' \/ t \in 1 .. spawned
        /\ \A t \in 1 .. spawned :
             t \in 1 .. spawned' /\ t \in Task \ {spawned'} /\ t < spawned'
    BY <1>1, <2>1 DEF Task
  <2>3. QED
    BY <1>2, <2>2
<1>4. Companions'
  <2> SUFFICES ASSUME NEW t \in 1 .. spawned'
               PROVE  /\ \A u \in beside'[t] :
                           u \in 1 .. spawned' /\ u < t /\ name'[u] = name'[t]
                      /\ \A u \in 1 .. spawned' :
                           u < t /\ name'[u] = name'[t] /\ u \notin beside'[t]
                             => at'[u] = "ended"
    BY DEF Companions
  <2>1. CASE t = spawned'
    <3>1. ~ spawned' < spawned'
      BY <1>1, <1>2
    <3>2. QED
      BY <1>2, <1>3, <2>1, <3>1
  <2>2. CASE t \in 1 .. spawned
    <3>1. ~ spawned' < t
      BY <1>1, <1>2, <2>2
    <3>2. /\ \A u \in beside[t] : u \in 1 .. spawned /\ u < t /\ name[u] = name[t]
          /\ \A u \in 1 .. spawned :
               u < t /\ name[u] = name[t] /\ u \notin beside[t] => at[u] = "ended"
      BY <1>1, <2>2 DEF Companions
    <3>3. QED
      BY <1>3, <2>2, <3>1, <3>2
  <2>3. QED
    BY <1>3, <2>1, <2>2
<1>5. ASSUME NEW m \in Names
      PROVE  Leads(m)'
  <2>1. CASE m = n
    <3>1. spawned' \in 1 .. spawned'
      BY <1>1, <1>2
    <3>2. /\ \A u \in beside'[spawned'] : at'[u] # "ended"
          /\ at'[spawned'] # "ended"
      BY <1>2, <1>3
    <3>3. ASSUME NEW t \in 1 .. spawned', name'[t] = n,
                 \A u \in 1 .. spawned' : name'[u] = n => u <= t
          PROVE  t = spawned'
      BY <1>1, <1>2, <1>3, <3>1, <3>3
    <3>4. QED
      BY <1>2, <2>1, <3>1, <3>2, <3>3 DEF Leads
  <2>2. CASE m # n
    <3>1. \A t \in 1 .. spawned' : name'[t] = m => t \in 1 .. spawned /\ name[t] = m
      BY <1>2, <1>3, <2>2
    <3>2. ASSUME NEW t \in 1 .. spawned
          PROVE  /\ name'[t] = name[t] /\ at'[t] = at[t] /\ beside'[t] = beside[t]
                 /\ \A u \in beside[t] : at'[u] = at[u]
      BY <1>1, <1>3 DEF Companions
    <3>3. registry'[m] = registry[m] /\ Leads(m)
      BY <1>1, <1>2, <2>2
    <3>4. CASE \A t \in 1 .. spawned' : name'[t] # m
      <4>1. \A t \in 1 .. spawned : name[t] # m
        BY <1>3, <3>4
      <4>2. QED
        BY <3>3, <3>4, <4>1 DEF Leads
    <3>5. ASSUME NEW t \in 1 .. spawned', name'[t] = m,
                 \A u \in 1 .. spawned' : name'[u] = m => u <= t
          PROVE  registry'[m] = IF at'[t] = "ended" \/ \E u \in beside'[t] : at'[u] = "ended"
                                THEN 0 ELSE t
      <4>1. t \in 1 .. spawned /\ name[t] = m
        BY <3>1, <3>5
      <4>2. \A u \in 1 .. spawned : name[u] = m => u <= t
        BY <1>3, <3>5
      <4>3. registry[m] = IF at[t] = "ended" \/ \E u \in beside[t] : at[u] = "ended"
                          THEN 0 ELSE t
        BY <3>3, <4>1, <4>2 DEF Leads
      <4>4. QED
        BY <3>2, <3>3, <4>1, <4>3
    <3>6. (\A t \in 1 .. spawned' : name'[t] # m) => registry'[m] = 0
      BY <3>3, <3>4, <1>3 DEF Leads
    <3>7. QED
      BY <3>5, <3>6 DEF Leads
  <2>3. QED
    BY <2>1, <2>2
<1>6. QED
  BY <1>4, <1>5

(* A goroutine that takes its name out was the last of the name, or stood   *)
(* beside the last.                                                         *)
LEMMA GoroutineInv ==
  ASSUME Inv, NEW t \in Task, Goroutine(t)
  PROVE  Companions' /\ \A m \in Names : Leads(m)'
<1>1. /\ TypeInv /\ Companions /\ (\A m \in Names : Leads(m)) /\ TypeInv'
      /\ UNCHANGED <<spawned, name, beside>>
  BY NextTypeInv, GoroutineFacts DEF Inv, Next
<1>2. /\ t \in 1 .. spawned
      /\ \A u \in Task \ {t} : at'[u] = at[u]
  BY <1>1, GoroutineFacts, MovesTyped
<1>3. /\ 1 .. spawned \subseteq Task
      /\ \A u \in 1 .. spawned : beside[u] \subseteq 1 .. spawned
  <2>1. 1 .. spawned \subseteq Task
    BY <1>1, TasksAssumption DEF TypeInv, TypeOK, Task
  <2>2. \A u \in 1 .. spawned : \A v \in beside[u] : v \in 1 .. spawned
    BY <1>1 DEF Companions
  <2>3. QED
    BY <2>1, <2>2
<1>4. CASE UNCHANGED registry /\ at[t] # "ended" /\ at'[t] # "ended"
  <2>1. \A u \in 1 .. spawned : at'[u] = "ended" <=> at[u] = "ended"
    BY <1>2, <1>3, <1>4
  <2>2. Companions'
    BY <1>1, <2>1 DEF Companions
  <2>3. ASSUME NEW m \in Names
        PROVE  Leads(m)'
    <3>1. Leads(m)
      BY <1>1
    <3>2. \A u \in 1 .. spawned :
            (\E v \in beside[u] : at'[v] = "ended") <=> \E v \in beside[u] : at[v] = "ended"
      BY <1>3, <2>1
    <3>3. QED
      BY <1>1, <1>4, <2>1, <3>1, <3>2 DEF Leads
  <2>4. QED
    BY <2>2, <2>3
<1>5. CASE Unregister(t)
  <2>1. /\ at[t] = "done" /\ at'[t] = "ended" /\ name[t] \in Names
        /\ registry' = [registry EXCEPT ![name[t]] = 0]
    BY <1>1, <1>2, <1>5, TasksAssumption DEF Unregister, Moves, TypeInv, TypeOK, SpawnedOnly, Task
  <2>2. \A u \in 1 .. spawned : at[u] = "ended" => at'[u] = "ended"
    BY <1>2, <1>3, <2>1
  <2>3. Companions'
    BY <1>1, <2>2 DEF Companions
  <2>4. registry'[name[t]] = 0
    BY <1>1, <2>1 DEF TypeInv, TypeOK
  <2>5. ASSUME NEW n \in Names, n # name[t]
        PROVE  Leads(n)'
    <3>1. registry'[n] = registry[n] /\ Leads(n)
      BY <1>1, <2>1, <2>5 DEF TypeInv, TypeOK
    <3>2. ASSUME NEW u \in 1 .. spawned, name[u] = n
          PROVE  /\ at'[u] = at[u]
                 /\ \A v \in beside[u] : at'[v] = at[v]
      <4>1. \A v \in beside[u] : v \in 1 .. spawned /\ name[v] = n
        BY <1>1, <3>2 DEF Companions
      <4>2. \A v \in 1 .. spawned : name[v] = n => at'[v] = at[v]
        BY <1>2, <1>3, <2>5
      <4>3. QED
        BY <3>2, <4>1, <4>2
    <3>3. QED
      BY <1>1, <3>1, <3>2 DEF Leads
  <2>6. Leads(name[t])'
    <3>1. ASSUME NEW u \in 1 .. spawned, name[u] = name[t],
                 \A v \in 1 .. spawned : name[v] = name[t] => v <= u
          PROVE  at'[u] = "ended" \/ \E v \in beside[u] : at'[v] = "ended"
      <4>1. CASE u = t
        BY <2>1, <4>1
      <4>2. CASE u # t
        <5>1. t < u
          BY <1>2, <3>1, <4>2
        <5>2. t \in beside[u]
          BY <1>1, <1>2, <2>1, <3>1, <5>1 DEF Companions
        <5>3. QED
          BY <2>1, <5>2
      <4>3. QED
        BY <4>1, <4>2
    <3>2. QED
      BY <1>1, <2>4, <3>1 DEF Leads
  <2>7. ASSUME NEW n \in Names
        PROVE  Leads(n)'
    <3>1. CASE n = name[t]
      <4>1. name'[t] = name[t]
        BY <1>1
      <4>2. QED
        BY <1>1, <2>6, <3>1, <4>1 DEF Leads
    <3>2. QED
      BY <2>5, <3>1
  <2>8. QED
    BY <2>3, <2>7
<1>6. QED
  BY <1>1, <1>4, <1>5, GoroutineFacts

-----------------------------------------------------------------------------
(* Whatever programs do with names, the state of the tasks is well formed:  *)
(* a resume token, a pending resume or a deletion belongs to a task that    *)
(* was spawned.                                                             *)
THEOREM TypeCorrect == Spec => []TypeOK
<1>1. TypeInv /\ [Next]_vars => TypeInv'
  BY NextTypeInv
<1>2. TypeInv => TypeOK
  BY DEF TypeInv
<1>3. QED
  BY InitTypeInv, <1>1, <1>2, PTL DEF Spec

(* However programs give names to tasks, a name leads to the last task it   *)
(* was given to while that task lives, unless one of the name that lived    *)
(* when it was spawned has ended since; otherwise it leads to nothing       *)
(* (task.go:70-90).                                                         *)
THEOREM NamesLead == Spec => []RegistryFaithful
<1>1. Inv /\ [Next]_vars => Inv'
  <2> SUFFICES ASSUME Inv, [Next]_vars
               PROVE  Inv'
    OBVIOUS
  <2>1. TypeInv'
    BY NextTypeInv DEF Inv
  <2>2. ASSUME NEW n \in Names, Spawn(n)
        PROVE  Companions' /\ \A m \in Names : Leads(m)'
    BY <2>2, SpawnInv
  <2>3. ASSUME NEW t \in Task, Goroutine(t)
        PROVE  Companions' /\ \A m \in Names : Leads(m)'
    BY <2>3, GoroutineInv
  <2>4. ASSUME UNCHANGED <<spawned, name, at, registry, beside>>
        PROVE  Companions' /\ \A m \in Names : Leads(m)'
    BY <2>4 DEF Inv, Companions, Leads
  <2>5. ASSUME NEW t \in Task,
               Suspend(t) \/ Resume(t) \/ Signal(t) \/ Delete(t) \/ DeleteResumes(t)
        PROVE  Companions' /\ \A m \in Names : Leads(m)'
    BY <2>4, <2>5, HandleFacts DEF Inv
  <2>6. QED
    BY <2>1, <2>2, <2>3, <2>4, <2>5 DEF Inv, Next, vars
<1>2. Inv => RegistryFaithful
  BY InvFaithful
<1>3. QED
  BY InitInv, <1>1, <1>2, PTL DEF Spec
=============================================================================
