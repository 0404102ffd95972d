-------------------------- MODULE IDESessionsProofs --------------------------
(***************************************************************************)
(* Proofs about IDESessions, for any number of requests, sessions, ticks   *)
(* and faults: files keep to their sessions, evaluations are recorded once *)
(* and in order, and only idle sessions are swept.                         *)
(***************************************************************************)
EXTENDS IDESessions, SequenceTheorems, TLAPS

Stages ==
  {"unsent", "sweep", "sweeping", "sweepdrop", "unlink", "make", "register",
   "find", "check", "remove", "erase", "lock", "eval", "output", "persist", "done"}
Asked ==
  [op : Operations \cup {"none"}, id : Ids \cup {NoId}, pc : Stages,
   at : 0 .. MaxNow, todo : SUBSET Ids, gone : SUBSET Ids]
Sessions ==
  [state : {"made"}, history : Seq(Entries), console : Consoles,
   updatedAt : 0 .. MaxNow, created : 0 .. MaxNow]
Files == {NoFile, Broken} \cup [state : {"written"}, history : Seq(Entries)]
Answers ==
  [is : {"none", "ok", "missing", "failed"}] \cup [is : {"ok"}, history : Seq(Entries)]

Typed ==
  /\ now \in 0 .. MaxNow /\ faults \in 0 .. MaxFaults
  /\ session \in [Ids -> {NoSession} \cup Sessions]
  /\ listed \subseteq Ids /\ torn \subseteq Ids
  /\ mu \in Requests \cup {Nobody}
  /\ smu \in [Ids -> Requests \cup {Nobody}]
  /\ file \in [Ids -> Files]
  /\ req \in [Requests -> Asked]
  /\ answer \in [Requests -> Answers]
  /\ before \in [Requests -> SUBSET Requests]
  /\ kept \subseteq Ids /\ tasks \subseteq Spawners

-----------------------------------------------------------------------------
(* The parts of the inductive invariant *)

Sweeping == {"sweep", "sweeping", "sweepdrop", "unlink"}

(* What a request can be doing, by what it asks for.                        *)
Ordered(r) ==
  /\ At(r, "unsent") <=> req[r].op = "none"
  /\ At(r, "done") <=> Answered(r)
  /\ req[r].op = "none" => req[r].id = NoId
  /\ req[r].op = "create" =>
       /\ req[r].pc \in Sweeping \cup {"make", "register", "persist", "done"}
       /\ req[r].pc \in Sweeping \cup {"make"} <=> req[r].id = NoId
  /\ req[r].op = "eval" =>
       req[r].pc \in Sweeping \cup
         {"find", "check", "remove", "erase", "lock", "eval", "output", "persist", "done"}
  /\ req[r].op = "history" =>
       req[r].pc \in Sweeping \cup {"find", "check", "remove", "erase", "lock", "done"}
  /\ req[r].op = "delete" => req[r].pc \in {"remove", "erase", "done"}
  /\ req[r].op \in {"eval", "history", "delete"} => req[r].id \in Ids
  /\ req[r].gone # {} => req[r].pc \in {"sweeping", "sweepdrop", "unlink"}

InOrder == \A r \in Requests : Ordered(r)

Born(s) == session[s] # NoSession

(* The evaluation that holds a session's mutex.                             *)
Holds(r, s) ==
  /\ req[r].id = s
  /\ req[r].pc \in {"eval", "output"} \/ (req[r].op = "eval" /\ At(r, "persist"))
MutexHeld ==
  \A s \in Ids, r \in Requests : smu[s] = r <=> Holds(r, s)

(* A session is known to no one but its maker until that one was answered.  *)
IdsUnique ==
  /\ listed \subseteq {s \in Ids : Born(s)}
  /\ \A r \in Requests :
       /\ req[r].id \in Ids => Born(req[r].id)
       /\ req[r].todo \cup req[r].gone \subseteq {s \in Ids : Born(s)}
  /\ \A r, q \in Requests :
       req[r].op = "create" /\ req[r].id \in Ids /\ answer[r].is # "ok"
         /\ req[q].id = req[r].id => q = r
  /\ \A r, q \in Requests : At(r, "register") =>
       /\ req[r].id \notin listed
       /\ req[r].id \notin req[q].todo \cup req[q].gone
  /\ \A s \in Ids : ~ Born(s) => file[s] = NoFile

(* What is to be erased is out of the map, and whoever still works in a     *)
(* session that is out of the map has it torn.                              *)
OutOfMap ==
  /\ \A r \in Requests : ~ At(r, "sweepdrop") => req[r].gone \cap listed = {}
  /\ \A r \in Requests : At(r, "erase") => req[r].id \notin listed
  /\ \A s \in Ids \ listed : AtWork(s) # {} => s \in torn

(* An evaluation that has ended, whether answered yet or not.               *)
Ran(r) == req[r].op = "eval" /\ (At(r, "persist") \/ answer[r].is \in {"ok", "failed"})

(* Histories hold each evaluation that ran, once, and after those answered  *)
(* before it was sent.                                                      *)
History1(s) ==
  LET h == session[s].history
  IN  /\ \A n \in 1 .. Len(h) :
           Ran(h[n].by) /\ req[h[n].by].id = s
      /\ \A n, m \in 1 .. Len(h) : h[n].by = h[m].by => n = m
Entered(r) ==
  LET h == session[req[r].id].history
  IN  \E n \in 1 .. Len(h) :
        /\ h[n].by = r
        /\ At(r, "persist") => n = Len(h)
        /\ \A q \in before[r], m \in 1 .. Len(h) : h[m].by = q => m < n
Recording ==
  /\ \A s \in Ids : Born(s) => History1(s)
  /\ \A r \in Requests : Ran(r) => Entered(r)
  /\ \A r \in Requests : \A q \in before[r] : Answered(q)
  /\ \A r \in Requests : req[r].op = "history" /\ answer[r].is = "ok" =>
       /\ answer[r].history \in Seq(Entries)
       /\ \A q \in before[r] : Recorded(q) /\ req[q].id = req[r].id =>
            \E n \in 1 .. Len(answer[r].history) : answer[r].history[n].by = q

(* The n-th time something ended in a session.                              *)
Stamp(s, n) ==
  LET h == session[s].history
  IN  IF n = 0 THEN session[s].created
      ELSE IF n \in 1 .. Len(h) THEN h[n].at ELSE now
Gap(s) ==
  \E n \in 0 .. Len(session[s].history) : Stamp(s, n + 1) - Stamp(s, n) > TTL

(* The clock's readings are of the past, and what a request is about to     *)
(* remove as expired has been idle.                                         *)
ClockRead ==
  /\ \A s \in Ids : Born(s) => session[s].updatedAt = Stamp(s, Len(session[s].history))
  /\ \A r \in Requests :
       /\ req[r].at <= now
       /\ \A s \in req[r].gone : Gap(s)
       /\ At(r, "remove") /\ req[r].op # "delete" => Gap(req[r].id)

Inv ==
  /\ Typed
  /\ InOrder
  /\ MutexHeld
  /\ IdsUnique
  /\ OutOfMap
  /\ FilesMatch
  /\ Recording
  /\ ClockRead

-----------------------------------------------------------------------------
(* The steps of a request *)

(* What a step makes of a request: it is asked the same, and is elsewhere.  *)
Goes(r, pc, at, todo, gone) ==
  /\ req' \in [Requests -> Asked]
  /\ req'[r].op = req[r].op /\ req'[r].id = req[r].id
  /\ req'[r].pc = pc /\ req'[r].at = at /\ req'[r].todo = todo /\ req'[r].gone = gone
  /\ \A q \in Requests \ {r} : req'[q] = req[q]

(* A step that sets the fields of one request.                              *)
LEMMA GoesFacts ==
  ASSUME Typed, NEW r \in Requests, NEW new \in Asked, req' = [req EXCEPT ![r] = new],
         new.op = req[r].op, new.id = req[r].id
  PROVE  Goes(r, new.pc, new.at, new.todo, new.gone)
BY DEF Typed, Goes

(* A typed request, read field by field.                                    *)
LEMMA AskedFacts ==
  ASSUME Typed, NEW r \in Requests
  PROVE  /\ req[r].op \in Operations \cup {"none"} /\ req[r].id \in Ids \cup {NoId}
         /\ req[r].pc \in Stages /\ req[r].at \in 0 .. MaxNow
         /\ req[r].todo \in SUBSET Ids /\ req[r].gone \in SUBSET Ids
BY DEF Typed, Asked

(* A step that only moves a request on.                                     *)
LEMMA GotoFacts ==
  ASSUME Typed, NEW r \in Requests, NEW pc \in Stages, Goto(r, pc)
  PROVE  Goes(r, pc, req[r].at, req[r].todo, req[r].gone)
BY DEF Typed, Asked, Goto, Goes

(* A step that answers a request.                                           *)
LEMMA AnswerFacts ==
  ASSUME Typed, NEW r \in Requests, NEW is \in {"ok", "missing", "failed"}, Answer(r, is)
  PROVE  /\ answer' \in [Requests -> Answers] /\ answer'[r].is = is
         /\ \A q \in Requests \ {r} : answer'[q] = answer[q]
<1>1. [is |-> is] \in Answers /\ [is |-> is].is = is
  BY DEF Answers
<1>2. QED
  BY <1>1 DEF Typed, Answer

(* A session that is born has a history, a console and two times.           *)
LEMMA SessionFacts ==
  ASSUME Typed, NEW s \in Ids, Born(s)
  PROVE  /\ session[s] \in Sessions
         /\ session[s].history \in Seq(Entries) /\ session[s].console \in Consoles
         /\ session[s].updatedAt \in 0 .. MaxNow /\ session[s].created \in 0 .. MaxNow
         /\ Len(session[s].history) \in Nat
         /\ \A n \in 1 .. Len(session[s].history) : session[s].history[n] \in Entries
<1>1. session[s] \in Sessions
  BY DEF Typed, Born
<1>2. session[s].history \in Seq(Entries)
  BY <1>1 DEF Sessions
<1>3. QED
  BY <1>1, <1>2, LenProperties, ElementOfSeq DEF Sessions

(* A new session is not none.                                               *)
LEMMA MadeFacts ==
  ASSUME NEW t \in 0 .. MaxNow
  PROVE  /\ Made(t) \in Sessions /\ Made(t) # NoSession
         /\ Made(t).history = <<>> /\ Made(t).console = <<>>
         /\ Made(t).updatedAt = t /\ Made(t).created = t
<1>1. Made(t).state = "made" /\ NoSession.state = "unborn"
  BY DEF Made, NoSession
<1>2. <<>> \in Consoles /\ <<>> \in Seq(Entries)
  BY EmptySeq DEF Consoles
<1>3. QED
  BY <1>1, <1>2 DEF Made, Sessions

(* Whether a session is idle is said of its history, its making and now.    *)
LEMMA IdledIsGap ==
  ASSUME Typed, NEW s \in Ids, Born(s)
  PROVE  Idled(s) <=> Gap(s)
<1> DEFINE h  == session[s].history
           ts == [n \in DOMAIN h |-> h[n].at]
<1>1. h \in Seq(Entries) /\ Len(h) \in Nat /\ DOMAIN h = 1 .. Len(h)
      /\ session[s].created \in Nat /\ now \in Nat
      /\ \A n \in 1 .. Len(h) : h[n] \in Entries
  BY SessionFacts, LenProperties, SessionsAssumption DEF Typed
<1>2. \A n \in 1 .. Len(h) : h[n].at \in Nat
  BY <1>1, SessionsAssumption DEF Entries
<1> HIDE DEF h
<1>3. ts \in Seq(Nat) /\ Len(ts) = Len(h) /\ \A n \in 1 .. Len(h) : ts[n] = h[n].at
  <2>1. ts \in [1 .. Len(h) -> Nat]
    BY <1>1, <1>2
  <2>2. ts \in Seq(Nat)
    BY <1>1, <2>1, SeqDef
  <2>3. DOMAIN ts = 1 .. Len(ts) /\ DOMAIN ts = 1 .. Len(h) /\ Len(ts) \in Nat
    BY <1>1, <2>2, LenProperties
  <2>4. Len(ts) = Len(h)
    BY <1>1, <2>3, LenProperties
  <2>5. QED
    BY <1>1, <2>2, <2>4
<1> HIDE DEF ts
<1>4. <<session[s].created>> \in Seq(Nat) /\ <<now>> \in Seq(Nat)
      /\ Len(<<session[s].created>>) = 1 /\ Len(<<now>>) = 1
      /\ <<session[s].created>>[1] = session[s].created /\ <<now>>[1] = now
  BY <1>1
<1> DEFINE a == <<session[s].created>> \o ts
<1>5. a \in Seq(Nat) /\ Len(a) = Len(h) + 1
      /\ a[1] = session[s].created /\ \A n \in 1 .. Len(h) : a[n + 1] = h[n].at
  <2>1. /\ a \in Seq(Nat) /\ Len(a) = 1 + Len(h)
        /\ \A n \in 1 .. 1 + Len(h) :
             a[n] = IF n <= 1 THEN <<session[s].created>>[n] ELSE ts[n - 1]
    BY <1>3, <1>4, ConcatProperties
  <2>2. QED
    BY <1>1, <1>3, <1>4, <2>1
<1>6. Stamps(s) = a \o <<now>>
  BY DEF Stamps, a, ts, h
<1> HIDE DEF a
<1>7. /\ Len(Stamps(s)) = Len(h) + 2
      /\ \A n \in 1 .. Len(h) + 1 : Stamps(s)[n] = a[n]
      /\ Stamps(s)[Len(h) + 2] = now
  <2>1. /\ Len(a \o <<now>>) = Len(h) + 1 + 1
        /\ \A n \in 1 .. Len(h) + 1 + 1 :
             (a \o <<now>>)[n] = IF n <= Len(h) + 1 THEN a[n] ELSE <<now>>[n - (Len(h) + 1)]
    BY <1>4, <1>5, ConcatProperties
  <2>2. QED
    BY <1>1, <1>4, <1>6, <2>1
<1>8. \A n \in 0 .. Len(h) + 1 : Stamps(s)[n + 1] = Stamp(s, n)
  <2>1. Stamps(s)[0 + 1] = Stamp(s, 0)
    BY <1>1, <1>5, <1>7 DEF Stamp
  <2>2. \A n \in 1 .. Len(h) : Stamps(s)[n + 1] = Stamp(s, n)
    <3>1. \A n \in 1 .. Len(h) : Stamp(s, n) = h[n].at
      BY <1>1 DEF Stamp, h
    <3>2. \A n \in 1 .. Len(h) : Stamps(s)[n + 1] = h[n].at
      BY <1>1, <1>5, <1>7
    <3>3. QED
      BY <3>1, <3>2
  <2>3. Stamps(s)[Len(h) + 1 + 1] = Stamp(s, Len(h) + 1)
    BY <1>1, <1>7 DEF Stamp, h
  <2>4. QED
    BY <1>1, <2>1, <2>2, <2>3
<1>9. Idled(s) <=> \E n \in 1 .. Len(h) + 1 : Stamps(s)[n + 1] - Stamps(s)[n] > TTL
  BY <1>1, <1>7 DEF Idled
<1>10. Gap(s) <=> \E n \in 0 .. Len(h) : Stamp(s, n + 1) - Stamp(s, n) > TTL
  BY DEF Gap, h
<1>11. ASSUME NEW n \in 0 .. Len(h)
       PROVE  Stamp(s, n + 1) - Stamp(s, n) = Stamps(s)[(n + 1) + 1] - Stamps(s)[n + 1]
  BY <1>1, <1>8
<1>12. QED
  <2>1. ASSUME NEW n \in 1 .. Len(h) + 1
        PROVE  n - 1 \in 0 .. Len(h) /\ (n - 1) + 1 = n
    BY <1>1
  <2>2. ASSUME NEW n \in 0 .. Len(h)
        PROVE  n + 1 \in 1 .. Len(h) + 1
    BY <1>1
  <2>3. ASSUME Idled(s) PROVE Gap(s)
    <3>1. PICK n \in 1 .. Len(h) + 1 : Stamps(s)[n + 1] - Stamps(s)[n] > TTL
      BY <1>9, <2>3
    <3>2. Stamp(s, (n - 1) + 1) - Stamp(s, n - 1) = Stamps(s)[n + 1] - Stamps(s)[n]
      BY <1>11, <2>1
    <3>3. QED
      BY <1>10, <2>1, <3>1, <3>2
  <2>4. ASSUME Gap(s) PROVE Idled(s)
    BY <1>9, <1>10, <1>11, <2>2, <2>4
  <2>5. QED
    BY <2>3, <2>4

-----------------------------------------------------------------------------
(* What keeps each part of the invariant: only request r moves, and the     *)
(* rest of the state changes in no way that part speaks of.                 *)

(* All but r are as they were.                                              *)
OthersStay(r) ==
  \A q \in Requests \ {r} : req'[q] = req[q] /\ answer'[q] = answer[q]

(* Histories stay as they are, and a session that comes has none.           *)
HistoriesStay ==
  \A s \in Ids : Born(s)' =>
    IF Born(s) THEN session'[s].history = session[s].history
    ELSE session'[s].history = <<>>

(* A request that moves was not answered.                                   *)
LEMMA NotAnswered ==
  ASSUME Inv, NEW r \in Requests, ~ At(r, "done")
  PROVE  answer[r].is = "none"
BY DEF Inv, InOrder, Ordered, Answered

(* Who holds the mutexes, in a step that takes and gives back none.         *)
LEMMA HoldsFrame ==
  ASSUME Inv, NEW r \in Requests, OthersStay(r),
         \A s \in Ids : Holds(r, s)' <=> Holds(r, s),
         smu' = smu
  PROVE  MutexHeld'
<1>1. \A s \in Ids, q \in Requests : Holds(q, s)' <=> Holds(q, s)
  BY DEF OthersStay, Holds, At
<1>2. QED
  BY <1>1 DEF Inv, MutexHeld

(* The ids, in a step that makes no session.                                *)
LEMMA IdsFrame ==
  ASSUME Inv, NEW r \in Requests, OthersStay(r), ~ At(r, "done"),
         \A s \in Ids : Born(s)' <=> Born(s),
         listed' \subseteq listed,
         req'[r].op = req[r].op, req'[r].id = req[r].id,
         req'[r].todo \cup req'[r].gone \subseteq req[r].todo \cup req[r].gone \cup listed,
         At(r, "register")' => At(r, "register"),
         \A s \in Ids : ~ Born(s) => file'[s] = file[s]
  PROVE  IdsUnique'
<1>1. listed' \subseteq {s \in Ids : Born(s)'}
  BY DEF Inv, IdsUnique
<1>2. \A q \in Requests :
        /\ req'[q].op = req[q].op /\ req'[q].id = req[q].id
        /\ req'[q].todo \cup req'[q].gone \subseteq req[q].todo \cup req[q].gone \cup listed
        /\ At(q, "register")' => At(q, "register")
        /\ answer'[q].is # "ok" => answer[q].is # "ok"
  BY NotAnswered DEF OthersStay, At
<1>3. \A q \in Requests : /\ req'[q].id \in Ids => Born(req[q].id)'
                          /\ req'[q].todo \cup req'[q].gone \subseteq {s \in Ids : Born(s)'}
  BY <1>2 DEF Inv, IdsUnique
<1>4. \A p, q \in Requests :
        req'[p].op = "create" /\ req'[p].id \in Ids /\ answer'[p].is # "ok"
          /\ req'[q].id = req'[p].id => q = p
  BY <1>2 DEF Inv, IdsUnique
<1>5. \A p, q \in Requests : At(p, "register")' =>
        /\ req'[p].id \notin listed'
        /\ req'[p].id \notin req'[q].todo \cup req'[q].gone
  <2>1. \A p, q \in Requests : At(p, "register") =>
          req[p].id \notin req[q].todo \cup req[q].gone \cup listed
    BY DEF Inv, IdsUnique
  <2>2. QED
    BY <1>2, <2>1
<1>6. \A s \in Ids : ~ Born(s)' => file'[s] = NoFile
  BY DEF Inv, IdsUnique
<1>7. QED
  BY <1>1, <1>3, <1>4, <1>5, <1>6 DEF IdsUnique

(* Whoever works in a session after a step did so before, or found it in    *)
(* the map.                                                                 *)
LEMMA OutFrame ==
  ASSUME Inv, NEW r \in Requests, OthersStay(r),
         listed' \subseteq listed, torn \subseteq torn',
         \A s \in listed \ listed' : AtWork(s) # {} => s \in torn',
         \A s \in Ids \ listed' : r \in AtWork(s)' => r \in AtWork(s),
         At(r, "sweepdrop")' \/ req'[r].gone \cap listed' = {},
         At(r, "erase")' => req'[r].id \notin listed'
  PROVE  OutOfMap'
<1>1. \A s \in Ids, q \in Requests \ {r} : q \in AtWork(s)' <=> q \in AtWork(s)
  BY DEF OthersStay, AtWork
<1>2. \A s \in Ids \ listed' : AtWork(s)' \subseteq AtWork(s)
  <2>1. \A s \in Ids : AtWork(s)' \subseteq Requests
    BY DEF AtWork
  <2>2. QED
    BY <1>1, <2>1
<1>3. \A s \in Ids \ listed' : AtWork(s)' # {} => s \in torn'
  BY <1>2 DEF Inv, OutOfMap
<1>4. \A q \in Requests : ~ At(q, "sweepdrop")' => req'[q].gone \cap listed' = {}
  BY DEF Inv, OutOfMap, OthersStay, At
<1>5. \A q \in Requests : At(q, "erase")' => req'[q].id \notin listed'
  BY DEF Inv, OutOfMap, OthersStay, At
<1>6. QED
  BY <1>3, <1>4, <1>5 DEF OutOfMap

Makers == {r \in Requests : req[r].op = "create"}

(* A failed write stays one as long as its session's history stays.         *)
LEMMA WriteFailedStays ==
  ASSUME Inv, NEW r \in Requests, OthersStay(r), ~ At(r, "done"), NEW s \in Ids,
         session'[s].history = session[s].history, WriteFailed(s)
  PROVE  WriteFailed(s)'
<1>1. PICK q \in Requests :
        /\ answer[q].is = "failed" /\ req[q].id = s
        /\ IF session[s].history = <<>> THEN req[q].op = "create"
           ELSE session[s].history[Len(session[s].history)].by = q
  BY DEF WriteFailed
<1>2. q # r
  BY <1>1, NotAnswered
<1>3. answer'[q].is = "failed" /\ req'[q].id = s /\ req'[q].op = req[q].op
  BY <1>1, <1>2 DEF OthersStay
<1>4. QED
  BY <1>1, <1>3 DEF WriteFailed

(* A file that may be left over is being erased, by r or as before.         *)
LEMMA FilesKept ==
  ASSUME Inv, NEW r \in Requests, OthersStay(r), ~ At(r, "done"),
         listed' \subseteq listed,
         \A s \in listed' : file'[s] = file[s],
         \A s \in listed' : smu'[s] = Nobody =>
           smu[s] = Nobody /\ session'[s].history = session[s].history,
         ~ (req[r].op = "create" /\ At(r, "persist")),
         \A s \in Ids \ listed' : file'[s] # NoFile /\ s \notin torn' \cup kept' =>
           \/ Erasing(r, s)' \/ ToldOfFile(r, s)'
           \/ \E q \in Requests \ {r} : Erasing(q, s) \/ ToldOfFile(q, s)
  PROVE  FilesMatch'
<1>1. ASSUME NEW s \in listed', smu'[s] = Nobody, AtWork(s)' \cap Makers' = {}
      PROVE  file'[s] = File(session'[s].history) \/ WriteFailed(s)'
  <2>1. s \in Ids /\ s \in listed /\ smu[s] = Nobody /\ session'[s].history = session[s].history
    BY <1>1 DEF Inv, Typed
  <2>2. AtWork(s) \cap Makers = {}
    <3>1. ASSUME NEW q \in Requests, q \in AtWork(s), req[q].op = "create"
          PROVE  FALSE
      <4>1. q # r
        BY <3>1 DEF Inv, InOrder, Ordered, AtWork, At, Sweeping
      <4>2. q \in AtWork(s)' /\ q \in Makers'
        BY <3>1, <4>1 DEF OthersStay, AtWork, Makers
      <4>3. QED
        BY <1>1, <4>2
    <3>2. QED
      BY <3>1 DEF Makers
  <2>3. file[s] = File(session[s].history) \/ WriteFailed(s)
    BY <2>1, <2>2 DEF Inv, FilesMatch, Makers
  <2>4. QED
    BY <1>1, <2>1, <2>3, WriteFailedStays
<1>2. ASSUME NEW s \in Ids \ listed', file'[s] # NoFile, s \notin torn' \cup kept'
      PROVE  \E q \in Requests : Erasing(q, s)' \/ ToldOfFile(q, s)'
  <2>1. \A q \in Requests \ {r} : Erasing(q, s) \/ ToldOfFile(q, s) =>
          Erasing(q, s)' \/ ToldOfFile(q, s)'
    BY DEF OthersStay, Erasing, ToldOfFile, At
  <2>2. QED
    BY <1>2, <2>1
<1>3. QED
  BY <1>1, <1>2 DEF FilesMatch, Makers

(* The files, in a step that writes none and records nothing.               *)
LEMMA FilesFrame ==
  ASSUME Inv, NEW r \in Requests, OthersStay(r), ~ At(r, "done"),
         UNCHANGED <<listed, file, torn, kept>>,
         \A s \in listed : smu'[s] = Nobody =>
           smu[s] = Nobody /\ session'[s].history = session[s].history,
         ~ (req[r].op = "create" /\ At(r, "persist")),
         req[r].gone \subseteq req'[r].gone,
         ~ At(r, "erase")
  PROVE  FilesMatch'
<1>1. ASSUME NEW s \in Ids \ listed', file'[s] # NoFile, s \notin torn' \cup kept'
      PROVE  \/ Erasing(r, s)' \/ ToldOfFile(r, s)'
             \/ \E q \in Requests \ {r} : Erasing(q, s) \/ ToldOfFile(q, s)
  <2>1. PICK q \in Requests : Erasing(q, s) \/ ToldOfFile(q, s)
    BY <1>1 DEF Inv, FilesMatch
  <2>2. Erasing(r, s) => Erasing(r, s)'
    BY DEF Erasing
  <2>3. ~ ToldOfFile(r, s)
    BY NotAnswered DEF ToldOfFile
  <2>4. QED
    BY <2>1, <2>2, <2>3
<1>2. QED
  BY <1>1, FilesKept

(* What of a request's own record the histories speak of.                   *)
LEMMA RecordingFrame ==
  ASSUME Inv, NEW r \in Requests, OthersStay(r), ~ At(r, "done"), before' = before,
         HistoriesStay,
         req'[r].op = req[r].op,
         req'[r].id = req[r].id \/ req[r].op = "create",
         Ran(r)' <=> Ran(r), \A s \in Ids : Born(s) => Born(s)',
         req[r].op = "eval" /\ At(r, "persist")' => At(r, "persist"),
         req[r].op = "history" /\ answer'[r].is = "ok" =>
           /\ answer'[r].history \in Seq(Entries)
           /\ \A q \in before[r] : Recorded(q) /\ req[q].id = req[r].id =>
                \E n \in 1 .. Len(answer'[r].history) : answer'[r].history[n].by = q
  PROVE  Recording'
<1>1. \A q \in Requests : /\ Ran(q)' <=> Ran(q)
                          /\ Ran(q) => /\ req'[q].id = req[q].id /\ req'[q].op = req[q].op
                                       /\ At(q, "persist")' => At(q, "persist")
  BY DEF OthersStay, Ran, At
<1>2. \A q \in Requests : Ran(q) => Born(req[q].id) /\ req[q].id \in Ids
  BY DEF Inv, IdsUnique, InOrder, Ordered, Ran
<1>3. \A s \in Ids : Born(s)' => History1(s)'
  <2> SUFFICES ASSUME NEW s \in Ids, Born(s)'
               PROVE  History1(s)'
    OBVIOUS
  <2>1. CASE Born(s)
    <3>1. session'[s].history = session[s].history
      BY <2>1 DEF HistoriesStay
    <3>2. History1(s)
      BY <2>1 DEF Inv, Recording
    <3>3. \A n \in 1 .. Len(session[s].history) : session[s].history[n].by \in Requests
      BY <2>1, SessionFacts DEF Inv, Entries
    <3>4. QED
      BY <1>1, <3>1, <3>2, <3>3 DEF History1
  <2>2. CASE ~ Born(s)
    <3>1. session'[s].history = <<>>
      BY <2>2 DEF HistoriesStay
    <3>2. QED
      BY <3>1, EmptySeq DEF History1
  <2>3. QED
    BY <2>1, <2>2
<1>4. \A q \in Requests : Ran(q)' => Entered(q)'
  <2> SUFFICES ASSUME NEW q \in Requests, Ran(q)
               PROVE  Entered(q)'
    BY <1>1
  <2>1. Entered(q) /\ session'[req'[q].id].history = session[req[q].id].history
    BY <1>1, <1>2 DEF Inv, Recording, HistoriesStay
  <2>2. QED
    BY <1>1, <2>1 DEF Entered
<1>5. \A q \in Requests : \A p \in before'[q] : Answered(p)'
  <2>1. \A p \in Requests : Answered(p) => Answered(p)'
    BY NotAnswered DEF OthersStay, Answered
  <2>2. \A q \in Requests : before[q] \subseteq Requests
    BY DEF Inv, Typed
  <2>3. QED
    BY <2>1, <2>2 DEF Inv, Recording
<1>6. ASSUME NEW p \in Requests, req'[p].op = "history", answer'[p].is = "ok"
      PROVE  /\ answer'[p].history \in Seq(Entries)
             /\ \A q \in before'[p] : Recorded(q)' /\ req'[q].id = req'[p].id =>
                  \E n \in 1 .. Len(answer'[p].history) : answer'[p].history[n].by = q
  <2>1. \A q \in before[p] : q \in Requests /\ q # r
    BY NotAnswered DEF Inv, Typed, Recording, Answered
  <2>2. \A q \in before[p] : Recorded(q)' /\ req'[q].id = req'[p].id =>
          Recorded(q) /\ req[q].id = req[p].id
    BY <1>6, <2>1 DEF OthersStay, Recorded
  <2>3. QED
    BY <1>6, <2>2 DEF OthersStay, Inv, Recording
<1>7. QED
  BY <1>3, <1>4, <1>5, <1>6 DEF Recording

(* The times recorded, in a step that leaves the clock alone.               *)
LEMMA ClockFrame ==
  ASSUME Inv, NEW r \in Requests, OthersStay(r), now' = now,
         \A s \in Ids : /\ Born(s)' <=> Born(s)
                        /\ session'[s].history = session[s].history
                        /\ session'[s].updatedAt = session[s].updatedAt
                        /\ session'[s].created = session[s].created,
         req'[r].gone \subseteq Ids, req'[r].at <= now,
         \A s \in req'[r].gone : s \in req[r].gone \/ Gap(s),
         At(r, "remove")' /\ req'[r].op # "delete" => req'[r].id \in Ids /\ Gap(req'[r].id)
  PROVE  ClockRead'
<1>1. \A s \in Ids : Gap(s)' <=> Gap(s)
  BY DEF Gap, Stamp
<1>2. \A s \in Ids : Born(s)' => session'[s].updatedAt = Stamp(s, Len(session[s].history))'
  BY DEF Inv, ClockRead, Stamp
<1>3. \A q \in Requests : /\ req[q].gone \subseteq Ids
                          /\ req[q].op # "delete" /\ At(q, "remove") => req[q].id \in Ids
  <2>1. ASSUME NEW q \in Requests, req[q].op # "delete", At(q, "remove")
        PROVE  req[q].id \in Ids
    <3>1. req[q].op \in {"create", "eval", "history", "none"}
      BY <2>1, AskedFacts DEF Inv, Operations
    <3>2. req[q].op \notin {"create", "none"}
      BY <2>1 DEF Inv, InOrder, Ordered, At, Sweeping
    <3>3. QED
      BY <3>1, <3>2 DEF Inv, InOrder, Ordered
  <2>2. QED
    BY <2>1, AskedFacts DEF Inv
<1>4. \A q \in Requests :
        /\ req'[q].at <= now
        /\ \A s \in req'[q].gone : Gap(s)'
        /\ At(q, "remove")' /\ req'[q].op # "delete" => Gap(req[q].id)'
  <2>1. ASSUME NEW q \in Requests \ {r}
        PROVE  /\ req'[q].at <= now
               /\ \A s \in req'[q].gone : Gap(s)'
               /\ At(q, "remove")' /\ req'[q].op # "delete" => Gap(req[q].id)'
    BY <1>1, <1>3 DEF OthersStay, Inv, ClockRead, At
  <2>2. /\ \A s \in req'[r].gone : Gap(s)'
        /\ At(r, "remove")' /\ req'[r].op # "delete" => Gap(req[r].id)'
    BY <1>1 DEF Inv, ClockRead
  <2>3. QED
    BY <2>1, <2>2
<1>5. QED
  BY <1>2, <1>4 DEF ClockRead

-----------------------------------------------------------------------------
(* The initial state *)

(* The server starts within the invariant.                                  *)
LEMMA InitInv ==
  ASSUME Init
  PROVE  Inv
<1> USE SessionsAssumption
<1>1. PICK old \in Olds :
        /\ now = 0
        /\ session = [s \in Ids |-> IF s \in old THEN Made(0) ELSE NoSession]
        /\ listed = old
        /\ mu = Nobody
        /\ smu = [s \in Ids |-> Nobody]
        /\ file = [s \in Ids |-> IF s \in old THEN File(<<>>) ELSE NoFile]
        /\ req = [r \in Requests |-> Unsent]
        /\ answer = [r \in Requests |-> [is |-> "none"]]
        /\ faults = 0
        /\ before = [r \in Requests |-> {}]
        /\ torn = {} /\ kept = {} /\ tasks = {}
  BY DEF Init
<1>2. /\ Made(0) \in Sessions /\ Made(0) # NoSession /\ Made(0).history = <<>>
      /\ Made(0).updatedAt = 0 /\ Made(0).created = 0 /\ old \subseteq Ids
  BY MadeFacts
<1>3. /\ Unsent \in Asked /\ Unsent.op = "none" /\ Unsent.id = NoId /\ Unsent.pc = "unsent"
      /\ Unsent.at = 0 /\ Unsent.todo = {} /\ Unsent.gone = {}
  BY DEF Unsent, Asked, Stages
<1>4. File(<<>>) \in Files /\ NoFile \in Files
  BY EmptySeq DEF File, Files
<1>5. [is |-> "none"] \in Answers /\ [is |-> "none"].is = "none"
  BY DEF Answers
<1>6. /\ \A r \in Requests : req[r] = Unsent /\ answer[r].is = "none" /\ before[r] = {}
      /\ \A s \in Ids : /\ smu[s] = Nobody
                        /\ s \in old => session[s] = Made(0) /\ file[s] = File(<<>>)
                        /\ s \notin old => session[s] = NoSession /\ file[s] = NoFile
  BY <1>1, <1>5
<1>7. Typed
  <2>1. req \in [Requests -> Asked] /\ file \in [Ids -> Files]
        /\ session \in [Ids -> {NoSession} \cup Sessions]
    BY <1>1, <1>2, <1>3, <1>4
  <2>2. answer \in [Requests -> Answers]
    BY <1>1, <1>5
  <2>3. QED
    BY <1>1, <1>2, <2>1, <2>2 DEF Typed
<1>8. InOrder
  BY <1>3, <1>6 DEF InOrder, Ordered, At, Answered
<1>9. MutexHeld
  BY <1>3, <1>6 DEF MutexHeld, Holds, At, Nobody
<1>10. IdsUnique
  BY <1>1, <1>2, <1>3, <1>6 DEF IdsUnique, Born, At
<1>11. \A s \in Ids : AtWork(s) = {}
  BY <1>3, <1>6 DEF AtWork
<1>12. OutOfMap
  BY <1>3, <1>6, <1>11 DEF OutOfMap, At
<1>13. FilesMatch
  BY <1>1, <1>2, <1>6 DEF FilesMatch
<1>14. Recording
  BY <1>2, <1>3, <1>6, EmptySeq DEF Recording, Born, History1, Ran, At
<1>15. ClockRead
  BY <1>1, <1>2, <1>3, <1>6, EmptySeq DEF ClockRead, Born, Stamp, At
<1>16. QED
  BY <1>7, <1>8, <1>9, <1>10, <1>12, <1>13, <1>14, <1>15 DEF Inv

-----------------------------------------------------------------------------
(* Steps that only take a request on *)

(* What expired has been idle.                                              *)
LEMMA ExpiredIsGap ==
  ASSUME Inv, NEW s \in Ids, Born(s), NEW t \in 0 .. MaxNow, t <= now, Expired(s, t)
  PROVE  Gap(s)
<1> DEFINE k == Len(session[s].history)
<1>1. k \in Nat /\ now \in Nat /\ session[s].updatedAt \in Nat
  BY SessionFacts, SessionsAssumption DEF Inv, Typed
<1>2. Stamp(s, k) = session[s].updatedAt /\ Stamp(s, k + 1) = now
  BY <1>1 DEF Inv, ClockRead, Stamp
<1>3. t \in Nat /\ now - session[s].updatedAt > TTL
  BY <1>1, SessionsAssumption DEF Expired
<1>4. QED
  BY <1>1, <1>2, <1>3 DEF Gap

(* The order of the steps of the requests a step leaves alone.              *)
LEMMA OrderFrame ==
  ASSUME Inv, NEW r \in Requests, OthersStay(r), Ordered(r)'
  PROVE  InOrder'
BY DEF Inv, InOrder, OthersStay, Ordered, At, Answered

(* A step that lets sessions, their mutexes and the clock alone, and may    *)
(* take sessions out of the map or remove files: all but those two.         *)
LEMMA QuietParts ==
  ASSUME Inv, NEW r \in Requests, NEW pc \in Stages, NEW at \in 0 .. MaxNow,
         NEW todo \in SUBSET Ids, NEW gone \in SUBSET Ids,
         Goes(r, pc, at, todo, gone),
         \A q \in Requests \ {r} : answer'[q] = answer[q],
         UNCHANGED <<now, session, smu, before>>,
         req[r].pc \notin {"unsent", "register", "eval", "output", "persist", "done"},
         pc \notin {"unsent", "register", "eval", "output", "persist"},
         listed' \subseteq listed, \A s \in Ids : ~ Born(s) => file'[s] = file[s],
         Ordered(r)',
         at <= now, todo \cup gone \subseteq req[r].todo \cup req[r].gone \cup listed,
         \A s \in gone \ req[r].gone : Gap(s),
         pc = "remove" => Gap(req[r].id) /\ req[r].id \in Ids,
         req[r].op = "eval" => answer'[r].is \notin {"ok", "failed"},
         req[r].op = "history" /\ answer'[r].is = "ok" =>
           /\ answer'[r].history \in Seq(Entries)
           /\ \A q \in before[r] : Recorded(q) /\ req[q].id = req[r].id =>
                \E n \in 1 .. Len(answer'[r].history) : answer'[r].history[n].by = q
  PROVE  InOrder' /\ MutexHeld' /\ IdsUnique' /\ Recording' /\ ClockRead'
<1>1. OthersStay(r) /\ ~ At(r, "done") /\ answer[r].is = "none"
  BY NotAnswered DEF Goes, OthersStay, At
<1>2. /\ req'[r].op = req[r].op /\ req'[r].id = req[r].id
      /\ req'[r].pc = pc /\ req'[r].at = at /\ req'[r].todo = todo /\ req'[r].gone = gone
  BY DEF Goes
<1>3. \A s \in Ids : Born(s)' <=> Born(s)
  BY DEF Born
<1>4. InOrder'
  BY <1>1, OrderFrame
<1>5. MutexHeld'
  <2>1. \A s \in Ids : Holds(r, s)' <=> Holds(r, s)
    BY <1>2 DEF Holds, At
  <2>2. QED
    BY <1>1, <2>1, HoldsFrame
<1>6. IdsUnique'
  <2>1. req'[r].todo \cup req'[r].gone \subseteq req[r].todo \cup req[r].gone \cup listed
    BY <1>2
  <2>2. At(r, "register")' => At(r, "register")
    BY <1>2 DEF At
  <2>3. QED
    BY <1>1, <1>2, <1>3, <2>1, <2>2, IdsFrame
<1>7. Recording'
  <2>1. (Ran(r)' <=> Ran(r)) /\ ~ At(r, "persist")' /\ ~ At(r, "eval")' /\ ~ At(r, "output")'
    BY <1>1, <1>2 DEF Ran, At
  <2>2. HistoriesStay
    BY <1>3 DEF HistoriesStay
  <2>3. \A s \in Ids : Born(s) => Born(s)'
    BY <1>3
  <2>4. req[r].op = "eval" /\ At(r, "persist")' => At(r, "persist")
    BY <2>1
  <2>5. QED
    BY <1>1, <1>2, <2>1, <2>2, <2>3, <2>4, RecordingFrame
<1>8. ClockRead'
  <2>1. At(r, "remove")' => req'[r].id \in Ids /\ Gap(req'[r].id)
    BY <1>2 DEF At
  <2>2. \A s \in req'[r].gone : s \in req[r].gone \/ Gap(s)
    BY <1>2
  <2>3. QED
    BY <1>1, <1>2, <1>3, <2>1, <2>2, ClockFrame
<1>9. QED
  BY <1>4, <1>5, <1>6, <1>7, <1>8

(* A step that changes the request only, and possibly answers it.           *)
LEMMA MoveInv ==
  ASSUME Inv, NEW r \in Requests, NEW pc \in Stages, NEW at \in 0 .. MaxNow,
         NEW todo \in SUBSET Ids, NEW gone \in SUBSET Ids,
         Goes(r, pc, at, todo, gone),
         answer' \in [Requests -> Answers], \A q \in Requests \ {r} : answer'[q] = answer[q],
         mu' \in Requests \cup {Nobody},
         UNCHANGED <<now, session, listed, smu, file, faults, before, torn, kept, tasks>>,
         req[r].pc \notin {"unsent", "register", "eval", "output", "persist", "erase", "done"},
         pc \notin {"unsent", "register", "eval", "output", "persist", "erase"},
         pc \in {"check", "lock"} => req[r].pc \in {"check", "lock"} \/ req[r].id \in listed,
         Ordered(r)',
         at <= now, todo \subseteq req[r].todo \cup listed,
         req[r].gone \subseteq gone, gone \subseteq req[r].gone \cup req[r].todo,
         pc = "sweepdrop" \/ gone \cap listed = {},
         \A s \in gone \ req[r].gone : Gap(s),
         pc = "remove" => Gap(req[r].id) /\ req[r].id \in Ids,
         req[r].op = "eval" => answer'[r].is \notin {"ok", "failed"},
         req[r].op = "history" /\ answer'[r].is = "ok" =>
           /\ answer'[r].history \in Seq(Entries)
           /\ \A q \in before[r] : Recorded(q) /\ req[q].id = req[r].id =>
                \E n \in 1 .. Len(answer'[r].history) : answer'[r].history[n].by = q
  PROVE  Inv'
<1>1. OthersStay(r) /\ ~ At(r, "done")
  BY DEF Goes, OthersStay, At
<1>2. /\ req'[r].op = req[r].op /\ req'[r].id = req[r].id
      /\ req'[r].pc = pc /\ req'[r].gone = gone
  BY DEF Goes
<1>3. Typed'
  BY DEF Inv, Typed, Goes
<1>4. InOrder' /\ MutexHeld' /\ IdsUnique' /\ Recording' /\ ClockRead'
  <2>1. todo \cup gone \subseteq req[r].todo \cup req[r].gone \cup listed
    OBVIOUS
  <2>2. listed' \subseteq listed /\ \A s \in Ids : ~ Born(s) => file'[s] = file[s]
    OBVIOUS
  <2>3. QED
    BY <2>1, <2>2, QuietParts
<1>5. OutOfMap'
  <2>1. \A s \in Ids \ listed' : r \in AtWork(s)' => r \in AtWork(s)
    BY <1>2 DEF AtWork
  <2>2. ~ At(r, "erase")' /\ (At(r, "sweepdrop")' \/ req'[r].gone \cap listed' = {})
    BY <1>2 DEF At
  <2>3. QED
    BY <1>1, <2>1, <2>2, OutFrame
<1>6. FilesMatch'
  BY <1>1, <1>2, FilesFrame DEF At
<1>7. QED
  BY <1>3, <1>4, <1>5, <1>6 DEF Inv

(* A sweep that starts keeps the invariant.                                 *)
LEMMA SweepStartInv ==
  ASSUME Inv, NEW r \in Requests, SweepStart(r)
  PROVE  Inv'
<1>1. /\ req[r].pc = "sweep" /\ mu' = r
      /\ UNCHANGED <<now, session, listed, smu, file, answer, faults, before, torn, kept, tasks>>
  BY DEF SweepStart, At
<1>2. Goes(r, "sweeping", req[r].at, listed, req[r].gone)
  <2>1. req' = [req EXCEPT ![r] = [req[r] EXCEPT !.pc = "sweeping", !.todo = listed]]
    BY DEF SweepStart, Inv, Typed
  <2> DEFINE new == [req[r] EXCEPT !.pc = "sweeping", !.todo = listed]
  <2>2. /\ new \in Asked /\ new.op = req[r].op /\ new.id = req[r].id /\ new.pc = "sweeping"
        /\ new.at = req[r].at /\ new.todo = listed /\ new.gone = req[r].gone
    BY DEF Inv, Typed, Asked, Stages
  <2> HIDE DEF new
  <2>3. QED
    BY <2>1, <2>2, GoesFacts DEF Inv, new
<1>3. Ordered(r)'
  BY <1>1, <1>2 DEF Inv, InOrder, Ordered, Goes, At, Answered, Sweeping
<1>4. req[r].gone = {} /\ answer[r].is = "none"
  BY <1>1, NotAnswered DEF Inv, InOrder, Ordered, At
<1>5. answer \in [Requests -> Answers] /\ listed \in SUBSET Ids /\ "sweeping" \in Stages
      /\ req[r].at <= now
  BY DEF Inv, Typed, Stages, ClockRead
<1>6. QED
  BY <1>1, <1>2, <1>3, <1>4, <1>5, AskedFacts, MoveInv DEF Inv

(* A sweep that looks at a session keeps the invariant.                     *)
LEMMA SweepLookInv ==
  ASSUME Inv, NEW r \in Requests, NEW s \in Ids, SweepLook(r, s)
  PROVE  Inv'
<1> DEFINE e    == Expired(s, req[r].at)
           gone == IF e THEN req[r].gone \cup {s} ELSE req[r].gone
           pc   == IF e THEN "sweepdrop" ELSE req[r].pc
           todo == req[r].todo \ {s}
<1>1. /\ req[r].pc = "sweeping" /\ s \in req[r].todo
      /\ UNCHANGED <<now, session, listed, mu, smu, file, answer, faults, before, torn, kept, tasks>>
  BY DEF SweepLook, At
<1>2. pc \in {"sweeping", "sweepdrop"} /\ gone \in SUBSET Ids /\ todo \in SUBSET Ids
      /\ (pc = "sweepdrop" <=> e)
  BY <1>1, AskedFacts DEF Inv
<1>3. Goes(r, pc, req[r].at, todo, gone)
  <2> DEFINE new == [req[r] EXCEPT !.todo = todo, !.gone = gone, !.pc = pc]
  <2>1. req' = [req EXCEPT ![r] = new]
    BY DEF SweepLook, Inv, Typed
  <2> HIDE DEF gone, pc, todo
  <2>2. /\ new \in Asked /\ new.op = req[r].op /\ new.id = req[r].id /\ new.pc = pc
        /\ new.at = req[r].at /\ new.todo = todo /\ new.gone = gone
    BY <1>2 DEF Inv, Typed, Asked, Stages
  <2> HIDE DEF new
  <2>3. QED
    BY <2>1, <2>2, GoesFacts DEF Inv
<1>4. /\ req[r].gone \subseteq gone /\ gone \subseteq req[r].gone \cup req[r].todo
      /\ e \/ gone = req[r].gone
      /\ gone \ req[r].gone \subseteq {s}
  BY <1>1
<1>5. e => Gap(s)
  <2>1. Born(s)
    BY <1>1 DEF Inv, IdsUnique
  <2>2. req[r].at \in 0 .. MaxNow /\ req[r].at <= now
    BY AskedFacts DEF Inv, ClockRead
  <2>3. QED
    BY <2>1, <2>2, ExpiredIsGap
<1>6. \A t \in gone \ req[r].gone : Gap(t)
  BY <1>4, <1>5
<1>7. pc = "sweepdrop" \/ gone \cap listed = {}
  BY <1>1, <1>2, <1>4 DEF Inv, OutOfMap, At
<1> HIDE DEF e, gone, pc, todo
<1>8. Ordered(r)'
  BY <1>1, <1>2, <1>3 DEF Inv, InOrder, Ordered, Goes, At, Answered, Sweeping
<1>9. answer \in [Requests -> Answers] /\ mu \in Requests \cup {Nobody} /\ pc \in Stages
      /\ req[r].at <= now
  BY <1>2 DEF Inv, Typed, Stages, ClockRead
<1>10. todo \subseteq req[r].todo \cup listed
  BY DEF todo
<1>11. answer[r].is = "none"
  BY <1>1, NotAnswered DEF At
<1>12. req[r].at \in 0 .. MaxNow
  BY AskedFacts DEF Inv
<1>13. QED
  BY <1>1, <1>2, <1>3, <1>4, <1>6, <1>7, <1>8, <1>9, <1>10, <1>11, <1>12, MoveInv

(* Looking a session up keeps the invariant.                                *)
LEMMA FindInv ==
  ASSUME Inv, NEW r \in Requests, Find(r)
  PROVE  Inv'
<1> DEFINE found == req[r].id \in listed
           pc    == IF found THEN "check" ELSE "done"
<1>1. /\ req[r].pc = "find"
      /\ UNCHANGED <<now, session, listed, mu, smu, file, faults, before, torn, kept, tasks>>
  BY DEF Find, At
<1>2. pc \in Stages /\ (pc = "check" => req[r].id \in listed) /\ pc \in {"check", "done"}
  BY DEF Stages
<1>3. Goes(r, pc, req[r].at, req[r].todo, req[r].gone)
  BY <1>2, GotoFacts DEF Inv, Find
<1>4. /\ answer' \in [Requests -> Answers] /\ \A q \in Requests \ {r} : answer'[q] = answer[q]
      /\ answer'[r].is = IF found THEN "none" ELSE "missing"
  <2>1. answer[r].is = "none"
    BY <1>1, NotAnswered DEF At
  <2>2. QED
    BY <2>1, AnswerFacts DEF Find, Inv, Typed
<1>5. Ordered(r)'
  BY <1>1, <1>3, <1>4 DEF Inv, InOrder, Ordered, Goes, At, Answered, Sweeping
<1>6. req[r].gone = {}
  BY <1>1 DEF Inv, InOrder, Ordered
<1>7. mu \in Requests \cup {Nobody} /\ req[r].at <= now
  BY DEF Inv, Typed, ClockRead
<1> HIDE DEF pc, found
<1>8. answer'[r].is \notin {"ok", "failed"}
  BY <1>4
<1>9. QED
  BY <1>1, <1>2, <1>3, <1>4, <1>5, <1>6, <1>7, <1>8, AskedFacts, MoveInv DEF Inv

(* Testing for expiry keeps the invariant.                                  *)
LEMMA CheckInv ==
  ASSUME Inv, NEW r \in Requests, Check(r)
  PROVE  Inv'
<1> DEFINE e  == Expired(req[r].id, now)
           pc == IF e THEN "remove" ELSE "lock"
<1>1. /\ req[r].pc = "check"
      /\ UNCHANGED <<now, session, listed, mu, smu, file, answer, faults, before, torn, kept, tasks>>
  BY DEF Check, At
<1>2. pc \in Stages /\ pc \in {"remove", "lock"} /\ (pc = "remove" <=> e)
  BY DEF Stages
<1>3. Goes(r, pc, req[r].at, req[r].todo, req[r].gone)
  BY <1>2, GotoFacts DEF Inv, Check
<1>4. req[r].op \in {"eval", "history"} /\ req[r].id \in Ids /\ req[r].gone = {}
  <2>1. req[r].op \in {"create", "eval", "history", "delete", "none"}
    BY AskedFacts DEF Inv, Operations
  <2>2. QED
    BY <1>1, <2>1 DEF Inv, InOrder, Ordered, At, Sweeping
<1>5. e => Gap(req[r].id)
  <2>1. Born(req[r].id) /\ now \in 0 .. MaxNow /\ now <= now
    BY <1>4, SessionsAssumption DEF Inv, IdsUnique, Typed
  <2>2. QED
    BY <1>4, <2>1, ExpiredIsGap
<1> HIDE DEF pc, e
<1>6. Ordered(r)'
  BY <1>1, <1>2, <1>3, <1>4 DEF Inv, InOrder, Ordered, Goes, At, Answered, Sweeping
<1>7. answer \in [Requests -> Answers] /\ mu \in Requests \cup {Nobody} /\ req[r].at <= now
      /\ answer[r].is = "none"
  BY <1>1, NotAnswered DEF Inv, Typed, ClockRead, At
<1>8. QED
  BY <1>1, <1>2, <1>3, <1>4, <1>5, <1>6, <1>7, AskedFacts, MoveInv DEF Inv

(* A sweep that ends keeps the invariant.                                   *)
LEMMA SweepEndInv ==
  ASSUME Inv, NEW r \in Requests, SweepEnd(r)
  PROVE  Inv'
<1> DEFINE pc == IF req[r].gone = {} THEN AfterSweep(r) ELSE "unlink"
<1>1. /\ req[r].pc = "sweeping" /\ mu' = Nobody
      /\ UNCHANGED <<now, session, listed, smu, file, answer, faults, before, torn, kept, tasks>>
  BY DEF SweepEnd, At
<1>2. /\ pc \in {"make", "find", "unlink"} /\ (pc # "unlink" => req[r].gone = {})
      /\ pc = "make" => req[r].op = "create"
      /\ pc = "find" => req[r].op # "create"
  BY DEF AfterSweep
<1>3. Goes(r, pc, 0, req[r].todo, req[r].gone)
  <2> DEFINE new == [req[r] EXCEPT !.at = 0, !.pc = pc]
  <2>1. req' = [req EXCEPT ![r] = new]
    BY DEF SweepEnd, Inv, Typed
  <2> HIDE DEF pc
  <2>2. /\ new \in Asked /\ new.op = req[r].op /\ new.id = req[r].id /\ new.pc = pc
        /\ new.at = 0 /\ new.todo = req[r].todo /\ new.gone = req[r].gone
    <3>1. pc \in Stages /\ 0 \in 0 .. MaxNow
      BY <1>2, SessionsAssumption DEF Stages
    <3>2. QED
      BY <3>1 DEF Inv, Typed, Asked
  <2> HIDE DEF new
  <2>3. QED
    BY <2>1, <2>2, GoesFacts DEF Inv
<1> HIDE DEF pc
<1>4. Ordered(r)'
  <2>1. req[r].op \in {"create", "eval", "history", "delete", "none"}
    BY AskedFacts DEF Inv, Operations
  <2>2. QED
    BY <1>1, <1>2, <1>3, <2>1 DEF Inv, InOrder, Ordered, Goes, At, Answered, Sweeping
<1>5. answer \in [Requests -> Answers] /\ 0 <= now /\ 0 \in 0 .. MaxNow
      /\ answer[r].is = "none" /\ req[r].gone \cap listed = {} /\ pc \in Stages
  BY <1>1, <1>2, NotAnswered, SessionsAssumption DEF Inv, Typed, At, OutOfMap, Stages
<1>6. QED
  BY <1>1, <1>2, <1>3, <1>4, <1>5, AskedFacts, MoveInv DEF Inv

(* Reading the history keeps the invariant.                                 *)
LEMMA HistoryInv ==
  ASSUME Inv, NEW r \in Requests, History(r)
  PROVE  Inv'
<1> DEFINE h == session[req[r].id].history
<1>1. /\ req[r].pc = "lock" /\ req[r].op = "history"
      /\ UNCHANGED <<now, session, listed, mu, smu, file, faults, before, torn, kept, tasks>>
  BY DEF History, At
<1>2. req[r].id \in Ids /\ Born(req[r].id) /\ req[r].gone = {}
  BY <1>1 DEF Inv, InOrder, Ordered, IdsUnique
<1>3. h \in Seq(Entries)
  BY <1>2, SessionFacts DEF Inv
<1>4. Goes(r, "done", req[r].at, req[r].todo, req[r].gone)
  BY GotoFacts DEF Inv, History, Stages
<1> HIDE DEF h
<1>5. /\ answer' \in [Requests -> Answers] /\ \A q \in Requests \ {r} : answer'[q] = answer[q]
      /\ answer'[r].is = "ok" /\ answer'[r].history = h
  <2>1. answer' = [answer EXCEPT ![r] = [is |-> "ok", history |-> h]]
    BY DEF History, h
  <2>2. [is |-> "ok", history |-> h] \in Answers
    BY <1>3 DEF Answers
  <2>3. QED
    BY <2>1, <2>2 DEF Inv, Typed
<1>6. ASSUME NEW q \in before[r], Recorded(q), req[q].id = req[r].id
      PROVE  \E n \in 1 .. Len(h) : h[n].by = q
  <2>1. q \in Requests /\ Ran(q)
    BY <1>6 DEF Inv, Typed, Recorded, Ran
  <2>2. Entered(q)
    BY <2>1 DEF Inv, Recording
  <2>3. QED
    BY <1>6, <2>2 DEF Entered, h
<1>7. Ordered(r)'
  BY <1>1, <1>2, <1>4, <1>5 DEF Ordered, Goes, At, Answered, Sweeping
<1>8. mu \in Requests \cup {Nobody} /\ req[r].at <= now /\ "done" \in Stages
  BY DEF Inv, Typed, ClockRead, Stages
<1>9. /\ answer'[r].history \in Seq(Entries)
      /\ \A q \in before[r] : Recorded(q) /\ req[q].id = req[r].id =>
           \E n \in 1 .. Len(answer'[r].history) : answer'[r].history[n].by = q
  BY <1>3, <1>5, <1>6
<1>10. req[r].gone \cap listed = {} /\ \A s \in req[r].gone \ req[r].gone : Gap(s)
  BY <1>2
<1>11. /\ req[r].at \in 0 .. MaxNow /\ req[r].todo \in SUBSET Ids /\ req[r].gone \in SUBSET Ids
  BY AskedFacts DEF Inv
<1>12. QED
  BY <1>1, <1>4, <1>5, <1>7, <1>8, <1>9, <1>10, <1>11, MoveInv

-----------------------------------------------------------------------------
(* Sessions leave the map, and their files the disk *)

(* Dropping the idle sessions keeps the invariant.                          *)
LEMMA SweepDropInv ==
  ASSUME Inv, NEW r \in Requests, SweepDrop(r)
  PROVE  Inv'
<1> DEFINE out == req[r].gone \cap listed
<1>1. /\ req[r].pc = "sweepdrop" /\ listed' = listed \ out
      /\ torn' = torn \cup {s \in out : AtWork(s) # {}}
      /\ UNCHANGED <<now, session, mu, smu, file, answer, faults, before, kept, tasks>>
  BY DEF SweepDrop, At
<1>2. Goes(r, "sweeping", req[r].at, req[r].todo, req[r].gone)
  BY GotoFacts DEF Inv, SweepDrop, Stages
<1>3. OthersStay(r) /\ ~ At(r, "done") /\ answer[r].is = "none"
  BY <1>1, <1>2, NotAnswered DEF Goes, OthersStay, At
<1>4. Ordered(r)'
  BY <1>1, <1>2 DEF Inv, InOrder, Ordered, Goes, At, Answered, Sweeping
<1>5. InOrder' /\ MutexHeld' /\ IdsUnique' /\ Recording' /\ ClockRead'
  <2>1. req[r].at <= now /\ "sweeping" \in Stages /\ req[r].at \in 0 .. MaxNow
        /\ req[r].todo \in SUBSET Ids /\ req[r].gone \in SUBSET Ids
    BY AskedFacts DEF Inv, ClockRead, Stages
  <2>2. listed' \subseteq listed
    BY <1>1
  <2>3. QED
    BY <1>1, <1>2, <1>3, <1>4, <2>1, <2>2, QuietParts
<1>6. Typed'
  BY <1>1, <1>2 DEF Inv, Typed, Goes
<1>7. req'[r].gone = req[r].gone /\ ~ At(r, "erase")' /\ ~ At(r, "erase")
  BY <1>1, <1>2 DEF Goes, At
<1>8. OutOfMap'
  <2>1. \A s \in Ids \ listed' : r \in AtWork(s)' => r \in AtWork(s)
    BY <1>2 DEF AtWork, Goes
  <2>2. QED
    BY <1>1, <1>3, <1>7, <2>1, OutFrame
<1>9. FilesMatch'
  <2>1. ASSUME NEW s \in Ids \ listed', file'[s] # NoFile, s \notin torn' \cup kept'
        PROVE  \/ Erasing(r, s)' \/ ToldOfFile(r, s)'
               \/ \E q \in Requests \ {r} : Erasing(q, s) \/ ToldOfFile(q, s)
    <3>1. CASE s \in listed
      BY <1>1, <1>7, <2>1, <3>1 DEF Erasing
    <3>2. CASE s \notin listed
      <4>1. PICK q \in Requests : Erasing(q, s) \/ ToldOfFile(q, s)
        BY <1>1, <2>1, <3>2 DEF Inv, FilesMatch
      <4>2. QED
        BY <1>3, <1>7, <4>1 DEF Erasing, ToldOfFile
    <3>3. QED
      BY <3>1, <3>2
  <2>2. ~ (req[r].op = "create" /\ At(r, "persist")) /\ listed' \subseteq listed
    BY <1>1 DEF At
  <2>3. QED
    BY <1>1, <1>3, <2>1, <2>2, FilesKept
<1>10. QED
  BY <1>5, <1>6, <1>8, <1>9 DEF Inv

(* Removing the file of a swept session, or failing to, keeps the           *)
(* invariant.                                                               *)
LEMMA UnlinkedInv ==
  ASSUME Inv, NEW r \in Requests, NEW s \in Ids, At(r, "unlink"), s \in req[r].gone,
         NEW left \in {NoFile, file[s]}, file' = [file EXCEPT ![s] = left],
         req' = [req EXCEPT ![r].gone = @ \ {s},
                            ![r].pc = IF req[r].gone = {s} THEN AfterSweep(r) ELSE @],
         faults' \in 0 .. MaxFaults,
         kept \subseteq kept', kept' \subseteq Ids, left = NoFile \/ s \in kept',
         UNCHANGED <<now, session, listed, mu, smu, answer, before, torn, tasks>>
  PROVE  Inv'
<1> DEFINE pc   == IF req[r].gone = {s} THEN AfterSweep(r) ELSE req[r].pc
           gone == req[r].gone \ {s}
<1>1. req[r].pc = "unlink" /\ file' = [file EXCEPT ![s] = left]
  BY DEF At
<1>2. /\ pc \in {"make", "find", "unlink"} /\ (pc # "unlink" => gone = {})
      /\ pc = "make" => req[r].op = "create"
      /\ pc = "find" => req[r].op # "create"
      /\ gone \in SUBSET Ids
  BY <1>1, AskedFacts DEF AfterSweep, Inv
<1>3. Goes(r, pc, req[r].at, req[r].todo, gone)
  <2> DEFINE new == [req[r] EXCEPT !.gone = gone, !.pc = pc]
  <2>1. req' = [req EXCEPT ![r] = new]
    BY DEF Inv, Typed
  <2> HIDE DEF pc, gone
  <2>2. pc \in Stages
    BY <1>2 DEF Stages
  <2>3. /\ new \in Asked /\ new.op = req[r].op /\ new.id = req[r].id /\ new.pc = pc
        /\ new.at = req[r].at /\ new.todo = req[r].todo /\ new.gone = gone
    BY <1>2, <2>2 DEF Inv, Typed, Asked
  <2> HIDE DEF new
  <2>4. QED
    BY <2>1, <2>3, GoesFacts DEF Inv
<1>4. OthersStay(r) /\ ~ At(r, "done") /\ answer[r].is = "none"
  BY <1>1, <1>3, NotAnswered DEF Goes, OthersStay, At
<1>5. /\ file' \in [Ids -> Files] /\ file'[s] = left
      /\ \A t \in Ids \ {s} : file'[t] = file[t]
      /\ s \notin listed /\ Born(s) /\ req[r].gone \cap listed = {}
  BY <1>1 DEF Inv, Typed, Files, OutOfMap, IdsUnique, At
<1>6. gone \subseteq req[r].gone /\ \A t \in req[r].gone : t = s \/ t \in gone
  OBVIOUS
<1> HIDE DEF pc, gone
<1>7. Ordered(r)'
  <2>1. req[r].op \in {"create", "eval", "history", "delete", "none"}
    BY AskedFacts DEF Inv, Operations
  <2>2. QED
    BY <1>1, <1>2, <1>3, <2>1 DEF Inv, InOrder, Ordered, Goes, At, Answered, Sweeping
<1>8. InOrder' /\ MutexHeld' /\ IdsUnique' /\ Recording' /\ ClockRead'
  <2>1. req[r].at <= now /\ pc \in Stages /\ req[r].at \in 0 .. MaxNow
        /\ req[r].todo \in SUBSET Ids
        /\ req[r].todo \cup gone \subseteq req[r].todo \cup req[r].gone \cup listed
        /\ gone \ req[r].gone = {}
    BY <1>2, <1>6, AskedFacts DEF Inv, ClockRead, Stages
  <2>2. \A t \in Ids : ~ Born(t) => file'[t] = file[t]
    BY <1>5
  <2>3. QED
    BY <1>1, <1>2, <1>3, <1>4, <1>7, <2>1, <2>2, QuietParts
<1>9. Typed'
  BY <1>1, <1>3, <1>5 DEF Inv, Typed, Goes
<1>10. req'[r].gone = gone /\ ~ At(r, "erase")' /\ ~ At(r, "erase")
       /\ \A t \in Ids : r \notin AtWork(t)'
  BY <1>1, <1>2, <1>3 DEF Goes, At, AtWork
<1>11. OutOfMap'
  <2>1. req'[r].gone \cap listed' = {}
    BY <1>1, <1>5, <1>6, <1>10
  <2>2. QED
    BY <1>1, <1>4, <1>10, <2>1, OutFrame
<1>12. FilesMatch'
  <2>1. ASSUME NEW t \in Ids \ listed', file'[t] # NoFile, t \notin torn' \cup kept'
        PROVE  \/ Erasing(r, t)' \/ ToldOfFile(r, t)'
               \/ \E q \in Requests \ {r} : Erasing(q, t) \/ ToldOfFile(q, t)
    <3>1. t # s /\ t \in Ids \ listed /\ file[t] # NoFile /\ t \notin torn \cup kept
      BY <1>1, <1>5, <2>1
    <3>2. PICK q \in Requests : Erasing(q, t) \/ ToldOfFile(q, t)
      BY <3>1 DEF Inv, FilesMatch
    <3>3. QED
      BY <1>4, <1>6, <1>10, <3>1, <3>2 DEF Erasing, ToldOfFile
  <2>2. ~ (req[r].op = "create" /\ At(r, "persist")) /\ \A t \in listed' : file'[t] = file[t]
    BY <1>1, <1>5 DEF At, Inv, Typed
  <2>3. QED
    BY <1>1, <1>4, <2>1, <2>2, FilesKept
<1>13. QED
  BY <1>8, <1>9, <1>11, <1>12 DEF Inv

(* Removing the file of a swept session keeps the invariant.                *)
LEMMA UnlinkInv ==
  ASSUME Inv, NEW r \in Requests, NEW s \in Ids, Unlink(r, s)
  PROVE  Inv'
<1>1. faults' \in 0 .. MaxFaults /\ kept' \subseteq Ids
  BY DEF Unlink, Inv, Typed
<1>2. QED
  BY <1>1, UnlinkedInv DEF Unlink

(* Failing to remove it keeps the invariant.                                *)
LEMMA UnlinkFailsInv ==
  ASSUME Inv, NEW r \in Requests, NEW s \in Ids, UnlinkFails(r, s)
  PROVE  Inv'
<1>1. faults' \in 0 .. MaxFaults /\ kept' \subseteq Ids
  BY SessionsAssumption DEF UnlinkFails, Inv, Typed
<1>2. file' = [file EXCEPT ![s] = file[s]]
  BY DEF UnlinkFails, Inv, Typed
<1>3. QED
  BY <1>1, <1>2, UnlinkedInv DEF UnlinkFails

(* Taking a session out of the map keeps the invariant.                     *)
LEMMA RemoveInv ==
  ASSUME Inv, NEW r \in Requests, Remove(r)
  PROVE  Inv'
<1> DEFINE s     == req[r].id
           found == s \in listed
           pc    == IF found THEN "erase" ELSE "done"
<1>1. /\ req[r].pc = "remove" /\ Goto(r, pc)
      /\ UNCHANGED <<now, session, mu, smu, file, faults, before, kept, tasks>>
      /\ found => /\ listed' = listed \ {s} /\ answer' = answer
                  /\ torn' = torn \cup {t \in {s} : AtWork(t) # {}}
      /\ ~ found => /\ Answer(r, "missing") /\ UNCHANGED <<listed, torn>>
  BY DEF Remove, At
<1>2. pc \in Stages /\ pc \in {"erase", "done"} /\ (pc = "erase" <=> found)
  BY DEF Stages
<1>3. Goes(r, pc, req[r].at, req[r].todo, req[r].gone)
  BY <1>1, <1>2, GotoFacts DEF Inv
<1>4. answer[r].is = "none" /\ ~ At(r, "done") /\ req[r].gone = {}
      /\ req[r].op \in {"eval", "history", "delete"} /\ s \in Ids
  <2>1. req[r].op \in {"create", "eval", "history", "delete", "none"}
    BY AskedFacts DEF Inv, Operations
  <2>2. req[r].op \in {"eval", "history", "delete"}
    BY <1>1, <2>1 DEF Inv, InOrder, Ordered, At, Sweeping
  <2>3. QED
    BY <1>1, <2>2, NotAnswered DEF Inv, InOrder, Ordered, At
<1>5. /\ answer' \in [Requests -> Answers] /\ \A q \in Requests \ {r} : answer'[q] = answer[q]
      /\ answer'[r].is = IF found THEN "none" ELSE "missing"
  BY <1>1, <1>4, AnswerFacts DEF Inv, Typed
<1>6. OthersStay(r)
  BY <1>3, <1>5 DEF Goes, OthersStay
<1>7. /\ listed' \subseteq listed /\ torn \subseteq torn' /\ torn' \subseteq Ids
      /\ listed \ listed' \subseteq {s} /\ s \notin listed'
      /\ \A t \in listed \ listed' : AtWork(t) # {} => t \in torn'
  BY <1>1, <1>4 DEF Inv, Typed
<1> HIDE DEF pc, found, s
<1>8. Ordered(r)'
  BY <1>1, <1>2, <1>3, <1>4, <1>5 DEF Ordered, Goes, At, Answered, Sweeping, s
<1>9. InOrder' /\ MutexHeld' /\ IdsUnique' /\ Recording' /\ ClockRead'
  <2>1. req[r].at <= now /\ req[r].at \in 0 .. MaxNow
        /\ req[r].todo \in SUBSET Ids /\ req[r].gone \in SUBSET Ids
    BY AskedFacts DEF Inv, ClockRead
  <2>2. answer'[r].is \notin {"ok", "failed"}
    BY <1>5
  <2>3. QED
    BY <1>1, <1>2, <1>3, <1>5, <1>7, <1>8, <2>1, <2>2, QuietParts
<1>10. Typed'
  BY <1>1, <1>3, <1>5, <1>7 DEF Inv, Typed, Goes
<1>11. req'[r].gone = {} /\ req'[r].id = s /\ ~ At(r, "erase") /\ (At(r, "erase")' <=> found)
       /\ \A t \in Ids : r \notin AtWork(t)'
  BY <1>1, <1>2, <1>3, <1>4 DEF Goes, At, AtWork, s
<1>12. OutOfMap'
  BY <1>4, <1>6, <1>7, <1>11, OutFrame
<1>13. FilesMatch'
  <2>1. ASSUME NEW t \in Ids \ listed', file'[t] # NoFile, t \notin torn' \cup kept'
        PROVE  \/ Erasing(r, t)' \/ ToldOfFile(r, t)'
               \/ \E q \in Requests \ {r} : Erasing(q, t) \/ ToldOfFile(q, t)
    <3>1. CASE t \in listed
      <4>1. t = s
        BY <1>7, <2>1, <3>1
      <4>2. found
        BY <3>1, <4>1 DEF found
      <4>3. QED
        BY <1>11, <4>1, <4>2 DEF Erasing
    <3>2. CASE t \notin listed
      <4>1. PICK q \in Requests : Erasing(q, t) \/ ToldOfFile(q, t)
        BY <1>1, <1>7, <2>1, <3>2 DEF Inv, FilesMatch
      <4>2. QED
        BY <1>4, <1>11, <4>1 DEF Erasing, ToldOfFile
    <3>3. QED
      BY <3>1, <3>2
  <2>2. ~ (req[r].op = "create" /\ At(r, "persist"))
    BY <1>1 DEF At
  <2>3. QED
    BY <1>1, <1>4, <1>6, <1>7, <2>1, <2>2, FilesKept
<1>14. QED
  BY <1>9, <1>10, <1>12, <1>13 DEF Inv

(* Removing the file of a session that was deleted or found expired, or     *)
(* failing to, keeps the invariant.                                         *)
LEMMA ErasedInv ==
  ASSUME Inv, NEW r \in Requests, At(r, "erase"), Goto(r, "done"),
         NEW is \in {"ok", "missing", "failed"}, Answer(r, is),
         is # "missing" => req[r].op = "delete",
         NEW left \in {NoFile, file[req[r].id]},
         file' = [file EXCEPT ![req[r].id] = left],
         faults' \in 0 .. MaxFaults,
         kept \subseteq kept', kept' \subseteq Ids,
         left = NoFile \/ req[r].id \in kept' \/ (is = "failed" /\ req[r].op = "delete"),
         UNCHANGED <<now, session, listed, mu, smu, before, torn, tasks>>
  PROVE  Inv'
<1>1. /\ req[r].pc = "erase" /\ Goto(r, "done") /\ Answer(r, is)
      /\ file' = [file EXCEPT ![req[r].id] = left]
  BY DEF At
<1>2. Goes(r, "done", req[r].at, req[r].todo, req[r].gone)
  BY <1>1, GotoFacts DEF Inv, Stages
<1>3. answer[r].is = "none" /\ ~ At(r, "done") /\ req[r].gone = {}
      /\ req[r].op \in {"eval", "history", "delete"}
  <2>1. req[r].op \in {"create", "eval", "history", "delete", "none"}
    BY AskedFacts DEF Inv, Operations
  <2>2. QED
    BY <1>1, <2>1, NotAnswered DEF Inv, InOrder, Ordered, At, Sweeping
<1>4. PICK s \in Ids : s = req[r].id /\ s \notin listed /\ Born(s)
  BY <1>1, <1>3 DEF Inv, InOrder, Ordered, OutOfMap, IdsUnique, At
<1>5. /\ answer' \in [Requests -> Answers] /\ \A q \in Requests \ {r} : answer'[q] = answer[q]
      /\ answer'[r].is = is /\ is # "none" /\ (is # "missing" => req[r].op = "delete")
  BY <1>1, AnswerFacts DEF Inv
<1>6. OthersStay(r)
  BY <1>2, <1>5 DEF Goes, OthersStay
<1>7. /\ file' \in [Ids -> Files] /\ file'[s] = left
      /\ \A t \in Ids \ {s} : file'[t] = file[t]
  BY <1>1, <1>4 DEF Inv, Typed, Files
<1>8. Ordered(r)'
  BY <1>1, <1>2, <1>3, <1>4, <1>5 DEF Ordered, Goes, At, Answered, Sweeping
<1>9. InOrder' /\ MutexHeld' /\ IdsUnique' /\ Recording' /\ ClockRead'
  <2>1. req[r].at <= now /\ req[r].at \in 0 .. MaxNow /\ "done" \in Stages
        /\ req[r].todo \in SUBSET Ids /\ req[r].gone \in SUBSET Ids
    BY AskedFacts DEF Inv, ClockRead, Stages
  <2>2. \A t \in Ids : ~ Born(t) => file'[t] = file[t]
    BY <1>4, <1>7
  <2>3. /\ req[r].op = "eval" => answer'[r].is \notin {"ok", "failed"}
        /\ req[r].op = "history" => answer'[r].is # "ok"
    BY <1>5
  <2>4. QED
    BY <1>1, <1>2, <1>5, <1>8, <2>1, <2>2, <2>3, QuietParts
<1>10. Typed'
  BY <1>1, <1>2, <1>5, <1>7 DEF Inv, Typed, Goes
<1>11. req'[r].gone = {} /\ ~ At(r, "erase")' /\ \A t \in Ids : r \notin AtWork(t)'
  BY <1>2, <1>3 DEF Goes, At, AtWork
<1>12. OutOfMap'
  BY <1>1, <1>6, <1>11, OutFrame
<1>13. FilesMatch'
  <2>1. ASSUME NEW t \in Ids \ listed', file'[t] # NoFile, t \notin torn' \cup kept'
        PROVE  \/ Erasing(r, t)' \/ ToldOfFile(r, t)'
               \/ \E q \in Requests \ {r} : Erasing(q, t) \/ ToldOfFile(q, t)
    <3>1. CASE t = s
      BY <1>2, <1>4, <1>5, <1>7, <2>1, <3>1 DEF ToldOfFile, Goes
    <3>2. CASE t # s
      <4>1. t \in Ids \ listed /\ file[t] # NoFile /\ t \notin torn \cup kept
        BY <1>1, <1>7, <2>1, <3>2
      <4>2. PICK q \in Requests : Erasing(q, t) \/ ToldOfFile(q, t)
        BY <4>1 DEF Inv, FilesMatch
      <4>3. QED
        BY <1>3, <1>4, <3>2, <4>2 DEF Erasing, ToldOfFile
    <3>3. QED
      BY <3>1, <3>2
  <2>2. ~ (req[r].op = "create" /\ At(r, "persist")) /\ \A t \in listed' : file'[t] = file[t]
    BY <1>1, <1>4, <1>7 DEF At, Inv, Typed
  <2>3. QED
    BY <1>1, <1>3, <1>6, <2>1, <2>2, FilesKept
<1>14. QED
  BY <1>9, <1>10, <1>12, <1>13 DEF Inv

(* Removing the file keeps the invariant.                                   *)
LEMMA EraseInv ==
  ASSUME Inv, NEW r \in Requests, Erase(r)
  PROVE  Inv'
<1>1. faults' \in 0 .. MaxFaults /\ kept' \subseteq Ids
  BY DEF Erase, Inv, Typed
<1>2. PICK is \in {"ok", "missing"} :
        Answer(r, is) /\ (is = "ok" => req[r].op = "delete")
  BY DEF Erase
<1>3. QED
  BY <1>1, <1>2, ErasedInv DEF Erase

(* Failing to keeps the invariant.                                          *)
LEMMA EraseFailsInv ==
  ASSUME Inv, NEW r \in Requests, EraseFails(r)
  PROVE  Inv'
<1>1. faults' \in 0 .. MaxFaults
  BY SessionsAssumption DEF EraseFails, Inv, Typed
<1>2. req[r].id \in Ids
  <2>1. req[r].op \in {"create", "eval", "history", "delete", "none"}
    BY AskedFacts DEF Inv, Operations
  <2>2. QED
    BY <2>1 DEF EraseFails, Inv, InOrder, Ordered, At, Sweeping
<1>3. kept \subseteq kept' /\ kept' \subseteq Ids
  BY <1>2 DEF EraseFails, Inv, Typed
<1>4. file' = [file EXCEPT ![req[r].id] = file[req[r].id]]
  BY DEF EraseFails, Inv, Typed
<1>5. CASE req[r].op = "delete"
  BY <1>1, <1>3, <1>4, <1>5, ErasedInv DEF EraseFails
<1>6. CASE req[r].op # "delete"
  <2>1. Answer(r, "missing") /\ req[r].id \in kept'
    BY <1>6 DEF EraseFails
  <2>2. QED
    BY <1>1, <1>3, <1>4, <2>1, ErasedInv DEF EraseFails
<1>7. QED
  BY <1>5, <1>6

-----------------------------------------------------------------------------
(* Evaluations *)

(* Whoever is evaluating holds the mutex of a session that is there.        *)
LEMMA EvalFacts ==
  ASSUME Inv, NEW q \in Requests,
         req[q].pc \in {"lock", "eval", "output"} \/ (req[q].op = "eval" /\ At(q, "persist"))
  PROVE  /\ req[q].id \in Ids /\ Born(req[q].id) /\ req[q].gone = {}
         /\ ~ At(q, "lock") => req[q].op = "eval" /\ smu[req[q].id] = q
<1>1. req[q].op \in {"create", "eval", "history", "delete", "none"}
  BY AskedFacts DEF Inv, Operations
<1>2. req[q].op \in {"eval", "history"}
  BY <1>1 DEF Inv, InOrder, Ordered, At, Sweeping
<1>3. req[q].id \in Ids /\ Born(req[q].id) /\ req[q].gone = {}
  BY <1>2 DEF Inv, InOrder, Ordered, IdsUnique, At
<1>4. ~ At(q, "lock") => req[q].op = "eval" /\ Holds(q, req[q].id)
  BY <1>2 DEF Inv, InOrder, Ordered, Holds, At, Sweeping
<1>5. QED
  BY <1>3, <1>4 DEF Inv, MutexHeld

(* A program is started, or it or a task prints.                            *)
LEMMA ConsoleFacts ==
  ASSUME Typed, NEW s \in Ids, Born(s), NEW c \in Consoles,
         session' = [session EXCEPT ![s].console = c]
  PROVE  /\ session' \in [Ids -> {NoSession} \cup Sessions]
         /\ session'[s].console = c
         /\ \A t \in Ids : /\ Born(t)' <=> Born(t)
                           /\ session'[t].history = session[t].history
                           /\ session'[t].updatedAt = session[t].updatedAt
                           /\ session'[t].created = session[t].created
         /\ \A t \in Ids \ {s} : session'[t] = session[t]
<1>1. session[s] \in Sessions
  BY SessionFacts
<1> DEFINE new == [session[s] EXCEPT !.console = c]
<1>2. /\ new \in Sessions /\ new.state = "made" /\ new.console = c
      /\ new.history = session[s].history /\ new.updatedAt = session[s].updatedAt
      /\ new.created = session[s].created
  BY <1>1 DEF Sessions
<1>3. session' = [session EXCEPT ![s] = new]
  OBVIOUS
<1> HIDE DEF new
<1>4. new # NoSession
  BY <1>2 DEF NoSession
<1>5. session'[s] = new /\ \A t \in Ids \ {s} : session'[t] = session[t]
  BY <1>3 DEF Typed
<1>6. session' \in [Ids -> {NoSession} \cup Sessions]
  BY <1>2, <1>3 DEF Typed
<1>7. QED
  BY <1>2, <1>4, <1>5, <1>6 DEF Born

(* What holds of a step that writes the console of the session r evaluates  *)
(* in: all but the mutex.                                                   *)
LEMMA ConsoleParts ==
  ASSUME Inv, NEW r \in Requests, NEW pc \in {"eval", "output"},
         req[r].op = "eval", req[r].pc \in {"lock", "eval"}, Goto(r, pc),
         NEW s \in Ids, s = req[r].id, NEW c \in Consoles,
         session' = [session EXCEPT ![s].console = c],
         smu' \in [Ids -> Requests \cup {Nobody}],
         smu'[s] = r, \A t \in Ids \ {s} : smu'[t] = smu[t],
         tasks' \subseteq Spawners,
         UNCHANGED <<now, listed, mu, file, answer, faults, before, torn, kept>>
  PROVE  Typed' /\ InOrder' /\ IdsUnique' /\ OutOfMap' /\ FilesMatch' /\ Recording' /\ ClockRead'
<1>1. Goes(r, pc, req[r].at, req[r].todo, req[r].gone) /\ "eval" \in Stages /\ "output" \in Stages
  BY GotoFacts DEF Inv, Stages
<1>2. Born(s) /\ req[r].gone = {}
  BY EvalFacts DEF At
<1>3. /\ session' \in [Ids -> {NoSession} \cup Sessions]
      /\ session'[s].console = c
      /\ \A t \in Ids : /\ Born(t)' <=> Born(t)
                        /\ session'[t].history = session[t].history
                        /\ session'[t].updatedAt = session[t].updatedAt
                        /\ session'[t].created = session[t].created
      /\ \A t \in Ids \ {s} : session'[t] = session[t]
  BY <1>2, ConsoleFacts DEF Inv
<1>4. OthersStay(r) /\ ~ At(r, "done") /\ answer[r].is = "none"
  BY <1>1, NotAnswered DEF Goes, OthersStay, At
<1>5. /\ req'[r].op = "eval" /\ req'[r].id = s /\ req'[r].pc = pc
      /\ req'[r].at = req[r].at /\ req'[r].todo = req[r].todo /\ req'[r].gone = req[r].gone
  BY <1>1 DEF Goes
<1>6. Typed'
  BY <1>1, <1>3 DEF Inv, Typed, Goes
<1>7. InOrder'
  <2>1. Ordered(r)'
    BY <1>2, <1>4, <1>5 DEF Ordered, At, Answered, Sweeping
  <2>2. QED
    BY <1>4, <2>1, OrderFrame
<1>8. IdsUnique'
  <2>1. At(r, "register")' => At(r, "register")
    BY <1>5 DEF At
  <2>2. QED
    BY <1>3, <1>4, <1>5, <2>1, IdsFrame
<1>9. OutOfMap'
  <2>1. \A t \in Ids \ listed' : r \in AtWork(t)' => r \in AtWork(t)
    BY <1>5 DEF AtWork
  <2>2. ~ At(r, "erase")' /\ req'[r].gone \cap listed' = {}
    BY <1>2, <1>5 DEF At
  <2>3. QED
    BY <1>4, <2>1, <2>2, OutFrame
<1>10. FilesMatch'
  <2>1. \A t \in listed : smu'[t] = Nobody =>
          smu[t] = Nobody /\ session'[t].history = session[t].history
    BY <1>3, SessionsAssumption DEF Nobody, Inv, Typed
  <2>2. ~ At(r, "erase") /\ ~ (req[r].op = "create" /\ At(r, "persist"))
    BY DEF At
  <2>3. QED
    BY <1>4, <1>5, <2>1, <2>2, FilesFrame
<1>11. Recording'
  <2>1. ~ Ran(r)' /\ ~ Ran(r) /\ ~ At(r, "persist")'
    BY <1>4, <1>5 DEF Ran, At
  <2>2. HistoriesStay
    BY <1>3 DEF HistoriesStay
  <2>3. QED
    BY <1>3, <1>4, <1>5, <2>1, <2>2, RecordingFrame
<1>12. ClockRead'
  <2>1. ~ At(r, "remove")' /\ req'[r].gone = {} /\ req'[r].at <= now
    BY <1>2, <1>5 DEF At, Inv, ClockRead
  <2>2. QED
    BY <1>3, <1>4, <2>1, ClockFrame
<1>13. QED
  BY <1>6, <1>7, <1>8, <1>9, <1>10, <1>11, <1>12

(* Locking a session keeps the invariant.                                   *)
LEMMA LockInv ==
  ASSUME Inv, NEW r \in Requests, Lock(r)
  PROVE  Inv'
<1>1. /\ req[r].pc = "lock" /\ req[r].op = "eval" /\ smu[req[r].id] = Nobody
      /\ smu' = [smu EXCEPT ![req[r].id] = r]
      /\ session' = [session EXCEPT ![req[r].id].console = <<>>]
      /\ Goto(r, "eval")
      /\ UNCHANGED <<now, listed, mu, file, answer, faults, before, torn, kept, tasks>>
  BY DEF Lock, At
<1>2. PICK s \in Ids : s = req[r].id
  BY <1>1, EvalFacts
<1>3. smu' \in [Ids -> Requests \cup {Nobody}] /\ smu'[s] = r
      /\ \A t \in Ids \ {s} : smu'[t] = smu[t]
  BY <1>1, <1>2 DEF Inv, Typed
<1>4. \A q \in Requests : ~ Holds(q, s)
  BY <1>1, <1>2, SessionsAssumption DEF Inv, MutexHeld, Nobody
<1>5. <<>> \in Consoles /\ tasks' \subseteq Spawners
  BY <1>1, EmptySeq DEF Consoles, Inv, Typed
<1>6. Typed' /\ InOrder' /\ IdsUnique' /\ OutOfMap' /\ FilesMatch' /\ Recording' /\ ClockRead'
  BY <1>1, <1>2, <1>3, <1>4, <1>5, ConsoleParts
<1>7. MutexHeld'
  <2>1. Goes(r, "eval", req[r].at, req[r].todo, req[r].gone)
    BY <1>1, GotoFacts DEF Inv, Stages
  <2>2. ASSUME NEW t \in Ids, NEW q \in Requests \ {r}
        PROVE  smu'[t] = q <=> Holds(q, t)'
    BY <1>3, <1>4, <2>1 DEF Goes, Holds, At, Inv, MutexHeld
  <2>3. ASSUME NEW t \in Ids
        PROVE  smu'[t] = r <=> Holds(r, t)'
    <3>1. Holds(r, t)' <=> t = s
      BY <1>2, <2>1 DEF Goes, Holds, At
    <3>2. smu[t] # r \/ t = s
      BY <1>1, <1>2 DEF Inv, MutexHeld, Holds, At
    <3>3. QED
      BY <1>3, <3>1, <3>2
  <2>4. QED
    BY <2>2, <2>3 DEF MutexHeld
<1>8. QED
  BY <1>6, <1>7 DEF Inv

(* A program that prints keeps the invariant.                               *)
LEMMA PrintsInv ==
  ASSUME Inv, NEW r \in Requests, Prints(r)
  PROVE  Inv'
<1>1. /\ req[r].pc = "eval" /\ Goto(r, "output")
      /\ UNCHANGED <<now, listed, mu, smu, file, answer, faults, before, torn, kept>>
      /\ tasks' \subseteq Spawners
  BY DEF Prints, At, Inv, Typed
<1>2. PICK s \in Ids : s = req[r].id /\ smu[s] = r /\ Born(s) /\ req[r].op = "eval"
  BY <1>1, EvalFacts DEF At
<1> DEFINE had == session[s].console
           c   == IF had = Mixed THEN Mixed ELSE Append(had, r)
<1>3. session' = [session EXCEPT ![s].console = c]
  BY <1>2 DEF Prints
<1>4. c \in Consoles
  <2>1. had \in Consoles
    BY <1>2, SessionFacts DEF Inv
  <2>2. CASE had = Mixed
    BY <2>2 DEF Consoles
  <2>3. CASE had # Mixed
    <3>1. had \in Seq(Requests)
      BY <2>1, <2>3 DEF Consoles
    <3>2. Append(had, r) \in Seq(Requests)
      BY <3>1, AppendProperties
    <3>3. QED
      BY <2>3, <3>2 DEF Consoles
  <2>4. QED
    BY <2>2, <2>3
<1> HIDE DEF c
<1>5. smu' \in [Ids -> Requests \cup {Nobody}] /\ smu'[s] = r
      /\ \A t \in Ids \ {s} : smu'[t] = smu[t]
  BY <1>1, <1>2 DEF Inv, Typed
<1>6. Typed' /\ InOrder' /\ IdsUnique' /\ OutOfMap' /\ FilesMatch' /\ Recording' /\ ClockRead'
  BY <1>1, <1>2, <1>3, <1>4, <1>5, ConsoleParts
<1>7. MutexHeld'
  <2>1. Goes(r, "output", req[r].at, req[r].todo, req[r].gone)
    BY <1>1, GotoFacts DEF Inv, Stages
  <2>2. OthersStay(r) /\ \A t \in Ids : Holds(r, t)' <=> Holds(r, t)
    BY <1>1, <2>1 DEF Goes, OthersStay, Holds, At
  <2>3. QED
    BY <1>1, <2>2, HoldsFrame
<1>8. QED
  BY <1>6, <1>7 DEF Inv

(* What a task prints changes a console only, while a program runs there.   *)
LEMMA TaskPrintsFacts ==
  ASSUME Inv, NEW q \in Requests, TaskPrints(q)
  PROVE  /\ \A t \in Ids : /\ Born(t)' <=> Born(t)
                           /\ session'[t].history = session[t].history
                           /\ session'[t].updatedAt = session[t].updatedAt
                           /\ session'[t].created = session[t].created
         /\ session' \in [Ids -> {NoSession} \cup Sessions]
         /\ req[q].id \in Ids /\ session'[req[q].id].console = Mixed
         /\ \A t \in Ids \ {req[q].id} : session'[t] = session[t]
         /\ \E r \in Requests : req[r].pc \in {"eval", "output"}
         /\ UNCHANGED <<now, listed, mu, smu, file, req, answer, faults, before, torn,
                        kept, tasks>>
<1>1. PICK r \in Requests : req[r].id = req[q].id /\ req[r].pc \in {"eval", "output"}
  BY DEF TaskPrints
<1>2. PICK s \in Ids : s = req[q].id /\ Born(s)
  BY <1>1, EvalFacts
<1>3. session' = [session EXCEPT ![s].console = Mixed] /\ Mixed \in Consoles
  BY <1>2 DEF TaskPrints, Consoles
<1>4. QED
  BY <1>1, <1>2, <1>3, ConsoleFacts DEF TaskPrints, Inv

(* A task that prints keeps the invariant.                                  *)
LEMMA TaskPrintsInv ==
  ASSUME Inv, NEW q \in Requests, TaskPrints(q)
  PROVE  Inv'
<1>1. PICK r \in Requests : req[r].pc \in {"eval", "output"}
  BY TaskPrintsFacts
<1>2. /\ \A t \in Ids : /\ Born(t)' <=> Born(t)
                        /\ session'[t].history = session[t].history
                        /\ session'[t].updatedAt = session[t].updatedAt
                        /\ session'[t].created = session[t].created
      /\ session' \in [Ids -> {NoSession} \cup Sessions]
      /\ UNCHANGED <<now, listed, mu, smu, file, req, answer, faults, before, torn,
                     kept, tasks>>
  BY TaskPrintsFacts
<1>3. Typed'
  BY <1>2 DEF Inv, Typed
<1>4. InOrder' /\ MutexHeld'
  BY <1>2 DEF Inv, InOrder, Ordered, MutexHeld, Holds, At, Answered
<1>5. OutOfMap'
  BY <1>2 DEF Inv, OutOfMap, AtWork, At
<1>6. OthersStay(r) /\ ~ At(r, "done") /\ ~ At(r, "erase") /\ ~ At(r, "remove")
      /\ req[r].op = "eval" /\ answer[r].is = "none" /\ req[r].gone = {}
  BY <1>1, <1>2, EvalFacts, NotAnswered DEF OthersStay, At
<1>7. /\ req'[r].op = "eval" /\ req'[r].id = req[r].id /\ req'[r].at = req[r].at
      /\ req'[r].todo = req[r].todo /\ req'[r].gone = {}
      /\ \A pc \in Stages : At(r, pc)' <=> At(r, pc)
  BY <1>2, <1>6 DEF At
<1>8. IdsUnique'
  <2>1. /\ listed' \subseteq listed /\ \A t \in Ids : ~ Born(t) => file'[t] = file[t]
        /\ req'[r].todo \cup req'[r].gone \subseteq req[r].todo \cup req[r].gone \cup listed
        /\ At(r, "register")' => At(r, "register")
    BY <1>2, <1>7 DEF Stages
  <2>2. QED
    BY <1>2, <1>6, <1>7, <2>1, IdsFrame
<1>9. FilesMatch'
  <2>1. \A t \in listed : smu'[t] = Nobody =>
          smu[t] = Nobody /\ session'[t].history = session[t].history
    BY <1>2 DEF Inv, Typed
  <2>2. ~ (req[r].op = "create" /\ At(r, "persist")) /\ req[r].gone \subseteq req'[r].gone
    BY <1>6, <1>7
  <2>3. UNCHANGED <<listed, file, torn, kept>>
    BY <1>2
  <2>4. QED
    BY <1>6, <2>1, <2>2, <2>3, FilesFrame
<1>10. Recording'
  <2>1. HistoriesStay /\ \A t \in Ids : Born(t) => Born(t)'
    BY <1>2 DEF HistoriesStay
  <2>2. (Ran(r)' <=> Ran(r)) /\ (At(r, "persist")' => At(r, "persist")) /\ before' = before
    BY <1>2 DEF Ran, At
  <2>3. QED
    BY <1>6, <1>7, <2>1, <2>2, RecordingFrame
<1>11. ClockRead'
  <2>1. /\ ~ At(r, "remove")' /\ req'[r].gone \subseteq Ids /\ req'[r].at <= now
        /\ \A t \in req'[r].gone : t \in req[r].gone \/ Gap(t)
        /\ now' = now
    BY <1>2, <1>6, <1>7 DEF Inv, ClockRead, Stages
  <2>2. QED
    BY <1>2, <1>6, <2>1, ClockFrame
<1>12. QED
  BY <1>3, <1>4, <1>5, <1>8, <1>9, <1>10, <1>11 DEF Inv

(* A session's history with an entry more.                                  *)
WithEntry(x, e) == [x EXCEPT !.history = Append(x.history, e), !.updatedAt = e.at]
(* What recording an entry makes of the sessions.                           *)
LEMMA EntryFacts ==
  ASSUME Typed, NEW s \in Ids, Born(s), NEW e \in Entries,
         session' = [session EXCEPT ![s] = WithEntry(session[s], e)]
  PROVE  /\ session' \in [Ids -> {NoSession} \cup Sessions]
         /\ \A t \in Ids : Born(t)' <=> Born(t)
         /\ \A t \in Ids \ {s} : session'[t] = session[t]
         /\ session'[s].updatedAt = e.at /\ session'[s].created = session[s].created
         /\ Len(session'[s].history) = Len(session[s].history) + 1
         /\ \A n \in 1 .. Len(session[s].history) :
              session'[s].history[n] = session[s].history[n]
         /\ session'[s].history[Len(session[s].history) + 1] = e
<1> DEFINE h   == session[s].history
           new == WithEntry(session[s], e)
<1>1. session[s] \in Sessions /\ h \in Seq(Entries) /\ e.at \in 0 .. MaxNow
  BY SessionFacts DEF Entries
<1> HIDE DEF h
<1>2. /\ Append(h, e) \in Seq(Entries) /\ Len(Append(h, e)) = Len(h) + 1
      /\ \A n \in 1 .. Len(h) : Append(h, e)[n] = h[n]
      /\ Append(h, e)[Len(h) + 1] = e
  BY <1>1, AppendProperties
<1>3. /\ new \in Sessions /\ new.state = "made" /\ new.history = Append(h, e)
      /\ new.updatedAt = e.at /\ new.created = session[s].created
  BY <1>1, <1>2 DEF Sessions, WithEntry, h
<1>4. session' = [session EXCEPT ![s] = new]
  OBVIOUS
<1> HIDE DEF new
<1>5. new # NoSession
  BY <1>3 DEF NoSession
<1>6. session'[s] = new /\ \A t \in Ids \ {s} : session'[t] = session[t]
  BY <1>4 DEF Typed
<1>7. session' \in [Ids -> {NoSession} \cup Sessions]
  BY <1>3, <1>4 DEF Typed
<1>8. \A t \in Ids : Born(t)' <=> Born(t)
  BY <1>5, <1>6 DEF Born
<1>9. QED
  BY <1>2, <1>3, <1>6, <1>7, <1>8 DEF h

(* An evaluation that ends leaves an entry with what its console held.      *)
LEMMA EvaluatedFacts ==
  ASSUME Inv, NEW r \in Requests, Evaluated(r)
  PROVE  \E s \in Ids, e \in Entries :
           /\ s = req[r].id /\ Born(s) /\ smu[s] = r
           /\ e.by = r /\ e.output = session[s].console /\ e.at = now
           /\ session' = [session EXCEPT ![s] = WithEntry(session[s], e)]
<1>1. PICK s \in Ids : s = req[r].id /\ smu[s] = r /\ Born(s)
  BY EvalFacts DEF Evaluated, At
<1>2. PICK e \in Entries : e = [by |-> r, output |-> session[s].console, at |-> now]
  <2>1. session[s].console \in Consoles /\ now \in 0 .. MaxNow
    BY <1>1, SessionFacts DEF Inv, Typed
  <2>2. [by |-> r, output |-> session[s].console, at |-> now] \in Entries
    BY <2>1 DEF Entries
  <2>3. QED
    BY <2>2
<1>3. e.by = r /\ e.output = session[s].console /\ e.at = now
  BY <1>2
<1>4. session' = [session EXCEPT ![s] = WithEntry(session[s], e)]
  <2>1. session' = [session EXCEPT ![s].history = Append(@, e), ![s].updatedAt = now]
    BY <1>1, <1>2 DEF Evaluated
  <2>2. QED
    BY <1>3, <2>1 DEF WithEntry
<1>5. QED
  BY <1>1, <1>3, <1>4

(* An evaluation that ends keeps the invariant.                             *)
LEMMA EvaluatedInv ==
  ASSUME Inv, NEW r \in Requests, Evaluated(r)
  PROVE  Inv'
<1>1. /\ req[r].pc = "output" /\ Goto(r, "persist")
      /\ UNCHANGED <<now, listed, mu, smu, file, answer, faults, before, torn, kept, tasks>>
  BY DEF Evaluated, At
<1>2. PICK s \in Ids, e \in Entries :
        /\ s = req[r].id /\ Born(s) /\ smu[s] = r
        /\ e.by = r /\ e.output = session[s].console /\ e.at = now
        /\ session' = [session EXCEPT ![s] = WithEntry(session[s], e)]
  BY EvaluatedFacts
<1>3. req[r].op = "eval" /\ req[r].gone = {}
  BY <1>1, <1>2, EvalFacts DEF At
<1>4. e.by = r /\ e.at = now
  BY <1>2
<1>5. session' = [session EXCEPT ![s] = WithEntry(session[s], e)]
  BY <1>2
<1>6. PICK h \in Seq(Entries) : h = session[s].history /\ Len(h) \in Nat
  BY <1>2, SessionFacts DEF Inv
<1>7. PICK g : g = session'[s].history
  OBVIOUS
<1>8. /\ session' \in [Ids -> {NoSession} \cup Sessions]
      /\ \A t \in Ids : Born(t)' <=> Born(t)
      /\ \A t \in Ids \ {s} : session'[t] = session[t]
      /\ session'[s].updatedAt = now /\ session'[s].created = session[s].created
      /\ Len(g) = Len(h) + 1
      /\ \A n \in 1 .. Len(h) : g[n] = h[n]
      /\ g[Len(h) + 1] = e
  <2>1. /\ session' \in [Ids -> {NoSession} \cup Sessions]
        /\ \A t \in Ids : Born(t)' <=> Born(t)
        /\ \A t \in Ids \ {s} : session'[t] = session[t]
        /\ session'[s].updatedAt = e.at /\ session'[s].created = session[s].created
        /\ Len(session'[s].history) = Len(session[s].history) + 1
        /\ \A n \in 1 .. Len(session[s].history) :
             session'[s].history[n] = session[s].history[n]
        /\ session'[s].history[Len(session[s].history) + 1] = e
    <3>1. Typed
      BY DEF Inv
    <3>2. QED
      BY <1>2, <1>5, <3>1, EntryFacts
  <2>2. QED
    BY <1>4, <1>6, <1>7, <2>1
<1>9. Goes(r, "persist", req[r].at, req[r].todo, req[r].gone)
  BY <1>1, GotoFacts DEF Inv, Stages
<1>10. OthersStay(r) /\ ~ At(r, "done") /\ answer[r].is = "none" /\ answer'[r].is = "none"
  BY <1>1, <1>9, NotAnswered DEF Goes, OthersStay, At
<1>11. /\ req'[r].op = "eval" /\ req'[r].id = s /\ req'[r].pc = "persist"
       /\ req'[r].at = req[r].at /\ req'[r].todo = req[r].todo /\ req'[r].gone = {}
  BY <1>2, <1>3, <1>9 DEF Goes
<1>12. Typed'
  BY <1>1, <1>8, <1>9 DEF Inv, Typed, Goes
<1>13. InOrder'
  <2>1. Ordered(r)'
    BY <1>10, <1>11 DEF Ordered, At, Answered, Sweeping
  <2>2. QED
    BY <1>10, <2>1, OrderFrame
<1>14. MutexHeld'
  <2>1. \A t \in Ids : Holds(r, t)' <=> Holds(r, t)
    BY <1>1, <1>2, <1>11 DEF Holds, At
  <2>2. QED
    BY <1>1, <1>10, <2>1, HoldsFrame
<1>15. IdsUnique'
  <2>1. ~ At(r, "register")' /\ req'[r].todo \cup req'[r].gone \subseteq
          req[r].todo \cup req[r].gone \cup listed
    BY <1>11 DEF At
  <2>2. QED
    BY <1>1, <1>2, <1>3, <1>8, <1>10, <1>11, <2>1, IdsFrame
<1>16. OutOfMap'
  <2>1. \A t \in Ids \ listed' : r \in AtWork(t)' => r \in AtWork(t)
    BY <1>1, <1>2, <1>11 DEF AtWork
  <2>2. ~ At(r, "erase")' /\ req'[r].gone \cap listed' = {}
    BY <1>11 DEF At
  <2>3. QED
    BY <1>1, <1>10, <2>1, <2>2, OutFrame
<1>17. FilesMatch'
  <2>1. \A t \in listed : smu'[t] = Nobody =>
          smu[t] = Nobody /\ session'[t].history = session[t].history
    BY <1>1, <1>2, <1>8, SessionsAssumption DEF Nobody, Inv, Typed
  <2>2. ~ At(r, "erase") /\ ~ (req[r].op = "create" /\ At(r, "persist"))
    BY <1>1 DEF At
  <2>3. QED
    BY <1>1, <1>3, <1>10, <1>11, <2>1, <2>2, FilesFrame
<1>18. Recording'
  <2>1. ~ Ran(r) /\ Ran(r)'
    BY <1>1, <1>10, <1>11 DEF Ran, At
  <2>2. \A q \in Requests \ {r} : /\ req'[q] = req[q] /\ (Ran(q)' <=> Ran(q))
                                /\ (At(q, "persist")' <=> At(q, "persist"))
    BY <1>10 DEF OthersStay, Ran, At
  <2>3. \A q \in Requests : before[q] \subseteq Requests \ {r}
    BY <1>10 DEF Inv, Typed, Recording, Answered
  <2>4. \A q \in Requests \ {r} : ~ Holds(q, s)
    BY <1>2 DEF Inv, MutexHeld
  <2>5. History1(s)'
    <3>1. /\ \A n \in 1 .. Len(h) :
               Ran(h[n].by) /\ req[h[n].by].id = s
          /\ \A n, m \in 1 .. Len(h) : h[n].by = h[m].by => n = m
      <4>1. History1(s)
        BY <1>2 DEF Inv, Recording
      <4>2. QED
        BY <1>6, <4>1 DEF History1
    <3>2. \A n \in 1 .. Len(h) : h[n].by \in Requests \ {r}
      <4>1. \A n \in 1 .. Len(h) : h[n] \in Entries
        BY ElementOfSeq
      <4>2. QED
        BY <2>1, <3>1, <4>1 DEF Entries
    <3>3. \A n \in 1 .. Len(g) : n \in 1 .. Len(h) \/ n = Len(h) + 1
      BY <1>6, <1>8
    <3>4. \A n \in 1 .. Len(h) : Ran(g[n].by)' /\ req'[g[n].by].id = s
      BY <1>8, <2>2, <3>1, <3>2
    <3>5. Ran(g[Len(h) + 1].by)' /\ req'[g[Len(h) + 1].by].id = s
      BY <1>4, <1>8, <1>11, <2>1
    <3>6. \A n, m \in 1 .. Len(g) : g[n].by = g[m].by => n = m
      BY <1>4, <1>8, <3>1, <3>2, <3>3
    <3>7. QED
      BY <1>7, <3>3, <3>4, <3>5, <3>6 DEF History1
  <2>6. ASSUME NEW t \in Ids \ {s}, Born(t)'
        PROVE  History1(t)'
    <3>1. Born(t) /\ session'[t].history = session[t].history /\ History1(t)
      BY <1>8, <2>6 DEF Inv, Recording
    <3>2. \A n \in 1 .. Len(session[t].history) :
            session[t].history[n].by \in Requests \ {r}
      BY <2>1, <3>1, SessionFacts DEF Inv, Entries, History1
    <3>3. QED
      BY <2>2, <3>1, <3>2 DEF History1
  <2>7. Entered(r)'
    <3>1. Len(h) + 1 \in 1 .. Len(g) /\ Len(g) = Len(h) + 1 /\ g[Len(h) + 1].by = r
      BY <1>4, <1>6, <1>8
    <3>2. \A q \in before[r], m \in 1 .. Len(g) : g[m].by = q => m < Len(h) + 1
      BY <1>4, <1>6, <1>8, <2>3
    <3>3. QED
      BY <1>1, <1>7, <1>11, <3>1, <3>2 DEF Entered
  <2>8. ASSUME NEW q \in Requests \ {r}, Ran(q)
        PROVE  Entered(q)'
    <3>1. Entered(q) /\ req[q].id \in Ids /\ Born(req[q].id)
      BY <2>8 DEF Inv, Recording, IdsUnique, InOrder, Ordered, Ran
    <3>2. CASE req[q].id = s
      <4>1. PICK n \in 1 .. Len(h) :
              h[n].by = q /\ \A p \in before[q], m \in 1 .. Len(h) : h[m].by = p => m < n
        BY <1>6, <3>1, <3>2 DEF Entered
      <4>2. n \in 1 .. Len(g) /\ g[n].by = q
        BY <1>6, <1>8, <4>1
      <4>3. \A p \in before[q], m \in 1 .. Len(g) : g[m].by = p => m < n
        BY <1>4, <1>6, <1>8, <2>3, <4>1
      <4>4. ~ At(q, "persist")
        BY <2>4, <2>8, <3>2 DEF Ran, Holds
      <4>5. QED
        BY <1>1, <1>7, <2>2, <3>2, <4>2, <4>3, <4>4 DEF Entered
    <3>3. CASE req[q].id # s
      <4>1. session'[req[q].id].history = session[req[q].id].history
        BY <1>8, <3>1, <3>3
      <4>2. QED
        BY <1>1, <2>2, <3>1, <4>1 DEF Entered
    <3>4. QED
      BY <3>2, <3>3
  <2>9. \A q \in Requests : \A p \in before'[q] : Answered(p)'
    BY <1>1 DEF Inv, Recording, Answered
  <2>10. ASSUME NEW p \in Requests, req'[p].op = "history", answer'[p].is = "ok"
         PROVE  /\ answer'[p].history \in Seq(Entries)
                /\ \A q \in before'[p] : Recorded(q)' /\ req'[q].id = req'[p].id =>
                     \E n \in 1 .. Len(answer'[p].history) : answer'[p].history[n].by = q
    <3>1. p # r
      BY <1>11, <2>10
    <3>2. \A q \in before[p] : (Recorded(q)' => Recorded(q)) /\ req'[q].id = req[q].id
      BY <1>1, <2>2, <2>3 DEF Recorded
    <3>3. QED
      BY <1>1, <2>2, <2>10, <3>1, <3>2 DEF Inv, Recording
  <2>11. \A t \in Ids : Born(t)' => History1(t)'
    BY <2>5, <2>6
  <2>12. \A q \in Requests : Ran(q)' => Entered(q)'
    BY <2>2, <2>7, <2>8
  <2>13. QED
    BY <2>9, <2>10, <2>11, <2>12 DEF Recording
<1>19. ClockRead'
  <2>1. Stamp(s, Len(g))' = now
    <3>1. Len(g) \in 1 .. Len(g) /\ Len(g) # 0 /\ g[Len(g)].at = now
      BY <1>4, <1>6, <1>8
    <3>2. QED
      BY <1>7, <3>1 DEF Stamp
  <2>2. \A n \in 0 .. Len(h) + 1 : Stamp(s, n)' = Stamp(s, n)
    <3>1. Stamp(s, 0)' = Stamp(s, 0)
      BY <1>8 DEF Stamp
    <3>2. \A n \in 1 .. Len(h) : Stamp(s, n)' = Stamp(s, n)
      BY <1>6, <1>7, <1>8 DEF Stamp
    <3>3. Stamp(s, Len(h) + 1)' = Stamp(s, Len(h) + 1)
      <4>1. Len(h) + 1 \in 1 .. Len(g) /\ Len(h) + 1 \notin 1 .. Len(h) /\ Len(h) + 1 # 0
        BY <1>6, <1>8
      <4>2. QED
        BY <1>4, <1>6, <1>7, <1>8, <4>1 DEF Stamp
    <3>4. QED
      BY <1>6, <3>1, <3>2, <3>3
  <2>3. Gap(s) => Gap(s)'
    <3> SUFFICES ASSUME Gap(s) PROVE Gap(s)'
      OBVIOUS
    <3>1. PICK n \in 0 .. Len(h) : Stamp(s, n + 1) - Stamp(s, n) > TTL
      BY <1>6 DEF Gap
    <3>2. n \in 0 .. Len(g) /\ n \in 0 .. Len(h) + 1 /\ n + 1 \in 0 .. Len(h) + 1
      BY <1>6, <1>8
    <3>3. Stamp(s, n + 1)' - Stamp(s, n)' > TTL
      BY <2>2, <3>1, <3>2
    <3>4. QED
      BY <1>7, <3>2, <3>3 DEF Gap
  <2>4. \A t \in Ids \ {s} : Gap(t)' <=> Gap(t)
    BY <1>1, <1>8 DEF Gap, Stamp
  <2>5. ASSUME NEW t \in Ids, Born(t)'
        PROVE  session'[t].updatedAt = Stamp(t, Len(session[t].history))'
    <3>1. CASE t = s
      BY <1>7, <1>8, <2>1, <3>1
    <3>2. CASE t # s
      BY <1>1, <1>8, <2>5, <3>2 DEF Inv, ClockRead, Stamp
    <3>3. QED
      BY <3>1, <3>2
  <2>6. ASSUME NEW q \in Requests \ {r}
        PROVE  /\ req'[q].at <= now
               /\ \A t \in req'[q].gone : Gap(t)'
               /\ At(q, "remove")' /\ req'[q].op # "delete" => Gap(req[q].id)'
    <3>1. req'[q] = req[q] /\ req[q].gone \subseteq Ids
      BY <1>10, AskedFacts DEF OthersStay, Inv
    <3>2. At(q, "remove") => req[q].id \in Ids
      <4>1. req[q].op \in {"create", "eval", "history", "delete", "none"}
        BY AskedFacts DEF Inv, Operations
      <4>2. QED
        BY <4>1 DEF Inv, InOrder, Ordered, At, Sweeping
    <3>3. QED
      BY <2>3, <2>4, <3>1, <3>2 DEF Inv, ClockRead, At
  <2>7. req'[r].at <= now /\ req'[r].gone = {} /\ ~ At(r, "remove")'
    BY <1>11 DEF Inv, ClockRead, At
  <2>8. QED
    BY <1>1, <2>5, <2>6, <2>7 DEF ClockRead
<1>20. QED
  BY <1>12, <1>13, <1>14, <1>15, <1>16, <1>17, <1>18, <1>19 DEF Inv

-----------------------------------------------------------------------------
(* Files are written *)

(* A write that fails leaves as the last entry, if there is one, its own.   *)
LEMMA WriterIsLast ==
  ASSUME Inv, NEW r \in Requests, At(r, "persist")
  PROVE  LET h == session[req[r].id].history
         IN  /\ req[r].id \in Ids /\ Born(req[r].id)
             /\ req[r].op \in {"create", "eval"}
             /\ req[r].op = "create" => h = <<>>
             /\ req[r].op = "eval" => h # <<>> /\ h[Len(h)].by = r
<1>1. req[r].op \in {"create", "eval", "history", "delete", "none"}
  BY AskedFacts DEF Inv, Operations
<1>2. req[r].op \in {"create", "eval"}
  BY <1>1 DEF Inv, InOrder, Ordered, At, Sweeping
<1>3. req[r].id \in Ids
  BY <1>2, AskedFacts DEF Inv, InOrder, Ordered, At, Sweeping
<1>4. PICK s \in Ids : s = req[r].id /\ Born(s)
  BY <1>3 DEF Inv, IdsUnique
<1>5. PICK h \in Seq(Entries) : h = session[s].history /\ Len(h) \in Nat
  BY <1>4, SessionFacts DEF Inv
<1>6. CASE req[r].op = "create"
  <2>1. answer[r].is = "none"
    BY NotAnswered DEF At
  <2>2. \A q \in Requests : req[q].id = s => q = r
    BY <1>4, <1>6, <2>1 DEF Inv, IdsUnique
  <2>3. History1(s)
    BY <1>4 DEF Inv, Recording
  <2>4. \A n \in 1 .. Len(h) : Ran(h[n].by) /\ req[h[n].by].id = s
    BY <1>5, <2>3 DEF History1
  <2>5. \A n \in 1 .. Len(h) : h[n].by \in Requests
    <3>1. \A n \in 1 .. Len(h) : h[n] \in Entries
      BY ElementOfSeq
    <3>2. QED
      BY <3>1 DEF Entries
  <2>6. ~ Ran(r)
    BY <1>6 DEF Ran
  <2>7. Len(h) = 0
    <3>1. 1 \notin 1 .. Len(h)
      BY <2>2, <2>4, <2>5, <2>6
    <3>2. QED
      BY <1>5, <3>1
  <2>8. h = <<>>
    BY <2>7, EmptySeq
  <2>9. QED
    BY <1>3, <1>4, <1>5, <1>6, <2>8
<1>7. CASE req[r].op = "eval"
  <2>1. Entered(r)
    BY <1>7 DEF Inv, Recording, Ran
  <2>2. PICK n \in 1 .. Len(h) : h[n].by = r /\ n = Len(h)
    BY <1>4, <1>5, <2>1 DEF Entered
  <2>3. h # <<>>
    BY <1>5, <2>2, EmptySeq
  <2>4. QED
    BY <1>3, <1>4, <1>5, <1>7, <2>2, <2>3
<1>8. QED
  BY <1>2, <1>6, <1>7

(* A write, which leaves the history in the file if it does not fail.       *)
LEMMA WriteInv ==
  ASSUME Inv, NEW r \in Requests, At(r, "persist"), Goto(r, "done"),
         NEW is \in {"ok", "failed"}, Answer(r, is),
         NEW left \in Files, left = File(session[req[r].id].history) \/ is = "failed",
         file' = [file EXCEPT ![req[r].id] = left],
         smu' = [smu EXCEPT ![req[r].id] = IF @ = r THEN Nobody ELSE @],
         faults' \in 0 .. MaxFaults,
         UNCHANGED <<now, session, listed, mu, before, torn, kept, tasks>>
  PROVE  Inv'
<1>1. PICK s \in Ids :
        /\ s = req[r].id /\ Born(s) /\ req[r].op \in {"create", "eval"}
        /\ req[r].op = "create" => session[s].history = <<>>
        /\ req[r].op = "eval" =>
             /\ session[s].history # <<>>
             /\ session[s].history[Len(session[s].history)].by = r
  BY WriterIsLast
<1>2. Goes(r, "done", req[r].at, req[r].todo, req[r].gone)
  BY GotoFacts DEF Inv, Stages
<1>3. /\ answer' \in [Requests -> Answers] /\ answer'[r].is = is
      /\ \A q \in Requests \ {r} : answer'[q] = answer[q]
  BY AnswerFacts DEF Inv
<1>4. OthersStay(r) /\ ~ At(r, "done") /\ answer[r].is = "none" /\ req[r].gone = {}
  BY <1>1, <1>2, <1>3, NotAnswered DEF Goes, OthersStay, At, Inv, InOrder, Ordered
<1>5. /\ req'[r].op = req[r].op /\ req'[r].id = s /\ req'[r].pc = "done"
      /\ req'[r].at = req[r].at /\ req'[r].todo = req[r].todo /\ req'[r].gone = {}
  BY <1>1, <1>2, <1>4 DEF Goes
<1>6. /\ file' \in [Ids -> Files] /\ file'[s] = left
      /\ \A t \in Ids \ {s} : file'[t] = file[t]
  BY <1>1 DEF Inv, Typed
<1>7. /\ smu' \in [Ids -> Requests \cup {Nobody}]
      /\ smu'[s] = IF smu[s] = r THEN Nobody ELSE smu[s]
      /\ \A t \in Ids \ {s} : smu'[t] = smu[t]
  BY <1>1 DEF Inv, Typed
<1>8. \A t \in Ids : Born(t)' <=> Born(t)
  BY DEF Born
<1>9. Typed'
  BY <1>2, <1>3, <1>6, <1>7 DEF Inv, Typed, Goes
<1>10. InOrder'
  <2>1. Ordered(r)'
    BY <1>1, <1>3, <1>5, SessionsAssumption DEF Ordered, At, Answered, Sweeping
  <2>2. QED
    BY <1>4, <2>1, OrderFrame
<1>11. MutexHeld'
  <2>1. ASSUME NEW t \in Ids, NEW q \in Requests \ {r}
        PROVE  smu'[t] = q <=> Holds(q, t)'
    <3>1. Holds(q, t)' <=> Holds(q, t)
      BY <1>4 DEF OthersStay, Holds, At
    <3>2. smu'[t] = q <=> smu[t] = q
      BY <1>7, SessionsAssumption DEF Nobody
    <3>3. QED
      BY <3>1, <3>2 DEF Inv, MutexHeld
  <2>2. ASSUME NEW t \in Ids
        PROVE  smu'[t] # r /\ ~ Holds(r, t)'
    <3>1. smu[t] = r => t = s
      BY <1>1 DEF Inv, MutexHeld, Holds
    <3>2. QED
      BY <1>5, <1>7, <3>1, SessionsAssumption DEF Nobody, Holds, At
  <2>3. QED
    BY <2>1, <2>2 DEF MutexHeld
<1>12. IdsUnique'
  <2>1. ~ At(r, "register")' /\ req'[r].todo \cup req'[r].gone \subseteq
          req[r].todo \cup req[r].gone \cup listed
    BY <1>5 DEF At
  <2>2. \A t \in Ids : ~ Born(t) => file'[t] = file[t]
    BY <1>1, <1>6
  <2>3. QED
    BY <1>1, <1>4, <1>5, <1>8, <2>1, <2>2, IdsFrame
<1>13. OutOfMap'
  <2>1. \A t \in Ids \ listed' : r \in AtWork(t)' => r \in AtWork(t)
    BY <1>5 DEF AtWork
  <2>2. ~ At(r, "erase")' /\ req'[r].gone \cap listed' = {}
    BY <1>5 DEF At
  <2>3. QED
    BY <1>4, <2>1, <2>2, OutFrame
<1>14. FilesMatch'
  <2>1. ASSUME NEW t \in listed', smu'[t] = Nobody, AtWork(t)' \cap Makers' = {}
        PROVE  file'[t] = File(session'[t].history) \/ WriteFailed(t)'
    <3>1. CASE t = s
      <4>1. CASE left = File(session[s].history)
        BY <1>6, <3>1, <4>1
      <4>2. CASE left # File(session[s].history)
        <5>1. answer'[r].is = "failed"
          BY <1>1, <1>3, <4>2
        <5>2. WriteFailed(s)'
          BY <1>1, <1>5, <5>1 DEF WriteFailed
        <5>3. QED
          BY <3>1, <5>2
      <4>3. QED
        BY <4>1, <4>2
    <3>2. CASE t # s
      <4>1. t \in Ids /\ smu[t] = Nobody /\ t \in listed
        BY <1>7, <2>1, <3>2 DEF Inv, Typed
      <4>2. AtWork(t) \cap Makers \subseteq AtWork(t)' \cap Makers'
        BY <1>1, <1>4, <3>2 DEF OthersStay, AtWork, Makers
      <4>3. file[t] = File(session[t].history) \/ WriteFailed(t)
        BY <2>1, <4>1, <4>2 DEF Inv, FilesMatch, Makers
      <4>4. WriteFailed(t) => WriteFailed(t)'
        BY <1>4, <4>1, WriteFailedStays
      <4>5. QED
        BY <1>6, <3>2, <4>1, <4>3, <4>4
    <3>3. QED
      BY <3>1, <3>2
  <2>2. ASSUME NEW t \in Ids \ listed', file'[t] # NoFile, t \notin torn' \cup kept'
        PROVE  \E q \in Requests : Erasing(q, t)' \/ ToldOfFile(q, t)'
    <3>1. t # s
      <4>1. r \in AtWork(s)
        BY <1>1 DEF AtWork, At
      <4>2. s \notin listed => s \in torn
        BY <4>1 DEF Inv, OutOfMap
      <4>3. QED
        BY <2>2, <4>2
    <3>2. PICK q \in Requests : Erasing(q, t) \/ ToldOfFile(q, t)
      BY <1>6, <2>2, <3>1 DEF Inv, FilesMatch
    <3>3. q # r
      BY <1>4, <3>2 DEF Erasing, ToldOfFile, At
    <3>4. QED
      BY <1>4, <3>2, <3>3 DEF OthersStay, Erasing, ToldOfFile, At
  <2>3. QED
    BY <2>1, <2>2 DEF FilesMatch, Makers
<1>15. Recording'
  <2>1. (Ran(r)' <=> Ran(r)) /\ ~ At(r, "persist")' /\ ~ At(r, "eval")' /\ ~ At(r, "output")'
    BY <1>1, <1>3, <1>4, <1>5 DEF Ran, At
  <2>2. HistoriesStay
    BY <1>8 DEF HistoriesStay
  <2>3. req'[r].id = req[r].id /\ req[r].op # "history" /\ \A t \in Ids : Born(t) => Born(t)'
    BY <1>1, <1>5, <1>8
  <2>4. QED
    BY <1>4, <1>5, <2>1, <2>2, <2>3, RecordingFrame
<1>16. ClockRead'
  <2>1. ~ At(r, "remove")' /\ req'[r].gone \subseteq Ids /\ req'[r].at <= now
    BY <1>5 DEF At, Inv, ClockRead
  <2>2. \A t \in req'[r].gone : t \in req[r].gone \/ Gap(t)
    BY <1>5
  <2>3. QED
    BY <1>4, <1>8, <2>1, <2>2, ClockFrame
<1>17. QED
  BY <1>9, <1>10, <1>11, <1>12, <1>13, <1>14, <1>15, <1>16 DEF Inv

(* Writing a session to its file keeps the invariant.                       *)
LEMMA PersistInv ==
  ASSUME Inv, NEW r \in Requests, Persist(r)
  PROVE  Inv'
<1> DEFINE left == File(session[req[r].id].history)
<1>1. /\ At(r, "persist") /\ Goto(r, "done") /\ Answer(r, "ok")
      /\ file' = [file EXCEPT ![req[r].id] = left]
      /\ smu' = [smu EXCEPT ![req[r].id] = IF @ = r THEN Nobody ELSE @]
      /\ UNCHANGED <<now, session, listed, mu, faults, before, torn, kept, tasks>>
  BY DEF Persist
<1>2. left \in Files
  <2>1. req[r].id \in Ids /\ Born(req[r].id)
    BY <1>1, WriterIsLast
  <2>2. session[req[r].id].history \in Seq(Entries)
    BY <2>1, SessionFacts DEF Inv
  <2>3. QED
    BY <2>2 DEF Files, File
<1>3. faults' \in 0 .. MaxFaults
  BY <1>1 DEF Inv, Typed
<1>4. QED
  BY <1>1, <1>2, <1>3, WriteInv

(* Failing to write it keeps the invariant.                                 *)
LEMMA PersistFailsInv ==
  ASSUME Inv, NEW r \in Requests, PersistFails(r)
  PROVE  Inv'
<1>1. PICK left \in {file[req[r].id], Broken} : file' = [file EXCEPT ![req[r].id] = left]
  BY DEF PersistFails
<1>2. /\ At(r, "persist") /\ Goto(r, "done") /\ Answer(r, "failed")
      /\ smu' = [smu EXCEPT ![req[r].id] = IF @ = r THEN Nobody ELSE @]
      /\ UNCHANGED <<now, session, listed, mu, before, torn, kept, tasks>>
  BY DEF PersistFails
<1>3. left \in Files
  <2>1. req[r].id \in Ids
    BY <1>2, WriterIsLast
  <2>2. QED
    BY <1>1, <2>1 DEF Inv, Typed, Files
<1>4. faults' \in 0 .. MaxFaults
  BY SessionsAssumption DEF PersistFails, Inv, Typed
<1>5. QED
  BY <1>1, <1>2, <1>3, <1>4, WriteInv

-----------------------------------------------------------------------------
(* A session is made, and found in the map *)

(* Making a session keeps the invariant.                                    *)
LEMMA MakeInv ==
  ASSUME Inv, NEW r \in Requests, NEW s \in Ids, Make(r, s)
  PROVE  Inv'
<1>1. /\ req[r].pc = "make" /\ ~ Born(s)
      /\ session' = [session EXCEPT ![s] = Made(now)]
      /\ req' = [req EXCEPT ![r].pc = "register", ![r].id = s]
      /\ UNCHANGED <<now, listed, mu, smu, file, answer, faults, before, torn, kept, tasks>>
  BY DEF Make, At, Born
<1>2. req[r].op = "create" /\ req[r].gone = {} /\ answer[r].is = "none" /\ ~ At(r, "done")
  <2>1. req[r].op \in {"create", "eval", "history", "delete", "none"}
    BY AskedFacts DEF Inv, Operations
  <2>2. QED
    BY <1>1, <2>1, NotAnswered DEF Inv, InOrder, Ordered, At, Sweeping
<1>3. /\ req' \in [Requests -> Asked]
      /\ req'[r].op = "create" /\ req'[r].id = s /\ req'[r].pc = "register"
      /\ req'[r].at = req[r].at /\ req'[r].todo = req[r].todo /\ req'[r].gone = {}
      /\ \A q \in Requests \ {r} : req'[q] = req[q]
  <2> DEFINE new == [req[r] EXCEPT !.pc = "register", !.id = s]
  <2>1. req' = [req EXCEPT ![r] = new]
    BY <1>1
  <2>2. /\ new \in Asked /\ new.op = "create" /\ new.id = s /\ new.pc = "register"
        /\ new.at = req[r].at /\ new.todo = req[r].todo /\ new.gone = {}
    BY <1>2 DEF Inv, Typed, Asked, Stages
  <2> HIDE DEF new
  <2>3. QED
    BY <2>1, <2>2 DEF Inv, Typed
<1>4. /\ session' \in [Ids -> {NoSession} \cup Sessions]
      /\ \A t \in Ids \ {s} : session'[t] = session[t] /\ (Born(t)' <=> Born(t))
      /\ Born(s)' /\ session'[s].history = <<>>
      /\ session'[s].updatedAt = now /\ session'[s].created = now
  <2>1. /\ Made(now) \in Sessions /\ Made(now) # NoSession /\ Made(now).history = <<>>
        /\ Made(now).updatedAt = now /\ Made(now).created = now
    BY MadeFacts DEF Inv, Typed
  <2>2. QED
    BY <1>1, <2>1 DEF Inv, Typed, Born
<1>5. OthersStay(r)
  BY <1>1, <1>3 DEF OthersStay
<1>6. s \notin listed /\ \A q \in Requests : req[q].id # s /\ s \notin req[q].todo \cup req[q].gone
  BY <1>1 DEF Inv, IdsUnique
<1>7. Typed'
  BY <1>1, <1>3, <1>4 DEF Inv, Typed
<1>8. InOrder'
  <2>1. Ordered(r)'
    BY <1>1, <1>2, <1>3, SessionsAssumption DEF Ordered, At, Answered, Sweeping
  <2>2. QED
    BY <1>5, <2>1, OrderFrame
<1>9. MutexHeld'
  <2>1. \A t \in Ids : ~ Holds(r, t)' /\ ~ Holds(r, t)
    BY <1>1, <1>3 DEF Holds, At
  <2>2. QED
    BY <1>1, <1>5, <2>1, HoldsFrame
<1>10. IdsUnique'
  <2>1. \A t \in Ids : Born(t) => Born(t)'
    BY <1>1, <1>4
  <2>2. listed' \subseteq {t \in Ids : Born(t)'}
    BY <1>1, <2>1 DEF Inv, IdsUnique
  <2>3. \A q \in Requests : /\ req'[q].id \in Ids => Born(req[q].id)'
                            /\ req'[q].todo \cup req'[q].gone \subseteq {t \in Ids : Born(t)'}
    BY <1>3, <1>4, <2>1 DEF Inv, IdsUnique
  <2>4. ASSUME NEW p \in Requests, NEW q \in Requests,
               req'[p].op = "create", req'[p].id \in Ids, answer'[p].is # "ok",
               req'[q].id = req'[p].id
        PROVE  q = p
    <3>1. CASE p = r
      BY <1>3, <1>6, <2>4, <3>1
    <3>2. CASE p # r
      BY <1>1, <1>3, <1>6, <2>4, <3>2 DEF Inv, IdsUnique
    <3>3. QED
      BY <3>1, <3>2
  <2>5. ASSUME NEW p \in Requests, NEW q \in Requests, At(p, "register")'
        PROVE  /\ req'[p].id \notin listed'
               /\ req'[p].id \notin req'[q].todo \cup req'[q].gone
    <3>1. req'[q].todo \cup req'[q].gone \subseteq req[q].todo \cup req[q].gone
      BY <1>3
    <3>2. CASE p = r
      BY <1>1, <1>3, <1>6, <3>1, <3>2
    <3>3. CASE p # r
      BY <1>1, <1>3, <2>5, <3>1, <3>3 DEF Inv, IdsUnique, At
    <3>4. QED
      BY <3>2, <3>3
  <2>6. \A t \in Ids : ~ Born(t)' => file'[t] = NoFile
    BY <1>1, <2>1 DEF Inv, IdsUnique
  <2>7. QED
    BY <2>2, <2>3, <2>4, <2>5, <2>6 DEF IdsUnique
<1>11. OutOfMap'
  <2>1. \A t \in Ids \ listed' : r \in AtWork(t)' => r \in AtWork(t)
    BY <1>3 DEF AtWork
  <2>2. ~ At(r, "erase")' /\ req'[r].gone \cap listed' = {}
    BY <1>3 DEF At
  <2>3. QED
    BY <1>1, <1>5, <2>1, <2>2, OutFrame
<1>12. FilesMatch'
  <2>1. \A t \in listed : smu'[t] = Nobody =>
          smu[t] = Nobody /\ session'[t].history = session[t].history
    BY <1>1, <1>4, <1>6 DEF Inv, Typed
  <2>2. ~ At(r, "erase") /\ ~ (req[r].op = "create" /\ At(r, "persist"))
    BY <1>1 DEF At
  <2>3. QED
    BY <1>1, <1>2, <1>3, <1>5, <2>1, <2>2, FilesFrame
<1>13. Recording'
  <2>1. ~ Ran(r)' /\ ~ Ran(r)
    BY <1>2, <1>3 DEF Ran
  <2>2. HistoriesStay /\ \A t \in Ids : Born(t) => Born(t)'
    BY <1>1, <1>4 DEF HistoriesStay
  <2>3. req[r].op # "eval" /\ req[r].op # "history" /\ req'[r].op = req[r].op
    BY <1>2, <1>3
  <2>4. QED
    BY <1>1, <1>2, <1>5, <2>1, <2>2, <2>3, RecordingFrame
<1>14. ClockRead'
  <2>1. \A t \in Ids \ {s} : Gap(t)' <=> Gap(t)
    BY <1>1, <1>4 DEF Gap, Stamp
  <2>2. ASSUME NEW t \in Ids, Born(t)'
        PROVE  session'[t].updatedAt = Stamp(t, Len(session[t].history))'
    <3>1. CASE t = s
      BY <1>4, <3>1, EmptySeq DEF Stamp
    <3>2. CASE t # s
      BY <1>1, <1>4, <2>2, <3>2 DEF Inv, ClockRead, Stamp
    <3>3. QED
      BY <3>1, <3>2
  <2>3. ASSUME NEW q \in Requests \ {r}
        PROVE  /\ req'[q].at <= now
               /\ \A t \in req'[q].gone : Gap(t)'
               /\ At(q, "remove")' /\ req'[q].op # "delete" => Gap(req[q].id)'
    <3>1. req'[q] = req[q] /\ req[q].gone \subseteq Ids \ {s}
      BY <1>3, <1>6, AskedFacts DEF Inv
    <3>2. At(q, "remove") => req[q].id \in Ids \ {s}
      <4>1. req[q].op \in {"create", "eval", "history", "delete", "none"}
        BY AskedFacts DEF Inv, Operations
      <4>2. QED
        BY <1>6, <4>1 DEF Inv, InOrder, Ordered, At, Sweeping
    <3>3. QED
      BY <2>1, <3>1, <3>2 DEF Inv, ClockRead, At
  <2>4. req'[r].at <= now /\ req'[r].gone = {} /\ ~ At(r, "remove")'
    BY <1>3 DEF Inv, ClockRead, At
  <2>5. QED
    BY <1>1, <2>2, <2>3, <2>4 DEF ClockRead
<1>15. QED
  BY <1>7, <1>8, <1>9, <1>10, <1>11, <1>12, <1>13, <1>14 DEF Inv

(* Entering it into the map keeps the invariant.                            *)
LEMMA RegisterInv ==
  ASSUME Inv, NEW r \in Requests, Register(r)
  PROVE  Inv'
<1>1. /\ req[r].pc = "register" /\ Goto(r, "persist")
      /\ listed' = listed \cup {req[r].id}
      /\ UNCHANGED <<now, session, mu, smu, file, answer, faults, before, torn, kept, tasks>>
  BY DEF Register, At
<1>2. req[r].op = "create" /\ req[r].gone = {} /\ answer[r].is = "none" /\ ~ At(r, "done")
  <2>1. req[r].op \in {"create", "eval", "history", "delete", "none"}
    BY AskedFacts DEF Inv, Operations
  <2>2. QED
    BY <1>1, <2>1, NotAnswered DEF Inv, InOrder, Ordered, At, Sweeping
<1>3. PICK s \in Ids : s = req[r].id /\ Born(s) /\ s \notin listed
  <2>1. req[r].id \in Ids
    BY <1>1, <1>2, AskedFacts DEF Inv, InOrder, Ordered, At, Sweeping
  <2>2. QED
    BY <1>1, <2>1 DEF Inv, IdsUnique, At
<1>4. /\ \A q \in Requests : req[q].id = s => q = r
      /\ \A q \in Requests : s \notin req[q].todo \cup req[q].gone
  BY <1>1, <1>2, <1>3 DEF Inv, IdsUnique, At
<1>5. Goes(r, "persist", req[r].at, req[r].todo, req[r].gone)
  BY <1>1, GotoFacts DEF Inv, Stages
<1>6. OthersStay(r)
  BY <1>1, <1>5 DEF Goes, OthersStay
<1>7. /\ req'[r].op = "create" /\ req'[r].id = s /\ req'[r].pc = "persist"
      /\ req'[r].at = req[r].at /\ req'[r].todo = req[r].todo /\ req'[r].gone = {}
  BY <1>2, <1>3, <1>5 DEF Goes
<1>8. \A t \in Ids : Born(t)' <=> Born(t)
  BY <1>1 DEF Born
<1>9. Typed'
  BY <1>1, <1>3, <1>5 DEF Inv, Typed, Goes
<1>10. InOrder'
  <2>1. Ordered(r)'
    BY <1>1, <1>2, <1>7, SessionsAssumption DEF Ordered, At, Answered, Sweeping
  <2>2. QED
    BY <1>6, <2>1, OrderFrame
<1>11. MutexHeld'
  <2>1. \A t \in Ids : ~ Holds(r, t)' /\ ~ Holds(r, t)
    BY <1>1, <1>2, <1>7 DEF Holds, At
  <2>2. QED
    BY <1>1, <1>6, <2>1, HoldsFrame
<1>12. \A q \in Requests : /\ req'[q].op = req[q].op /\ req'[q].id = req[q].id
                           /\ req'[q].todo = req[q].todo /\ req'[q].gone = req[q].gone
                           /\ At(q, "register")' => At(q, "register") /\ q # r
                           /\ At(q, "erase")' => At(q, "erase") /\ q # r
                           /\ At(q, "sweepdrop")' <=> At(q, "sweepdrop")
  BY <1>1, <1>2, <1>3, <1>6, <1>7 DEF OthersStay, At
<1>13. IdsUnique'
  <2>1. listed' \subseteq {t \in Ids : Born(t)'}
    BY <1>1, <1>3, <1>8 DEF Inv, IdsUnique
  <2>2. \A q \in Requests : /\ req'[q].id \in Ids => Born(req[q].id)'
                            /\ req'[q].todo \cup req'[q].gone \subseteq {t \in Ids : Born(t)'}
    BY <1>8, <1>12 DEF Inv, IdsUnique
  <2>3. \A p, q \in Requests :
          req'[p].op = "create" /\ req'[p].id \in Ids /\ answer'[p].is # "ok"
            /\ req'[q].id = req'[p].id => q = p
    BY <1>1, <1>12 DEF Inv, IdsUnique
  <2>4. \A p, q \in Requests : At(p, "register")' =>
          /\ req'[p].id \notin listed'
          /\ req'[p].id \notin req'[q].todo \cup req'[q].gone
    BY <1>1, <1>3, <1>4, <1>12 DEF Inv, IdsUnique
  <2>5. \A t \in Ids : ~ Born(t)' => file'[t] = NoFile
    BY <1>1, <1>8 DEF Inv, IdsUnique
  <2>6. QED
    BY <2>1, <2>2, <2>3, <2>4, <2>5 DEF IdsUnique
<1>14. OutOfMap'
  <2>1. \A q \in Requests : ~ At(q, "sweepdrop")' => req'[q].gone \cap listed' = {}
    BY <1>1, <1>3, <1>4, <1>12 DEF Inv, OutOfMap
  <2>2. \A q \in Requests : At(q, "erase")' => req'[q].id \notin listed'
    BY <1>1, <1>3, <1>4, <1>12 DEF Inv, OutOfMap
  <2>3. \A t \in Ids \ listed' : AtWork(t)' \subseteq AtWork(t)
    BY <1>1, <1>3, <1>6, <1>7 DEF OthersStay, AtWork
  <2>4. QED
    BY <1>1, <2>1, <2>2, <2>3 DEF Inv, OutOfMap
<1>15. FilesMatch'
  <2>1. ASSUME NEW t \in listed', smu'[t] = Nobody, AtWork(t)' \cap Makers' = {}
        PROVE  file'[t] = File(session'[t].history) \/ WriteFailed(t)'
    <3>1. t # s
      <4>1. r \in AtWork(s)' \cap Makers'
        BY <1>7 DEF AtWork, Makers
      <4>2. QED
        BY <2>1, <4>1
    <3>2. t \in Ids /\ t \in listed
      BY <1>1, <1>3, <2>1, <3>1 DEF Inv, Typed
    <3>3. AtWork(t) \cap Makers \subseteq AtWork(t)' \cap Makers'
      BY <1>3, <1>6, <3>1 DEF OthersStay, AtWork, Makers
    <3>4. file[t] = File(session[t].history) \/ WriteFailed(t)
      BY <1>1, <2>1, <3>2, <3>3 DEF Inv, FilesMatch, Makers
    <3>5. WriteFailed(t) => WriteFailed(t)'
      BY <1>1, <1>2, <1>6, <3>2, WriteFailedStays
    <3>6. QED
      BY <1>1, <3>4, <3>5
  <2>2. ASSUME NEW t \in Ids \ listed', file'[t] # NoFile, t \notin torn' \cup kept'
        PROVE  \E q \in Requests : Erasing(q, t)' \/ ToldOfFile(q, t)'
    <3>1. PICK q \in Requests : Erasing(q, t) \/ ToldOfFile(q, t)
      BY <1>1, <2>2 DEF Inv, FilesMatch
    <3>2. q # r
      BY <1>1, <1>2, <3>1 DEF Erasing, ToldOfFile, At
    <3>3. QED
      BY <1>6, <3>1, <3>2 DEF OthersStay, Erasing, ToldOfFile, At
  <2>3. QED
    BY <2>1, <2>2 DEF FilesMatch, Makers
<1>16. Recording'
  <2>1. (Ran(r)' <=> Ran(r)) /\ ~ At(r, "eval")' /\ ~ At(r, "output")'
    BY <1>2, <1>7 DEF Ran, At
  <2>2. HistoriesStay /\ \A t \in Ids : Born(t) => Born(t)'
    BY <1>1, <1>8 DEF HistoriesStay
  <2>3. req[r].op # "eval" /\ req[r].op # "history" /\ req'[r].op = req[r].op
    BY <1>2, <1>7
  <2>4. QED
    BY <1>1, <1>2, <1>6, <2>1, <2>2, <2>3, RecordingFrame
<1>17. ClockRead'
  <2>1. ~ At(r, "remove")' /\ req'[r].gone = {} /\ req'[r].at <= now
    BY <1>7 DEF At, Inv, ClockRead
  <2>2. QED
    BY <1>1, <1>6, <1>8, <2>1, ClockFrame
<1>18. QED
  BY <1>9, <1>10, <1>11, <1>13, <1>14, <1>15, <1>16, <1>17 DEF Inv

-----------------------------------------------------------------------------
(* A request comes in, and time passes *)

(* A request that arrives keeps the invariant.                              *)
LEMMA ArriveInv ==
  ASSUME Inv, NEW r \in Requests, NEW op \in Operations, NEW s \in Ids \cup {NoId},
         Arrive(r, op, s)
  PROVE  Inv'
<1> DEFINE at == IF op = "delete" THEN 0 ELSE now
           pc == IF op = "delete" THEN "remove" ELSE "sweep"
<1>1. /\ req[r].pc = "unsent"
      /\ IF op = "create" THEN s = NoId ELSE s \in Told
      /\ req' = [req EXCEPT ![r] = [@ EXCEPT !.op = op, !.id = s, !.at = at, !.pc = pc]]
      /\ before' = [before EXCEPT ![r] = 
                        {q \in Requests : Answered(q) /\ req[q].op = "eval" /\ req[q].id = s}]
      /\ UNCHANGED <<now, session, listed, mu, smu, file, answer, faults, torn, kept, tasks>>
  BY DEF Arrive, At
<1>2. /\ req[r].op = "none" /\ req[r].id = NoId /\ req[r].gone = {}
      /\ answer[r].is = "none" /\ ~ At(r, "done")
  BY <1>1, NotAnswered DEF Inv, InOrder, Ordered, At
<1>3. /\ at \in 0 .. MaxNow /\ at <= now
      /\ pc \in {"remove", "sweep"} /\ (pc = "remove" <=> op = "delete")
  BY SessionsAssumption DEF Inv, Typed
<1> HIDE DEF at, pc
<1>4. /\ req' \in [Requests -> Asked]
      /\ req'[r].op = op /\ req'[r].id = s /\ req'[r].pc = pc
      /\ req'[r].at = at /\ req'[r].todo = req[r].todo /\ req'[r].gone = {}
      /\ \A q \in Requests \ {r} : req'[q] = req[q]
  <2> DEFINE new == [req[r] EXCEPT !.op = op, !.id = s, !.at = at, !.pc = pc]
  <2>1. req' = [req EXCEPT ![r] = new]
    BY <1>1
  <2>2. /\ new \in Asked /\ new.op = op /\ new.id = s /\ new.pc = pc
        /\ new.at = at /\ new.todo = req[r].todo /\ new.gone = {}
    <3>1. req[r] \in Asked /\ pc \in Stages
      BY <1>3 DEF Inv, Typed, Stages
    <3>2. QED
      BY <1>2, <1>3, <3>1 DEF Asked
  <2> HIDE DEF new
  <2>3. QED
    BY <2>1, <2>2 DEF Inv, Typed
<1>5. OthersStay(r)
  BY <1>1, <1>4 DEF OthersStay
<1>6. op # "create" =>
        /\ s \in Ids /\ Born(s)
        /\ \A q \in Requests : req[q].op = "create" /\ answer[q].is # "ok" => req[q].id # s
  BY <1>1 DEF Told, Born
<1>7. op = "create" => s = NoId /\ s \notin Ids
  BY <1>1, SessionsAssumption
<1>8. /\ before' \in [Requests -> SUBSET Requests]
      /\ \A q \in before'[r] : Answered(q)
      /\ \A q \in Requests \ {r} : before'[q] = before[q]
  BY <1>1 DEF Inv, Typed
<1>9. \A t \in Ids : Born(t)' <=> Born(t)
  BY <1>1 DEF Born
<1>10. Typed'
  BY <1>1, <1>4, <1>8 DEF Inv, Typed
<1>11. InOrder'
  <2>1. Ordered(r)'
    BY <1>1, <1>2, <1>3, <1>4, <1>6, <1>7 DEF Ordered, At, Answered, Sweeping, Operations
  <2>2. QED
    BY <1>5, <2>1, OrderFrame
<1>12. MutexHeld'
  <2>1. \A t \in Ids : ~ Holds(r, t)' /\ ~ Holds(r, t)
    BY <1>1, <1>3, <1>4 DEF Holds, At
  <2>2. QED
    BY <1>1, <1>5, <2>1, HoldsFrame
<1>13. IdsUnique'
  <2>1. \A q \in Requests : /\ req'[q].todo = req[q].todo /\ req'[q].gone = req[q].gone
                            /\ At(q, "register")' => At(q, "register") /\ q # r
    BY <1>2, <1>3, <1>4 DEF At
  <2>2. listed' \subseteq {t \in Ids : Born(t)'}
    BY <1>1, <1>9 DEF Inv, IdsUnique
  <2>3. ASSUME NEW q \in Requests
        PROVE  /\ req'[q].id \in Ids => Born(req[q].id)'
               /\ req'[q].todo \cup req'[q].gone \subseteq {t \in Ids : Born(t)'}
    <3>1. req'[q].id \in Ids => Born(req'[q].id)
      BY <1>4, <1>6, <1>7 DEF Inv, IdsUnique
    <3>2. req'[q].id \in Ids => Born(req[q].id)'
      BY <1>9, <3>1 DEF Born
    <3>3. QED
      BY <1>9, <2>1, <3>2 DEF Inv, IdsUnique
  <2>4. ASSUME NEW p \in Requests, NEW q \in Requests,
               req'[p].op = "create", req'[p].id \in Ids, answer'[p].is # "ok",
               req'[q].id = req'[p].id
        PROVE  q = p
    <3>1. p # r
      BY <1>4, <1>7, <2>4
    <3>2. req[p].op = "create" /\ req[p].id \in Ids /\ answer[p].is # "ok" /\ req'[p].id = req[p].id
      BY <1>1, <1>4, <2>4, <3>1
    <3>3. q # r
      BY <1>4, <1>6, <1>7, <2>4, <3>2
    <3>4. QED
      BY <1>4, <2>4, <3>2, <3>3 DEF Inv, IdsUnique
  <2>5. ASSUME NEW p \in Requests, NEW q \in Requests, At(p, "register")'
        PROVE  /\ req'[p].id \notin listed'
               /\ req'[p].id \notin req'[q].todo \cup req'[q].gone
    BY <1>1, <1>4, <2>1, <2>5 DEF Inv, IdsUnique
  <2>6. \A t \in Ids : ~ Born(t)' => file'[t] = NoFile
    BY <1>1, <1>9 DEF Inv, IdsUnique
  <2>7. QED
    BY <2>2, <2>3, <2>4, <2>5, <2>6 DEF IdsUnique
<1>14. OutOfMap'
  <2>1. \A t \in Ids \ listed' : r \in AtWork(t)' => r \in AtWork(t)
    BY <1>3, <1>4 DEF AtWork
  <2>2. ~ At(r, "erase")' /\ req'[r].gone \cap listed' = {}
    BY <1>3, <1>4 DEF At
  <2>3. QED
    BY <1>1, <1>5, <2>1, <2>2, OutFrame
<1>15. FilesMatch'
  <2>1. \A t \in listed : smu'[t] = Nobody =>
          smu[t] = Nobody /\ session'[t].history = session[t].history
    BY <1>1
  <2>2. ~ At(r, "erase") /\ ~ (req[r].op = "create" /\ At(r, "persist"))
    BY <1>1 DEF At
  <2>3. QED
    BY <1>1, <1>2, <1>4, <1>5, <2>1, <2>2, FilesFrame
<1>16. Recording'
  <2>1. ~ Ran(r)' /\ ~ Ran(r)
    BY <1>1, <1>2, <1>3, <1>4 DEF Ran, At
  <2>2. \A q \in Requests \ {r} : /\ req'[q] = req[q] /\ (Ran(q)' <=> Ran(q))
                                  /\ (At(q, "persist")' <=> At(q, "persist"))
    BY <1>1, <1>4 DEF Ran, At
  <2>3. ASSUME NEW t \in Ids, Born(t)'
        PROVE  History1(t)'
    <3>1. Born(t) /\ session'[t].history = session[t].history /\ History1(t)
      BY <1>1, <1>9, <2>3 DEF Inv, Recording
    <3>2. \A n \in 1 .. Len(session[t].history) :
            session[t].history[n].by \in Requests \ {r}
      BY <2>1, <3>1, SessionFacts DEF Inv, Entries, History1
    <3>3. QED
      BY <2>2, <3>1, <3>2 DEF History1
  <2>4. ASSUME NEW q \in Requests, Ran(q)'
        PROVE  Entered(q)'
    <3>1. q \in Requests \ {r} /\ Ran(q) /\ Entered(q)
      BY <2>1, <2>2, <2>4 DEF Inv, Recording
    <3>2. session' = session /\ before'[q] = before[q]
      BY <1>1, <1>8, <3>1
    <3>3. QED
      BY <2>2, <3>1, <3>2 DEF Entered
  <2>5. ASSUME NEW q \in Requests, NEW p \in before'[q]
        PROVE  Answered(p)'
    <3>1. Answered(p)
      BY <1>8 DEF Inv, Recording
    <3>2. QED
      BY <1>1, <3>1 DEF Answered
  <2>6. ASSUME NEW p \in Requests, req'[p].op = "history", answer'[p].is = "ok"
        PROVE  /\ answer'[p].history \in Seq(Entries)
               /\ \A q \in before'[p] : Recorded(q)' /\ req'[q].id = req'[p].id =>
                    \E n \in 1 .. Len(answer'[p].history) : answer'[p].history[n].by = q
    <3>1. p \in Requests \ {r} /\ req'[p] = req[p] /\ before'[p] = before[p]
      BY <1>1, <1>2, <1>8, <2>2, <2>6
    <3>2. \A q \in before[p] : q \in Requests \ {r}
      BY <1>2, <3>1 DEF Inv, Typed, Recording, Answered
    <3>3. \A q \in before[p] : (Recorded(q)' => Recorded(q)) /\ req'[q].id = req[q].id
      BY <1>1, <2>2, <3>2 DEF Recorded
    <3>4. QED
      BY <1>1, <2>6, <3>1, <3>3 DEF Inv, Recording
  <2>7. QED
    BY <2>3, <2>4, <2>5, <2>6 DEF Recording
<1>17. ClockRead'
  <2>1. At(r, "remove")' => req'[r].op = "delete"
    BY <1>3, <1>4 DEF At
  <2>2. QED
    BY <1>1, <1>3, <1>4, <1>5, <1>9, <2>1, ClockFrame
<1>18. QED
  BY <1>10, <1>11, <1>12, <1>13, <1>14, <1>15, <1>16, <1>17 DEF Inv

(* The clock keeps the invariant.                                           *)
LEMMA TickInv ==
  ASSUME Inv, Tick
  PROVE  Inv'
<1>1. /\ now' = now + 1 /\ now' \in 0 .. MaxNow /\ now \in Nat
      /\ UNCHANGED <<session, listed, mu, smu, file, req, answer, faults, before, torn, kept, tasks>>
  BY SessionsAssumption DEF Tick, Inv, Typed
<1>2. Typed'
  BY <1>1 DEF Inv, Typed
<1>3. InOrder' /\ MutexHeld'
  BY <1>1 DEF Inv, InOrder, Ordered, MutexHeld, Holds, At, Answered
<1>4. IdsUnique' /\ OutOfMap'
  BY <1>1 DEF Inv, IdsUnique, OutOfMap, Born, AtWork, At
<1>5. FilesMatch'
  BY <1>1 DEF Inv, FilesMatch, WriteFailed, Erasing, ToldOfFile, AtWork, At
<1>6. Recording'
  BY <1>1 DEF Inv, Recording, Born, History1, Entered, Ran, Recorded, Answered, At
<1>7. ClockRead'
  <2>1. ASSUME NEW s \in Ids, Born(s)
        PROVE  /\ \A n \in 0 .. Len(session[s].history) : Stamp(s, n)' = Stamp(s, n)
               /\ Gap(s) => Gap(s)'
    <3>1. PICK h \in Seq(Entries) : h = session[s].history /\ Len(h) \in Nat
      BY <2>1, SessionFacts DEF Inv
    <3>2. \A n \in 0 .. Len(h) : Stamp(s, n)' = Stamp(s, n)
      BY <1>1, <3>1 DEF Stamp
    <3>3. Stamp(s, Len(h)) = session[s].updatedAt /\ session[s].updatedAt \in Nat
      BY <2>1, <3>1, SessionFacts, SessionsAssumption DEF Inv, ClockRead
    <3>4. Stamp(s, Len(h) + 1) = now /\ Stamp(s, Len(h) + 1)' = now + 1
      BY <1>1, <3>1 DEF Stamp
    <3>5. ASSUME Gap(s) PROVE Gap(s)'
      <4>1. PICK n \in 0 .. Len(h) : Stamp(s, n + 1) - Stamp(s, n) > TTL
        BY <3>1, <3>5 DEF Gap
      <4>2. CASE n = Len(h)
        <5>1. Stamp(s, n + 1)' - Stamp(s, n)' > TTL
          BY <1>1, <3>2, <3>3, <3>4, <4>1, <4>2, SessionsAssumption
        <5>2. QED
          BY <1>1, <3>1, <5>1 DEF Gap
      <4>3. CASE n # Len(h)
        <5>1. n + 1 \in 0 .. Len(h)
          BY <3>1, <4>3
        <5>2. Stamp(s, n + 1)' - Stamp(s, n)' > TTL
          BY <3>2, <4>1, <5>1
        <5>3. QED
          BY <1>1, <3>1, <5>2 DEF Gap
      <4>4. QED
        BY <4>2, <4>3
    <3>6. QED
      BY <3>1, <3>2, <3>5
  <2>2. ASSUME NEW s \in Ids, Born(s)'
        PROVE  session'[s].updatedAt = Stamp(s, Len(session[s].history))'
    <3>1. Born(s) /\ session'[s] = session[s]
      BY <1>1, <2>2 DEF Born
    <3>2. Len(session[s].history) \in 0 .. Len(session[s].history)
      BY <3>1, SessionFacts DEF Inv
    <3>3. Stamp(s, Len(session[s].history))' = Stamp(s, Len(session[s].history))
      BY <1>1, <2>1, <3>1, <3>2 DEF Stamp
    <3>4. QED
      BY <3>1, <3>3 DEF Inv, ClockRead
  <2>3. ASSUME NEW r \in Requests
        PROVE  /\ req'[r].at <= now'
               /\ \A s \in req'[r].gone : Gap(s)'
               /\ At(r, "remove")' /\ req'[r].op # "delete" => Gap(req[r].id)'
    <3>1. req'[r].at <= now'
      <4>1. req[r].at \in Nat /\ req[r].at <= now
        BY AskedFacts, SessionsAssumption DEF Inv, ClockRead
      <4>2. QED
        BY <1>1, <4>1
    <3>2. req[r].gone \subseteq {s \in Ids : Born(s)}
      BY DEF Inv, IdsUnique
    <3>3. At(r, "remove") => req[r].id \in Ids /\ Born(req[r].id)
      <4>1. req[r].op \in {"create", "eval", "history", "delete", "none"}
        BY AskedFacts DEF Inv, Operations
      <4>2. QED
        BY <4>1 DEF Inv, InOrder, Ordered, IdsUnique, At, Sweeping
    <3>4. At(r, "remove") /\ req[r].op # "delete" => Gap(req[r].id)'
      <4>1. PICK s : s = req[r].id /\ s = req'[r].id
        BY <1>1
      <4>2. At(r, "remove") /\ req[r].op # "delete" => Gap(s)'
        BY <2>1, <3>3, <4>1 DEF Inv, ClockRead
      <4>3. QED
        BY <4>1, <4>2 DEF Gap, Stamp
    <3>5. QED
      BY <1>1, <2>1, <3>1, <3>2, <3>4 DEF Inv, ClockRead, At
  <2>4. QED
    BY <2>2, <2>3 DEF ClockRead
<1>8. QED
  BY <1>2, <1>3, <1>4, <1>5, <1>6, <1>7 DEF Inv

(* A step that changes nothing keeps the invariant.                         *)
LEMMA StutterInv ==
  ASSUME Inv, UNCHANGED vars
  PROVE  Inv'
<1>1. UNCHANGED <<now, session, listed, mu, smu, file, req, answer, faults, before, torn, kept, tasks>>
  BY DEF vars
<1>2. Typed' /\ InOrder' /\ MutexHeld'
  BY <1>1 DEF Inv, Typed, InOrder, Ordered, MutexHeld, Holds, At, Answered
<1>3. IdsUnique' /\ OutOfMap'
  BY <1>1 DEF Inv, IdsUnique, OutOfMap, Born, AtWork, At
<1>4. FilesMatch'
  BY <1>1 DEF Inv, FilesMatch, WriteFailed, Erasing, ToldOfFile, AtWork, At
<1>5. Recording'
  BY <1>1 DEF Inv, Recording, Born, History1, Entered, Ran, Recorded, Answered, At
<1>6. ClockRead'
  BY <1>1 DEF Inv, ClockRead, Born, Gap, Stamp, At
<1>7. QED
  BY <1>2, <1>3, <1>4, <1>5, <1>6 DEF Inv

-----------------------------------------------------------------------------
(* The theorems *)

(* Every step of a request keeps the invariant.                             *)
LEMMA StepInv ==
  ASSUME Inv, NEW r \in Requests, Step(r)
  PROVE  Inv'
<1>1. CASE SweepStart(r)
  BY <1>1, SweepStartInv
<1>2. CASE \E s \in Ids : SweepLook(r, s) \/ Unlink(r, s) \/ Make(r, s)
  BY <1>2, SweepLookInv, UnlinkInv, MakeInv
<1>3. CASE SweepDrop(r)
  BY <1>3, SweepDropInv
<1>4. CASE SweepEnd(r)
  BY <1>4, SweepEndInv
<1>5. CASE Register(r)
  BY <1>5, RegisterInv
<1>6. CASE Find(r)
  BY <1>6, FindInv
<1>7. CASE Check(r)
  BY <1>7, CheckInv
<1>8. CASE Remove(r)
  BY <1>8, RemoveInv
<1>9. CASE Erase(r)
  BY <1>9, EraseInv
<1>10. CASE History(r)
  BY <1>10, HistoryInv
<1>11. CASE Lock(r)
  BY <1>11, LockInv
<1>12. CASE Prints(r)
  BY <1>12, PrintsInv
<1>13. CASE Evaluated(r)
  BY <1>13, EvaluatedInv
<1>14. CASE Persist(r)
  BY <1>14, PersistInv
<1>15. QED
  BY <1>1, <1>2, <1>3, <1>4, <1>5, <1>6, <1>7, <1>8, <1>9, <1>10, <1>11, <1>12,
     <1>13, <1>14 DEF Step

(* Every step keeps the invariant.                                          *)
LEMMA InvInductive ==
  ASSUME Inv, [Next]_vars
  PROVE  Inv'
<1>1. CASE \E r \in Requests, op \in Operations, s \in Ids \cup {NoId} : Arrive(r, op, s)
  BY <1>1, ArriveInv
<1>2. CASE \E r \in Requests : Step(r)
  BY <1>2, StepInv
<1>3. CASE \E r \in Requests : PersistFails(r)
  BY <1>3, PersistFailsInv
<1>4. CASE \E r \in Requests : EraseFails(r)
  BY <1>4, EraseFailsInv
<1>5. CASE \E r \in Requests, s \in Ids : UnlinkFails(r, s)
  BY <1>5, UnlinkFailsInv
<1>6. CASE \E r \in Requests : TaskPrints(r)
  BY <1>6, TaskPrintsInv
<1>7. CASE Tick
  BY <1>7, TickInv
<1>8. CASE UNCHANGED vars
  BY <1>8, StutterInv
<1>9. QED
  BY <1>1, <1>2, <1>3, <1>4, <1>5, <1>6, <1>7, <1>8 DEF Next

(* Inv is an invariant of the server.                                       *)
LEMMA Invariance == Spec => []Inv
<1>1. Init => Inv
  BY InitInv
<1>2. Inv /\ [Next]_vars => Inv'
  BY InvInductive
<1>3. QED
  BY <1>1, <1>2, PTL DEF Spec

(* The file of a session nobody is at work in holds its whole history,      *)
(* unless a client was told that its write failed, and none outlives its    *)
(* session but in the ways FilesMatch names: a request was at work in it,   *)
(* or a removal failed, whether or not the client was told.                 *)
THEOREM FilesKeep == Spec => []FilesMatch
<1>1. Inv => FilesMatch
  BY DEF Inv
<1>2. QED
  BY <1>1, Invariance, PTL

(* What the model says of itself is of its types.                           *)
LEMMA InvTypeOK ==
  ASSUME Inv
  PROVE  TypeOK
<1>1. /\ now \in 0 .. MaxNow /\ faults \in 0 .. MaxFaults
      /\ listed \subseteq {s \in Ids : session[s] # NoSession}
      /\ mu \in Requests \cup {Nobody}
      /\ smu \in [Ids -> Requests \cup {Nobody}]
      /\ torn \subseteq Ids /\ kept \subseteq Ids /\ tasks \subseteq Spawners
  BY DEF Inv, Typed, IdsUnique, Born
<1>2. ASSUME NEW s \in Ids, session[s] # NoSession
      PROVE  /\ session[s].history \in Seq(Entries)
             /\ session[s].console \in Consoles
             /\ {session[s].updatedAt, session[s].created} \subseteq 0 .. MaxNow
  BY <1>2, SessionFacts DEF Inv, Born
<1>3. ASSUME NEW s \in Ids
      PROVE  file[s].state \in {"none", "broken", "written"}
  BY DEF Inv, Typed, Files, NoFile, Broken
<1>4. ASSUME NEW r \in Requests
      PROVE  /\ req[r].op \in Operations \cup {"none"}
             /\ req[r].id \in Ids \cup {NoId}
             /\ req[r].todo \cup req[r].gone \subseteq Ids
             /\ before[r] \subseteq Requests
             /\ answer[r].is \in {"none", "ok", "missing", "failed"}
  <2>1. answer[r] \in Answers /\ before[r] \subseteq Requests
    BY DEF Inv, Typed
  <2>2. answer[r].is \in {"none", "ok", "missing", "failed"}
    BY <2>1 DEF Answers
  <2>3. QED
    BY <2>1, <2>2, AskedFacts DEF Inv
<1>5. QED
  BY <1>1, <1>2, <1>3, <1>4 DEF TypeOK

-----------------------------------------------------------------------------
(* Whose output an entry has *)

(* A program of an entry of the session left a task running.                *)
Left(s) ==
  LET h == session[s].history
  IN  \E m \in 1 .. Len(h) : h[m].by \in tasks

(* Entries, and consoles in use, hold what their own program printed, or a  *)
(* task was left by it or by an earlier program of the session.             *)
OwnOutput ==
  /\ \A s \in Ids : Born(s) =>
       LET h == session[s].history
       IN  \A n \in 1 .. Len(h) :
             h[n].output = <<h[n].by>> \/ \E m \in 1 .. n : h[m].by \in tasks
  /\ \A r \in Requests :
       /\ At(r, "eval") => session[req[r].id].console = <<>> \/ Left(req[r].id)
       /\ At(r, "output") =>
            session[req[r].id].console = <<r>> \/ r \in tasks \/ Left(req[r].id)
  /\ \A q \in tasks : q \in Requests /\ (At(q, "output") \/ Ran(q))

(* A step of a request that neither runs nor ends a program.                *)
LEMMA OwnOutputFrame ==
  ASSUME Inv, OwnOutput, NEW r \in Requests, OthersStay(r), HistoriesStay, tasks' = tasks,
         \A s \in Ids : Born(s) => Born(s)' /\ session'[s].console = session[s].console,
         ~ At(r, "output"), ~ At(r, "eval")', ~ At(r, "output")', Ran(r) => Ran(r)'
  PROVE  OwnOutput'
<1>1. ASSUME NEW s \in Ids, Born(s)'
      PROVE  LET h == session'[s].history
             IN  \A n \in 1 .. Len(h) :
                   h[n].output = <<h[n].by>> \/ \E m \in 1 .. n : h[m].by \in tasks'
  <2>1. CASE Born(s)
    BY <1>1, <2>1 DEF OwnOutput, HistoriesStay
  <2>2. CASE ~ Born(s)
    <3>1. session'[s].history = <<>>
      BY <1>1, <2>2 DEF HistoriesStay
    <3>2. QED
      BY <3>1, EmptySeq
  <2>3. QED
    BY <2>1, <2>2
<1>2. ASSUME NEW q \in Requests
      PROVE  /\ At(q, "eval")' => session'[req'[q].id].console = <<>> \/ Left(req[q].id)'
             /\ At(q, "output")' =>
                  session'[req'[q].id].console = <<q>> \/ q \in tasks' \/ Left(req[q].id)'
  <2> SUFFICES ASSUME At(q, "eval")' \/ At(q, "output")'
               PROVE  /\ req'[q] = req[q]
                      /\ session'[req[q].id].console = session[req[q].id].console
                      /\ Left(req[q].id) => Left(req[q].id)'
    BY DEF OwnOutput, At
  <2>1. q # r /\ req'[q] = req[q] /\ req[q].pc \in {"eval", "output"}
    BY DEF OthersStay, At
  <2>2. PICK s \in Ids : s = req[q].id /\ Born(s) /\ s = req'[q].id
    BY <2>1, EvalFacts
  <2>3. session'[s].history = session[s].history /\ session'[s].console = session[s].console
    BY <2>2 DEF HistoriesStay
  <2>4. Left(s) => Left(req[q].id)'
    BY <2>2, <2>3 DEF Left
  <2>5. QED
    BY <2>1, <2>2, <2>3, <2>4
<1>3. ASSUME NEW q \in tasks'
      PROVE  q \in Requests /\ (At(q, "output")' \/ Ran(q)')
  <2>1. CASE q = r
    BY <1>3, <2>1 DEF OwnOutput
  <2>2. CASE q # r
    BY <1>3, <2>2 DEF OwnOutput, OthersStay, Ran, At
  <2>3. QED
    BY <2>1, <2>2
<1>4. QED
  BY <1>1, <1>2, <1>3 DEF OwnOutput

(* A request that is no evaluation at work runs and ends no program.        *)
LEMMA MovesOwnOutput ==
  ASSUME Inv, OwnOutput, NEW r \in Requests, OthersStay(r), UNCHANGED <<session, tasks>>,
         ~ At(r, "output"), ~ At(r, "eval")', ~ At(r, "output")', Ran(r) => Ran(r)'
  PROVE  OwnOutput'
<1>1. HistoriesStay /\ \A s \in Ids : Born(s) => Born(s)'
  BY DEF HistoriesStay, Born
<1>2. QED
  BY <1>1, OwnOutputFrame

(* What a step that leaves the histories alone and makes no fewer programs  *)
(* leave tasks keeps of the entries.                                        *)
LEMMA EntriesFrame ==
  ASSUME OwnOutput, tasks \subseteq tasks',
         \A s \in Ids : /\ Born(s)' <=> Born(s)
                        /\ session'[s].history = session[s].history
  PROVE  /\ \A s \in Ids : Left(s) => Left(s)'
         /\ \A s \in Ids : Born(s)' =>
              LET h == session'[s].history
              IN  \A n \in 1 .. Len(h) :
                    h[n].output = <<h[n].by>> \/ \E m \in 1 .. n : h[m].by \in tasks'
<1>1. ASSUME NEW s \in Ids, Left(s)
      PROVE  Left(s)'
  BY <1>1 DEF Left
<1>2. ASSUME NEW s \in Ids, Born(s)'
      PROVE  LET h == session'[s].history
             IN  \A n \in 1 .. Len(h) :
                   h[n].output = <<h[n].by>> \/ \E m \in 1 .. n : h[m].by \in tasks'
  BY <1>2 DEF OwnOutput
<1>3. QED
  BY <1>1, <1>2

(* What a program starts with, and what it prints, is its own.              *)
LEMMA RunsOwnOutput ==
  ASSUME Inv, OwnOutput, NEW r \in Requests, Lock(r) \/ Prints(r)
  PROVE  OwnOutput'
<1>1. PICK s \in Ids : s = req[r].id /\ Born(s)
  <2>1. req[r].pc \in {"lock", "eval"}
    BY DEF Lock, Prints, At
  <2>2. QED
    BY <2>1, EvalFacts
<1>2. \A q \in Requests \ {r} : req[q].pc \in {"eval", "output"} => req[q].id \in Ids \ {s}
  <2>1. smu[s] \in {r, Nobody}
    BY <1>1, EvalFacts DEF Lock, Prints, At
  <2>2. \A q \in Requests \ {r} : ~ Holds(q, s)
    BY <2>1, SessionsAssumption DEF Inv, MutexHeld, Nobody
  <2>3. QED
    BY <2>2, EvalFacts DEF Holds
<1>3. PICK pc \in {"eval", "output"} : Goto(r, pc) /\ (pc = "eval" <=> Lock(r))
  BY DEF Lock, Prints, At
<1>4. /\ req'[r].id = s /\ req'[r].op = req[r].op /\ req'[r].pc = pc
      /\ \A q \in Requests \ {r} : req'[q] = req[q]
      /\ answer' = answer
  <2>1. Goes(r, pc, req[r].at, req[r].todo, req[r].gone)
    BY <1>3, GotoFacts DEF Inv, Stages
  <2>2. QED
    BY <1>1, <2>1 DEF Goes, Lock, Prints
<1>5. PICK c \in Consoles :
        /\ session' = [session EXCEPT ![s].console = c]
        /\ Lock(r) => c = <<>>
        /\ Prints(r) =>
             c = IF session[s].console = Mixed THEN Mixed ELSE Append(session[s].console, r)
  <2>1. CASE Lock(r)
    <3>1. <<>> \in Consoles /\ ~ Prints(r)
      BY <2>1, EmptySeq DEF Consoles, Lock, Prints, At
    <3>2. QED
      BY <1>1, <2>1, <3>1 DEF Lock
  <2>2. CASE Prints(r)
    <3>1. ~ Lock(r) /\ session[s].console \in Consoles
      BY <1>1, <2>2, SessionFacts DEF Lock, Prints, At, Inv
    <3>2. session[s].console # Mixed => Append(session[s].console, r) \in Consoles
      BY <3>1, AppendProperties DEF Consoles
    <3>3. Mixed \in Consoles
      BY DEF Consoles
    <3>4. QED
      BY <1>1, <2>2, <3>1, <3>2, <3>3 DEF Prints
  <2>3. QED
    BY <2>1, <2>2
<1>6. /\ session'[s].console = c
      /\ \A t \in Ids : /\ Born(t)' <=> Born(t)
                        /\ session'[t].history = session[t].history
      /\ \A t \in Ids \ {s} : session'[t] = session[t]
  BY <1>1, <1>5, ConsoleFacts DEF Inv
<1>7. tasks \subseteq tasks' /\ tasks' \subseteq tasks \cup {r} /\ (Lock(r) => tasks' = tasks)
  BY DEF Lock, Prints, At
<1>8. /\ \A t \in Ids : Left(t) => Left(t)'
      /\ \A t \in Ids : Born(t)' =>
           LET h == session'[t].history
           IN  \A n \in 1 .. Len(h) :
                 h[n].output = <<h[n].by>> \/ \E m \in 1 .. n : h[m].by \in tasks'
  BY <1>6, <1>7, EntriesFrame
<1>9. ASSUME NEW q \in Requests \ {r}
      PROVE  /\ At(q, "eval")' => session'[req'[q].id].console = <<>> \/ Left(req[q].id)'
             /\ At(q, "output")' =>
                  session'[req'[q].id].console = <<q>> \/ q \in tasks' \/ Left(req[q].id)'
  <2>1. req'[q] = req[q] /\ (At(q, "eval")' <=> At(q, "eval")) /\ (At(q, "output")' <=> At(q, "output"))
    BY <1>4 DEF At
  <2> SUFFICES ASSUME req[q].pc \in {"eval", "output"}
               PROVE  /\ session'[req[q].id].console = session[req[q].id].console
                      /\ Left(req[q].id) => Left(req[q].id)'
    BY <1>7, <2>1 DEF OwnOutput, At
  <2>2. PICK t \in Ids \ {s} : t = req[q].id /\ t = req'[q].id
    BY <1>2, <2>1
  <2>3. Left(t) => Left(req[q].id)'
    BY <1>8, <2>2 DEF Left
  <2>4. QED
    BY <1>6, <2>2, <2>3
<1>10. /\ At(r, "eval")' => session'[req'[r].id].console = <<>> \/ Left(req[r].id)'
       /\ At(r, "output")' =>
            session'[req'[r].id].console = <<r>> \/ r \in tasks' \/ Left(req[r].id)'
  <2>1. Left(s)' => Left(req[r].id)'
    BY <1>4 DEF Left
  <2>2. CASE Lock(r)
    BY <1>3, <1>4, <1>5, <1>6, <2>2 DEF At
  <2>3. CASE Prints(r)
    <3>1. pc = "output" /\ (session[s].console = <<>> \/ Left(s))
      BY <1>1, <1>3, <2>3 DEF Prints, OwnOutput, Lock, At
    <3>2. session[s].console = <<>> => c = <<r>>
      <4>1. <<>> # Mixed /\ Append(<<>>, r) = <<r>>
        BY EmptySeq DEF Mixed
      <4>2. QED
        BY <1>5, <2>3, <4>1
    <3>3. QED
      BY <1>4, <1>6, <1>8, <2>1, <3>1, <3>2 DEF At
  <2>4. QED
    BY <2>2, <2>3
<1>11. ASSUME NEW q \in tasks'
       PROVE  q \in Requests /\ (At(q, "output")' \/ Ran(q)')
  <2>1. CASE q = r
    <3>1. Prints(r) => At(r, "output")'
      BY <1>3, <1>4 DEF Prints, Lock, At
    <3>2. ~ Prints(r) => FALSE
      <4>1. ASSUME Lock(r) PROVE r \notin tasks
        BY <4>1, NotAnswered DEF Lock, OwnOutput, Ran, At
      <4>2. QED
        BY <1>7, <1>11, <2>1, <4>1
    <3>3. QED
      BY <2>1, <3>1, <3>2
  <2>2. CASE q # r
    BY <1>4, <1>7, <1>11, <2>2 DEF OwnOutput, Ran, At
  <2>3. QED
    BY <2>1, <2>2
<1>12. QED
  BY <1>8, <1>9, <1>10, <1>11 DEF OwnOutput

(* The entry an evaluation leaves is its own.                               *)
LEMMA EntryOwnOutput ==
  ASSUME Inv, OwnOutput, NEW r \in Requests, Evaluated(r)
  PROVE  OwnOutput'
<1>1. PICK s \in Ids, e \in Entries :
        /\ s = req[r].id /\ Born(s) /\ smu[s] = r
        /\ e.by = r /\ e.output = session[s].console /\ e.at = now
        /\ session' = [session EXCEPT ![s] = WithEntry(session[s], e)]
  BY EvaluatedFacts
<1>2. At(r, "output") /\ tasks' = tasks /\ answer' = answer /\ req[r].op = "eval"
  BY EvalFacts DEF Evaluated, At
<1>3. PICK h \in Seq(Entries) : h = session[s].history /\ Len(h) \in Nat
  BY <1>1, SessionFacts DEF Inv
<1>4. PICK g : g = session'[s].history
  OBVIOUS
<1>5. /\ \A t \in Ids : Born(t)' <=> Born(t)
      /\ \A t \in Ids \ {s} : session'[t] = session[t]
      /\ Len(g) = Len(h) + 1
      /\ \A n \in 1 .. Len(h) : g[n] = h[n]
      /\ g[Len(h) + 1] = e
  <2>1. Typed
    BY DEF Inv
  <2>2. /\ \A t \in Ids : Born(t)' <=> Born(t)
        /\ \A t \in Ids \ {s} : session'[t] = session[t]
        /\ Len(session'[s].history) = Len(session[s].history) + 1
        /\ \A n \in 1 .. Len(session[s].history) :
             session'[s].history[n] = session[s].history[n]
        /\ session'[s].history[Len(session[s].history) + 1] = e
    BY <1>1, <2>1, EntryFacts
  <2>3. QED
    BY <1>3, <1>4, <2>2
<1>6. /\ req'[r].id = s /\ req'[r].op = "eval" /\ req'[r].pc = "persist"
      /\ \A q \in Requests \ {r} : req'[q] = req[q]
  <2>1. Goes(r, "persist", req[r].at, req[r].todo, req[r].gone)
    BY GotoFacts DEF Inv, Evaluated, Stages
  <2>2. QED
    BY <1>1, <1>2, <2>1 DEF Goes
<1>7. ASSUME NEW n \in 1 .. Len(g)
      PROVE  g[n].output = <<g[n].by>> \/ \E m \in 1 .. n : g[m].by \in tasks
  <2>1. CASE n \in 1 .. Len(h)
    <3>1. h[n].output = <<h[n].by>> \/ \E m \in 1 .. n : h[m].by \in tasks
      BY <1>1, <1>3, <2>1 DEF OwnOutput
    <3>2. \A m \in 1 .. n : m \in 1 .. Len(h)
      BY <1>3, <2>1
    <3>3. QED
      BY <1>5, <2>1, <3>1, <3>2
  <2>2. CASE n = Len(h) + 1
    <3>1. session[s].console = <<r>> \/ r \in tasks \/ Left(s)
      BY <1>1, <1>2 DEF OwnOutput
    <3>2. CASE session[s].console = <<r>>
      BY <1>1, <1>5, <2>2, <3>2
    <3>3. CASE r \in tasks
      BY <1>1, <1>3, <1>5, <2>2, <3>3
    <3>4. CASE Left(s)
      <4>1. PICK m \in 1 .. Len(h) : h[m].by \in tasks
        BY <1>3, <3>4 DEF Left
      <4>2. m \in 1 .. n /\ g[m].by \in tasks
        BY <1>3, <1>5, <2>2, <4>1
      <4>3. QED
        BY <4>2
    <3>5. QED
      BY <3>1, <3>2, <3>3, <3>4
  <2>3. QED
    BY <1>3, <1>5, <2>1, <2>2
<1>8. ASSUME NEW q \in Requests
      PROVE  /\ At(q, "eval")' => session'[req'[q].id].console = <<>> \/ Left(req[q].id)'
             /\ At(q, "output")' =>
                  session'[req'[q].id].console = <<q>> \/ q \in tasks' \/ Left(req[q].id)'
  <2> SUFFICES ASSUME At(q, "eval")' \/ At(q, "output")'
               PROVE  /\ req'[q] = req[q]
                      /\ session'[req[q].id].console = session[req[q].id].console
                      /\ Left(req[q].id) => Left(req[q].id)'
    BY <1>2 DEF OwnOutput, At
  <2>1. q # r /\ req'[q] = req[q] /\ req[q].pc \in {"eval", "output"}
    BY <1>6 DEF At
  <2>2. ~ Holds(q, s)
    BY <1>1, <2>1 DEF Inv, MutexHeld
  <2>3. PICK t \in Ids \ {s} : t = req[q].id /\ t = req'[q].id
    BY <2>1, <2>2, EvalFacts DEF Holds
  <2>4. session'[t] = session[t] /\ (Left(t) => Left(req[q].id)')
    BY <1>2, <1>5, <2>3 DEF Left
  <2>5. QED
    BY <2>1, <2>3, <2>4
<1>9. ASSUME NEW q \in tasks'
      PROVE  q \in Requests /\ (At(q, "output")' \/ Ran(q)')
  <2>1. CASE q = r
    BY <1>6, <2>1 DEF Ran, At
  <2>2. CASE q # r
    BY <1>2, <1>6, <1>9, <2>2 DEF OwnOutput, Ran, At
  <2>3. QED
    BY <2>1, <2>2
<1>10. ASSUME NEW t \in Ids, Born(t)'
       PROVE  LET k == session'[t].history
              IN  \A n \in 1 .. Len(k) :
                    k[n].output = <<k[n].by>> \/ \E m \in 1 .. n : k[m].by \in tasks'
  <2>1. CASE t = s
    BY <1>2, <1>4, <1>7, <2>1
  <2>2. CASE t # s
    BY <1>2, <1>5, <1>10, <2>2 DEF OwnOutput
  <2>3. QED
    BY <2>1, <2>2
<1>11. QED
  BY <1>8, <1>9, <1>10 DEF OwnOutput

(* What a task prints is in the output of no program but its own and those  *)
(* that come after it.                                                      *)
LEMMA TaskOwnOutput ==
  ASSUME Inv, OwnOutput, NEW q \in Requests, TaskPrints(q)
  PROVE  OwnOutput'
<1>1. PICK s \in Ids : s = req[q].id
  BY TaskPrintsFacts
<1>2. /\ \A t \in Ids : /\ Born(t)' <=> Born(t)
                        /\ session'[t].history = session[t].history
      /\ \A t \in Ids \ {s} : session'[t] = session[t]
      /\ tasks' = tasks /\ req' = req /\ answer' = answer /\ q \in tasks
  <2>1. q \in tasks /\ tasks' = tasks /\ req' = req /\ answer' = answer
    BY DEF TaskPrints
  <2>2. QED
    BY <1>1, <2>1, TaskPrintsFacts
<1>3. /\ \A t \in Ids : Left(t) => Left(t)'
      /\ \A t \in Ids : Born(t)' =>
           LET h == session'[t].history
           IN  \A n \in 1 .. Len(h) :
                 h[n].output = <<h[n].by>> \/ \E m \in 1 .. n : h[m].by \in tasks'
  BY <1>2, EntriesFrame
<1>4. At(q, "output") \/ Left(s)
  <2>1. CASE Ran(q)
    <3>1. Entered(q)
      BY <2>1 DEF Inv, Recording
    <3>2. QED
      BY <1>1, <1>2, <3>1 DEF Entered, Left
  <2>2. QED
    BY <1>2, <2>1 DEF OwnOutput
<1>5. ASSUME NEW r \in Requests, req[r].pc \in {"eval", "output"}
      PROVE  /\ At(r, "eval")' => session'[req'[r].id].console = <<>> \/ Left(req[r].id)'
             /\ At(r, "output")' =>
                  session'[req'[r].id].console = <<r>> \/ r \in tasks' \/ Left(req[r].id)'
  <2>1. PICK t \in Ids : t = req[r].id /\ t = req'[r].id
    BY <1>2, <1>5, EvalFacts
  <2>2. Left(t) => Left(req[r].id)'
    BY <1>3, <2>1 DEF Left
  <2>3. CASE t = s /\ At(q, "output")
    <3>1. Holds(r, s) /\ Holds(q, s)
      BY <1>1, <1>5, <2>1, <2>3 DEF Holds, At
    <3>2. r = q
      BY <3>1 DEF Inv, MutexHeld
    <3>3. QED
      BY <1>2, <2>3, <3>2 DEF At
  <2>4. CASE t = s /\ Left(s)
    BY <2>2, <2>4
  <2>5. CASE t # s
    BY <1>2, <1>5, <2>1, <2>2, <2>5 DEF OwnOutput, At
  <2>6. QED
    BY <1>4, <2>3, <2>4, <2>5
<1>6. ASSUME NEW p \in tasks'
      PROVE  p \in Requests /\ (At(p, "output")' \/ Ran(p)')
  BY <1>2, <1>6 DEF OwnOutput, Ran, At
<1>7. ASSUME NEW r \in Requests
      PROVE  /\ At(r, "eval")' => session'[req'[r].id].console = <<>> \/ Left(req[r].id)'
             /\ At(r, "output")' =>
                  session'[req'[r].id].console = <<r>> \/ r \in tasks' \/ Left(req[r].id)'
  BY <1>2, <1>5 DEF At
<1>8. QED
  BY <1>3, <1>6, <1>7 DEF OwnOutput

(* Every step keeps it.                                                     *)
LEMMA OwnOutputInductive ==
  ASSUME Inv, Inv', OwnOutput, [Next]_vars
  PROVE  OwnOutput'
<1>1. ASSUME NEW r \in Requests, NEW op \in Operations, NEW s \in Ids \cup {NoId},
             Arrive(r, op, s)
      PROVE  OwnOutput'
  <2>1. OthersStay(r)
    BY <1>1 DEF Arrive, OthersStay, Inv, Typed
  <2>2. ~ At(r, "output") /\ ~ At(r, "eval")' /\ ~ At(r, "output")' /\ ~ Ran(r)
    <3>1. req[r].pc = "unsent" /\ req[r].op = "none"
      BY <1>1 DEF Arrive, Inv, InOrder, Ordered, At
    <3>2. req'[r].pc \in {"remove", "sweep"}
      <4>1. req'[r] = [req[r] EXCEPT !.op = op, !.id = s,
                         !.at = IF op = "delete" THEN 0 ELSE now,
                         !.pc = IF op = "delete" THEN "remove" ELSE "sweep"]
        BY <1>1 DEF Arrive, Inv, Typed
      <4>2. req[r] \in Asked
        BY DEF Inv, Typed
      <4>3. QED
        BY <4>1, <4>2 DEF Asked
    <3>3. QED
      BY <3>1, <3>2 DEF Ran, At
  <2>3. QED
    BY <1>1, <2>1, <2>2, MovesOwnOutput DEF Arrive
<1>2. ASSUME NEW r \in Requests, NEW s,
             SweepStart(r) \/ SweepLook(r, s) \/ SweepDrop(r) \/ SweepEnd(r)
               \/ Unlink(r, s) \/ UnlinkFails(r, s)
      PROVE  OwnOutput'
  <2>1. /\ req[r].pc \in {"sweep", "sweeping", "sweepdrop", "unlink"}
        /\ UNCHANGED <<session, answer, tasks>>
    BY <1>2 DEF SweepStart, SweepLook, SweepDrop, SweepEnd, Unlink, UnlinkFails, At
  <2>2. /\ req'[r].op = req[r].op
        /\ req'[r].pc \in {"sweeping", "sweepdrop", "unlink", "make", "find"}
        /\ \A q \in Requests \ {r} : req'[q] = req[q]
    <3>1. req[r] \in Asked /\ req \in [Requests -> Asked]
      BY DEF Inv, Typed
    <3>2. QED
      BY <1>2, <3>1 DEF SweepStart, SweepLook, SweepDrop, SweepEnd, Unlink, UnlinkFails,
                        AfterSweep, Goto, At, Asked
  <2>3. QED
    BY <2>1, <2>2, MovesOwnOutput, NotAnswered DEF OthersStay, Ran, At
<1>3. ASSUME NEW r \in Requests,
             Find(r) \/ Check(r) \/ Remove(r) \/ Erase(r) \/ EraseFails(r) \/ History(r)
               \/ Register(r) \/ Persist(r) \/ PersistFails(r)
      PROVE  OwnOutput'
  <2>1. /\ req[r].pc \in {"find", "check", "remove", "erase", "lock", "register", "persist"}
        /\ UNCHANGED <<session, tasks>>
        /\ \E pc \in {"check", "remove", "lock", "erase", "persist", "done"} : Goto(r, pc)
    BY <1>3 DEF Find, Check, Remove, Erase, EraseFails, History, Register, Persist,
                PersistFails, At
  <2>2. /\ req'[r].op = req[r].op /\ req'[r].pc \notin {"eval", "output"}
        /\ \A q \in Requests \ {r} : req'[q] = req[q]
    BY <2>1 DEF Goto, Inv, Typed, Asked
  <2>3. \A q \in Requests \ {r} : answer'[q] = answer[q]
    BY <1>3 DEF Find, Check, Remove, Erase, EraseFails, History, Register, Persist,
                PersistFails, Answer, Inv, Typed
  <2>4. Ran(r) => Ran(r)'
    <3>1. CASE Persist(r) \/ PersistFails(r)
      BY <2>2, <3>1, AnswerFacts DEF Persist, PersistFails, Ran, Inv
    <3>2. CASE ~ (Persist(r) \/ PersistFails(r))
      <4>1. ~ At(r, "persist") /\ ~ At(r, "done")
        BY <1>3, <3>2 DEF Find, Check, Remove, Erase, EraseFails, History, Register, At
      <4>2. QED
        BY <4>1, NotAnswered DEF Ran
    <3>3. QED
      BY <3>1, <3>2
  <2>5. QED
    BY <2>1, <2>2, <2>3, <2>4, MovesOwnOutput DEF OthersStay, At
<1>4. ASSUME NEW r \in Requests, NEW s \in Ids, Make(r, s)
      PROVE  OwnOutput'
  <2>1. /\ req[r].pc = "make" /\ ~ Born(s) /\ UNCHANGED <<answer, tasks>>
        /\ session' = [session EXCEPT ![s] = Made(now)]
        /\ req' = [req EXCEPT ![r].pc = "register", ![r].id = s]
    BY <1>4 DEF Make, Born, At
  <2>2. /\ Made(now) # NoSession /\ Made(now).history = <<>>
    BY MadeFacts DEF Inv, Typed
  <2>3. /\ HistoriesStay
        /\ \A t \in Ids : Born(t) => Born(t)' /\ session'[t].console = session[t].console
    BY <2>1, <2>2 DEF HistoriesStay, Born, Inv, Typed
  <2>4. OthersStay(r) /\ req'[r].pc = "register"
    BY <2>1 DEF OthersStay, Inv, Typed, Asked
  <2>5. ~ Ran(r)
    BY <2>1, NotAnswered DEF Ran, At
  <2>6. QED
    BY <2>1, <2>3, <2>4, <2>5, OwnOutputFrame DEF At
<1>5. ASSUME UNCHANGED <<session, req, answer, tasks>>
      PROVE  OwnOutput'
  BY <1>5 DEF OwnOutput, Left, Born, Ran, At
<1>6. CASE Tick \/ UNCHANGED vars
  BY <1>5, <1>6 DEF Tick, vars
<1>7. CASE \E r \in Requests : Step(r)
  <2>1. PICK r \in Requests : Step(r)
    BY <1>7
  <2>2. CASE \E s \in Ids : SweepLook(r, s) \/ Unlink(r, s) \/ Make(r, s)
    BY <1>2, <1>4, <2>2
  <2>3. CASE SweepStart(r) \/ SweepDrop(r) \/ SweepEnd(r)
    BY <1>2, <2>3
  <2>4. CASE \/ Find(r) \/ Check(r) \/ Remove(r) \/ Erase(r) \/ History(r)
             \/ Register(r) \/ Persist(r)
    BY <1>3, <2>4
  <2>5. CASE Lock(r) \/ Prints(r)
    BY <2>5, RunsOwnOutput
  <2>6. CASE Evaluated(r)
    BY <2>6, EntryOwnOutput
  <2>7. QED
    BY <2>1, <2>2, <2>3, <2>4, <2>5, <2>6 DEF Step
<1>8. CASE \E r \in Requests :
             \/ PersistFails(r) \/ EraseFails(r) \/ TaskPrints(r)
             \/ \E s \in Ids : UnlinkFails(r, s)
  BY <1>2, <1>3, <1>8, TaskOwnOutput
<1>9. QED
  BY <1>1, <1>6, <1>7, <1>8 DEF Next

(* It is an invariant of the server.                                        *)
LEMMA OwnOutputInvariance == Spec => []OwnOutput
<1>1. Init => OwnOutput
  <2> SUFFICES ASSUME Init PROVE OwnOutput
    OBVIOUS
  <2>1. \A r \in Requests : req[r].pc = "unsent"
    BY DEF Init, Unsent
  <2>2. ASSUME NEW s \in Ids, Born(s)
        PROVE  session[s].history = <<>>
    BY <2>2, MadeFacts, SessionsAssumption DEF Init, Born, Made
  <2>3. tasks = {}
    BY DEF Init
  <2>4. QED
    BY <2>1, <2>2, <2>3, EmptySeq DEF OwnOutput, At
<1>2. Inv /\ Inv' /\ OwnOutput /\ [Next]_vars => OwnOutput'
  BY OwnOutputInductive
<1>3. QED
  BY <1>1, <1>2, Invariance, PTL DEF Spec

(* An evaluation answered with its entry is in its session's history once,  *)
(* with its own output unless a task was left running by its program or an  *)
(* earlier one, after those answered before it was sent, and in every       *)
(* history asked for later.                                                 *)
THEOREM NothingIsLost == Spec => []NothingLost
<1>1. ASSUME Inv, OwnOutput
      PROVE  NothingLost
  <2>1. ASSUME NEW r \in Requests, Recorded(r)
        PROVE  LET h == session[req[r].id].history
               IN  \E n \in 1 .. Len(h) :
                     /\ Places(h, r) = {n}
                     /\ h[n].output = <<r>> \/ \E m \in 1 .. n : h[m].by \in tasks
                     /\ \A q \in before[r] : req[q].id = req[r].id =>
                          \A m \in Places(h, q) : m < n
    <3>1. PICK h : h = session[req[r].id].history
      OBVIOUS
    <3>2. Ran(r) /\ req[r].id \in Ids /\ Born(req[r].id)
      BY <1>1, <2>1 DEF Recorded, Ran, Inv, InOrder, Ordered, IdsUnique
    <3>3. Entered(r) /\ History1(req[r].id)
      BY <1>1, <3>2 DEF Inv, Recording
    <3>4. PICK n \in 1 .. Len(h) :
            /\ h[n].by = r
            /\ \A q \in before[r], m \in 1 .. Len(h) : h[m].by = q => m < n
      BY <3>1, <3>3 DEF Entered
    <3>5. \A m \in 1 .. Len(h) : h[m].by = r => m = n
      BY <3>1, <3>3, <3>4 DEF History1
    <3>6. Places(h, r) = {n}
      BY <3>4, <3>5 DEF Places
    <3>7. \A q \in before[r] : \A m \in Places(h, q) : m < n
      BY <3>4 DEF Places
    <3>8. h[n].output = <<r>> \/ \E m \in 1 .. n : h[m].by \in tasks
      BY <1>1, <3>1, <3>2, <3>4 DEF OwnOutput
    <3>9. QED
      BY <3>1, <3>6, <3>7, <3>8
  <2>2. ASSUME NEW r \in Requests, req[r].op = "history", answer[r].is = "ok",
               NEW q \in before[r], Recorded(q), req[q].id = req[r].id
        PROVE  Places(answer[r].history, q) # {}
    <3>1. \E n \in 1 .. Len(answer[r].history) : answer[r].history[n].by = q
      BY <1>1, <2>2 DEF Inv, Recording
    <3>2. QED
      BY <3>1 DEF Places
  <2>3. QED
    BY <1>1, <2>1, <2>2, InvTypeOK DEF NothingLost
<1>2. QED
  BY <1>1, Invariance, OwnOutputInvariance, PTL

(* A session leaves the map only when a client deletes it, or when nothing  *)
(* ended in it for longer than the TTL.                                     *)
THEOREM OnlyIdleGo == Spec => OnlyIdleSwept
<1> DEFINE Idle == \A s \in listed \ listed' :
                     \/ Idled(s)
                     \/ \E r \in Requests :
                          req[r].op = "delete" /\ req[r].id = s /\ At(r, "remove")
<1>1. ASSUME Inv, [Next]_vars
      PROVE  Idle
  <2> SUFFICES ASSUME NEW s \in listed \ listed'
               PROVE  \/ Idled(s)
                      \/ \E r \in Requests :
                           req[r].op = "delete" /\ req[r].id = s /\ At(r, "remove")
    OBVIOUS
  <2>1. s \in Ids /\ (Gap(s) => Idled(s))
    BY <1>1, IdledIsGap DEF Inv, Typed, IdsUnique
  <2>2. PICK r \in Requests : SweepDrop(r) \/ Remove(r)
    <3>1. ~ (listed \subseteq listed')
      OBVIOUS
    <3>2. ~ UNCHANGED vars /\ ~ Tick
      BY <3>1 DEF vars, Tick
    <3>3. ASSUME NEW r \in Requests
          PROVE  ~ (\E op \in Operations, t \in Ids \cup {NoId} : Arrive(r, op, t))
      BY <3>1 DEF Arrive
    <3>4. ASSUME NEW r \in Requests
          PROVE  /\ ~ (\E t \in Ids : SweepLook(r, t) \/ Unlink(r, t) \/ Make(r, t))
                 /\ ~ SweepStart(r) /\ ~ SweepEnd(r) /\ ~ Register(r)
      BY <3>1 DEF SweepStart, SweepLook, Unlink, Make, SweepEnd, Register
    <3>5. ASSUME NEW r \in Requests
          PROVE  /\ ~ Find(r) /\ ~ Check(r) /\ ~ Erase(r) /\ ~ History(r) /\ ~ Lock(r)
                 /\ ~ Prints(r) /\ ~ Evaluated(r) /\ ~ Persist(r) /\ ~ PersistFails(r)
      BY <3>1 DEF Find, Check, Erase, History, Lock, Prints, Evaluated, Persist, PersistFails
    <3>6. ASSUME NEW r \in Requests
          PROVE  /\ ~ EraseFails(r) /\ ~ TaskPrints(r)
                 /\ ~ (\E t \in Ids : UnlinkFails(r, t))
      BY <3>1 DEF EraseFails, TaskPrints, UnlinkFails
    <3>7. QED
      BY <1>1, <3>2, <3>3, <3>4, <3>5, <3>6 DEF Next, Step
  <2>3. CASE SweepDrop(r)
    <3>1. s \in req[r].gone
      BY <2>3 DEF SweepDrop
    <3>2. QED
      BY <1>1, <2>1, <3>1 DEF Inv, ClockRead
  <2>4. CASE Remove(r)
    <3>1. At(r, "remove") /\ req[r].id = s
      BY <2>4 DEF Remove
    <3>2. QED
      BY <1>1, <2>1, <3>1 DEF Inv, ClockRead
  <2>5. QED
    BY <2>2, <2>3, <2>4
<1>2. Inv /\ [Next]_vars => [Idle]_vars
  BY <1>1
<1> HIDE DEF Idle
<1>3. Spec => [][Idle]_vars
  BY <1>2, Invariance, PTL DEF Spec
<1>4. QED
  BY <1>3 DEF OnlyIdleSwept, Idle

=============================================================================
