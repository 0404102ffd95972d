----------------------- MODULE ChannelSemaphoreProofs ------------------------
(***************************************************************************)
(* Proofs about ChannelSemaphore, for any number of tasks and any sizes of *)
(* semaphores: no unit of a lock is lost or made, no task waits while      *)
(* there is a token for it, and the tokens in a channel implement the      *)
(* semaphore that the interface promises.                                  *)
(***************************************************************************)
EXTENDS ChannelSemaphore, SequenceTheorems, FiniteSetTheorems, TLAPS

(* The tasks in the channel's queue are parked, and each is there once.     *)
InOrder(queue, at) ==
  /\ queue \in Seq(Callers)
  /\ \A i \in 1 .. Len(queue) : at[queue[i]] = "parked"
  /\ \A i, j \in 1 .. Len(queue) : queue[i] = queue[j] => i = j

(* How programs use a lock: a task in a Take has no unit, and one in a Give *)
(* has.                                                                     *)
LockDiscipline ==
  use = "lock" =>
    \A c \in Callers :
      /\ phase[c] \in {"takes", "taking", "parked"} => c \notin holders
      /\ phase[c] \in {"gives", "giving"} => c \in holders

(* The inductive invariant.                                                 *)
Inv == UnitsConserved /\ NoIdleToken /\ InOrder(waiting, phase) /\ LockDiscipline

-----------------------------------------------------------------------------
(* The queue of parked tasks *)

(* Taking out one element leaves the others, in their order.                *)
LEMMA RemoveAtFacts ==
  ASSUME NEW S, NEW seq \in Seq(S), NEW n \in 1 .. Len(seq)
  PROVE  /\ RemoveAt(seq, n) \in Seq(S)
         /\ Len(RemoveAt(seq, n)) = Len(seq) - 1
         /\ \A i \in 1 .. Len(seq) - 1 :
              RemoveAt(seq, n)[i] = seq[IF i < n THEN i ELSE i + 1]
<1> DEFINE before == SubSeq(seq, 1, n - 1)
           after  == SubSeq(seq, n + 1, Len(seq))
<1>1. Len(seq) \in Nat /\ n \in Int /\ \A i \in 1 .. Len(seq) : seq[i] \in S
  BY LenProperties, ElementOfSeq
<1>2. /\ before \in Seq(S) /\ Len(before) = n - 1
      /\ \A i \in 1 .. n - 1 : before[i] = seq[i]
  <2>1. \A i \in 1 .. n - 1 : seq[i] \in S
    BY <1>1
  <2>2. /\ before \in Seq(S)
        /\ Len(before) = IF 1 <= n - 1 THEN (n - 1) - 1 + 1 ELSE 0
        /\ \A i \in 1 .. (n - 1) - 1 + 1 : before[i] = seq[1 + i - 1]
    BY <1>1, <2>1, SubSeqProperties
  <2> HIDE DEF before
  <2>3. QED
    BY <1>1, <2>2
<1>3. /\ after \in Seq(S) /\ Len(after) = Len(seq) - n
      /\ \A i \in 1 .. Len(seq) - n : after[i] = seq[n + i]
  <2>1. \A i \in n + 1 .. Len(seq) : seq[i] \in S
    BY <1>1
  <2>2. /\ after \in Seq(S)
        /\ Len(after) = IF n + 1 <= Len(seq) THEN Len(seq) - (n + 1) + 1 ELSE 0
        /\ \A i \in 1 .. Len(seq) - (n + 1) + 1 : after[i] = seq[(n + 1) + i - 1]
    BY <1>1, <2>1, SubSeqProperties
  <2> HIDE DEF after
  <2>3. QED
    BY <1>1, <2>2
<1>4. RemoveAt(seq, n) = before \o after
  BY DEF RemoveAt
<1> HIDE DEF before, after
<1>5. /\ before \o after \in Seq(S)
      /\ Len(before \o after) = Len(before) + Len(after)
      /\ \A i \in 1 .. Len(before) + Len(after) :
           (before \o after)[i] = IF i <= Len(before) THEN before[i]
                                                     ELSE after[i - Len(before)]
  BY <1>2, <1>3, ConcatProperties
<1>6. ASSUME NEW i \in 1 .. Len(seq) - 1
      PROVE  (before \o after)[i] = seq[IF i < n THEN i ELSE i + 1]
  <2>1. CASE i < n
    BY <1>1, <1>2, <1>3, <1>5, <2>1
  <2>2. CASE ~ (i < n)
    <3>1. (before \o after)[i] = after[i - (n - 1)]
      BY <1>1, <1>2, <1>3, <1>5, <2>2
    <3>2. i - (n - 1) \in 1 .. Len(seq) - n /\ n + (i - (n - 1)) = i + 1
      BY <1>1, <2>2
    <3>3. QED
      BY <1>1, <1>3, <2>2, <3>1, <3>2
  <2>3. QED
    BY <2>1, <2>2
<1>7. QED
  BY <1>1, <1>2, <1>3, <1>4, <1>5, <1>6

(* A task that is not parked may go anywhere.                               *)
LEMMA OthersInOrder ==
  ASSUME TypeOK, InOrder(waiting, phase), NEW c \in Callers, phase[c] # "parked", NEW p
  PROVE  InOrder(waiting, [phase EXCEPT ![c] = p])
BY ElementOfSeq DEF TypeOK, InOrder

(* A task that parks goes to the end of the queue.                          *)
LEMMA ParkInOrder ==
  ASSUME TypeOK, InOrder(waiting, phase), NEW c \in Callers, phase[c] # "parked"
  PROVE  InOrder(Append(waiting, c), [phase EXCEPT ![c] = "parked"])
<1> DEFINE queue == Append(waiting, c)
<1>1. /\ queue \in Seq(Callers) /\ Len(waiting) \in Nat
      /\ Len(queue) = Len(waiting) + 1
      /\ \A i \in 1 .. Len(waiting) : queue[i] = waiting[i]
      /\ queue[Len(waiting) + 1] = c
  BY AppendProperties, LenProperties DEF InOrder
<1>2. \A i \in 1 .. Len(waiting) : waiting[i] \in Callers /\ waiting[i] # c
  BY ElementOfSeq DEF InOrder
<1>3. \A i \in 1 .. Len(queue) : i \in 1 .. Len(waiting) \/ i = Len(waiting) + 1
  BY <1>1
<1> HIDE DEF queue
<1>4. ASSUME NEW i \in 1 .. Len(queue)
      PROVE  [phase EXCEPT ![c] = "parked"][queue[i]] = "parked"
  BY <1>1, <1>2, <1>3 DEF InOrder, TypeOK
<1>5. ASSUME NEW i \in 1 .. Len(queue), NEW j \in 1 .. Len(queue), queue[i] = queue[j]
      PROVE  i = j
  BY <1>1, <1>2, <1>3, <1>5 DEF InOrder
<1>6. QED
  BY <1>1, <1>4, <1>5 DEF InOrder, queue

(* A task whose wait is over leaves the queue, from wherever it is.         *)
LEMMA LeaveInOrder ==
  ASSUME TypeOK, InOrder(waiting, phase), NEW n \in 1 .. Len(waiting), NEW p
  PROVE  InOrder(RemoveAt(waiting, n), [phase EXCEPT ![waiting[n]] = p])
<1> DEFINE queue == RemoveAt(waiting, n)
           Old(i) == IF i < n THEN i ELSE i + 1
<1>1. /\ queue \in Seq(Callers) /\ Len(waiting) \in Nat
      /\ Len(queue) = Len(waiting) - 1
      /\ \A i \in 1 .. Len(waiting) - 1 : queue[i] = waiting[Old(i)]
  <2>1. waiting \in Seq(Callers)
    BY DEF InOrder
  <2>2. Len(waiting) \in Nat
    BY <2>1, LenProperties
  <2>3. QED
    BY <2>1, <2>2, RemoveAtFacts
<1>2. \A i \in 1 .. Len(waiting) - 1 : Old(i) \in 1 .. Len(waiting) /\ Old(i) # n
  BY <1>1
<1>3. \A i, j \in 1 .. Len(waiting) - 1 : Old(i) = Old(j) => i = j
  BY <1>1
<1> HIDE DEF queue, Old
<1>4. \A i \in 1 .. Len(waiting) : waiting[i] \in Callers
  BY ElementOfSeq DEF InOrder
<1>5. ASSUME NEW i \in 1 .. Len(queue)
      PROVE  [phase EXCEPT ![waiting[n]] = p][queue[i]] = "parked"
  <2>1. queue[i] = waiting[Old(i)] /\ waiting[Old(i)] # waiting[n]
    BY <1>1, <1>2 DEF InOrder
  <2>2. QED
    BY <1>1, <1>2, <1>4, <2>1 DEF InOrder, TypeOK
<1>6. ASSUME NEW i \in 1 .. Len(queue), NEW j \in 1 .. Len(queue), queue[i] = queue[j]
      PROVE  i = j
  BY <1>1, <1>2, <1>3, <1>6 DEF InOrder
<1>7. QED
  BY <1>1, <1>5, <1>6 DEF InOrder, queue

(* The task served first was parked, and leaves the queue to the others.    *)
LEMMA HeadInOrder ==
  ASSUME TypeOK, InOrder(waiting, phase), waiting # <<>>, NEW p
  PROVE  /\ Head(waiting) \in Callers /\ phase[Head(waiting)] = "parked"
         /\ InOrder(Tail(waiting), [phase EXCEPT ![Head(waiting)] = p])
<1>1. /\ Tail(waiting) \in Seq(Callers) /\ Len(waiting) \in Nat \ {0}
      /\ Len(Tail(waiting)) = Len(waiting) - 1
      /\ \A i \in 1 .. Len(Tail(waiting)) : Tail(waiting)[i] = waiting[i + 1]
  BY EmptySeq, HeadTailProperties DEF InOrder
<1>2. Head(waiting) = waiting[1] /\ 1 \in 1 .. Len(waiting)
  BY <1>1 DEF InOrder
<1>3. \A i \in 1 .. Len(waiting) : waiting[i] \in Callers
  BY ElementOfSeq DEF InOrder
<1>4. \A i \in 1 .. Len(Tail(waiting)) :
        i + 1 \in 1 .. Len(waiting) /\ waiting[i + 1] # waiting[1]
  <2>1. \A i \in 1 .. Len(Tail(waiting)) : i + 1 \in 1 .. Len(waiting) /\ i + 1 # 1
    BY <1>1
  <2>2. QED
    BY <1>2, <2>1 DEF InOrder
<1>5. ASSUME NEW i \in 1 .. Len(Tail(waiting))
      PROVE  [phase EXCEPT ![Head(waiting)] = p][Tail(waiting)[i]] = "parked"
  BY <1>1, <1>2, <1>3, <1>4 DEF InOrder, TypeOK
<1>6. ASSUME NEW i \in 1 .. Len(Tail(waiting)), NEW j \in 1 .. Len(Tail(waiting)),
             Tail(waiting)[i] = Tail(waiting)[j]
      PROVE  i = j
  <2>1. i + 1 = j + 1
    BY <1>1, <1>4, <1>6 DEF InOrder
  <2>2. i \in Int /\ j \in Int
    BY <1>1
  <2>3. QED
    BY <2>1, <2>2
<1>7. QED
  BY <1>1, <1>2, <1>3, <1>5, <1>6 DEF InOrder

-----------------------------------------------------------------------------
(* Units *)

(* One holder more, one less, and one for another.                          *)
LEMMA HolderCount ==
  ASSUME TypeOK, NEW c \in Callers
  PROVE  /\ Cardinality(holders) \in Nat
         /\ c \notin holders => Cardinality(holders \cup {c}) = Cardinality(holders) + 1
         /\ c \in holders => Cardinality(holders \ {c}) = Cardinality(holders) - 1
         /\ c \in holders => Cardinality(holders) >= 1
         /\ \A t \in Callers \ holders :
              c \in holders => Cardinality((holders \ {c}) \cup {t}) = Cardinality(holders)
<1>1. IsFiniteSet(holders)
  BY SemaphoreAssumption, FS_Subset DEF TypeOK
<1>2. Cardinality(holders) \in Nat
  BY <1>1, FS_CardinalityType
<1>3. IsFiniteSet(holders \ {c}) /\ Cardinality(holders \ {c}) \in Nat
  BY <1>1, FS_RemoveElement, FS_CardinalityType
<1>4. c \in holders => Cardinality(holders \ {c}) = Cardinality(holders) - 1
  BY <1>1, FS_RemoveElement
<1>5. ASSUME NEW t \in Callers \ holders, c \in holders
      PROVE  Cardinality((holders \ {c}) \cup {t}) = Cardinality(holders)
  <2>1. Cardinality((holders \ {c}) \cup {t}) = Cardinality(holders \ {c}) + 1
    BY <1>3, <1>5, FS_AddElement
  <2>2. QED
    BY <1>2, <1>4, <1>5, <2>1
<1>6. c \in holders => Cardinality(holders) >= 1
  BY <1>2, <1>3, <1>4
<1>7. c \notin holders => Cardinality(holders \cup {c}) = Cardinality(holders) + 1
  BY <1>1, FS_AddElement
<1>8. QED
  BY <1>2, <1>4, <1>5, <1>6, <1>7

-----------------------------------------------------------------------------
(* Steps *)

Phases == {"idle", "takes", "taking", "parked", "gives", "giving"}

(* A task that is not parked takes its next step, and the queue stays.      *)
LEMMA MovedFacts ==
  ASSUME Inv, NEW c \in Callers, NEW p \in Phases, phase[c] # "parked", Moved(c, p)
  PROVE  /\ phase' \in [Callers -> Phases]
         /\ wait' \in [Callers -> {"none", "forever", "finite"}]
         /\ phase'[c] = p
         /\ \A d \in Callers \ {c} : phase'[d] = phase[d]
         /\ InOrder(waiting, phase')
<1>1. TypeOK /\ InOrder(waiting, phase)
  BY DEF Inv, UnitsConserved
<1>2. phase' = [phase EXCEPT ![c] = p] /\ phase \in [Callers -> Phases]
  BY <1>1 DEF Moved, TypeOK, Phases
<1>3. InOrder(waiting, [phase EXCEPT ![c] = p])
  BY <1>1, OthersInOrder
<1>4. wait' \in [Callers -> {"none", "forever", "finite"}]
  BY <1>1 DEF Moved, TypeOK
<1>5. QED
  BY <1>2, <1>3, <1>4

(* The tasks start in order, and every unit of a lock is a token.           *)
LEMMA InitInv ==
  Init => Inv
<1> SUFFICES ASSUME Init
             PROVE  Inv
  OBVIOUS
<1>1. maxCount \in Nat
  BY SemaphoreAssumption DEF Init
<1>2. TypeOK
  <2>1. count \in 0 .. maxCount
    BY <1>1 DEF Init
  <2>2. waiting \in Seq(Callers)
    BY EmptySeq DEF Init
  <2>3. QED
    BY <2>1, <2>2 DEF Init, TypeOK
<1>3. Cardinality(holders) = 0
  BY FS_EmptySet DEF Init
<1>4. InOrder(waiting, phase)
  BY EmptySeq DEF Init, InOrder
<1>5. QED
  BY <1>1, <1>2, <1>3, <1>4 DEF Init, Inv, UnitsConserved, NoIdleToken, LockDiscipline

(* The steps of a Take keep the invariant.                                  *)
LEMMA TakeInv ==
  ASSUME Inv, NEW c \in Callers,
         \/ \E w \in Waits : TakeStart(c, w)
         \/ Take(c)
         \/ TakeTimesOut(c)
  PROVE  Inv'
<1>1. /\ TypeOK /\ InOrder(waiting, phase) /\ LockDiscipline /\ NoIdleToken
      /\ use = "lock" /\ ~ deleted => count + Cardinality(holders) = maxCount
      /\ maxCount \in Nat /\ count \in Nat
  BY SemaphoreAssumption DEF Inv, UnitsConserved, TypeOK
<1>2. ASSUME NEW w \in Waits, TakeStart(c, w)
      PROVE  Inv'
  <2>1. InOrder(waiting, phase')
    BY <1>1, <1>2, OthersInOrder DEF TakeStart, At
  <2>2. TypeOK'
    BY <1>1, <1>2, SemaphoreAssumption DEF TakeStart, TypeOK, kind
  <2>3. LockDiscipline'
    BY <1>1, <1>2 DEF TakeStart, TypeOK, LockDiscipline, kind
  <2>4. QED
    BY <1>1, <1>2, <2>1, <2>2, <2>3
    DEF TakeStart, Inv, UnitsConserved, NoIdleToken, kind
<1>3. CASE TakeCheck(c)
  <2>1. \E p \in {"idle", "taking"} : Moved(c, p) /\ phase[c] = "takes"
    BY <1>3 DEF TakeCheck, At
  <2>2. /\ InOrder(waiting, phase') /\ phase' \in [Callers -> Phases]
        /\ wait' \in [Callers -> {"none", "forever", "finite"}]
        /\ phase'[c] \in {"idle", "taking"}
        /\ \A d \in Callers \ {c} : phase'[d] = phase[d]
    BY <2>1, MovedFacts DEF Phases
  <2>3. TypeOK'
    BY <1>1, <1>3, <2>2 DEF TakeCheck, TypeOK, Phases, kind
  <2>4. LockDiscipline'
    BY <1>1, <1>3, <2>1, <2>2 DEF TakeCheck, LockDiscipline, kind
  <2>5. QED
    BY <1>1, <1>3, <2>2, <2>3, <2>4
    DEF TakeCheck, Inv, UnitsConserved, NoIdleToken, kind
<1>4. CASE TakeToken(c) \/ TakeClosed(c)
  <2>1. /\ Moved(c, "idle") /\ phase[c] = "taking" /\ holders' = holders \cup {c}
        /\ UNCHANGED <<kind, waiting, deleted, crashed>>
        /\ \/ count > 0 /\ count' = count - 1
           \/ deleted /\ UNCHANGED count
    BY <1>4 DEF TakeToken, TakeClosed, At, Acquired
  <2>2. /\ InOrder(waiting, phase') /\ phase' \in [Callers -> Phases]
        /\ wait' \in [Callers -> {"none", "forever", "finite"}]
        /\ phase'[c] = "idle"
        /\ \A d \in Callers \ {c} : phase'[d] = phase[d]
    BY <2>1, MovedFacts DEF Phases
  <2>3. TypeOK'
    BY <1>1, <2>1, <2>2 DEF TypeOK, Phases, kind
  <2>4. LockDiscipline'
    BY <1>1, <2>1, <2>2 DEF LockDiscipline, kind
  <2>5. NoIdleToken'
    BY <1>1, <2>1 DEF NoIdleToken
  <2>6. use = "lock" /\ ~ deleted => count' + Cardinality(holders') = maxCount
    <3> SUFFICES ASSUME use = "lock", ~ deleted
                 PROVE  count' + Cardinality(holders') = maxCount
      OBVIOUS
    <3>1. c \notin holders
      BY <1>1, <2>1 DEF LockDiscipline
    <3>2. Cardinality(holders \cup {c}) = Cardinality(holders) + 1
          /\ Cardinality(holders) \in Nat
      BY <1>1, <3>1, HolderCount
    <3>3. QED
      BY <1>1, <2>1, <3>2
  <2>7. QED
    BY <1>1, <2>1, <2>2, <2>3, <2>4, <2>5, <2>6 DEF Inv, UnitsConserved, kind
<1>5. CASE TakeBlocks(c)
  <2>1. /\ phase[c] = "taking" /\ count = 0 /\ ~ deleted
        /\ UNCHANGED <<kind, count, deleted, holders, crashed>>
    BY <1>5 DEF TakeBlocks, At
  <2>2. /\ phase' \in [Callers -> Phases]
        /\ wait' \in [Callers -> {"none", "forever", "finite"}]
        /\ phase'[c] \in {"idle", "parked"}
        /\ \A d \in Callers \ {c} : phase'[d] = phase[d]
    BY <1>5, <2>1, MovedFacts DEF TakeBlocks, Phases
  <2>3. InOrder(waiting', phase')
    <3>1. CASE Moved(c, "idle") /\ UNCHANGED waiting
      BY <2>1, <3>1, MovedFacts DEF Phases
    <3>2. CASE Moved(c, "parked") /\ waiting' = Append(waiting, c)
      BY <1>1, <2>1, <3>2, ParkInOrder DEF Moved
    <3>3. QED
      BY <1>5, <3>1, <3>2 DEF TakeBlocks
  <2>4. TypeOK'
    BY <1>1, <2>1, <2>2, <2>3 DEF TypeOK, InOrder, Phases, kind
  <2>5. LockDiscipline'
    BY <1>1, <2>1, <2>2 DEF LockDiscipline, kind
  <2>6. QED
    BY <1>1, <2>1, <2>3, <2>4, <2>5 DEF Inv, UnitsConserved, NoIdleToken, kind
<1>6. CASE TakeTimesOut(c)
  <2>1. /\ phase' = [phase EXCEPT ![c] = "idle"]
        /\ wait' = [wait EXCEPT ![c] = "none"]
        /\ UNCHANGED <<kind, count, deleted, holders, crashed>>
    BY <1>6 DEF TakeTimesOut, Moved
  <2>2. InOrder(waiting', phase') /\ (waiting' # <<>> => waiting # <<>>)
    <3>1. CASE At(c, "taking") /\ UNCHANGED waiting
      BY <1>1, <2>1, <3>1, OthersInOrder DEF At
    <3>2. ASSUME NEW n \in 1 .. Len(waiting), waiting[n] = c,
                 waiting' = RemoveAt(waiting, n)
          PROVE  InOrder(waiting', phase') /\ waiting # <<>>
      <4>1. InOrder(waiting', phase')
        BY <1>1, <2>1, <3>2, LeaveInOrder
      <4>2. waiting # <<>>
        BY <3>2, EmptySeq
      <4>3. QED
        BY <4>1, <4>2
    <3>3. QED
      BY <1>6, <3>1, <3>2 DEF TakeTimesOut
  <2>3. TypeOK'
    BY <1>1, <2>1, <2>2 DEF TypeOK, InOrder, kind
  <2>4. LockDiscipline'
    BY <1>1, <2>1 DEF TypeOK, LockDiscipline, kind
  <2>5. QED
    BY <1>1, <2>1, <2>2, <2>3, <2>4 DEF Inv, UnitsConserved, NoIdleToken, kind
<1>7. QED
  BY <1>2, <1>3, <1>4, <1>5, <1>6 DEF Take

(* The steps of a Give keep the invariant.                                  *)
LEMMA GiveInv ==
  ASSUME Inv, NEW c \in Callers, GiveStart(c) \/ Give(c)
  PROVE  Inv'
<1>1. /\ TypeOK /\ InOrder(waiting, phase) /\ LockDiscipline /\ NoIdleToken
      /\ use = "lock" /\ ~ deleted => count + Cardinality(holders) = maxCount
      /\ maxCount \in Nat /\ count \in Nat
  BY SemaphoreAssumption DEF Inv, UnitsConserved, TypeOK
<1>2. CASE GiveStart(c)
  <2>1. /\ Moved(c, "gives") /\ phase[c] = "idle"
        /\ use = "signal" \/ c \in holders
        /\ UNCHANGED <<kind, count, waiting, deleted, holders, crashed>>
    BY <1>2 DEF GiveStart, At
  <2>2. /\ InOrder(waiting, phase') /\ phase' \in [Callers -> Phases]
        /\ wait' \in [Callers -> {"none", "forever", "finite"}]
        /\ phase'[c] = "gives"
        /\ \A d \in Callers \ {c} : phase'[d] = phase[d]
    BY <2>1, MovedFacts DEF Phases
  <2>3. TypeOK' /\ LockDiscipline'
    BY <1>1, <2>1, <2>2 DEF TypeOK, LockDiscipline, Phases, kind
  <2>4. QED
    BY <1>1, <2>1, <2>2, <2>3 DEF Inv, UnitsConserved, NoIdleToken, kind
<1>3. CASE GiveCheck(c)
  <2>1. /\ phase[c] = "gives"
        /\ \/ deleted /\ Moved(c, "idle") /\ holders' = holders \ {c}
           \/ ~ deleted /\ Moved(c, "giving") /\ holders' = holders
        /\ UNCHANGED <<kind, count, waiting, deleted, crashed>>
    BY <1>3 DEF GiveCheck, At
  <2>2. /\ InOrder(waiting, phase') /\ phase' \in [Callers -> Phases]
        /\ wait' \in [Callers -> {"none", "forever", "finite"}]
        /\ phase'[c] = IF deleted THEN "idle" ELSE "giving"
        /\ \A d \in Callers \ {c} : phase'[d] = phase[d]
    BY <2>1, MovedFacts DEF Phases
  <2>3. TypeOK' /\ LockDiscipline'
    BY <1>1, <2>1, <2>2 DEF TypeOK, LockDiscipline, Phases, kind
  <2>4. QED
    BY <1>1, <2>1, <2>2, <2>3 DEF Inv, UnitsConserved, NoIdleToken, kind
<1>4. CASE GivePanics(c)
  BY <1>1, <1>4
  DEF GivePanics, Inv, TypeOK, InOrder, LockDiscipline, UnitsConserved, NoIdleToken, kind
<1>5. CASE GiveHands(c)
  <2> DEFINE taker == Head(waiting)
  <2>1. /\ phase[c] = "giving" /\ ~ deleted /\ waiting # <<>> /\ waiting' = Tail(waiting)
        /\ phase' = [phase EXCEPT ![c] = "idle", ![taker] = "idle"]
        /\ wait' = [wait EXCEPT ![taker] = "none"]
        /\ holders' = (holders \ {c}) \cup {taker}
        /\ UNCHANGED <<kind, count, deleted, crashed>>
    BY <1>5 DEF GiveHands, At
  <2>2. taker \in Callers /\ phase[taker] = "parked" /\ taker # c
    BY <1>1, <2>1, HeadInOrder
  <2>3. Tail(waiting) \in Seq(Callers)
    BY <1>1, <2>1, HeadTailProperties DEF InOrder
  <2>4. InOrder(Tail(waiting), phase')
    <3>1. InOrder(Tail(waiting), [phase EXCEPT ![taker] = "idle"])
      BY <1>1, <2>1, HeadInOrder
    <3>2. \A i \in 1 .. Len(Tail(waiting)) : Tail(waiting)[i] \in Callers
      BY <2>3, ElementOfSeq
    <3> HIDE DEF taker
    <3>3. QED
      BY <1>1, <2>1, <2>2, <3>1, <3>2 DEF InOrder, TypeOK
  <2> HIDE DEF taker
  <2>5. TypeOK'
    BY <1>1, <2>1, <2>2, <2>3 DEF TypeOK, kind
  <2>6. LockDiscipline'
    BY <1>1, <2>1, <2>2 DEF LockDiscipline, TypeOK, kind
  <2>7. NoIdleToken'
    BY <1>1, <2>1 DEF NoIdleToken
  <2>8. ASSUME use = "lock"
        PROVE  Cardinality(holders') = Cardinality(holders)
    <3>1. c \in holders /\ taker \in Callers \ holders
      BY <1>1, <2>1, <2>2, <2>8 DEF LockDiscipline
    <3>2. QED
      BY <1>1, <2>1, <3>1, HolderCount
  <2>9. QED
    BY <1>1, <2>1, <2>4, <2>5, <2>6, <2>7, <2>8 DEF Inv, UnitsConserved, kind
<1>6. CASE GiveToken(c) \/ GiveRefused(c)
  <2>1. /\ phase[c] = "giving" /\ ~ deleted /\ waiting = <<>> /\ Moved(c, "idle")
        /\ holders' = holders \ {c}
        /\ \/ count < maxCount /\ count' = count + 1
           \/ count = maxCount /\ count' = count
        /\ UNCHANGED <<kind, waiting, deleted, crashed>>
    BY <1>6 DEF GiveToken, GiveRefused, At
  <2>2. /\ InOrder(waiting, phase') /\ phase' \in [Callers -> Phases]
        /\ wait' \in [Callers -> {"none", "forever", "finite"}]
        /\ phase'[c] = "idle"
        /\ \A d \in Callers \ {c} : phase'[d] = phase[d]
    BY <2>1, MovedFacts DEF Phases
  <2>3. TypeOK'
    BY <1>1, <2>1, <2>2 DEF TypeOK, Phases, kind
  <2>4. LockDiscipline'
    BY <1>1, <2>1, <2>2 DEF LockDiscipline, kind
  <2>5. NoIdleToken'
    BY <2>1 DEF NoIdleToken
  <2>6. ASSUME use = "lock"
        PROVE  count' + Cardinality(holders') = maxCount
    <3>1. c \in holders
      BY <1>1, <2>1, <2>6 DEF LockDiscipline
    <3>2. /\ Cardinality(holders) \in Nat /\ Cardinality(holders) >= 1
          /\ Cardinality(holders \ {c}) = Cardinality(holders) - 1
      BY <1>1, <3>1, HolderCount
    <3>3. QED
      BY <1>1, <2>1, <2>6, <3>2
  <2>7. QED
    BY <1>1, <2>1, <2>2, <2>3, <2>4, <2>5, <2>6 DEF Inv, UnitsConserved, kind
<1>7. QED
  BY <1>2, <1>3, <1>4, <1>5, <1>6 DEF Give

(* So does deletion, which lets everyone in.                                *)
LEMMA DeleteInv ==
  ASSUME Inv, Delete
  PROVE  Inv'
<1>1. TypeOK /\ InOrder(waiting, phase) /\ LockDiscipline
  BY DEF Inv, UnitsConserved
<1>2. /\ deleted' /\ waiting' = <<>> /\ holders' = holders \cup ToSet(waiting)
      /\ deleted' \in BOOLEAN /\ crashed' \in BOOLEAN
      /\ phase' = [c \in Callers |-> IF phase[c] = "parked" THEN "idle" ELSE phase[c]]
      /\ wait' = [c \in Callers |-> IF phase[c] = "parked" THEN "none" ELSE wait[c]]
      /\ UNCHANGED <<kind, count>>
  BY <1>1 DEF Delete, TypeOK
<1>3. ASSUME NEW c \in ToSet(waiting)
      PROVE  c \in Callers /\ phase[c] = "parked"
  <2>1. DOMAIN waiting = 1 .. Len(waiting)
    BY <1>1, LenProperties DEF InOrder
  <2>2. PICK i \in 1 .. Len(waiting) : c = waiting[i]
    BY <1>3, <2>1 DEF ToSet
  <2>3. QED
    BY <1>1, <2>2, ElementOfSeq DEF InOrder
<1>4. TypeOK'
  BY <1>1, <1>2, <1>3, EmptySeq DEF TypeOK, kind
<1>5. LockDiscipline'
  BY <1>1, <1>2, <1>3 DEF TypeOK, LockDiscipline, kind
<1>6. InOrder(waiting', phase')
  BY <1>2, EmptySeq DEF InOrder
<1>7. QED
  BY <1>2, <1>4, <1>5, <1>6 DEF Inv, UnitsConserved, NoIdleToken

-----------------------------------------------------------------------------
(* The invariant is kept by every step.                                     *)
LEMMA InvInductive ==
  Spec => []Inv
<1>1. Inv /\ [Next]_vars => Inv'
  <2> SUFFICES ASSUME Inv, [Next]_vars
               PROVE  Inv'
    OBVIOUS
  <2>1. CASE Next
    BY <2>1, TakeInv, GiveInv, DeleteInv DEF Next
  <2>2. CASE UNCHANGED vars
    BY <2>2 DEF vars, kind, Inv, UnitsConserved, TypeOK, NoIdleToken, InOrder, LockDiscipline
  <2>3. QED
    BY <2>1, <2>2
<1>2. QED
  BY InitInv, <1>1, PTL DEF Spec

(* Of a lock's units none is lost and none is made, however takes, gives,   *)
(* timeouts and hand-overs cross (semaphore_stub.go:27-76).                 *)
THEOREM UnitsKept == Spec => []UnitsConserved
<1>1. Inv => UnitsConserved
  BY DEF Inv
<1>2. QED
  BY InvInductive, <1>1, PTL

(* No task waits for a token that is there, or on a channel that is closed. *)
THEOREM NobodyWaitsInVain == Spec => []NoIdleToken
<1>1. Inv => NoIdleToken
  BY DEF Inv
<1>2. QED
  BY InvInductive, <1>1, PTL

-----------------------------------------------------------------------------
(* What a lock is for *)

(* Two tasks never have a mutex that is not deleted at the same time.       *)
THEOREM MutualExclusion ==
  Spec => [](use = "lock" /\ maxCount = 1 /\ ~ deleted =>
               \A c, d \in holders : c = d)
<1>1. Inv => (use = "lock" /\ maxCount = 1 /\ ~ deleted =>
                \A c, d \in holders : c = d)
  <2> SUFFICES ASSUME Inv, use = "lock", maxCount = 1, ~ deleted,
                      NEW c \in holders, NEW d \in holders, c # d
               PROVE  FALSE
    OBVIOUS
  <2>1. /\ TypeOK /\ count + Cardinality(holders) = 1 /\ count \in 0 .. 1
        /\ c \in Callers /\ IsFiniteSet(holders)
    BY SemaphoreAssumption, FS_Subset DEF Inv, UnitsConserved, TypeOK
  <2>2. /\ IsFiniteSet(holders \ {c})
        /\ Cardinality(holders \ {c}) = Cardinality(holders) - 1
    BY <2>1, FS_RemoveElement
  <2>3. Cardinality(holders \ {c}) = 0 \/ Cardinality(holders \ {c}) < 0
    BY <2>1, <2>2, FS_CardinalityType
  <2>4. Cardinality(holders \ {c}) \in Nat
    BY <2>2, FS_CardinalityType
  <2>5. holders \ {c} = {}
    BY <2>2, <2>3, <2>4, FS_EmptySet
  <2>6. QED
    BY <2>5
<1>2. QED
  BY InvInductive, <1>1, PTL

-----------------------------------------------------------------------------
(* The semaphore of the interface *)

(* A parked task is in the channel's queue, so that some step wakes it.     *)
Attended ==
  \A c \in Callers : phase[c] = "parked" => \E i \in 1 .. Len(waiting) : waiting[i] = c

(* No step forgets a parked task.                                           *)
LEMMA AttendedKept ==
  ASSUME Inv, Attended, Next
  PROVE  Attended'
<1>1. TypeOK /\ InOrder(waiting, phase) /\ waiting \in Seq(Callers) /\ Len(waiting) \in Nat
  BY LenProperties DEF Inv, UnitsConserved, InOrder
<1>2. ASSUME NEW c \in Callers, NEW p \in Phases \ {"parked"},
             phase' = [phase EXCEPT ![c] = p], UNCHANGED waiting
      PROVE  Attended'
  BY <1>1, <1>2 DEF Attended, TypeOK
<1>3. ASSUME NEW c \in Callers, TakeBlocks(c)
      PROVE  Attended'
  <2>1. CASE wait[c] = "none"
    BY <1>2, <1>3, <2>1 DEF TakeBlocks, Moved, Phases
  <2>2. CASE wait[c] # "none"
    <3>1. phase' = [phase EXCEPT ![c] = "parked"] /\ waiting' = Append(waiting, c)
      BY <1>3, <2>2 DEF TakeBlocks, Moved
    <3>2. /\ Len(waiting') = Len(waiting) + 1 /\ waiting'[Len(waiting) + 1] = c
          /\ \A i \in 1 .. Len(waiting) : waiting'[i] = waiting[i]
      BY <1>1, <3>1, AppendProperties
    <3>3. ASSUME NEW d \in Callers, phase'[d] = "parked"
          PROVE  \E i \in 1 .. Len(waiting') : waiting'[i] = d
      <4>1. CASE d = c
        BY <1>1, <3>2, <4>1
      <4>2. CASE d # c
        <5>1. PICK i \in 1 .. Len(waiting) : waiting[i] = d
          BY <1>1, <3>1, <3>3, <4>2 DEF Attended, TypeOK
        <5>2. i \in 1 .. Len(waiting') /\ waiting'[i] = d
          BY <1>1, <3>2, <5>1
        <5>3. QED
          BY <5>2
      <4>3. QED
        BY <4>1, <4>2
    <3>4. QED
      BY <3>3 DEF Attended
  <2>3. QED
    BY <2>1, <2>2
<1>4. ASSUME NEW c \in Callers, TakeTimesOut(c)
      PROVE  Attended'
  <2>1. CASE UNCHANGED waiting
    BY <1>2, <1>4, <2>1 DEF TakeTimesOut, Moved, Phases
  <2>2. ASSUME NEW n \in 1 .. Len(waiting), waiting[n] = c, waiting' = RemoveAt(waiting, n)
        PROVE  Attended'
    <3>1. phase' = [phase EXCEPT ![c] = "idle"]
      BY <1>4 DEF TakeTimesOut, Moved
    <3>2. /\ Len(waiting') = Len(waiting) - 1
          /\ \A i \in 1 .. Len(waiting) - 1 :
               waiting'[i] = waiting[IF i < n THEN i ELSE i + 1]
      BY <1>1, <2>2, RemoveAtFacts
    <3>3. ASSUME NEW d \in Callers, phase'[d] = "parked"
          PROVE  \E i \in 1 .. Len(waiting') : waiting'[i] = d
      <4>1. d # c /\ phase[d] = "parked"
        BY <1>1, <3>1, <3>3 DEF TypeOK
      <4>2. PICK i \in 1 .. Len(waiting) : waiting[i] = d
        BY <4>1 DEF Attended
      <4>3. i # n
        BY <2>2, <4>1, <4>2
      <4>4. CASE i < n
        <5>1. i \in 1 .. Len(waiting) - 1 /\ waiting'[i] = waiting[i]
          BY <1>1, <3>2, <4>4
        <5>2. QED
          BY <3>2, <4>2, <5>1
      <4>5. CASE i > n
        <5>1. i - 1 \in 1 .. Len(waiting) - 1 /\ ~ (i - 1 < n) /\ (i - 1) + 1 = i
          BY <1>1, <4>5
        <5>2. waiting'[i - 1] = waiting[i]
          BY <3>2, <5>1
        <5>3. QED
          BY <3>2, <4>2, <5>1, <5>2
      <4>6. QED
        BY <1>1, <4>3, <4>4, <4>5
    <3>4. QED
      BY <3>3 DEF Attended
  <2>3. QED
    BY <1>4, <2>1, <2>2 DEF TakeTimesOut
<1>5. ASSUME NEW c \in Callers, GiveHands(c)
      PROVE  Attended'
  <2>1. /\ waiting # <<>> /\ waiting' = Tail(waiting)
        /\ phase' = [phase EXCEPT ![c] = "idle", ![Head(waiting)] = "idle"]
    BY <1>5 DEF GiveHands
  <2>2. Head(waiting) \in Callers /\ Head(waiting) = waiting[1]
    BY <1>1, <2>1, HeadInOrder
  <2>3. /\ Len(waiting') = Len(waiting) - 1
        /\ \A i \in 1 .. Len(waiting') : waiting'[i] = waiting[i + 1]
    BY <1>1, <2>1, HeadTailProperties
  <2>4. ASSUME NEW d \in Callers, phase'[d] = "parked"
        PROVE  \E i \in 1 .. Len(waiting') : waiting'[i] = d
    <3>1. d # Head(waiting) /\ phase[d] = "parked"
      BY <1>1, <2>1, <2>2, <2>4 DEF TypeOK
    <3>2. PICK i \in 1 .. Len(waiting) : waiting[i] = d
      BY <3>1 DEF Attended
    <3>3. i - 1 \in 1 .. Len(waiting') /\ (i - 1) + 1 = i
      BY <1>1, <2>2, <2>3, <3>1, <3>2
    <3>4. waiting'[i - 1] = d
      BY <2>3, <3>2, <3>3
    <3>5. QED
      BY <3>3, <3>4
  <2>5. QED
    BY <2>4 DEF Attended
<1>6. CASE Delete
  BY <1>1, <1>6 DEF Delete, Attended, TypeOK
<1>7. ASSUME NEW c \in Callers,
             \/ \E w \in Waits : TakeStart(c, w)
             \/ TakeCheck(c) \/ TakeToken(c) \/ TakeClosed(c) \/ GiveStart(c)
             \/ GiveCheck(c) \/ GiveToken(c) \/ GiveRefused(c)
      PROVE  Attended'
  <2>1. \E p \in Phases \ {"parked"} : phase' = [phase EXCEPT ![c] = p] /\ UNCHANGED waiting
    BY <1>7 DEF TakeStart, TakeCheck, TakeToken, TakeClosed, GiveStart, GiveCheck, GiveToken,
                GiveRefused, Moved, Phases
  <2>2. QED
    BY <1>2, <2>1
<1>8. ASSUME NEW c \in Callers, GivePanics(c)
      PROVE  Attended'
  BY <1>8 DEF GivePanics, Attended
<1>9. QED
  BY <1>3, <1>4, <1>5, <1>6, <1>7, <1>8 DEF Next, Take, Give

(* The calls in progress, as the interface sees them.                       *)
Call == [c \in Callers |-> CallOf(c)]

(* The abstract call of a task, by where the task is.                       *)
LEMMA CallFacts ==
  ASSUME TypeOK, NEW c \in Callers
  PROVE  /\ Call[c] = CallOf(c)
         /\ phase[c] = "idle" <=> Call[c] = SM!NoCall
         /\ phase[c] \in {"takes", "taking", "parked"} =>
              Call[c] = [op |-> "Take", wait |-> wait[c]]
         /\ phase[c] \in {"gives", "giving"} => Call[c].op = "Give"
         /\ Call[c].op = "Take" => phase[c] \in {"takes", "taking", "parked"}
<1>1. phase[c] \in Phases
  BY DEF TypeOK, Phases
<1>2. Call[c] = CallOf(c)
  BY DEF Call
<1>3. QED
  BY <1>1, <1>2 DEF CallOf, Phases, SM!NoCall

(* Tasks whose calls are answered are idle, the others where they were.     *)
LEMMA AnsweredFacts ==
  ASSUME NEW tasks \in SUBSET Callers,
         \A c \in tasks : phase'[c] = "idle",
         \A c \in Callers \ tasks : phase'[c] = phase[c] /\ wait'[c] = wait[c]
  PROVE  Call' = [c \in Callers |-> IF c \in tasks THEN SM!NoCall ELSE Call[c]]
<1>1. \A c \in tasks : CallOf(c)' = SM!NoCall
  BY DEF CallOf, SM!NoCall
<1>2. \A c \in Callers \ tasks : CallOf(c)' = CallOf(c)
  BY DEF CallOf
<1>3. QED
  BY <1>1, <1>2 DEF Call

(* A step of one task that stays in its call is none of the interface's.    *)
LEMMA SilentFacts ==
  ASSUME TypeOK, NEW c \in Callers, NEW p, NEW q,
         phase[c] = p, phase' = [phase EXCEPT ![c] = q], wait' = wait,
         \/ p \in {"takes", "taking"} /\ q \in {"taking", "parked"}
         \/ p = "gives" /\ q = "giving"
  PROVE  Call' = Call
<1>1. \A d \in Callers : CallOf(d)' = CallOf(d)
  BY DEF TypeOK, CallOf
<1>2. QED
  BY <1>1 DEF Call

(* A step that ends the call of one task.                                   *)
LEMMA EndsCall ==
  ASSUME TypeOK, NEW c \in Callers, Moved(c, "idle")
  PROVE  Call' = [d \in Callers |-> IF d \in {c} THEN SM!NoCall ELSE Call[d]]
<1>1. /\ phase'[c] = "idle"
      /\ \A d \in Callers \ {c} : phase'[d] = phase[d] /\ wait'[d] = wait[d]
  BY DEF TypeOK, Moved
<1>2. QED
  BY <1>1, AnsweredFacts

-----------------------------------------------------------------------------
(* The refinement, action by action *)

(* The steps of a Take are its answer, or nothing the interface sees.       *)
LEMMA TakeRefined ==
  ASSUME Inv, NEW c \in Callers,
         \/ \E w \in Waits : TakeStart(c, w)
         \/ Take(c)
         \/ TakeTimesOut(c)
  PROVE  [SM!Next]_(SM!vars)
<1>1. TypeOK
  BY DEF Inv, UnitsConserved
<1>2. ASSUME NEW w \in Waits, TakeStart(c, w)
      PROVE  SM!Invoke(c)
  <2>1. /\ phase[c] = "idle" /\ (use = "signal" \/ c \notin holders)
        /\ phase' = [phase EXCEPT ![c] = "takes"] /\ wait' = [wait EXCEPT ![c] = w]
        /\ UNCHANGED <<maxCount, use, count, deleted, holders>>
    BY <1>2 DEF TakeStart, At, kind
  <2>2. Call[c] = SM!NoCall
    BY <1>1, <2>1, CallFacts
  <2>3. Call' = [Call EXCEPT ![c] = SM!Taking(w)]
    BY <1>1, <2>1 DEF Call, CallOf, TypeOK, SM!Taking
  <2>4. QED
    BY <2>1, <2>2, <2>3 DEF SM!Invoke, Call
<1>3. CASE TakeCheck(c)
  <2>1. phase[c] = "takes" /\ UNCHANGED <<maxCount, use, count, deleted, holders>>
    BY <1>3 DEF TakeCheck, At, kind
  <2>2. CASE deleted
    <3>1. Moved(c, "idle")
      BY <1>3, <2>2 DEF TakeCheck
    <3>2. SM!AnswerDeleted(c)
      BY <1>1, <2>1, <2>2, <3>1, CallFacts, EndsCall
      DEF SM!AnswerDeleted, SM!Answered, SM!NoCall, Call
    <3>3. QED
      BY <3>2 DEF SM!Next
  <2>3. CASE ~ deleted
    <3>1. phase' = [phase EXCEPT ![c] = "taking"] /\ wait' = wait
      BY <1>3, <2>3 DEF TakeCheck, Moved
    <3>2. Call' = Call
      BY <1>1, <2>1, <3>1, SilentFacts
    <3>3. QED
      BY <2>1, <3>2 DEF SM!vars, Call
  <2>4. QED
    BY <2>2, <2>3
<1>4. CASE TakeToken(c)
  <2>1. /\ phase[c] = "taking" /\ count > 0 /\ count' = count - 1
        /\ holders' = holders \cup {c} /\ Moved(c, "idle")
        /\ UNCHANGED <<maxCount, use, deleted>>
    BY <1>4 DEF TakeToken, At, Acquired, kind
  <2>2. SM!Acquire(c)
    BY <1>1, <2>1, CallFacts, EndsCall DEF SM!Acquire, SM!Answered, Call
  <2>3. QED
    BY <2>2 DEF SM!Next
<1>5. CASE TakeClosed(c)
  <2>1. /\ phase[c] = "taking" /\ deleted /\ holders' = holders \cup {c} /\ Moved(c, "idle")
        /\ UNCHANGED <<maxCount, use, count, deleted>>
    BY <1>5 DEF TakeClosed, At, Acquired, kind
  <2>2. SM!AnswerDeleted(c)
    BY <1>1, <2>1, CallFacts, EndsCall
    DEF SM!AnswerDeleted, SM!Answered, SM!NoCall, Call
  <2>3. QED
    BY <2>2 DEF SM!Next
<1>6. CASE TakeBlocks(c)
  <2>1. /\ phase[c] = "taking" /\ count = 0
        /\ UNCHANGED <<maxCount, use, count, deleted, holders>>
    BY <1>6 DEF TakeBlocks, At, kind
  <2>2. CASE wait[c] = "none"
    <3>1. Moved(c, "idle")
      BY <1>6, <2>2 DEF TakeBlocks
    <3>2. SM!GiveUp(c)
      BY <1>1, <2>1, <2>2, <3>1, CallFacts, EndsCall DEF SM!GiveUp, SM!Answered, Call
    <3>3. QED
      BY <3>2 DEF SM!Next
  <2>3. CASE wait[c] # "none"
    <3>1. phase' = [phase EXCEPT ![c] = "parked"] /\ wait' = wait
      BY <1>6, <2>3 DEF TakeBlocks, Moved
    <3>2. Call' = Call
      BY <1>1, <2>1, <3>1, SilentFacts
    <3>3. QED
      BY <2>1, <3>2 DEF SM!vars, Call
  <2>4. QED
    BY <2>2, <2>3
<1>7. CASE TakeTimesOut(c)
  <2>1. /\ phase[c] \in {"taking", "parked"} /\ wait[c] = "finite" /\ Moved(c, "idle")
        /\ UNCHANGED <<maxCount, use, count, deleted, holders>>
    BY <1>7 DEF TakeTimesOut, At, kind
  <2>2. SM!GiveUp(c)
    BY <1>1, <2>1, CallFacts, EndsCall DEF SM!GiveUp, SM!Answered, Call
  <2>3. QED
    BY <2>2 DEF SM!Next
<1>8. QED
  BY <1>2, <1>3, <1>4, <1>5, <1>6, <1>7 DEF Take, SM!Next

(* So are those of a Give, which may answer a Take as well.                 *)
LEMMA GiveRefined ==
  ASSUME Inv, NEW c \in Callers, GiveStart(c) \/ Give(c)
  PROVE  [SM!Next]_(SM!vars)
<1>1. TypeOK /\ InOrder(waiting, phase) /\ NoIdleToken
  BY DEF Inv, UnitsConserved
<1>2. CASE GiveStart(c)
  <2>1. /\ phase[c] = "idle" /\ (use = "signal" \/ c \in holders)
        /\ phase' = [phase EXCEPT ![c] = "gives"] /\ wait' = wait
        /\ UNCHANGED <<maxCount, use, count, deleted, holders>>
    BY <1>2 DEF GiveStart, At, Moved, kind
  <2>2. Call[c] = SM!NoCall
    BY <1>1, <2>1, CallFacts
  <2>3. Call' = [Call EXCEPT ![c] = SM!Giving]
    BY <1>1, <2>1 DEF Call, CallOf, TypeOK, SM!Giving
  <2>4. SM!Invoke(c)
    BY <2>1, <2>2, <2>3 DEF SM!Invoke, Call
  <2>5. QED
    BY <2>4 DEF SM!Next
<1>3. CASE GiveCheck(c)
  <2>1. phase[c] = "gives" /\ UNCHANGED <<maxCount, use, count, deleted>>
    BY <1>3 DEF GiveCheck, At, kind
  <2>2. CASE deleted
    <3>1. Moved(c, "idle") /\ holders' = holders \ {c}
      BY <1>3, <2>2 DEF GiveCheck
    <3>2. SM!AnswerDeleted(c)
      BY <1>1, <2>1, <2>2, <3>1, CallFacts, EndsCall
      DEF SM!AnswerDeleted, SM!Answered, SM!NoCall, Call
    <3>3. QED
      BY <3>2 DEF SM!Next
  <2>3. CASE ~ deleted
    <3>1. phase' = [phase EXCEPT ![c] = "giving"] /\ wait' = wait /\ holders' = holders
      BY <1>3, <2>3 DEF GiveCheck, Moved
    <3>2. Call' = Call
      BY <1>1, <2>1, <3>1, SilentFacts
    <3>3. QED
      BY <2>1, <3>1, <3>2 DEF SM!vars, Call
  <2>4. QED
    BY <2>2, <2>3
<1>4. CASE GivePanics(c)
  BY <1>4 DEF GivePanics, SM!vars, CallOf, kind
<1>5. CASE GiveHands(c)
  <2> DEFINE taker == Head(waiting)
  <2>1. /\ phase[c] = "giving" /\ ~ deleted /\ waiting # <<>>
        /\ phase' = [phase EXCEPT ![c] = "idle", ![taker] = "idle"]
        /\ wait' = [wait EXCEPT ![taker] = "none"]
        /\ holders' = (holders \ {c}) \cup {taker}
        /\ UNCHANGED <<maxCount, use, count, deleted>>
    BY <1>5 DEF GiveHands, At, kind
  <2>2. taker \in Callers /\ phase[taker] = "parked" /\ count = 0
    BY <1>1, <2>1, HeadInOrder DEF NoIdleToken
  <2> HIDE DEF taker
  <2>3. /\ \A d \in {c, taker} : phase'[d] = "idle"
        /\ \A d \in Callers \ {c, taker} : phase'[d] = phase[d] /\ wait'[d] = wait[d]
    BY <1>1, <2>1, <2>2 DEF TypeOK
  <2>4. Call' = [d \in Callers |-> IF d \in {c, taker} THEN SM!NoCall ELSE Call[d]]
    BY <2>2, <2>3, AnsweredFacts
  <2>5. SM!Pass(c, taker)
    BY <1>1, <2>1, <2>2, <2>4, CallFacts DEF SM!Pass, SM!Answered, Call
  <2>6. QED
    BY <2>2, <2>5 DEF SM!Next
<1>6. CASE GiveToken(c)
  <2>1. /\ phase[c] = "giving" /\ ~ deleted /\ count < maxCount /\ count' = count + 1
        /\ holders' = holders \ {c} /\ Moved(c, "idle")
        /\ UNCHANGED <<maxCount, use, deleted>>
    BY <1>6 DEF GiveToken, At, kind
  <2>2. SM!Release(c)
    BY <1>1, <2>1, CallFacts, EndsCall DEF SM!Release, SM!Answered, Call
  <2>3. QED
    BY <2>2 DEF SM!Next
<1>7. CASE GiveRefused(c)
  <2>1. /\ phase[c] = "giving" /\ ~ deleted /\ count = maxCount
        /\ holders' = holders \ {c} /\ Moved(c, "idle")
        /\ UNCHANGED <<maxCount, use, count, deleted>>
    BY <1>7 DEF GiveRefused, At, kind
  <2>2. SM!Refuse(c)
    BY <1>1, <2>1, CallFacts, EndsCall DEF SM!Refuse, SM!Answered, Call
  <2>3. QED
    BY <2>2 DEF SM!Next
<1>8. QED
  BY <1>2, <1>3, <1>4, <1>5, <1>6, <1>7 DEF Give

(* Deletion answers the parked Takes, all of them and no others.            *)
LEMMA DeleteRefined ==
  ASSUME Inv, Attended, Delete
  PROVE  SM!Delete
<1> DEFINE tasks == ToSet(waiting)
<1>1. TypeOK /\ InOrder(waiting, phase)
  BY DEF Inv, UnitsConserved
<1>2. tasks = {waiting[i] : i \in 1 .. Len(waiting)}
  BY <1>1, LenProperties DEF ToSet, InOrder
<1>3. \A c \in Callers : c \in tasks <=> phase[c] = "parked"
  BY <1>1, <1>2 DEF InOrder, Attended
<1>4. tasks \in SUBSET Callers
  BY <1>1, <1>2, ElementOfSeq DEF InOrder
<1>5. /\ deleted' = TRUE /\ holders' = holders \cup tasks
      /\ phase' = [c \in Callers |-> IF phase[c] = "parked" THEN "idle" ELSE phase[c]]
      /\ wait' = [c \in Callers |-> IF phase[c] = "parked" THEN "none" ELSE wait[c]]
      /\ UNCHANGED <<maxCount, use, count>>
  BY DEF Delete, kind
<1> HIDE DEF tasks
<1>6. Call' = [c \in Callers |-> IF c \in tasks THEN SM!NoCall ELSE Call[c]]
  BY <1>3, <1>4, <1>5, AnsweredFacts
<1>7. ASSUME NEW c \in tasks
      PROVE  Call[c].op = "Take"
  <2>1. c \in Callers /\ phase[c] = "parked"
    BY <1>3, <1>4
  <2>2. Call[c] = [op |-> "Take", wait |-> wait[c]]
    BY <1>1, <2>1, CallFacts
  <2>3. QED
    BY <2>2
<1>8. tasks \in SUBSET {c \in Callers : Call[c].op = "Take"}
  BY <1>4, <1>7
<1>9. QED
  BY <1>5, <1>6, <1>8 DEF SM!Delete, SM!Answered, Call

(* At first nobody is in a call.                                            *)
LEMMA InitRefined ==
  Init => Attended /\ SM!Init
BY DEF Init, Attended, CallOf, SM!Init, SM!NoCall

(* Every step is one of the interface's or none.                            *)
LEMMA NextRefined ==
  ASSUME Inv, Attended, [Next]_vars
  PROVE  [SM!Next]_(SM!vars)
<1>1. CASE Next
  BY <1>1, TakeRefined, GiveRefined, DeleteRefined DEF Next, SM!Next
<1>2. CASE UNCHANGED vars
  BY <1>2 DEF vars, kind, SM!vars, CallOf
<1>3. QED
  BY <1>1, <1>2

(* Whatever the tasks do, and however many, tokens in a Go channel behind a *)
(* flag are the semaphore the interface promises (semaphore.go:18-37).      *)
THEOREM Implements == Spec => ImplementsSemaphore
<1>1. Inv /\ Attended /\ [Next]_vars => Attended'
  BY AttendedKept DEF vars, Attended
<1>2. Inv /\ Attended /\ [Next]_vars => [SM!Next]_(SM!vars)
  BY NextRefined
<1>3. QED
  BY InitRefined, InvInductive, <1>1, <1>2, PTL DEF Spec, ImplementsSemaphore, SM!Spec
=============================================================================
