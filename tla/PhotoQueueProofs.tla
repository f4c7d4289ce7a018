-------------------------- MODULE PhotoQueueProofs --------------------------
(***************************************************************************)
(* For any number of API processes, workers and photos: the queue outgrows *)
(* MAX_QUEUE_SIZE by at most the other API processes, and a photo that no   *)
(* fault hits goes through it once, step by step.                          *)
(***************************************************************************)
EXTENDS PhotoQueue, TLAPS, FiniteSetTheorems, FunctionTheorems

(* Appending adds one photo at the end; popping takes the first one away. *)
LEMMA AppendFacts ==
    ASSUME NEW q \in Seq(Ids), NEW id \in Ids
    PROVE  /\ Append(q, id) \in Seq(Ids) /\ Len(Append(q, id)) = Len(q) + 1
           /\ DOMAIN Append(q, id) = 1 .. Len(q) + 1
           /\ \A i \in DOMAIN q : Append(q, id)[i] = q[i]
           /\ Append(q, id)[Len(q) + 1] = id
           /\ DOMAIN q = 1 .. Len(q) /\ Len(q) \in Nat
  OBVIOUS

LEMMA TailFacts ==
    ASSUME NEW q \in Seq(Ids), q # <<>>
    PROVE  /\ Tail(q) \in Seq(Ids) /\ Len(Tail(q)) = Len(q) - 1
           /\ DOMAIN Tail(q) = 1 .. Len(q) - 1
           /\ \A i \in DOMAIN Tail(q) : Tail(q)[i] = q[i + 1]
           /\ Head(q) = q[1] /\ Head(q) \in Ids /\ 1 \in DOMAIN q
           /\ DOMAIN q = 1 .. Len(q) /\ Len(q) \in Nat
  OBVIOUS

-----------------------------------------------------------------------------
(* Types. *)

LEMMA ApiTyped ==
    ASSUME TypeOK, NEW p \in Apis, Api(p)
    PROVE  TypeOK'
<1> USE SizeAssumption DEF TypeOK, Held, redisVars, apiVars, workerVars, histVars, faultVars
<1>1. CASE CapacityLeft(p)
  BY <1>1 DEF CapacityLeft
<1>2. ASSUME NEW id \in Ids, NoCapacity(p, id) PROVE TypeOK'
  BY <1>2 DEF NoCapacity, ApiSteps
<1>3. CASE CheckSize(p)
  BY <1>3 DEF CheckSize, ApiSteps
<1>4. CASE Push(p)
  <2>1. apiId[p] \in Ids
    BY <1>4 DEF Push
  <2> QED
    BY <1>4, <2>1, AppendFacts DEF Push, ApiSteps
<1>5. CASE PushTimesOut(p)
  <2>1. apiId[p] \in Ids
    BY <1>5 DEF PushTimesOut
  <2> QED
    BY <1>5, <2>1, AppendFacts DEF PushTimesOut, Fault
<1>6. CASE Announce(p)
  BY <1>6 DEF Announce, Fault, ApiSteps, Entries
<1>7. CASE ApiFails(p)
  BY <1>7 DEF ApiFails, Fault, ApiSteps
<1> QED
  BY <1>1, <1>2, <1>3, <1>4, <1>5, <1>6, <1>7 DEF Api

LEMMA WorkerTyped ==
    ASSUME TypeOK, NEW w \in Workers, Worker(w)
    PROVE  TypeOK'
<1> USE SizeAssumption DEF TypeOK, Held, redisVars, apiVars, workerVars, histVars, faultVars, WorkerSteps
<1>1. CASE Poll(w)
  BY <1>1 DEF Poll, Goto
<1>2. CASE Dequeue(w)
  <2>1. CASE queue = <<>>
    BY <1>2, <2>1 DEF Dequeue, Goto
  <2>2. CASE queue # <<>>
    BY <1>2, <2>2, TailFacts DEF Dequeue, Goto
  <2> QED
    BY <2>1, <2>2
<1>3. CASE DequeueTimesOut(w)
  BY <1>3, TailFacts DEF DequeueTimesOut, Fault
<1>4. CASE Mark(w)
  BY <1>4 DEF Mark, Goto, Fault, Entries
<1>5. CASE Requeue(w)
  <2>1. item[w] \in Ids
    BY <1>5 DEF Requeue
  <2> QED
    BY <1>5, <2>1 DEF Requeue, Release, Goto, Fault, Entries
<1>6. CASE StartAnalysis(w)
  BY <1>6 DEF StartAnalysis, Goto
<1>7. CASE Complete(w)
  <2>1. item[w] \in Ids
    BY <1>7 DEF Complete
  <2> QED
    BY <1>7, <2>1 DEF Complete, Release, Goto, Fault, Entries
<1>8. CASE WorkerCrashes(w)
  BY <1>8 DEF WorkerCrashes, Release, Goto, Fault
<1> QED
  BY <1>1, <1>2, <1>3, <1>4, <1>5, <1>6, <1>7, <1>8 DEF Worker

-----------------------------------------------------------------------------
(* The photos that wait. *)

LEMMA PushWaiting ==
    ASSUME TypeOK, NEW id \in Ids, queue' = Append(queue, id)
    PROVE  Waiting' = Waiting \cup {id}
<1>1. /\ DOMAIN queue = 1 .. Len(queue) /\ DOMAIN queue' = 1 .. Len(queue) + 1
      /\ Len(queue) \in Nat /\ queue'[Len(queue) + 1] = id
      /\ \A i \in DOMAIN queue : queue'[i] = queue[i]
  BY AppendFacts DEF TypeOK
<1>2. \A i \in DOMAIN queue' : i \in DOMAIN queue \/ i = Len(queue) + 1
  BY <1>1
<1>3. DOMAIN queue \subseteq DOMAIN queue' /\ Len(queue) + 1 \in DOMAIN queue'
  BY <1>1
<1> QED
  BY <1>1, <1>2, <1>3 DEF Waiting

LEMMA PopWaiting ==
    ASSUME TypeOK, queue # <<>>, queue' = Tail(queue)
    PROVE  /\ Waiting' \subseteq Waiting /\ Head(queue) \in Waiting
           /\ \A H : (\A i, k \in DOMAIN queue : queue[i] = queue[k] => i = k \/ queue[i] \in H) =>
                  /\ Head(queue) \notin Waiting' \/ Head(queue) \in H
                  /\ \A i, k \in DOMAIN queue' : queue'[i] = queue'[k] => i = k \/ queue'[i] \in H
<1>1. /\ DOMAIN queue = 1 .. Len(queue) /\ DOMAIN queue' = 1 .. Len(queue) - 1
      /\ Len(queue) \in Nat /\ Head(queue) = queue[1] /\ 1 \in DOMAIN queue
      /\ \A i \in DOMAIN queue' : queue'[i] = queue[i + 1]
  BY TailFacts DEF TypeOK
<1>2. \A i \in DOMAIN queue' : i + 1 \in DOMAIN queue /\ i + 1 # 1 /\ i \in Nat
  BY <1>1
<1>3. Waiting' \subseteq Waiting /\ Head(queue) \in Waiting
  BY <1>1, <1>2 DEF Waiting
<1>4. ASSUME NEW H, \A i, k \in DOMAIN queue : queue[i] = queue[k] => i = k \/ queue[i] \in H
      PROVE  /\ Head(queue) \notin Waiting' \/ Head(queue) \in H
             /\ \A i, k \in DOMAIN queue' : queue'[i] = queue'[k] => i = k \/ queue'[i] \in H
  <2>1. \A i \in DOMAIN queue' : queue'[i] # queue[1] \/ queue[1] \in H
    BY <1>1, <1>2, <1>4
  <2>2. ASSUME NEW i \in DOMAIN queue', NEW k \in DOMAIN queue', queue'[i] = queue'[k]
        PROVE  i = k \/ queue'[i] \in H
    <3>1. i + 1 = k + 1 \/ queue[i + 1] \in H
      BY <1>1, <1>2, <1>4, <2>2
    <3> QED
      BY <1>1, <1>2, <3>1
  <2> QED
    BY <1>1, <2>1, <2>2 DEF Waiting
<1> QED
  BY <1>3, <1>4

-----------------------------------------------------------------------------
(* RoomReserved. *)

(* A process that leaves "push" frees its place, one that enters takes one. *)
LEMMA PushingCount ==
    ASSUME TypeOK
    PROVE  IsFiniteSet(Pushing) /\ Cardinality(Pushing) \in Nat
           /\ Cardinality(Pushing) <= Cardinality(Apis) /\ Cardinality(Apis) \in Nat
  BY ApisAssumption, FS_Subset, FS_CardinalityType DEF Pushing

(* A finite set has a finite image, which is no larger. *)
LEMMA ImageBound ==
    ASSUME NEW S, IsFiniteSet(S), NEW f, NEW T, T = {f[x] : x \in S}
    PROVE  IsFiniteSet(T) /\ Cardinality(T) <= Cardinality(S)
<1> DEFINE g == [x \in S |-> f[x]]
<1>1. g \in Surjection(S, T)
  BY Fun_IsSurj
<1> QED
  BY <1>1, FS_Surjection

LEMMA UpTo == \A n \in Nat : IsFiniteSet(1 .. n) /\ Cardinality(1 .. n) = n
  BY FS_Interval

CountsFit ==
    /\ IsFiniteSet(Expected) /\ Cardinality(Expected) \in Nat
    /\ IsFiniteSet(Waiting) /\ Cardinality(Waiting) \in Nat
    /\ Cardinality(Waiting) <= Cardinality(Expected)
    /\ Cardinality(Waiting) <= Len(queue)
    /\ Cardinality(Expected) <= Cardinality(Waiting) + Cardinality(Pushing)

LEMMA ExpectedCount == TypeOK => CountsFit
<1> SUFFICES ASSUME TypeOK PROVE CountsFit
  OBVIOUS
<1> DEFINE Ours == {apiId[p] : p \in Pushing}
<1>1. DOMAIN queue = 1 .. Len(queue) /\ Len(queue) \in Nat
  BY DEF TypeOK
<1>2. IsFiniteSet(DOMAIN queue) /\ Cardinality(DOMAIN queue) = Len(queue)
  BY <1>1, UpTo, Zenon
<1>3. IsFiniteSet(Waiting) /\ Cardinality(Waiting) <= Len(queue) /\ Cardinality(Waiting) \in Nat
  BY <1>2, ImageBound, FS_CardinalityType DEF Waiting
<1>4. /\ IsFiniteSet(Ours) /\ Cardinality(Ours) <= Cardinality(Pushing)
      /\ Cardinality(Ours) \in Nat /\ Cardinality(Pushing) \in Nat
  BY PushingCount, ImageBound, FS_CardinalityType
<1>5. Expected = Waiting \cup Ours
  BY DEF Expected
<1> HIDE DEF Ours
<1>6. /\ IsFiniteSet(Expected)
      /\ Cardinality(Expected)
           = Cardinality(Waiting) + Cardinality(Ours) - Cardinality(Waiting \cap Ours)
  BY <1>3, <1>4, <1>5, FS_Union
<1>7. Cardinality(Waiting \cap Ours) \in Nat
  BY <1>3, FS_Subset, FS_CardinalityType
<1>8. Cardinality(Waiting) <= Cardinality(Expected)
  BY <1>5, <1>6, FS_Subset
<1>9. Cardinality(Expected) \in Nat
  BY <1>6, FS_CardinalityType
<1>10. Cardinality(Expected) <= Cardinality(Waiting) + Cardinality(Pushing)
  BY <1>3, <1>4, <1>6, <1>7
<1> QED
  BY <1>3, <1>6, <1>8, <1>9, <1>10 DEF CountsFit

LEMMA ExpectedCountNext == TypeOK' => CountsFit'
  BY ExpectedCount, PTL

(* The queue may grow by what faults pay for, and by one when a process    *)
(* leaves "push"; its photos were expected.                                *)
LEMMA ExpectedShrinks ==
    ASSUME TypeOK, RoomReserved, Expected' \subseteq Expected
    PROVE  Cardinality(Expected') <= MaxQueue + Excess
<1>1. Cardinality(Expected') <= Cardinality(Expected) /\ Cardinality(Expected') \in Nat
  BY ExpectedCount, FS_Subset, FS_CardinalityType DEF CountsFit
<1>2. Cardinality(Expected) \in Nat /\ Excess \in Int /\ MaxQueue \in Nat
  BY ExpectedCount, PushingCount, SizeAssumption DEF Excess, CountsFit
<1> QED
  BY <1>1, <1>2 DEF RoomReserved

LEMMA RoomStay ==
    ASSUME TypeOK, TypeOK', RoomReserved, Pushing' = Pushing, Expected' \subseteq Expected,
           Len(queue') + faults <= Len(queue) + faults'
    PROVE  RoomReserved'
<1>1. /\ Cardinality(Pushing) \in Nat /\ Excess \in Int /\ Excess' = Excess
      /\ Len(queue) \in Nat /\ Len(queue') \in Nat
      /\ faults \in Nat /\ faults' \in Nat /\ MaxQueue \in Nat
  BY PushingCount, SizeAssumption DEF TypeOK, Excess
<1> QED
  BY <1>1, ExpectedShrinks DEF RoomReserved

LEMMA RoomLeave ==
    ASSUME TypeOK, TypeOK', RoomReserved, NEW p \in Pushing, Pushing' = Pushing \ {p},
           Expected' \subseteq Expected, Len(queue') + faults <= Len(queue) + 1 + faults'
    PROVE  RoomReserved'
<1>1. /\ Cardinality(Pushing) \in Nat /\ Excess \in Int /\ Excess' = Excess
      /\ Len(queue) \in Nat /\ Len(queue') \in Nat
      /\ faults \in Nat /\ faults' \in Nat /\ MaxQueue \in Nat
  BY PushingCount, SizeAssumption DEF TypeOK, Excess
<1>2. Cardinality(Pushing') = Cardinality(Pushing) - 1
  BY PushingCount, FS_RemoveElement
<1> QED
  BY <1>1, <1>2, ExpectedShrinks DEF RoomReserved

LEMMA RoomStep ==
    ASSUME TypeOK, TypeOK', RoomReserved, Next
    PROVE  RoomReserved'
<1> USE DEF redisVars, apiVars, workerVars, histVars, faultVars
<1>0. Len(queue) \in Nat /\ faults \in Nat
  BY DEF TypeOK
<1>1. ASSUME NEW p \in Apis, CheckSize(p) PROVE RoomReserved'
  <2>1. CASE HasRoom
    <3>1. /\ Cardinality(Pushing') <= Cardinality(Apis) /\ Cardinality(Pushing') \in Nat
          /\ Cardinality(Apis) \in Nat
      BY ApisAssumption, FS_Subset, FS_CardinalityType DEF Pushing
    <3>2. /\ Cardinality(Expected') <= Cardinality(Waiting') + Cardinality(Pushing')
          /\ Cardinality(Waiting') <= Len(queue') /\ Cardinality(Waiting') \in Nat
          /\ Cardinality(Expected') \in Nat
      BY ExpectedCountNext DEF CountsFit
    <3>3. Len(queue') + 1 <= MaxQueue /\ queue' = queue /\ faults' = faults /\ MaxQueue \in Nat
      BY <1>0, <1>1, <2>1, SizeAssumption DEF CheckSize, HasRoom
    <3> QED
      BY <1>0, <3>1, <3>2, <3>3 DEF RoomReserved, Excess
  <2>2. CASE ~HasRoom
    <3>1. Pushing' = Pushing
      BY <1>1, <2>2 DEF CheckSize, Pushing, TypeOK
    <3>2. Expected' = Expected
      BY <1>1, <3>1 DEF CheckSize, Expected, Waiting
    <3> QED
      BY <1>0, <1>1, <3>1, <3>2, RoomStay DEF CheckSize
  <2> QED
    BY <2>1, <2>2
<1>2. ASSUME NEW p \in Apis, Push(p) PROVE RoomReserved'
  <2>1. p \in Pushing /\ Pushing' = Pushing \ {p}
    BY <1>2 DEF Push, Pushing, TypeOK
  <2>2. Len(queue') = Len(queue) + 1
    BY <1>2, AppendFacts DEF Push, TypeOK
  <2>3. apiId[p] \in Ids /\ apiId' = apiId
    BY <1>2 DEF Push, TypeOK
  <2>4. Waiting' = Waiting \cup {apiId[p]}
    BY <1>2, <2>3, PushWaiting DEF Push
  <2>5. Expected' \subseteq Expected
    BY <2>1, <2>3, <2>4 DEF Expected
  <2> QED
    BY <1>0, <1>2, <2>1, <2>2, <2>5, RoomLeave DEF Push
<1>3. ASSUME NEW p \in Apis, PushTimesOut(p) PROVE RoomReserved'
  <2>1. Pushing' = Pushing /\ p \in Pushing
    BY <1>3 DEF PushTimesOut, Pushing
  <2>2. Len(queue') = Len(queue) + 1
    BY <1>3, AppendFacts DEF PushTimesOut, TypeOK
  <2>3. apiId[p] \in Ids /\ apiId' = apiId
    BY <1>3 DEF PushTimesOut, TypeOK
  <2>4. Waiting' = Waiting \cup {apiId[p]}
    BY <1>3, <2>3, PushWaiting DEF PushTimesOut
  <2>5. Expected' \subseteq Expected
    BY <2>1, <2>3, <2>4 DEF Expected
  <2> QED
    BY <1>0, <1>3, <2>1, <2>2, <2>5, RoomStay DEF PushTimesOut, Fault
<1>4. ASSUME NEW p \in Apis, ApiFails(p) PROVE RoomReserved'
  <2>1. Pushing' = Pushing \/ (p \in Pushing /\ Pushing' = Pushing \ {p})
    BY <1>4 DEF ApiFails, Pushing, TypeOK
  <2>2. Len(queue') + faults <= Len(queue) + faults' /\ Len(queue') + faults <= Len(queue) + 1 + faults'
    BY <1>0, <1>4 DEF ApiFails, Fault
  <2>5. Expected' \subseteq Expected
    BY <1>4, <2>1 DEF ApiFails, Expected, Waiting
  <2>3. CASE Pushing' = Pushing
    BY <2>2, <2>3, <2>5, RoomStay
  <2>4. CASE p \in Pushing /\ Pushing' = Pushing \ {p}
    BY <2>2, <2>4, <2>5, RoomLeave
  <2> QED
    BY <2>1, <2>3, <2>4
<1>5. ASSUME NEW p \in Apis,
             CapacityLeft(p) \/ (\E id \in Ids : NoCapacity(p, id)) \/ Announce(p)
      PROVE  RoomReserved'
  <2>1. Pushing' = Pushing
    BY <1>5 DEF CapacityLeft, NoCapacity, Announce, Pushing, TypeOK
  <2>2. queue' = queue /\ (faults' = faults \/ faults' = faults + 1)
    BY <1>5 DEF CapacityLeft, NoCapacity, Announce, Fault
  <2>3. \A q \in Pushing : apiId'[q] = apiId[q]
    BY <1>5 DEF CapacityLeft, NoCapacity, Announce, Pushing, TypeOK
  <2>4. Expected' = Expected
    BY <2>1, <2>2, <2>3 DEF Expected, Waiting
  <2> QED
    BY <1>0, <2>1, <2>2, <2>4, RoomStay DEF TypeOK
<1>6. ASSUME NEW w \in Workers, Worker(w) PROVE RoomReserved'
  <2>1. Pushing' = Pushing
    BY <1>6 DEF Worker, Poll, Dequeue, DequeueTimesOut, Mark, Requeue, StartAnalysis, Complete,
       WorkerCrashes, Pushing
  <2>2. queue' = queue \/ (queue # <<>> /\ queue' = Tail(queue))
    BY <1>6 DEF Worker, Poll, Dequeue, DequeueTimesOut, Mark, Requeue, StartAnalysis, Complete,
       WorkerCrashes
  <2>3. Len(queue') <= Len(queue)
    BY <1>0, <2>2, TailFacts DEF TypeOK
  <2>4. faults' = faults \/ faults' = faults + 1
    BY <1>6 DEF Worker, Poll, Dequeue, DequeueTimesOut, Mark, Requeue, StartAnalysis, Complete,
       WorkerCrashes, Fault
  <2>5. UNCHANGED apiId
    BY <1>6 DEF Worker, Poll, Dequeue, DequeueTimesOut, Mark, Requeue, StartAnalysis, Complete,
       WorkerCrashes
  <2>6. Waiting' \subseteq Waiting
    BY <2>2, PopWaiting DEF Waiting
  <2>7. Expected' \subseteq Expected
    BY <2>1, <2>5, <2>6 DEF Expected
  <2> QED
    BY <1>0, <2>1, <2>3, <2>4, <2>7, RoomStay DEF TypeOK
<1>7. ASSUME (\E id \in Ids : EntryExpires(id)) \/ WindowEnds PROVE RoomReserved'
  <2>1. Pushing' = Pushing /\ queue' = queue /\ faults' = faults
    BY <1>7 DEF EntryExpires, WindowEnds, Pushing
  <2>2. Expected' = Expected
    BY <1>7, <2>1 DEF EntryExpires, WindowEnds, Expected, Waiting
  <2> QED
    BY <1>0, <2>1, <2>2, RoomStay
<1> QED
  BY <1>1, <1>2, <1>3, <1>4, <1>5, <1>6, <1>7 DEF Next, Api

-----------------------------------------------------------------------------
(* WorkedOnOnce. *)

(* Every id in the system was given out. *)
LEMMA OnlyUsedStep ==
    ASSUME TypeOK, OnlyUsed, Next
    PROVE  OnlyUsed'
<1> USE DEF OnlyUsed, Taken, TypeOK, Held, redisVars, apiVars, workerVars, histVars, faultVars
<1>1. ASSUME NEW p \in Apis, Push(p) \/ PushTimesOut(p) PROVE OnlyUsed'
  <2>1. apiId[p] \in used /\ apiId[p] \in Ids
    BY <1>1 DEF Push, PushTimesOut
  <2>2. Waiting' = Waiting \cup {apiId[p]}
    BY <1>1, <2>1, PushWaiting DEF Push, PushTimesOut
  <2> QED
    BY <1>1, <2>1, <2>2 DEF Push, PushTimesOut
<1>2. ASSUME NEW p \in Apis, CapacityLeft(p) \/ (\E id \in Ids : NoCapacity(p, id))
             \/ CheckSize(p) \/ Announce(p) \/ ApiFails(p)
      PROVE  OnlyUsed'
  <2>1. Waiting' = Waiting
    BY <1>2 DEF CapacityLeft, NoCapacity, CheckSize, Announce, ApiFails, Waiting
  <2> QED
    BY <1>2, <2>1 DEF CapacityLeft, NoCapacity, CheckSize, Announce, ApiFails
<1>3. ASSUME NEW w \in Workers, Dequeue(w) PROVE OnlyUsed'
  <2>1. CASE queue = <<>>
    BY <1>3, <2>1 DEF Dequeue, Goto, Waiting
  <2>2. CASE queue # <<>>
    <3>1. Waiting' \subseteq Waiting /\ Head(queue) \in Waiting
      BY <1>3, <2>2, PopWaiting DEF Dequeue
    <3> QED
      BY <1>3, <2>2, <3>1 DEF Dequeue, Goto
  <2> QED
    BY <2>1, <2>2
<1>4. ASSUME NEW w \in Workers, DequeueTimesOut(w) PROVE OnlyUsed'
  <2>1. Waiting' \subseteq Waiting
    BY <1>4, PopWaiting DEF DequeueTimesOut
  <2> QED
    BY <1>4, <2>1 DEF DequeueTimesOut
<1>5. ASSUME NEW w \in Workers, Poll(w) \/ Mark(w) \/ Requeue(w) \/ StartAnalysis(w)
             \/ Complete(w) \/ WorkerCrashes(w)
      PROVE  OnlyUsed'
  <2>1. Waiting' = Waiting
    BY <1>5 DEF Poll, Mark, Requeue, StartAnalysis, Complete, WorkerCrashes, Waiting
  <2> QED
    BY <1>5, <2>1 DEF Poll, Mark, Requeue, StartAnalysis, Complete, WorkerCrashes, Release, Goto
<1>6. ASSUME (\E id \in Ids : EntryExpires(id)) \/ WindowEnds PROVE OnlyUsed'
  BY <1>6 DEF EntryExpires, WindowEnds, Waiting
<1> QED
  BY <1>1, <1>2, <1>3, <1>4, <1>5, <1>6 DEF Next, Api, Worker

(* An id moves from an API process to the queue, to one worker, to where   *)
(* it ends, unless a fault hits it.                                        *)
LEMMA HarmGrows == Next => harmed \subseteq harmed'
  BY DEF Next, Api, Worker, CapacityLeft, NoCapacity, CheckSize, Push, PushTimesOut,
     Announce, ApiFails, Poll, Dequeue, DequeueTimesOut, Mark, Requeue, StartAnalysis, Complete,
     WorkerCrashes, EntryExpires, WindowEnds, Fault, faultVars

(* Queue, hands and ends stay as they are, or some are emptied. *)
LEMMA OnceShrinks ==
    ASSUME TypeOK, FreshUntilPushed, WorkedOnOnce, harmed \subseteq harmed',
           \A i, k \in DOMAIN queue' : queue'[i] = queue'[k] => i = k \/ queue'[i] \in harmed',
           Waiting' \subseteq Waiting, UNCHANGED <<finished, dropped>>,
           \A w \in Workers : Held(w)' => Held(w) /\ item'[w] = item[w],
           \A p \in Apis : Unpushed(p)' => Unpushed(p) /\ apiId'[p] = apiId[p]
    PROVE  FreshUntilPushed' /\ WorkedOnOnce'
<1>1. FreshUntilPushed'
  BY DEF FreshUntilPushed, Placed, InHands, Taken
<1>2. WorkedOnOnce'
  BY DEF WorkedOnOnce, Taken
<1> QED
  BY <1>1, <1>2

LEMMA OnceApi ==
    ASSUME TypeOK, OnlyUsed, FreshUntilPushed, WorkedOnOnce, NEW p \in Apis, Api(p),
           harmed \subseteq harmed'
    PROVE  FreshUntilPushed' /\ WorkedOnOnce'
<1> USE DEF redisVars, apiVars, workerVars, histVars, faultVars
<1>1. CASE CapacityLeft(p) \/ CheckSize(p) \/ Announce(p) \/ ApiFails(p)
  <2>1. /\ queue' = queue /\ UNCHANGED <<finished, dropped, workerVars, apiId>>
        /\ \A q \in Apis : Unpushed(q)' => Unpushed(q)
    BY <1>1 DEF CapacityLeft, CheckSize, Announce, ApiFails, Unpushed, TypeOK
  <2>2. Waiting' = Waiting /\ \A w \in Workers : Held(w)' = Held(w)
    BY <2>1 DEF Waiting, Held
  <2>3. \A i, k \in DOMAIN queue' : queue'[i] = queue'[k] => i = k \/ queue'[i] \in harmed'
    BY <2>1 DEF WorkedOnOnce
  <2> QED
    BY <2>1, <2>2, <2>3, OnceShrinks
<1>2. ASSUME NEW id \in Ids, NoCapacity(p, id)
      PROVE  FreshUntilPushed' /\ WorkedOnOnce'
  <2>1. /\ queue' = queue /\ UNCHANGED <<finished, dropped, workerVars, harmed>>
        /\ id \notin used /\ apiPc[p] = "idle" /\ apiPc'[p] = "asked" /\ apiId'[p] = id
        /\ \A q \in Apis \ {p} : apiPc'[q] = apiPc[q] /\ apiId'[q] = apiId[q]
    BY <1>2 DEF NoCapacity, TypeOK
  <2>2. Waiting' = Waiting /\ \A w \in Workers : Held(w)' = Held(w)
    BY <2>1 DEF Waiting, Held
  <2>3. ~Placed(id) /\ \A i \in Ids : Placed(i)' = Placed(i)
    BY <2>1, <2>2 DEF OnlyUsed, Placed, InHands, Taken
  <2>4. \A q \in Apis : Unpushed(q) => apiId[q] # id /\ apiId[q] \in Ids
    BY <2>1 DEF TypeOK, Unpushed
  <2>5. FreshUntilPushed'
    BY <2>1, <2>3, <2>4 DEF FreshUntilPushed, Unpushed
  <2>6. WorkedOnOnce'
    BY <2>1, <2>2 DEF WorkedOnOnce, Taken
  <2> QED
    BY <2>5, <2>6
<1>3. CASE Push(p) \/ PushTimesOut(p)
  <2> DEFINE id == apiId[p]
  <2>1. /\ id \in Ids /\ Unpushed(p) /\ queue' = Append(queue, id)
        /\ UNCHANGED <<finished, dropped, workerVars, apiId>>
        /\ \A q \in Apis \ {p} : apiPc'[q] = apiPc[q]
        /\ id \in harmed' \/ ~Unpushed(p)'
    BY <1>3 DEF Push, PushTimesOut, Fault, Unpushed, TypeOK
  <2>2. Waiting' = Waiting \cup {id} /\ \A w \in Workers : Held(w)' = Held(w)
    BY <2>1, PushWaiting DEF Held
  <2>3. \A i \in Ids \ {id} : Placed(i)' = Placed(i)
    BY <2>1, <2>2 DEF Placed, InHands, Taken
  <2>4. id \in harmed \/ ~Placed(id)
    BY <2>1 DEF FreshUntilPushed
  <2>5. \A q \in Apis \ {p} : Unpushed(q)' => Unpushed(q) /\ apiId[q] # id /\ apiId[q] \in Ids
    BY <2>1 DEF FreshUntilPushed, Unpushed, TypeOK
  <2>6. FreshUntilPushed'
    <3> SUFFICES ASSUME NEW q \in Apis, Unpushed(q)'
                 PROVE  /\ apiId[q] \in harmed' \/ ~Placed(apiId[q])'
                        /\ \A r \in Apis \ {q} : Unpushed(r)' => apiId[r] # apiId[q]
      BY <2>1 DEF FreshUntilPushed
    <3>1. Unpushed(q) /\ \A r \in Apis : Unpushed(r)' => Unpushed(r)
      BY <2>1, <2>5
    <3>2. CASE q = p
      BY <2>1, <2>5, <3>1, <3>2 DEF FreshUntilPushed
    <3>3. CASE q # p
      <4>1. apiId[q] # id /\ apiId[q] \in Ids /\ apiId' = apiId
        BY <2>1, <2>5, <3>3
      <4>2. Placed(apiId[q])' = Placed(apiId[q])
        BY <2>3, <4>1
      <4>3. /\ apiId[q] \in harmed \/ ~Placed(apiId[q])
            /\ \A r \in Apis \ {q} : Unpushed(r) => apiId[r] # apiId[q]
        BY <3>1 DEF FreshUntilPushed
      <4> QED
        BY <3>1, <4>2, <4>3
    <3> QED
      BY <3>2, <3>3
  <2>7. \A i, k \in DOMAIN queue' : queue'[i] = queue'[k] => i = k \/ queue'[i] \in harmed'
    <3>1. /\ DOMAIN queue = 1 .. Len(queue) /\ DOMAIN queue' = 1 .. Len(queue) + 1
          /\ Len(queue) \in Nat /\ queue'[Len(queue) + 1] = id
          /\ \A i \in DOMAIN queue : queue'[i] = queue[i]
      BY <2>1, AppendFacts DEF TypeOK
    <3>2. \A i \in DOMAIN queue' : i \in DOMAIN queue \/ i = Len(queue) + 1
      BY <3>1
    <3>3. id \in harmed \/ \A i \in DOMAIN queue : queue[i] # id
      BY <2>4 DEF Placed, Waiting
    <3> QED
      BY <3>1, <3>2, <3>3 DEF WorkedOnOnce
  <2>8. WorkedOnOnce'
    <3>1. id \in harmed \/ (id \notin Waiting \cup Taken /\ \A w \in Workers : Held(w) => item[w] # id)
      BY <2>4 DEF Placed, InHands
    <3> HIDE DEF id
    <3> QED
      BY <2>1, <2>2, <2>7, <3>1 DEF WorkedOnOnce, Taken
  <2> QED
    BY <2>6, <2>8
<1> QED
  BY <1>1, <1>2, <1>3 DEF Api

LEMMA OnceDequeue ==
    ASSUME TypeOK, FreshUntilPushed, WorkedOnOnce, NEW w \in Workers, Dequeue(w), queue # <<>>,
           harmed \subseteq harmed'
    PROVE  FreshUntilPushed' /\ WorkedOnOnce'
<1> DEFINE id == Head(queue)
<1>1. /\ queue' = Tail(queue) /\ UNCHANGED <<finished, dropped, apiVars, harmed>>
      /\ ~Held(w) /\ Held(w)' /\ item'[w] = id
      /\ \A v \in Workers \ {w} : item'[v] = item[v] /\ (Held(v)' = Held(v))
  BY DEF Dequeue, Goto, Held, TypeOK, histVars, faultVars
<1>2. /\ Waiting' \subseteq Waiting /\ id \in Waiting /\ (id \notin Waiting' \/ id \in harmed)
      /\ \A i, k \in DOMAIN queue' : queue'[i] = queue'[k] => i = k \/ queue'[i] \in harmed
  <2>1. queue' = Tail(queue) /\ \A i, k \in DOMAIN queue : queue[i] = queue[k] => i = k \/ queue[i] \in harmed
    BY <1>1 DEF WorkedOnOnce
  <2> HIDE DEF id
  <2> QED
    BY <2>1, PopWaiting DEF id
<1>3. id \in harmed \/ (id \notin Taken /\ \A v \in Workers : Held(v) => item[v] # id)
  BY <1>2 DEF WorkedOnOnce
<1> HIDE DEF id
<1>4. \A i : Placed(i)' => Placed(i)
  BY <1>1, <1>2 DEF Placed, InHands, Taken
<1>5. FreshUntilPushed'
  <2>1. \A p \in Apis : Unpushed(p)' = Unpushed(p) /\ apiId'[p] = apiId[p]
    BY <1>1 DEF Unpushed, apiVars
  <2> QED
    BY <1>1, <1>4, <2>1 DEF FreshUntilPushed
<1>6. /\ (Waiting' \cap Taken') \cup (finished' \cap dropped') \subseteq harmed'
      /\ Taken' = Taken
  BY <1>1, <1>2 DEF WorkedOnOnce, Taken
<1>7. \A v \in Workers : Held(v)' => item'[v] \notin Waiting' \cup Taken \/ item'[v] \in harmed
  BY <1>1, <1>2, <1>3 DEF WorkedOnOnce
<1>8. \A u, v \in Workers : Held(u)' /\ Held(v)' /\ item'[u] = item'[v] => u = v \/ item'[u] \in harmed
  BY <1>1, <1>3 DEF WorkedOnOnce
<1> QED
  BY <1>1, <1>2, <1>5, <1>6, <1>7, <1>8 DEF WorkedOnOnce

LEMMA OnceWorker ==
    ASSUME TypeOK, FreshUntilPushed, WorkedOnOnce, NEW w \in Workers, Worker(w),
           harmed \subseteq harmed'
    PROVE  FreshUntilPushed' /\ WorkedOnOnce'
<1> USE DEF redisVars, apiVars, workerVars, histVars, faultVars
<1>0. \A i, k \in DOMAIN queue : queue[i] = queue[k] => i = k \/ queue[i] \in harmed
  BY DEF WorkedOnOnce
<1>1. CASE Poll(w) \/ (Dequeue(w) /\ queue = <<>>) \/ Mark(w) \/ StartAnalysis(w) \/ WorkerCrashes(w)
  <2>1. /\ queue' = queue /\ UNCHANGED <<finished, dropped, apiVars>>
        /\ \A v \in Workers : Held(v)' => Held(v) /\ item'[v] = item[v]
    BY <1>1 DEF Poll, Dequeue, Mark, StartAnalysis, WorkerCrashes, Release, Goto, Held, TypeOK
  <2>2. Waiting' = Waiting /\ \A q \in Apis : Unpushed(q)' = Unpushed(q)
    BY <2>1 DEF Waiting, Unpushed
  <2>3. \A i, k \in DOMAIN queue' : queue'[i] = queue'[k] => i = k \/ queue'[i] \in harmed'
    BY <1>0, <2>1
  <2> QED
    BY <2>1, <2>2, <2>3, OnceShrinks
<1>2. CASE DequeueTimesOut(w)
  <2>1. /\ queue # <<>> /\ queue' = Tail(queue)
        /\ UNCHANGED <<finished, dropped, apiVars, workerVars>>
    BY <1>2 DEF DequeueTimesOut
  <2>2. /\ Waiting' \subseteq Waiting
        /\ \A i, k \in DOMAIN queue' : queue'[i] = queue'[k] => i = k \/ queue'[i] \in harmed
    BY <1>0, <2>1, PopWaiting
  <2>3. /\ \A q \in Apis : Unpushed(q)' = Unpushed(q) /\ apiId'[q] = apiId[q]
        /\ \A v \in Workers : Held(v)' = Held(v) /\ item'[v] = item[v]
    BY <2>1 DEF Unpushed, Held
  <2> QED
    BY <2>1, <2>2, <2>3, OnceShrinks
<1>3. CASE Dequeue(w) /\ queue # <<>>
  BY <1>3, OnceDequeue
<1>4. CASE Requeue(w) \/ Complete(w)
  <2> DEFINE id == item[w]
  <2>1. /\ queue' = queue /\ Held(w) /\ ~Held(w)' /\ id \in Ids
        /\ \/ finished' = finished \cup {id} /\ dropped' = dropped
           \/ finished' = finished /\ dropped' = dropped \cup {id}
        /\ \A v \in Workers \ {w} : Held(v)' = Held(v) /\ item'[v] = item[v]
        /\ UNCHANGED apiVars
    BY <1>4 DEF Requeue, Complete, Release, Goto, Held, TypeOK
  <2>2. Waiting' = Waiting /\ Taken' = Taken \cup {id}
    BY <2>1 DEF Waiting, Taken
  <2>3. /\ id \in harmed \/ id \notin Waiting \cup Taken
        /\ \A v \in Workers : Held(v)' => v # w /\ Held(v) /\ item'[v] = item[v]
                                          /\ (item[v] # id \/ item[v] \in harmed)
    BY <2>1 DEF WorkedOnOnce
  <2> HIDE DEF id
  <2>4. \A i : Placed(i)' => Placed(i)
    BY <2>1, <2>2, <2>3 DEF Placed, InHands, id
  <2>5. FreshUntilPushed'
    <3>1. \A p \in Apis : Unpushed(p)' = Unpushed(p) /\ apiId'[p] = apiId[p]
      BY <2>1 DEF Unpushed, apiVars
    <3> QED
      BY <2>4, <3>1 DEF FreshUntilPushed
  <2>6. (Waiting' \cap Taken') \cup (finished' \cap dropped') \subseteq harmed'
    BY <2>1, <2>2, <2>3 DEF WorkedOnOnce, Taken
  <2>7. \A v \in Workers : Held(v)' => item'[v] \notin Waiting' \cup Taken' \/ item'[v] \in harmed'
    BY <2>2, <2>3 DEF WorkedOnOnce
  <2>8. \A u, v \in Workers : Held(u)' /\ Held(v)' /\ item'[u] = item'[v] => u = v \/ item'[u] \in harmed'
    BY <2>3 DEF WorkedOnOnce
  <2>9. \A i, k \in DOMAIN queue' : queue'[i] = queue'[k] => i = k \/ queue'[i] \in harmed'
    BY <1>0, <2>1
  <2> QED
    BY <2>5, <2>6, <2>7, <2>8, <2>9 DEF WorkedOnOnce
<1> QED
  BY <1>1, <1>2, <1>3, <1>4 DEF Worker

LEMMA OnceStep ==
    ASSUME TypeOK, OnlyUsed, FreshUntilPushed, WorkedOnOnce, Next
    PROVE  FreshUntilPushed' /\ WorkedOnOnce'
<1>1. ASSUME (\E id \in Ids : EntryExpires(id)) \/ WindowEnds
      PROVE  FreshUntilPushed' /\ WorkedOnOnce'
  <2>1. UNCHANGED <<queue, apiVars, workerVars, finished, dropped, harmed>>
    BY <1>1 DEF EntryExpires, WindowEnds, redisVars, histVars, faultVars
  <2>2. /\ Waiting' = Waiting
        /\ \A q \in Apis : Unpushed(q)' = Unpushed(q) /\ apiId'[q] = apiId[q]
        /\ \A v \in Workers : Held(v)' = Held(v) /\ item'[v] = item[v]
    BY <2>1 DEF Waiting, Unpushed, Held, apiVars, workerVars
  <2>3. \A i, k \in DOMAIN queue' : queue'[i] = queue'[k] => i = k \/ queue'[i] \in harmed'
    BY <2>1 DEF WorkedOnOnce
  <2> QED
    BY <2>1, <2>2, <2>3, OnceShrinks
<1> QED
  BY <1>1, HarmGrows, OnceApi, OnceWorker DEF Next

-----------------------------------------------------------------------------
LEMMA InitQueueInv == Init => QueueInv
<1> SUFFICES ASSUME Init PROVE QueueInv
  OBVIOUS
<1> USE SizeAssumption DEF Init
<1>1. TypeOK
  BY DEF TypeOK, Entries, ApiSteps, WorkerSteps, Held
<1>2. Waiting = {} /\ DOMAIN queue = {}
  BY DEF Waiting
<1>3. OnlyUsed /\ FreshUntilPushed /\ WorkedOnOnce
  BY <1>2 DEF OnlyUsed, FreshUntilPushed, WorkedOnOnce, Taken, Held, Unpushed
<1>4. RoomReserved
  <2>1. Pushing = {} /\ Len(queue) = 0 /\ Expected = {}
    BY <1>2 DEF Pushing, Expected
  <2>2. Cardinality(Apis) \in Nat /\ Cardinality(Apis) # 0
    BY ApisAssumption, FS_CardinalityType, FS_EmptySet
  <2>3. Cardinality({}) = 0
    BY FS_EmptySet
  <2> QED
    BY <2>1, <2>2, <2>3 DEF RoomReserved, Excess
<1> QED
  BY <1>1, <1>3, <1>4 DEF QueueInv

LEMMA StepQueueInv == QueueInv /\ [Next]_vars => QueueInv'
<1> SUFFICES ASSUME QueueInv, [Next]_vars PROVE QueueInv'
  OBVIOUS
<1>1. CASE Next
  <2>1. TypeOK'
    <3>1. ASSUME (\E id \in Ids : EntryExpires(id)) \/ WindowEnds PROVE TypeOK'
      BY <3>1, SizeAssumption DEF QueueInv, TypeOK, EntryExpires, WindowEnds, Entries, Held,
         apiVars, workerVars, histVars, redisVars, faultVars
    <3> QED
      BY <1>1, <3>1, ApiTyped, WorkerTyped DEF Next, QueueInv
  <2>2. RoomReserved'
    BY <1>1, <2>1, RoomStep DEF QueueInv
  <2>3. OnlyUsed'
    BY <1>1, OnlyUsedStep DEF QueueInv
  <2>4. FreshUntilPushed' /\ WorkedOnOnce'
    BY <1>1, OnceStep DEF QueueInv
  <2> QED
    BY <2>1, <2>2, <2>3, <2>4 DEF QueueInv
<1>2. CASE UNCHANGED vars
  BY <1>2 DEF vars, redisVars, apiVars, workerVars, histVars, QueueInv, TypeOK, RoomReserved,
     OnlyUsed, FreshUntilPushed, WorkedOnOnce, Waiting, Expected, Taken, Placed, InHands, Pushing, Held,
     Unpushed, faultVars
<1> QED
  BY <1>1, <1>2

LEMMA RoomBounds == QueueInv => QueueBounded
<1> SUFFICES ASSUME QueueInv PROVE QueueBounded
  OBVIOUS
<1>1. Cardinality(Pushing) \in Nat /\ Cardinality(Apis) \in Nat
  BY PushingCount DEF QueueInv
<1>2. /\ Cardinality(Waiting) \in Nat /\ Cardinality(Expected) \in Nat
      /\ Cardinality(Waiting) <= Cardinality(Expected)
  BY ExpectedCount DEF QueueInv, CountsFit
<1> QED
  BY <1>1, <1>2, SizeAssumption DEF QueueInv, TypeOK, RoomReserved, QueueBounded, Excess

(* The inductive invariant of the burst queue. *)
THEOREM SpecQueueInv == Spec => []QueueInv
  BY InitQueueInv, StepQueueInv, PTL DEF Spec

(* The photos that wait pass MAX_QUEUE_SIZE by at most one per other API   *)
(* process (redis.py 355-364); the list, by one more per repeated push.    *)
THEOREM SpecQueueBounded == Spec => []QueueBounded
  BY SpecQueueInv, RoomBounds, PTL

(* No photo is held by two workers, or queued and held, or taken again     *)
(* once it ended, unless a fault hit that photo.                           *)
THEOREM SpecWorkedOnOnce == Spec => []WorkedOnOnce
  BY SpecQueueInv, PTL DEF QueueInv

-----------------------------------------------------------------------------
(* TicketsKept. *)

(* The LPOP of a worker takes the head into its hands and leaves the rest. *)
LEMMA PopKeepsRest ==
    ASSUME TypeOK, queue # <<>>, queue' = Tail(queue)
    PROVE  Waiting \subseteq Waiting' \cup {Head(queue)}
<1>1. /\ DOMAIN queue = 1 .. Len(queue) /\ DOMAIN queue' = 1 .. Len(queue) - 1
      /\ Len(queue) \in Nat /\ Head(queue) = queue[1]
      /\ \A i \in DOMAIN queue' : queue'[i] = queue[i + 1]
  BY TailFacts DEF TypeOK
<1>2. ASSUME NEW i \in DOMAIN queue PROVE queue[i] \in Waiting' \cup {Head(queue)}
  <2>1. CASE i = 1
    BY <1>1, <2>1
  <2>2. CASE i # 1
    <3>1. i - 1 \in DOMAIN queue' /\ (i - 1) + 1 = i
      BY <1>1, <2>2
    <3>2. queue'[i - 1] = queue[i]
      BY <1>1, <3>1
    <3> QED
      BY <3>1, <3>2 DEF Waiting
  <2> QED
    BY <2>1, <2>2
<1> QED
  BY <1>2 DEF Waiting

(* The place of a photo, one component at a time. *)
LEMMA PlaceIs ==
    ASSUME NEW id \in Ids
    PROVE  /\ place[id] \subseteq Ticket!Places
           /\ "queue" \in place[id] <=> id \in Waiting
           /\ "worker" \in place[id] <=> InHands(id)
           /\ "finished" \in place[id] <=> id \in finished
           /\ "dropped" \in place[id] <=> id \in dropped
  BY DEF place, Ticket!Places

LEMMA PlaceBecomes ==
    ASSUME NEW id \in Ids
    PROVE  /\ place'[id] \subseteq Ticket!Places
           /\ "queue" \in place'[id] <=> id \in Waiting'
           /\ "worker" \in place'[id] <=> InHands(id)'
           /\ "finished" \in place'[id] <=> id \in finished'
           /\ "dropped" \in place'[id] <=> id \in dropped'
  BY DEF place, Ticket!Places

LEMMA PlaceTyped == place' \in [Ids -> SUBSET Ticket!Places]
  BY DEF place, Ticket!Places

LEMMA PlaceSame ==
    ASSUME NEW id \in Ids, id \in Waiting' <=> id \in Waiting, InHands(id)' <=> InHands(id),
           id \in finished' <=> id \in finished, id \in dropped' <=> id \in dropped
    PROVE  place'[id] = place[id]
  BY DEF place

(* One photo moves on, the others that no fault hit stay: a step of Ticket. *)
LEMMA OneMoves ==
    ASSUME harmed \subseteq harmed', harmed' \subseteq Ids, NEW m,
           \A i \in Ids \ harmed' : i # m => place'[i] = place[i],
           m \in Ids \ harmed' => place'[m] \in Ticket!Onward(place[m])
    PROVE  Ticket!Next
<1>1. place' \in [Ids -> SUBSET Ticket!Places]
  BY PlaceTyped
<1>2. \A i \in Ticket!Moved : i = m
  BY DEF Ticket!Moved
<1>3. \A i \in Ticket!Moved : i \in Ids \ harmed'
  BY DEF Ticket!Moved
<1> QED
  BY <1>1, <1>2, <1>3 DEF Ticket!Next

LEMMA NoneMoves ==
    ASSUME harmed \subseteq harmed', harmed' \subseteq Ids,
           Waiting' = Waiting, UNCHANGED <<finished, dropped>>,
           \A v \in Workers : (Held(v)' <=> Held(v)) /\ (Held(v) => item'[v] = item[v])
    PROVE  Ticket!Next
<1>1. \A i \in Ids : InHands(i)' <=> InHands(i)
  BY DEF InHands
<1>2. \A i \in Ids : place'[i] = place[i]
  BY <1>1, PlaceSame
<1>3. Ticket!Moved = {}
  BY <1>2 DEF Ticket!Moved
<1> QED
  BY <1>3, PlaceTyped DEF Ticket!Next

(* enqueue: a fresh photo enters the queue. *)
LEMMA PushMoves ==
    ASSUME QueueInv, QueueInv', NEW p \in Apis, Push(p) \/ PushTimesOut(p),
           harmed \subseteq harmed'
    PROVE  Ticket!Next
<1>0. PICK id \in Ids : id = apiId[p]
  BY DEF Push, PushTimesOut, QueueInv, TypeOK
<1>1. /\ Unpushed(p) /\ queue' = Append(queue, id)
      /\ UNCHANGED <<finished, dropped, workerPc, item>>
  BY <1>0 DEF Push, PushTimesOut, Unpushed, histVars, workerVars
<1>2. id \in harmed' \/ ~Placed(id)
  BY <1>0, <1>1 DEF QueueInv, FreshUntilPushed
<1>3. Waiting' = Waiting \cup {id}
  BY <1>1, PushWaiting DEF QueueInv
<1>4. \A i \in Ids : InHands(i)' <=> InHands(i)
  BY <1>1 DEF InHands, Held
<1>5. \A i \in Ids : i # id => place'[i] = place[i]
  BY <1>1, <1>3, <1>4, PlaceSame
<1>6. ASSUME id \notin harmed' PROVE place'[id] \in Ticket!Onward(place[id])
  <2>1. place[id] = {}
    BY <1>1, <1>2, <1>6, PlaceIs DEF Placed, Taken, Ticket!Places
  <2>2. /\ "queue" \in place'[id] /\ "worker" \notin place'[id]
        /\ "finished" \notin place'[id] /\ "dropped" \notin place'[id]
        /\ place'[id] \subseteq Ticket!Places
    BY <1>1, <1>2, <1>3, <1>4, <1>6, PlaceBecomes DEF Placed, Taken
  <2>3. place'[id] = {"queue"}
    BY <2>2 DEF Ticket!Places
  <2> QED
    BY <2>1, <2>3 DEF Ticket!Onward
<1> QED
  BY <1>5, <1>6, OneMoves DEF QueueInv, TypeOK

(* dequeue: the head goes into the hands of the worker. *)
LEMMA DequeueMoves ==
    ASSUME QueueInv, QueueInv', NEW w \in Workers, queue # <<>>,
           Dequeue(w) \/ DequeueTimesOut(w), harmed \subseteq harmed'
    PROVE  Ticket!Next
<1>0. PICK id \in Ids : id = Head(queue)
  BY TailFacts DEF QueueInv, TypeOK
<1>1. /\ queue' = Tail(queue) /\ UNCHANGED <<finished, dropped>>
      /\ ~Held(w) /\ \A v \in Workers \ {w} : item'[v] = item[v] /\ (Held(v)' <=> Held(v))
      /\ (id \in harmed' /\ ~Held(w)') \/ (Held(w)' /\ item'[w] = id)
  <2>1. workerPc \in [Workers -> WorkerSteps] /\ item \in [Workers -> Ids \cup {NoId}]
    BY DEF QueueInv, TypeOK
  <2>2. CASE Dequeue(w)
    BY <1>0, <2>1, <2>2 DEF Dequeue, Goto, Held, histVars
  <2>3. CASE DequeueTimesOut(w)
    BY <1>0, <2>1, <2>3 DEF DequeueTimesOut, Fault, Held, histVars, workerVars
  <2> QED
    BY <2>2, <2>3
<1>2. /\ Waiting' \subseteq Waiting /\ id \in Waiting /\ (id \notin Waiting' \/ id \in harmed)
      /\ Waiting \subseteq Waiting' \cup {id}
  <2>1. TypeOK /\ \A i, k \in DOMAIN queue : queue[i] = queue[k] => i = k \/ queue[i] \in harmed
    BY DEF QueueInv, WorkedOnOnce
  <2>2. queue' = Tail(queue)
    BY <1>1
  <2> QED
    BY <1>0, <2>1, <2>2, PopWaiting, PopKeepsRest
<1>3. id \in harmed \/ (id \notin Taken /\ ~InHands(id))
  BY <1>2 DEF QueueInv, WorkedOnOnce, InHands
<1>4. \A i \in Ids : i # id => (InHands(i)' <=> InHands(i))
  BY <1>1 DEF InHands
<1>5. \A i \in Ids : i # id => place'[i] = place[i]
  BY <1>1, <1>2, <1>4, PlaceSame
<1>6. ASSUME id \notin harmed' PROVE place'[id] \in Ticket!Onward(place[id])
  <2>0. id \notin harmed /\ InHands(id)'
    BY <1>1, <1>6 DEF InHands
  <2>1. place[id] = {"queue"}
    BY <1>2, <1>3, <2>0, PlaceIs DEF Taken, Ticket!Places
  <2>2. /\ "worker" \in place'[id] /\ "queue" \notin place'[id]
        /\ "finished" \notin place'[id] /\ "dropped" \notin place'[id]
        /\ place'[id] \subseteq Ticket!Places
    BY <1>1, <1>2, <1>3, <2>0, PlaceBecomes DEF Taken
  <2>3. place'[id] = {"worker"}
    BY <2>2 DEF Ticket!Places
  <2> QED
    BY <2>1, <2>3 DEF Ticket!Onward
<1> QED
  BY <1>5, <1>6, OneMoves DEF QueueInv, TypeOK

(* process_single_item ends, one way or the other, or the worker dies.     *)
LEMMA ReleaseMoves ==
    ASSUME QueueInv, QueueInv', NEW w \in Workers, Held(w),
           Requeue(w) \/ Complete(w) \/ WorkerCrashes(w), harmed \subseteq harmed'
    PROVE  Ticket!Next
<1>0. PICK id \in Ids : id = item[w]
  BY DEF QueueInv, TypeOK
<1>1. /\ queue' = queue /\ ~Held(w)'
      /\ \/ finished' = finished \cup {id} /\ dropped' = dropped
         \/ finished' = finished /\ dropped' = dropped \cup {id}
         \/ finished' = finished /\ dropped' = dropped /\ id \in harmed'
      /\ \A v \in Workers \ {w} : (Held(v)' <=> Held(v)) /\ item'[v] = item[v]
  BY <1>0 DEF Requeue, Complete, WorkerCrashes, Release, Goto, Fault, Held, QueueInv, TypeOK,
     redisVars, histVars
<1>2. Waiting' = Waiting
  BY <1>1 DEF Waiting
<1>3. id \in harmed \/ (id \notin Waiting \cup Taken /\ \A v \in Workers \ {w} : Held(v) => item[v] # id)
  BY <1>0 DEF QueueInv, WorkedOnOnce
<1>4. \A i \in Ids : i # id => (InHands(i)' <=> InHands(i))
  BY <1>0, <1>1 DEF InHands
<1>5. \A i \in Ids : i # id => place'[i] = place[i]
  BY <1>1, <1>2, <1>4, PlaceSame
<1>6. ASSUME id \notin harmed' PROVE place'[id] \in Ticket!Onward(place[id])
  <2>1. id \notin harmed /\ InHands(id) /\ ~InHands(id)'
    BY <1>0, <1>1, <1>3, <1>6 DEF InHands
  <2>2. place[id] = {"worker"}
    BY <1>3, <2>1, PlaceIs DEF Taken, Ticket!Places
  <2>3. /\ "queue" \notin place'[id] /\ "worker" \notin place'[id]
        /\ "finished" \in place'[id] <=> "dropped" \notin place'[id]
        /\ place'[id] \subseteq Ticket!Places
    BY <1>1, <1>2, <1>3, <1>6, <2>1, PlaceBecomes DEF Taken
  <2>4. place'[id] = {"finished"} \/ place'[id] = {"dropped"}
    BY <2>3 DEF Ticket!Places
  <2> QED
    BY <2>2, <2>4 DEF Ticket!Onward
<1> QED
  BY <1>5, <1>6, OneMoves DEF QueueInv, TypeOK

LEMMA TicketStep == QueueInv /\ QueueInv' /\ [Next]_vars => [Ticket!Next]_<<place, harmed>>
<1> SUFFICES ASSUME QueueInv, QueueInv', [Next]_vars PROVE [Ticket!Next]_<<place, harmed>>
  OBVIOUS
<1>0. harmed' \subseteq Ids
  BY DEF QueueInv, TypeOK
<1>1. CASE UNCHANGED vars
  BY <1>1 DEF vars, redisVars, workerVars, histVars, faultVars, place, Waiting, InHands, Held
<1>2. CASE Next
  <2>0. harmed \subseteq harmed'
    BY <1>2, HarmGrows
  <2>1. ASSUME NEW p \in Apis, Api(p) PROVE Ticket!Next
    <3>1. CASE Push(p) \/ PushTimesOut(p)
      BY <2>0, <3>1, PushMoves
    <3>2. CASE CapacityLeft(p) \/ (\E id \in Ids : NoCapacity(p, id)) \/ CheckSize(p)
               \/ Announce(p) \/ ApiFails(p)
      <4>1. UNCHANGED <<queue, finished, dropped, workerPc, item>>
        BY <3>2 DEF CapacityLeft, NoCapacity, CheckSize, Announce, ApiFails, redisVars, histVars,
           workerVars
      <4> QED
        BY <1>0, <2>0, <4>1, NoneMoves DEF Waiting, Held
    <3> QED
      BY <2>1, <3>1, <3>2 DEF Api
  <2>2. ASSUME NEW w \in Workers, Worker(w) PROVE Ticket!Next
    <3>1. CASE queue # <<>> /\ (Dequeue(w) \/ DequeueTimesOut(w))
      BY <2>0, <3>1, DequeueMoves
    <3>2. CASE Held(w) /\ (Requeue(w) \/ Complete(w) \/ WorkerCrashes(w))
      BY <2>0, <3>2, ReleaseMoves
    <3>3. CASE Poll(w) \/ (Dequeue(w) /\ queue = <<>>) \/ Mark(w) \/ StartAnalysis(w)
               \/ (WorkerCrashes(w) /\ ~Held(w))
      <4>1. /\ UNCHANGED <<queue, finished, dropped>>
            /\ \A v \in Workers : (Held(v)' <=> Held(v)) /\ (Held(v) => item'[v] = item[v])
        <5>1. workerPc \in [Workers -> WorkerSteps] /\ item \in [Workers -> Ids \cup {NoId}]
          BY DEF QueueInv, TypeOK
        <5>2. CASE Poll(w) \/ (Dequeue(w) /\ queue = <<>>) \/ Mark(w) \/ StartAnalysis(w)
          BY <5>1, <5>2 DEF Poll, Dequeue, Mark, StartAnalysis, Goto, Held, redisVars, histVars
        <5>3. CASE WorkerCrashes(w) /\ ~Held(w)
          BY <5>1, <5>3 DEF WorkerCrashes, Release, Goto, Held, redisVars, histVars
        <5> QED
          BY <3>3, <5>2, <5>3
      <4> QED
        BY <1>0, <2>0, <4>1, NoneMoves DEF Waiting
    <3> QED
      BY <2>2, <3>1, <3>2, <3>3 DEF Worker, Held, Requeue, Complete, DequeueTimesOut
  <2>3. ASSUME (\E id \in Ids : EntryExpires(id)) \/ WindowEnds PROVE Ticket!Next
    <3>1. UNCHANGED <<queue, finished, dropped, workerPc, item>>
      BY <2>3 DEF EntryExpires, WindowEnds, redisVars, histVars, workerVars
    <3> QED
      BY <1>0, <2>0, <3>1, NoneMoves DEF Waiting, Held
  <2> QED
    BY <1>2, <2>1, <2>2, <2>3 DEF Next
<1> QED
  BY <1>1, <1>2

(* The burst queue keeps what PhotoTickets promises: each photo waits once *)
(* (redis.py 355-364), is popped by one worker (373-383) and ends once,    *)
(* with a result or given up (photo_queue_worker.py 28-58), whatever       *)
(* happens to the others.                                                  *)
THEOREM SpecTicketsKept == Spec => TicketsKept
<1>1. Init => Ticket!Init
  <2> SUFFICES ASSUME Init PROVE Ticket!Init
    OBVIOUS
  <2>1. Waiting = {} /\ \A id \in Ids : ~InHands(id)
    BY DEF Init, Waiting, InHands, Held
  <2>2. \A id \in Ids : place[id] = {}
    BY <2>1 DEF Init, place
  <2>3. place = [id \in Ids |-> {}]
    BY <2>2 DEF place
  <2> QED
    BY <2>3 DEF Init, Ticket!Init
<1> QED
  BY <1>1, TicketStep, SpecQueueInv, PTL DEF Spec, TicketsKept, Ticket!Spec

-----------------------------------------------------------------------------
(* Accounted. *)

(* A photo that has a place keeps one: no way onward leads out.            *)
LEMMA PlacedStays ==
    ASSUME QueueInv, QueueInv', Next, NEW id \in Ids \ harmed', Placed(id)
    PROVE  Placed(id)'
<1>1. place[id] # {}
  BY PlaceIs DEF Placed, Taken
<1>2. place'[id] = place[id] \/ place'[id] \in Ticket!Onward(place[id])
  BY TicketStep DEF Ticket!Next, Ticket!Moved
<1>3. place'[id] # {}
  BY <1>1, <1>2 DEF Ticket!Onward
<1> QED
  BY <1>3, PlaceBecomes DEF Placed, Taken, Ticket!Places

LEMMA AccountedStep ==
    ASSUME QueueInv, QueueInv', Accounted, PushedFirst, Next
    PROVE  Accounted' /\ PushedFirst'
<1>0. TypeOK /\ harmed \subseteq harmed'
  BY HarmGrows DEF QueueInv
<1>1. \A id \in Ids \ harmed' : Placed(id) => Placed(id)'
  BY PlacedStays
<1>2. ASSUME NEW id \in Ids \ harmed', entry'[id] = "queued" PROVE Placed(id)'
  <2>1. CASE entry[id] = "queued"
    BY <1>0, <1>1, <2>1 DEF Accounted
  <2>2. ASSUME NEW p \in Apis, Announce(p), entry[id] # "queued" PROVE Placed(id)'
    <3>1. apiPc[p] = "announce" /\ id = apiId[p]
      BY <1>0, <1>2, <2>2 DEF Announce, TypeOK
    <3> QED
      BY <1>0, <1>1, <3>1 DEF PushedFirst
  <2>3. ASSUME NEW w \in Workers, Requeue(w), entry[id] # "queued" PROVE Placed(id)'
    <3>1. id = item[w]
      BY <1>0, <1>2, <2>3 DEF Requeue, TypeOK
    <3> QED
      BY <2>3, <3>1 DEF Requeue, Placed, Taken
  <2>4. entry[id] # "queued" => (\E p \in Apis : Announce(p)) \/ \E w \in Workers : Requeue(w)
    <3> SUFFICES ASSUME entry[id] # "queued", \A p \in Apis : ~Announce(p),
                        \A w \in Workers : ~Requeue(w)
                 PROVE  FALSE
      OBVIOUS
    <3>1. \A p \in Apis : ~Api(p)
      BY <1>0, <1>2 DEF Api, CapacityLeft, NoCapacity, CheckSize, Push, PushTimesOut, ApiFails, redisVars
    <3>2. ASSUME NEW w \in Workers PROVE ~Mark(w) /\ ~Complete(w)
      BY <1>0, <1>2 DEF Mark, Complete, TypeOK
    <3>3. \A w \in Workers : ~Worker(w)
      BY <1>0, <1>2, <3>2 DEF Worker, Poll, Dequeue, DequeueTimesOut, StartAnalysis, WorkerCrashes,
         redisVars
    <3>4. ~(\E i \in Ids : EntryExpires(i)) /\ ~WindowEnds
      BY <1>0, <1>2 DEF EntryExpires, WindowEnds, redisVars, TypeOK
    <3> QED
      BY <3>1, <3>3, <3>4 DEF Next
  <2> QED
    BY <2>1, <2>2, <2>3, <2>4
<1>3. ASSUME NEW p \in Apis, apiPc'[p] = "announce"
      PROVE  Placed(apiId[p])' \/ apiId'[p] \in harmed'
  <2>0. PICK id \in Ids : apiId'[p] = id
    BY <1>3, QueueInv' DEF QueueInv, TypeOK
  <2>1. CASE apiPc[p] = "announce" /\ apiId'[p] = apiId[p]
    <3>1. Placed(id) \/ id \in harmed
      BY <2>0, <2>1 DEF PushedFirst
    <3> QED
      BY <1>0, <1>1, <2>0, <3>1
  <2>2. CASE Push(p)
    <3>1. apiId[p] = id /\ queue' = Append(queue, id)
      BY <2>0, <2>2 DEF Push
    <3>2. Waiting' = Waiting \cup {id}
      BY <1>0, <3>1, PushWaiting
    <3> QED
      BY <2>0, <3>2 DEF Placed
  <2>3. Push(p) \/ (apiPc[p] = "announce" /\ apiId'[p] = apiId[p])
    <3> SUFFICES ASSUME ~Push(p) PROVE apiPc[p] = "announce" /\ apiId'[p] = apiId[p]
      OBVIOUS
    <3>1. ASSUME NEW q \in Apis, Api(q) PROVE apiPc[p] = "announce" /\ apiId'[p] = apiId[p]
      <4>1. CASE CapacityLeft(q) \/ PushTimesOut(q)
        BY <1>3, <4>1 DEF CapacityLeft, PushTimesOut, apiVars
      <4>2. ASSUME NEW i \in Ids, NoCapacity(q, i)
            PROVE  apiPc[p] = "announce" /\ apiId'[p] = apiId[p]
        BY <1>0, <1>3, <4>2 DEF NoCapacity, TypeOK
      <4>3. CASE CheckSize(q) \/ Push(q) \/ Announce(q) \/ ApiFails(q)
        BY <1>0, <1>3, <4>3 DEF CheckSize, Push, Announce, ApiFails, TypeOK
      <4> QED
        BY <3>1, <4>1, <4>2, <4>3 DEF Api
    <3>2. ASSUME NEW w \in Workers, Worker(w) PROVE UNCHANGED apiVars
      BY <3>2 DEF Worker, Poll, Dequeue, DequeueTimesOut, Mark, Requeue, StartAnalysis, Complete,
         WorkerCrashes
    <3>3. (\E i \in Ids : EntryExpires(i)) \/ WindowEnds => UNCHANGED apiVars
      BY DEF EntryExpires, WindowEnds
    <3> QED
      BY <1>3, <3>1, <3>2, <3>3 DEF Next, apiVars
  <2> QED
    BY <2>1, <2>2, <2>3
<1> QED
  BY <1>2, <1>3 DEF Accounted, PushedFirst

(* An announced photo is never lost without a word, unless a fault hit     *)
(* that photo (redis.py 355-370, photo_queue_worker.py 28-58).             *)
THEOREM SpecAccounted == Spec => []Accounted
<1>1. Init => Accounted /\ PushedFirst
  BY DEF Init, Accounted, PushedFirst
<1>2. QueueInv /\ QueueInv' /\ Accounted /\ PushedFirst /\ [Next]_vars
      => Accounted' /\ PushedFirst'
  <2>1. Accounted /\ PushedFirst /\ UNCHANGED vars => Accounted' /\ PushedFirst'
    BY DEF vars, redisVars, apiVars, workerVars, histVars, faultVars, Accounted, PushedFirst, Placed,
       InHands, Taken, Waiting, Held
  <2> QED
    BY <2>1, AccountedStep
<1> QED
  BY SpecQueueInv, <1>1, <1>2, PTL DEF Spec
=============================================================================
