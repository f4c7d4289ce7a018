----------------------------- MODULE PhotoQueue -----------------------------
(***************************************************************************)
(* The burst queue of photo validation: POST queue_photo                   *)
(* (src/app/routers/photo_validation.py) puts photos on a Redis list with  *)
(* PhotoValidationQueue (src/app/core/redis.py), and the processes of      *)
(* src/app/workers/photo_queue_worker.py take them off.  A second Redis    *)
(* key per photo holds the state that GET status reports.                  *)
(*                                                                         *)
(* One API process runs enqueue without yielding, but other processes run  *)
(* between its commands.  A command whose answer does not come is retried  *)
(* by the client (retry_on_timeout), though it may have been executed; one *)
(* that fails is caught and forgotten.  Each of these, and each crash, is  *)
(* counted in `faults', and `harmed' collects the photos it could double   *)
(* or lose.                                                                *)
(***************************************************************************)
EXTENDS Naturals, Sequences, FiniteSets

CONSTANTS
    Ids,        \* validation ids (uuid4)
    Apis,       \* API processes
    Workers,    \* worker processes
    MaxQueue,   \* MAX_QUEUE_SIZE
    Rpm,        \* requests per window over all Groq keys
    MaxFaults,  \* bound: faults in a behaviour
    NoId

ASSUME SizeAssumption == MaxQueue \in Nat \ {0} /\ Rpm \in Nat /\ MaxFaults \in Nat
ASSUME ApisAssumption == IsFiniteSet(Apis) /\ Apis # {}
ASSUME NoIdAssumption == NoId \notin Ids

VARIABLES
    queue,      \* the list photo_validation:queue
    entry,      \* photo_validation:result:<id>
    remaining,  \* GroqKeyManager.get_total_remaining
    apiPc, apiId,        \* per API process: next step of its request, its id
    workerPc, item,      \* per worker: next step, the photo it holds
    used,       \* history: ids given out
    finished,   \* history: photos whose result was computed
    dropped,    \* history: photos given up for lack of capacity
    faults,
    harmed      \* history: photos pushed again, popped unseen, or held in a crash

redisVars  == <<queue, entry>>
apiVars    == <<apiPc, apiId>>
workerVars == <<workerPc, item>>
histVars   == <<used, finished, dropped>>
faultVars  == <<faults, harmed>>
vars == <<redisVars, remaining, apiVars, workerVars, histVars, faultVars>>

Entries     == {"absent", "queued", "processing", "completed"}
ApiSteps    == {"idle", "asked", "push", "announce"}
WorkerSteps == {"idle", "poll", "mark", "check", "analyze"}

Waiting == {queue[i] : i \in DOMAIN queue}
Held(w) == workerPc[w] \notin {"idle", "poll"}
Pushing == {p \in Apis : apiPc[p] = "push"}

Fault(ids) == faults < MaxFaults /\ faults' = faults + 1 /\ harmed' = harmed \cup ids

-----------------------------------------------------------------------------
(* POST queue_photo. *)

(* A key is available: it is charged, and the caller is sent to check_photo. *)
CapacityLeft(p) ==
    /\ apiPc[p] = "idle" /\ remaining > 0
    /\ remaining' = remaining - 1
    /\ UNCHANGED <<redisVars, apiVars, workerVars, histVars, faultVars>>

(* All keys are busy; the photo is read and resized under a fresh id.      *)
NoCapacity(p, id) ==
    /\ apiPc[p] = "idle" /\ remaining = 0 /\ id \notin used
    /\ apiPc' = [apiPc EXCEPT ![p] = "asked"]
    /\ apiId' = [apiId EXCEPT ![p] = id]
    /\ used' = used \cup {id}
    /\ UNCHANGED <<redisVars, remaining, workerVars, finished, dropped, faultVars>>

(* Mutant of HasRoom: one photo too many. *)
HasRoomOffByOne == Len(queue) <= MaxQueue
HasRoom == Len(queue) < MaxQueue

(* Mutant of CheckSize: a refused photo gets an entry all the same. *)
CheckSizeAnnounces(p) ==
    /\ apiPc[p] = "asked"
    /\ apiPc' = [apiPc EXCEPT ![p] = IF HasRoom THEN "push" ELSE "announce"]
    /\ UNCHANGED <<redisVars, remaining, apiId, workerVars, histVars, faultVars>>

(* enqueue: LLEN, and the answer 503 when the queue is full. *)
CheckSize(p) ==
    /\ apiPc[p] = "asked"
    /\ apiPc' = [apiPc EXCEPT ![p] = IF HasRoom THEN "push" ELSE "idle"]
    /\ UNCHANGED <<redisVars, remaining, apiId, workerVars, histVars, faultVars>>

(* enqueue: RPUSH. *)
Push(p) ==
    /\ apiPc[p] = "push"
    /\ queue' = Append(queue, apiId[p])
    /\ apiPc' = [apiPc EXCEPT ![p] = "announce"]
    /\ UNCHANGED <<entry, remaining, apiId, workerVars, histVars, faultVars>>

(* RPUSH was executed but its answer is late: the client sends it again.   *)
PushTimesOut(p) ==
    /\ apiPc[p] = "push" /\ Fault({apiId[p]})
    /\ queue' = Append(queue, apiId[p])
    /\ UNCHANGED <<entry, remaining, apiVars, workerVars, histVars>>

(* enqueue: SETEX "queued"; a failure is swallowed by set_status. *)
Announce(p) ==
    /\ apiPc[p] = "announce"
    /\ \/ entry' = [entry EXCEPT ![apiId[p]] = "queued"] /\ UNCHANGED faultVars
       \/ Fault({}) /\ UNCHANGED entry
    /\ apiPc' = [apiPc EXCEPT ![p] = "idle"]
    /\ UNCHANGED <<queue, remaining, apiId, workerVars, histVars>>

(* RPUSH fails for good ("Queue is full" again), or the process dies. *)
ApiFails(p) ==
    /\ apiPc[p] # "idle" /\ Fault({})
    /\ apiPc' = [apiPc EXCEPT ![p] = "idle"]
    /\ UNCHANGED <<redisVars, remaining, apiId, workerVars, histVars>>

-----------------------------------------------------------------------------
(* worker_loop. *)

Goto(w, step) == workerPc' = [workerPc EXCEPT ![w] = step]
Release(w)    == Goto(w, "idle") /\ item' = [item EXCEPT ![w] = NoId]

Poll(w) ==
    /\ workerPc[w] = "idle" /\ remaining > 0
    /\ Goto(w, "poll")
    /\ UNCHANGED <<redisVars, remaining, apiVars, item, histVars, faultVars>>

(* Mutant of Dequeue: the photo is read but stays at the head. *)
DequeuePeeks(w) ==
    /\ workerPc[w] = "poll"
    /\ IF queue = <<>> THEN Goto(w, "idle") /\ UNCHANGED <<queue, item>>
       ELSE /\ item' = [item EXCEPT ![w] = Head(queue)]
            /\ Goto(w, "mark") /\ UNCHANGED queue
    /\ UNCHANGED <<entry, remaining, apiVars, histVars, faultVars>>

(* dequeue: LPOP. *)
Dequeue(w) ==
    /\ workerPc[w] = "poll"
    /\ IF queue = <<>> THEN Goto(w, "idle") /\ UNCHANGED <<queue, item>>
       ELSE /\ item' = [item EXCEPT ![w] = Head(queue)]
            /\ queue' = Tail(queue)
            /\ Goto(w, "mark")
    /\ UNCHANGED <<entry, remaining, apiVars, histVars, faultVars>>

(* LPOP was executed but its answer is late: what it popped is gone. *)
DequeueTimesOut(w) ==
    /\ workerPc[w] = "poll" /\ queue # <<>> /\ Fault({Head(queue)})
    /\ queue' = Tail(queue)
    /\ UNCHANGED <<entry, remaining, apiVars, workerVars, histVars>>

(* process_single_item: SETEX "processing". *)
Mark(w) ==
    /\ workerPc[w] = "mark"
    /\ \/ entry' = [entry EXCEPT ![item[w]] = "processing"] /\ UNCHANGED faultVars
       \/ Fault({}) /\ UNCHANGED entry
    /\ Goto(w, "check")
    /\ UNCHANGED <<queue, remaining, apiVars, item, histVars>>

(* Capacity was used up since the poll: the entry says "queued", but       *)
(* nothing puts the photo back on the list.                                *)
Requeue(w) ==
    /\ workerPc[w] = "check" /\ remaining = 0
    /\ \/ entry' = [entry EXCEPT ![item[w]] = "queued"] /\ UNCHANGED faultVars
       \/ Fault({}) /\ UNCHANGED entry
    /\ Release(w)
    /\ dropped' = dropped \cup {item[w]}
    /\ UNCHANGED <<queue, remaining, apiVars, used, finished>>

(* The analysis does not charge a key. *)
StartAnalysis(w) ==
    /\ workerPc[w] = "check" /\ remaining > 0
    /\ Goto(w, "analyze")
    /\ UNCHANGED <<redisVars, remaining, apiVars, item, histVars, faultVars>>

(* set_result: a verdict or an error, always "completed". *)
Complete(w) ==
    /\ workerPc[w] = "analyze"
    /\ \/ entry' = [entry EXCEPT ![item[w]] = "completed"] /\ UNCHANGED faultVars
       \/ Fault({}) /\ UNCHANGED entry
    /\ finished' = finished \cup {item[w]}
    /\ Release(w)
    /\ UNCHANGED <<queue, remaining, apiVars, used, dropped>>

WorkerCrashes(w) ==
    /\ workerPc[w] # "idle" /\ Fault(IF Held(w) THEN {item[w]} ELSE {})
    /\ Release(w)
    /\ UNCHANGED <<redisVars, remaining, apiVars, histVars>>

-----------------------------------------------------------------------------
(* RESULT_TTL seconds pass; the windows of some keys end. *)
EntryExpires(id) ==
    /\ entry[id] # "absent"
    /\ entry' = [entry EXCEPT ![id] = "absent"]
    /\ UNCHANGED <<queue, remaining, apiVars, workerVars, histVars, faultVars>>

WindowEnds ==
    /\ remaining' \in (remaining + 1) .. Rpm
    /\ UNCHANGED <<redisVars, apiVars, workerVars, histVars, faultVars>>

Init ==
    /\ queue = <<>> /\ entry = [id \in Ids |-> "absent"]
    /\ remaining = Rpm
    /\ apiPc = [p \in Apis |-> "idle"] /\ apiId = [p \in Apis |-> NoId]
    /\ workerPc = [w \in Workers |-> "idle"] /\ item = [w \in Workers |-> NoId]
    /\ used = {} /\ finished = {} /\ dropped = {} /\ faults = 0 /\ harmed = {}

Api(p) ==
    \/ CapacityLeft(p) \/ (\E id \in Ids : NoCapacity(p, id))
    \/ CheckSize(p) \/ Push(p) \/ PushTimesOut(p) \/ Announce(p) \/ ApiFails(p)
Worker(w) ==
    \/ Poll(w) \/ Dequeue(w) \/ DequeueTimesOut(w) \/ Mark(w) \/ Requeue(w)
    \/ StartAnalysis(w) \/ Complete(w) \/ WorkerCrashes(w)

Next ==
    \/ \E p \in Apis : Api(p)
    \/ \E w \in Workers : Worker(w)
    \/ \E id \in Ids : EntryExpires(id)
    \/ WindowEnds

Spec == Init /\ [][Next]_vars

-----------------------------------------------------------------------------
(* Properties. *)

TypeOK ==
    /\ queue \in Seq(Ids) /\ entry \in [Ids -> Entries]
    /\ remaining \in 0 .. Rpm
    /\ apiPc \in [Apis -> ApiSteps] /\ apiId \in [Apis -> Ids \cup {NoId}]
    /\ workerPc \in [Workers -> WorkerSteps] /\ item \in [Workers -> Ids \cup {NoId}]
    /\ used \subseteq Ids /\ finished \subseteq Ids /\ dropped \subseteq Ids
    /\ harmed \subseteq Ids
    /\ faults \in 0 .. MaxFaults
    /\ \A p \in Apis : apiPc[p] # "idle" => apiId[p] \in used
    /\ \A w \in Workers : Held(w) => item[w] \in Ids

(* The test of the length and the push are two commands, so the queue may  *)
(* pass MAX_QUEUE_SIZE, but only by the photos of the other processes that *)
(* were between the two.  That bounds the photos that wait, whatever goes  *)
(* wrong; in the list each repeated push has left one more entry at most.  *)
Excess == Cardinality(Apis) - 1

QueueBounded == /\ Cardinality(Waiting) <= MaxQueue + Excess
                /\ Len(queue) <= MaxQueue + Excess + faults

(* Why: every process about to push is already accounted for, and so is    *)
(* its photo. *)
Expected == Waiting \cup {apiId[p] : p \in Pushing}

RoomReserved == /\ Cardinality(Expected) <= MaxQueue + Excess
                /\ Len(queue) + Cardinality(Pushing) <= MaxQueue + Excess + faults

Taken == finished \cup dropped

(* No photo is worked on twice unless a fault hit that very photo: it is   *)
(* in the queue once, or with one worker, or done with.                    *)
WorkedOnOnce ==
    /\ \A i, k \in DOMAIN queue : queue[i] = queue[k] => i = k \/ queue[i] \in harmed
    /\ (Waiting \cap Taken) \cup (finished \cap dropped) \subseteq harmed
    /\ \A w \in Workers : Held(w) => item[w] \notin Waiting \cup Taken \/ item[w] \in harmed
    /\ \A v, w \in Workers : Held(v) /\ Held(w) /\ item[v] = item[w] => v = w \/ item[v] \in harmed

(* A photo whose push was announced is never forgotten silently: it waits, *)
(* is with a worker, has its result, or was given up for lack of capacity; *)
(* unless a fault took that very photo away.                               *)
InHands(id) == \E w \in Workers : Held(w) /\ item[w] = id
Placed(id)  == id \in Waiting \cup Taken \/ InHands(id)

Accounted == \A id \in Ids \ harmed : entry[id] = "queued" => Placed(id)

(* Why: the announcement comes after the push. *)
PushedFirst == \A p \in Apis : apiPc[p] = "announce" => Placed(apiId[p]) \/ apiId[p] \in harmed

(* The inductive invariant behind WorkedOnOnce: an id is nobody's until it *)
(* is pushed. *)
OnlyUsed == Waiting \cup Taken \subseteq used /\ \A w \in Workers : Held(w) => item[w] \in used

Unpushed(p) == apiPc[p] \in {"asked", "push"}

FreshUntilPushed ==
    \A p \in Apis : Unpushed(p) =>
        /\ apiId[p] \in harmed \/ ~Placed(apiId[p])
        /\ \A q \in Apis \ {p} : Unpushed(q) => apiId[q] # apiId[p]

QueueInv == TypeOK /\ RoomReserved /\ OnlyUsed /\ FreshUntilPushed /\ WorkedOnOnce

(* Each photo goes its own way through the queue, once and in one          *)
(* direction, whatever happens to the others. *)
place == [id \in Ids |-> {s \in {"queue", "worker", "finished", "dropped"} :
             CASE s = "queue"    -> id \in Waiting
               [] s = "worker"   -> InHands(id)
               [] s = "finished" -> id \in finished
               [] s = "dropped"  -> id \in dropped}]

Ticket == INSTANCE PhotoTickets

TicketsKept == Ticket!Spec

(* process_single_item: "No capacity, re-queuing". *)
RequeuePutsBack ==
    [][\A w \in Workers : workerPc[w] = "check" /\ dropped' # dropped /\ workerPc'[w] = "idle"
                          => item[w] \in Waiting']_vars
=============================================================================
