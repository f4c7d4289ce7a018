--------------------------- MODULE RenderPipeline ---------------------------
(***************************************************************************)
(* The life of a job after it is released: the status machine of the jobs  *)
(* row under                                                               *)
(*   - the render worker (external: README "Worker"),                      *)
(*   - the in-database watchdog (src/sql/schema.sql),                      *)
(*   - the operator's handlers PATCH update-job and PATCH video-url and    *)
(*     the delivery handler POST send-video (src/app/routers/jobs.py),     *)
(* and of the user's pending key in Redis, which keeps further submits     *)
(* out: the requests that release or see the job write it after their      *)
(* commit or from their snapshot (src/app/routers/video.py, auth.py), when *)
(* the job may have finished and its key been cleared already.             *)
(*                                                                         *)
(* A handler loads the row, computes on the loaded copy and flushes it at  *)
(* commit; the ORM writes only the columns whose value differs from what   *)
(* was loaded, so a column set to its loaded value is not written at all.  *)
(***************************************************************************)
EXTENDS Naturals, FiniteSets

CONSTANTS
    Jobs,
    Urls,        \* S3 URLs of finished videos
    Handlers,    \* request slots of the API
    MaxRetry,    \* pipeline_config.max_retry
    Targets,     \* bound: the statuses operators ask update-job for
    MaxMoves     \* bound: update-job calls committed

ASSUME RetryAssumption == MaxRetry \in Nat /\ MaxMoves \in Nat

Statuses == {"wait", "process_stop", "unverified", "queued",
             "photo_processing", "photo_done", "video_processing", "video_done",
             "stitching", "uploaded", "sent", "failed"}
Processing == {"photo_processing", "video_processing", "stitching"}
Stages == {"photo", "video", "stitch", "delivery"}

ASSUME TargetsAssumption == Targets \subseteq Statuses

Null  == "null"     \* an SQL NULL
NoJob == "no job"   \* an idle slot's copy

VARIABLES
    status, retry,    \* jobs.status, jobs.retry_count
    lock,             \* age of jobs.locked_at against stuck_after_minutes
    failedStage,      \* jobs.failed_stage
    errorCode,        \* jobs.last_error_code
    url,              \* job_assets.final_video_url
    rendered,         \* stages whose assets were written
    delivered,        \* URLs the messaging service accepted for the job's user
    pending,          \* Redis video:pending names the job
    pc, req,          \* per handler slot: next step, local copies
    touched,          \* history: jobs an operator changed the status of
    moves             \* bound counter

rowVars   == <<status, retry, lock, failedStage, errorCode>>
assetVars == <<url, rendered>>
slotVars  == <<pc, req>>
histVars  == <<touched, moves>>
vars == <<rowVars, assetVars, delivered, pending, slotVars, histVars>>

LockAges == {"none", "fresh", "stale"}
Errors   == {Null, "WORKER", "WATCHDOG_REWIND", "WATCHDOG_MAX_RETRY"}
Steps    == {"idle", "guard", "mark", "update", "videoUrl", "send", "sent", "clear"}

(* A handler's copies: the job, the row it loaded, and what it was asked   *)
(* to write (a status, or the URL it sends or stores).                     *)
Locals == [job : Jobs \cup {NoJob}, status : Statuses, retry : Nat,
           failedStage : Stages \cup {Null}, errorCode : Errors, url : Urls \cup {Null},
           newStatus : Statuses, newUrl : Urls \cup {Null}]

-----------------------------------------------------------------------------
(* The stage tables. *)

(* Worker: which status a job is taken in, and where a stage ends. *)
TakeTo == [queued |-> "photo_processing", photo_done |-> "video_processing",
           video_done |-> "stitching", uploaded |-> "uploaded"]
DoneTo == [photo_processing |-> "photo_done", video_processing |-> "video_done",
           stitching |-> "uploaded"]

(* CASE status of the watchdog's two updates. *)
StageNames == [photo_processing |-> "photo", video_processing |-> "video",
               stitching |-> "stitch", uploaded |-> "delivery"]

(* Mutants of RewindTo: the arms are shifted by one stage; one arm leaves  *)
(* the row where it is. *)
RewindTooShort == [photo_processing |-> "photo_done", video_processing |-> "video_done",
                   stitching |-> "uploaded", uploaded |-> "uploaded"]
RewindKeepsStage == [photo_processing |-> "queued", video_processing |-> "video_processing",
                     stitching |-> "video_done", uploaded |-> "uploaded"]
RewindTo == [photo_processing |-> "queued", video_processing |-> "photo_done",
             stitching |-> "video_done", uploaded |-> "uploaded"]

StageOf(s) == IF s \in DOMAIN StageNames THEN StageNames[s] ELSE Null

-----------------------------------------------------------------------------
(* The render worker, as the README describes it (external): it locks an   *)
(* unlocked job, writes the stage's assets and advances the status.  It    *)
(* may die holding the lock, which is then simply never released.          *)
WorkerTake(j) ==
    /\ status[j] \in DOMAIN TakeTo /\ lock[j] = "none"
    /\ status' = [status EXCEPT ![j] = TakeTo[status[j]]]
    /\ lock'   = [lock EXCEPT ![j] = "fresh"]
    /\ UNCHANGED <<retry, failedStage, errorCode, assetVars, delivered, pending, slotVars, histVars>>

WorkerDone(j) ==
    /\ status[j] \in DOMAIN DoneTo /\ lock[j] # "none"
    /\ status'   = [status EXCEPT ![j] = DoneTo[status[j]]]
    /\ lock'     = [lock EXCEPT ![j] = "none"]
    /\ rendered' = [rendered EXCEPT ![j] = @ \cup {StageOf(status[j])}]
    /\ IF status[j] = "stitching" THEN \E u \in Urls : url' = [url EXCEPT ![j] = u]
       ELSE UNCHANGED url
    /\ UNCHANGED <<retry, failedStage, errorCode, delivered, pending, slotVars, histVars>>

WorkerFails(j) ==
    /\ status[j] \in DOMAIN StageNames /\ lock[j] # "none"
    /\ status'      = [status EXCEPT ![j] = "failed"]
    /\ failedStage' = [failedStage EXCEPT ![j] = StageOf(status[j])]
    /\ errorCode'   = [errorCode EXCEPT ![j] = "WORKER"]
    /\ lock'        = [lock EXCEPT ![j] = "none"]
    /\ UNCHANGED <<retry, assetVars, delivered, pending, slotVars, histVars>>

(* stuck_after_minutes pass since locked_at. *)
LockGetsStale(j) ==
    /\ lock[j] = "fresh"
    /\ lock' = [lock EXCEPT ![j] = "stale"]
    /\ UNCHANGED <<status, retry, failedStage, errorCode, assetVars, delivered, pending,
                   slotVars, histVars>>

-----------------------------------------------------------------------------
(* sp_watchdog_tick, per row.  A NULL locked_at is never "< NOW() - ...".  *)
Stuck(j) == status[j] \in DOMAIN StageNames /\ lock[j] = "stale"

(* Mutant of WatchdogFail: any row with an old lock, whatever its status. *)
WatchdogFailsAnyStatus(j) ==
    /\ lock[j] = "stale" /\ retry[j] >= MaxRetry
    /\ status'      = [status EXCEPT ![j] = "failed"]
    /\ failedStage' = [failedStage EXCEPT ![j] = StageOf(status'[j])]
    /\ errorCode'   = [errorCode EXCEPT ![j] = "WATCHDOG_MAX_RETRY"]
    /\ lock'        = [lock EXCEPT ![j] = "none"]
    /\ UNCHANGED <<retry, assetVars, delivered, pending, slotVars, histVars>>

(* (a) MySQL evaluates the assignments of an UPDATE from left to right:    *)
(* CASE status already sees 'failed'.                                      *)
WatchdogFail(j) ==
    /\ Stuck(j) /\ retry[j] >= MaxRetry
    /\ status'      = [status EXCEPT ![j] = "failed"]
    /\ failedStage' = [failedStage EXCEPT ![j] = StageOf(status'[j])]
    /\ errorCode'   = [errorCode EXCEPT ![j] = "WATCHDOG_MAX_RETRY"]
    /\ lock'        = [lock EXCEPT ![j] = "none"]
    /\ UNCHANGED <<retry, assetVars, delivered, pending, slotVars, histVars>>

(* Mutants of WatchdogRewind: retries not counted; one retry too many. *)
RewindUncounted(j) ==
    /\ Stuck(j) /\ retry[j] < MaxRetry
    /\ status'    = [status EXCEPT ![j] = RewindTo[status[j]]]
    /\ lock'      = [lock EXCEPT ![j] = "none"]
    /\ errorCode' = [errorCode EXCEPT ![j] = "WATCHDOG_REWIND"]
    /\ UNCHANGED <<retry, failedStage, assetVars, delivered, pending, slotVars, histVars>>
RewindOnceMore(j) ==
    /\ Stuck(j) /\ retry[j] <= MaxRetry
    /\ status'    = [status EXCEPT ![j] = RewindTo[status[j]]]
    /\ lock'      = [lock EXCEPT ![j] = "none"]
    /\ retry'     = [retry EXCEPT ![j] = @ + 1]
    /\ errorCode' = [errorCode EXCEPT ![j] = "WATCHDOG_REWIND"]
    /\ UNCHANGED <<failedStage, assetVars, delivered, pending, slotVars, histVars>>

(* (b) *)
WatchdogRewind(j) ==
    /\ Stuck(j) /\ retry[j] < MaxRetry
    /\ status'    = [status EXCEPT ![j] = RewindTo[status[j]]]
    /\ lock'      = [lock EXCEPT ![j] = "none"]
    /\ retry'     = [retry EXCEPT ![j] = @ + 1]
    /\ errorCode' = [errorCode EXCEPT ![j] = "WATCHDOG_REWIND"]
    /\ UNCHANGED <<failedStage, assetVars, delivered, pending, slotVars, histVars>>

-----------------------------------------------------------------------------
(* The handlers. *)

(* The columns a handler never writes stay out of its copy. *)
Blank == [job |-> NoJob, status |-> "queued", retry |-> 0,
          failedStage |-> Null, errorCode |-> Null, url |-> Null,
          newStatus |-> "queued", newUrl |-> Null]

Load(h, step, copy) ==
    /\ pc[h] = "idle"
    /\ pc'  = [pc EXCEPT ![h] = step]
    /\ req' = [req EXCEPT ![h] = copy]
    /\ UNCHANGED <<rowVars, assetVars, delivered, pending, histVars>>

(* What a column holds after the flush. *)
Flushed(current, loaded, new) == IF new = loaded THEN current ELSE new

Goto(h, step) == pc' = [pc EXCEPT ![h] = step] /\ UNCHANGED req
ClearNext(h)  ==   \* nothing but the job is read any more
    pc' = [pc EXCEPT ![h] = "clear"] /\ req' = [req EXCEPT ![h] = [Blank EXCEPT !.job = req[h].job]]
Finish(h)     == pc' = [pc EXCEPT ![h] = "idle"] /\ req' = [req EXCEPT ![h] = Blank]

(* Mutant of SubmitSees: the query asks for any job of the user. *)
SubmitSeesAny(h, j) == Load(h, "guard", [Blank EXCEPT !.job = j])

(* submit, as far as the pending key goes: in its snapshot j is in flight. *)
SubmitSees(h, j) ==
    /\ status[j] \notin {"sent", "failed"}
    /\ Load(h, "guard", [Blank EXCEPT !.job = j])

(* A key that is there refuses the request; else the query finds the job.  *)
SubmitGuard(h) ==
    /\ pc[h] = "guard"
    /\ IF pending[req[h].job] THEN Finish(h) ELSE Goto(h, "mark")
    /\ UNCHANGED <<rowVars, assetVars, delivered, pending, histVars>>

(* Cache.set_pending_video, of a refused submit or after a release. *)
SetPending(h) ==
    /\ pc[h] = "mark"
    /\ pending' = [pending EXCEPT ![req[h].job] = TRUE]
    /\ Finish(h)
    /\ UNCHANGED <<rowVars, assetVars, delivered, histVars>>

(* PATCH update-job: any status, one more retry, failure metadata cleared; *)
(* locked_by and locked_at are left as they are.                           *)
UpdateRead(h, j, s) ==
    Load(h, "update", [Blank EXCEPT !.job = j, !.newStatus = s, !.status = status[j],
                                    !.retry = retry[j], !.failedStage = failedStage[j],
                                    !.errorCode = errorCode[j]])

UpdateCommit(h) ==
    /\ pc[h] = "update" /\ moves < MaxMoves
    /\ LET l == req[h] IN
       /\ status' = [status EXCEPT ![l.job] = Flushed(@, l.status, l.newStatus)]
       /\ retry'  = [retry EXCEPT ![l.job] = l.retry + 1]
       /\ failedStage' = [failedStage EXCEPT ![l.job] = Flushed(@, l.failedStage, Null)]
       /\ errorCode'   = [errorCode EXCEPT ![l.job] = Flushed(@, l.errorCode, Null)]
       /\ IF l.newStatus \in {"sent", "failed"} THEN ClearNext(h) ELSE Finish(h)
       /\ touched' = touched \cup {l.job}
    /\ moves' = moves + 1
    /\ UNCHANGED <<lock, assetVars, delivered, pending>>

(* PATCH video-url *)
VideoUrlRead(h, j, u) ==
    Load(h, "videoUrl", [Blank EXCEPT !.job = j, !.url = url[j], !.newUrl = u])

StoreUrl(l) == url' = [url EXCEPT ![l.job] = Flushed(@, l.url, l.newUrl)]

VideoUrlCommit(h) ==
    /\ pc[h] = "videoUrl"
    /\ StoreUrl(req[h])
    /\ Finish(h)
    /\ UNCHANGED <<rowVars, rendered, delivered, pending, histVars>>

(* POST send-video: the URL of the body, else the stored one; no URL, 400. *)
SendRead(h, j, u) ==
    /\ u \in Urls \cup ({url[j]} \ {Null})
    /\ Load(h, "send", [Blank EXCEPT !.job = j, !.status = status[j], !.url = url[j],
                                      !.newUrl = u])

(* Mutant of SendDelivers: a refused message is taken for sent. *)
SendIgnoresAnswer(h) ==
    /\ pc[h] = "send"
    /\ Goto(h, "sent") /\ UNCHANGED delivered
    /\ UNCHANGED <<rowVars, assetVars, pending, histVars>>

(* send_video: accepted, or refused (502, nothing is written). *)
SendDelivers(h) ==
    /\ pc[h] = "send"
    /\ \/ /\ delivered' = [delivered EXCEPT ![req[h].job] = @ \cup {req[h].newUrl}]
          /\ Goto(h, "sent")
       \/ Finish(h) /\ UNCHANGED delivered
    /\ UNCHANGED <<rowVars, assetVars, pending, histVars>>

SendCommit(h) ==
    /\ pc[h] = "sent"
    /\ StoreUrl(req[h])
    /\ status' = [status EXCEPT ![req[h].job] = Flushed(@, req[h].status, "sent")]
    /\ ClearNext(h)
    /\ UNCHANGED <<retry, lock, failedStage, errorCode, rendered, delivered, pending, histVars>>

(* Cache.clear_pending_video, after the commit. *)
ClearPending(h) ==
    /\ pc[h] = "clear"
    /\ pending' = [pending EXCEPT ![req[h].job] = FALSE]
    /\ Finish(h)
    /\ UNCHANGED <<rowVars, assetVars, delivered, histVars>>

(* The request dies; what is not committed is lost. *)
Crash(h) ==
    /\ pc[h] # "idle"
    /\ Finish(h)
    /\ UNCHANGED <<rowVars, assetVars, delivered, pending, histVars>>

(* The 30 minutes of the pending key run out. *)
PendingExpires(j) ==
    /\ pending[j]
    /\ pending' = [pending EXCEPT ![j] = FALSE]
    /\ UNCHANGED <<rowVars, assetVars, delivered, slotVars, histVars>>

-----------------------------------------------------------------------------
(* What the requests of Submission see of a status. *)
Phase(s) == IF s \in {"wait", "process_stop", "unverified", "queued", "sent", "failed"}
            THEN s ELSE "processing"

phases == [j \in Jobs |-> Phase(status[j])]

Life == INSTANCE JobLifecycle WITH phase <- phases, disturbed <- touched

(* A job starts here when submit or verify_otp has released it; its key is *)
(* still to be written by the request that did, unless that dies before.   *)
Init ==
    /\ status \in [Jobs -> Life!Released]
    /\ retry = [j \in Jobs |-> 0] /\ lock = [j \in Jobs |-> "none"]
    /\ failedStage = [j \in Jobs |-> Null] /\ errorCode = [j \in Jobs |-> Null]
    /\ url = [j \in Jobs |-> Null] /\ rendered = [j \in Jobs |-> {}]
    /\ delivered = [j \in Jobs |-> {}] /\ pending = [j \in Jobs |-> FALSE]
    /\ \E released \in [Handlers -> Jobs \cup {NoJob}] :
          /\ pc  = [h \in Handlers |-> IF released[h] = NoJob THEN "idle" ELSE "mark"]
          /\ req = [h \in Handlers |-> [Blank EXCEPT !.job = released[h]]]
    /\ touched = {} /\ moves = 0

Worker(j)   == WorkerTake(j) \/ WorkerDone(j) \/ WorkerFails(j)
Watchdog(j) == WatchdogFail(j) \/ WatchdogRewind(j)
Handler(h)  ==
    \/ \E j \in Jobs : SubmitSees(h, j)
    \/ SubmitGuard(h) \/ SetPending(h)
    \/ \E j \in Jobs, s \in Targets : UpdateRead(h, j, s)
    \/ \E j \in Jobs, u \in Urls : VideoUrlRead(h, j, u) \/ SendRead(h, j, u)
    \/ UpdateCommit(h) \/ VideoUrlCommit(h)
    \/ SendDelivers(h) \/ SendCommit(h) \/ ClearPending(h) \/ Crash(h)

Next ==
    \/ \E j \in Jobs : Worker(j) \/ Watchdog(j) \/ LockGetsStale(j) \/ PendingExpires(j)
    \/ \E h \in Handlers : Handler(h)

Spec == Init /\ [][Next]_vars

(* The event runs every minute, clocks advance, and workers keep polling   *)
(* for unlocked jobs; nothing is assumed of a worker that holds a lock, or *)
(* of anyone who calls the API.                                            *)
Fairness == \A j \in Jobs : /\ WF_vars(Watchdog(j)) /\ WF_vars(LockGetsStale(j))
                            /\ WF_vars(WorkerTake(j)) /\ WF_vars(PendingExpires(j))

FairSpec == Spec /\ Fairness

-----------------------------------------------------------------------------
(* Properties. *)

TypeOK ==
    /\ status \in [Jobs -> Statuses] /\ retry \in [Jobs -> Nat]
    /\ lock \in [Jobs -> LockAges]
    /\ failedStage \in [Jobs -> Stages \cup {Null}] /\ errorCode \in [Jobs -> Errors]
    /\ url \in [Jobs -> Urls \cup {Null}] /\ rendered \in [Jobs -> SUBSET Stages]
    /\ delivered \in [Jobs -> SUBSET (Urls \cup {Null})]
    /\ pending \in [Jobs -> BOOLEAN]
    /\ pc \in [Handlers -> Steps] /\ req \in [Handlers -> Locals]
    /\ touched \subseteq Jobs /\ moves \in 0 .. MaxMoves

(* A rewind never loses or invents work: a job that no operator moved is   *)
(* in a status only if the stages before it have their assets.             *)
NeededFor(s) == CASE s \in {"photo_done", "video_processing"} -> {"photo"}
                  [] s \in {"video_done", "stitching"}        -> {"photo", "video"}
                  [] s = "uploaded"                           -> {"photo", "video", "stitch"}
                  [] OTHER                                    -> {}

StatusHasAssets == \A j \in Jobs \ touched : NeededFor(status[j]) \subseteq rendered[j]

(* The watchdog gives a job at most max_retry more chances; only an        *)
(* operator's update-job goes beyond.                                      *)
RetriesBounded == \A j \in Jobs \ touched : retry[j] <= MaxRetry

(* What is at most left to do for a job: the turns a worker's death leaves *)
(* it, and how far it is in this one; nothing when it does not run.  In    *)
(* every stage a job is first without a lock, then with a fresh and at     *)
(* last with a stale one.                                                  *)
ToDo == [queued |-> 10, photo_processing |-> 10, photo_done |-> 7, video_processing |-> 7,
         video_done |-> 4, stitching |-> 4, uploaded |-> 1]
LockToDo == [none |-> 2, fresh |-> 1, stale |-> 0]

Left(j) == IF status[j] \in DOMAIN ToDo
           THEN 13 * (MaxRetry - retry[j]) + ToDo[status[j]] + LockToDo[lock[j]]
           ELSE 0

(* Why a job settles: whoever moves it, worker, clock, watchdog or a late  *)
(* delivery, leaves less to do, and nobody gives it new work.  So no two   *)
(* of them hand a job to and fro, and it is moved 13 * (max_retry + 1)     *)
(* times at most (an operator's update-job apart).                         *)
WorkDescends ==
    [][\A j \in Jobs \ touched' :
          /\ Left(j)' \in 0 .. Left(j)
          /\ status'[j] # status[j] \/ lock'[j] # lock[j] => Left(j)' < Left(j) \/ Left(j) = 0]_vars

(* Nor does it get stuck: as long as something is left, somebody who is    *)
(* sure to come (a polling worker, the clock, the watchdog) can move it.   *)
SomebodyComes ==
    \A j \in Jobs \ touched : Left(j) > 0 =>
        (status[j] \in DOMAIN TakeTo /\ lock[j] = "none") \/ lock[j] = "fresh" \/ Stuck(j)

(* "sent" is never claimed for a video nobody got: the messaging service   *)
(* accepted one for this job before the status was written, whatever else  *)
(* happened to the row, unless an operator set it.                         *)
SentWasDelivered == \A j \in Jobs \ touched : status[j] = "sent" => delivered[j] # {}

(* The watchdog can find every job a worker died on: a row in a processing *)
(* status carries the lock whose age the watchdog reads, whatever rewinds, *)
(* deliveries and stale handlers did to it.  (An operator's update-job     *)
(* may leave a processing status without a lock: such a job hangs.)        *)
ProcessingIsLocked == \A j \in Jobs \ touched : status[j] \in Processing => lock[j] # "none"

(* Work on a job stays inside the lifecycle that Submission relies on: a   *)
(* job is never put back to "wait", a job that was delivered or failed is  *)
(* not picked up again, by a watchdog that finds its old lock or a handler *)
(* that loaded it earlier, and nothing but send-video releases a held one. *)
Lifecycle == Life!Spec

(* No released job waits for its code again. *)
NotWaiting == \A j \in Jobs \ touched : status[j] # "wait"

(* Between two stages a job is nobody's. *)
BetweenUnlocked == \A j \in Jobs \ touched :
    status[j] \in {"queued", "photo_done", "video_done"} => lock[j] = "none"

(* The inductive invariant: what the rows owe to the requests in flight.   *)
InFlight == \A h \in Handlers :
    /\ pc[h] # "idle" => req[h].job \in Jobs
    /\ pc[h] = "sent" => delivered[req[h].job] # {}

PipelineInv == TypeOK /\ StatusHasAssets /\ RetriesBounded /\ SentWasDelivered
               /\ ProcessingIsLocked /\ NotWaiting /\ BetweenUnlocked /\ InFlight

(* A released job does not hang: even if every worker dies on it, the      *)
(* watchdog brings it to "failed" after finitely many rewinds.             *)
QueuedSettles ==
    \A j \in Jobs : status[j] = "queued" ~> status[j] \in {"sent", "failed"} \/ j \in touched

(* A user is not refused for ever because of a finished job: once a job    *)
(* stays finished its pending key goes for good, even when the watchdog    *)
(* failed the job, nobody cleared the key, and requests that still saw the *)
(* job in flight write the key again after it was cleared or ran out.      *)
FinishedFreesUser ==
    \A j \in Jobs : <>[](status[j] \in {"sent", "failed"}) => <>[](~pending[j])

(* README: "failed" comes with failed_stage. *)
FailedHasStage == \A j \in Jobs \ touched : status[j] = "failed" => failedStage[j] # Null
=============================================================================
