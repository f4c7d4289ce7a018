------------------------ MODULE RenderPipelineProofs ------------------------
(***************************************************************************)
(* PipelineInv is an invariant of RenderPipeline for any number of jobs,   *)
(* URLs and handlers and any max_retry.  What the watchdog and the worker  *)
(* promise follows from their own steps; what the delivery handler         *)
(* promises needs InFlight, the memory of a handler between the messaging  *)
(* service's answer and the commit.                                        *)
(***************************************************************************)
EXTENDS RenderPipeline, TLAPS

(* The tables stay within the statuses and the stages. *)
LEMMA Tables ==
    /\ \A s \in DOMAIN TakeTo : TakeTo[s] \in Statuses
    /\ \A s \in DOMAIN DoneTo : DoneTo[s] \in Statuses /\ StageOf(s) \in Stages
    /\ \A s \in DOMAIN RewindTo : RewindTo[s] \in Statuses
    /\ DOMAIN StageNames = DOMAIN RewindTo
    /\ \A s \in Statuses : StageOf(s) \in Stages \cup {Null}
  BY DEF TakeTo, DoneTo, RewindTo, StageNames, StageOf, Statuses, Stages, Null

LEMMA BlankTyped == Blank \in Locals
  BY DEF Blank, Locals, Statuses, Errors

(* A handler's commit stores a value of the column's type. *)
LEMMA FlushedTyped ==
    ASSUME NEW S, NEW current \in S, NEW loaded, NEW new \in S
    PROVE  Flushed(current, loaded, new) \in S
  BY DEF Flushed

-----------------------------------------------------------------------------
(* TypeOK: worker and watchdog. *)

LEMMA RowStepTyped ==
    ASSUME TypeOK, NEW j \in Jobs,
           Worker(j) \/ Watchdog(j) \/ LockGetsStale(j) \/ PendingExpires(j)
    PROVE  TypeOK'
<1>1. CASE WorkerTake(j)
  BY <1>1, Tables DEF TypeOK, WorkerTake, LockAges, assetVars, slotVars, histVars
<1>2. CASE WorkerDone(j)
  BY <1>2, Tables DEF TypeOK, WorkerDone, LockAges, slotVars, histVars
<1>3. CASE WorkerFails(j)
  BY <1>3, Tables DEF TypeOK, WorkerFails, LockAges, Statuses, Errors, assetVars, slotVars, histVars
<1>4. CASE WatchdogFail(j)
  <2>1. status'[j] \in Statuses /\ StageOf(status'[j]) \in Stages \cup {Null}
    BY <1>4, Tables DEF TypeOK, WatchdogFail, Statuses
  <2> QED
    BY <1>4, <2>1 DEF TypeOK, WatchdogFail, LockAges, Statuses, Errors, assetVars, slotVars, histVars
<1>5. CASE WatchdogRewind(j)
  BY <1>5, Tables DEF TypeOK, WatchdogRewind, Stuck, LockAges, Errors, assetVars, slotVars, histVars
<1>6. CASE LockGetsStale(j)
  BY <1>6 DEF TypeOK, LockGetsStale, LockAges, assetVars, slotVars, histVars
<1>7. CASE PendingExpires(j)
  BY <1>7 DEF TypeOK, PendingExpires, rowVars, assetVars, slotVars, histVars
<1> QED
  BY <1>1, <1>2, <1>3, <1>4, <1>5, <1>6, <1>7 DEF Worker, Watchdog

(* Moving a slot on keeps its type. *)
LEMMA GotoTyped ==
    ASSUME TypeOK, NEW h \in Handlers, NEW step \in Steps, Goto(h, step) \/ Finish(h)
    PROVE  pc' \in [Handlers -> Steps] /\ req' \in [Handlers -> Locals]
  BY BlankTyped DEF TypeOK, Goto, Finish, Steps

(* A slot that goes on to clear the pending key keeps its job. *)
LEMMA ClearNextSame ==
    ASSUME TypeOK, InFlight, NEW h \in Handlers, pc[h] # "idle", ClearNext(h)
    PROVE  /\ pc' \in [Handlers -> Steps] /\ req' \in [Handlers -> Locals]
           /\ pc'[h] = "clear" /\ req'[h].job = req[h].job
           /\ \A g \in Handlers \ {h} : pc'[g] = pc[g] /\ req'[g] = req[g]
<1> DEFINE copy == [Blank EXCEPT !.job = req[h].job]
<1>1. req[h].job \in Jobs
  BY DEF InFlight
<1>2. copy \in Locals /\ copy.job = req[h].job
  BY <1>1, BlankTyped DEF Locals
<1>3. req' = [req EXCEPT ![h] = copy] /\ pc' = [pc EXCEPT ![h] = "clear"]
  BY DEF ClearNext
<1> HIDE DEF copy
<1> QED
  BY <1>2, <1>3 DEF TypeOK, Steps

LEMMA LoadTyped ==
    ASSUME TypeOK, NEW h \in Handlers, NEW step \in Steps, NEW copy \in Locals,
           Load(h, step, copy)
    PROVE  TypeOK'
  BY DEF TypeOK, Load, rowVars, assetVars, histVars

LEMMA HandlerStepTyped ==
    ASSUME TypeOK, InFlight, NEW h \in Handlers, Handler(h)
    PROVE  TypeOK'
<1> USE DEF InFlight
<1>1. ASSUME NEW j \in Jobs, NEW s \in Targets, UpdateRead(h, j, s) PROVE TypeOK'
  <2> DEFINE copy == [Blank EXCEPT !.job = j, !.newStatus = s, !.status = status[j],
                                   !.retry = retry[j], !.failedStage = failedStage[j],
                                   !.errorCode = errorCode[j]]
  <2>1. copy \in Locals
    BY BlankTyped, TargetsAssumption DEF TypeOK, Locals
  <2> QED
    BY <1>1, <2>1, LoadTyped DEF UpdateRead, Steps
<1>2. ASSUME NEW j \in Jobs, NEW u \in Urls, VideoUrlRead(h, j, u) PROVE TypeOK'
  <2> DEFINE copy == [Blank EXCEPT !.job = j, !.url = url[j], !.newUrl = u]
  <2>1. copy \in Locals
    BY BlankTyped DEF TypeOK, Locals
  <2> QED
    BY <1>2, <2>1, LoadTyped DEF VideoUrlRead, Steps
<1>3. ASSUME NEW j \in Jobs, NEW u \in Urls, SendRead(h, j, u) PROVE TypeOK'
  <2> DEFINE copy == [Blank EXCEPT !.job = j, !.status = status[j], !.url = url[j],
                                   !.newUrl = u]
  <2>1. copy \in Locals
    BY BlankTyped DEF TypeOK, Locals
  <2> QED
    BY <1>3, <2>1, LoadTyped DEF SendRead, Steps
<1>4. CASE UpdateCommit(h)
  <2>1. pc' \in [Handlers -> Steps] /\ req' \in [Handlers -> Locals]
    <3>1. CASE ClearNext(h)
      BY <1>4, <3>1, ClearNextSame DEF UpdateCommit
    <3>2. CASE Finish(h)
      BY <3>2, GotoTyped DEF Steps
    <3> QED
      BY <1>4, <3>1, <3>2 DEF UpdateCommit
  <2>2. PICK l \in Locals : l = req[h] /\ l.job \in Jobs
    BY <1>4 DEF TypeOK, UpdateCommit
  <2>3. /\ Flushed(status[l.job], l.status, l.newStatus) \in Statuses
        /\ Flushed(failedStage[l.job], l.failedStage, Null) \in Stages \cup {Null}
        /\ Flushed(errorCode[l.job], l.errorCode, Null) \in Errors
        /\ l.retry + 1 \in Nat
    BY <2>2 DEF TypeOK, Locals, Flushed, Errors
  <2>4. /\ status' \in [Jobs -> Statuses] /\ retry' \in [Jobs -> Nat]
        /\ failedStage' \in [Jobs -> Stages \cup {Null}] /\ errorCode' \in [Jobs -> Errors]
        /\ touched' \subseteq Jobs /\ moves' \in 0 .. MaxMoves
    BY <1>4, <2>2, <2>3, RetryAssumption DEF TypeOK, UpdateCommit
  <2> QED
    BY <1>4, <2>1, <2>4 DEF TypeOK, UpdateCommit, assetVars
<1>5. CASE VideoUrlCommit(h)
  <2>1. pc' \in [Handlers -> Steps] /\ req' \in [Handlers -> Locals]
    BY <1>5, GotoTyped DEF VideoUrlCommit, Steps
  <2>2. req[h].job \in Jobs /\ req[h].newUrl \in Urls \cup {Null}
    BY <1>5 DEF TypeOK, VideoUrlCommit, Locals
  <2>3. url' \in [Jobs -> Urls \cup {Null}]
    BY <1>5, <2>2 DEF TypeOK, VideoUrlCommit, StoreUrl, Flushed
  <2> QED
    BY <1>5, <2>1, <2>3 DEF TypeOK, VideoUrlCommit, rowVars, histVars
<1>6. CASE SendDelivers(h)
  <2>1. pc' \in [Handlers -> Steps] /\ req' \in [Handlers -> Locals]
    BY <1>6, GotoTyped DEF SendDelivers, Steps
  <2>2. req[h].job \in Jobs /\ req[h].newUrl \in Urls \cup {Null}
    BY <1>6 DEF TypeOK, SendDelivers, Locals
  <2>3. delivered' \in [Jobs -> SUBSET (Urls \cup {Null})]
    BY <1>6, <2>2 DEF TypeOK, SendDelivers
  <2> QED
    BY <1>6, <2>1, <2>3 DEF TypeOK, SendDelivers, rowVars, assetVars, histVars
<1>7. CASE SendCommit(h)
  <2>1. pc' \in [Handlers -> Steps] /\ req' \in [Handlers -> Locals]
    BY <1>7, ClearNextSame DEF SendCommit
  <2>2. req[h].job \in Jobs /\ req[h].newUrl \in Urls \cup {Null}
    BY <1>7 DEF TypeOK, SendCommit, Locals
  <2>3. url' \in [Jobs -> Urls \cup {Null}]
    BY <1>7, <2>2 DEF TypeOK, SendCommit, StoreUrl, Flushed
  <2>4. status' \in [Jobs -> Statuses]
    BY <1>7, <2>2 DEF TypeOK, SendCommit, Flushed, Statuses
  <2> QED
    BY <1>7, <2>1, <2>3, <2>4 DEF TypeOK, SendCommit, histVars
<1>8. CASE ClearPending(h)
  <2>1. pc' \in [Handlers -> Steps] /\ req' \in [Handlers -> Locals]
    BY <1>8, GotoTyped DEF ClearPending, Steps
  <2> QED
    BY <1>8, <2>1 DEF TypeOK, ClearPending, rowVars, assetVars, histVars
<1>9. CASE Crash(h)
  <2>1. pc' \in [Handlers -> Steps] /\ req' \in [Handlers -> Locals]
    BY <1>9, GotoTyped DEF Crash, Steps
  <2> QED
    BY <1>9, <2>1 DEF TypeOK, Crash, rowVars, assetVars, histVars
<1>10. ASSUME NEW j \in Jobs, SubmitSees(h, j) PROVE TypeOK'
  <2> DEFINE copy == [Blank EXCEPT !.job = j]
  <2>1. copy \in Locals
    BY BlankTyped DEF Locals
  <2> QED
    BY <1>10, <2>1, LoadTyped DEF SubmitSees, Steps
<1>11. CASE SubmitGuard(h)
  <2>1. pc' \in [Handlers -> Steps] /\ req' \in [Handlers -> Locals]
    BY <1>11, GotoTyped DEF SubmitGuard, Steps
  <2> QED
    BY <1>11, <2>1 DEF TypeOK, SubmitGuard, rowVars, assetVars, histVars
<1>12. CASE SetPending(h)
  <2>1. pc' \in [Handlers -> Steps] /\ req' \in [Handlers -> Locals]
    BY <1>12, GotoTyped DEF SetPending, Steps
  <2> QED
    BY <1>12, <2>1 DEF TypeOK, SetPending, rowVars, assetVars, histVars
<1> QED
  BY <1>1, <1>2, <1>3, <1>4, <1>5, <1>6, <1>7, <1>8, <1>9, <1>10, <1>11, <1>12 DEF Handler

-----------------------------------------------------------------------------
(* The safety parts.  A row step disturbs one job, a handler's commit the  *)
(* job its copy names; every other job keeps its row.                      *)

(* Worker and watchdog keep what a job owes to its assets, its retries,    *)
(* its lock and its delivery. *)
LEMMA RowStepSafe ==
    ASSUME PipelineInv, NEW j \in Jobs,
           Worker(j) \/ Watchdog(j) \/ LockGetsStale(j) \/ PendingExpires(j)
    PROVE  StatusHasAssets' /\ RetriesBounded' /\ SentWasDelivered'
           /\ ProcessingIsLocked' /\ NotWaiting' /\ BetweenUnlocked' /\ InFlight'
<1> USE DEF PipelineInv, TypeOK, StatusHasAssets, RetriesBounded, SentWasDelivered,
            ProcessingIsLocked, NotWaiting, BetweenUnlocked, InFlight, NeededFor, Processing, slotVars, histVars
<1>1. CASE WorkerTake(j)
  BY <1>1 DEF WorkerTake, TakeTo, assetVars
<1>2. CASE WorkerDone(j)
  BY <1>2 DEF WorkerDone, DoneTo, StageOf, StageNames
<1>3. CASE WorkerFails(j)
  BY <1>3 DEF WorkerFails, assetVars
<1>4. CASE WatchdogFail(j)
  BY <1>4 DEF WatchdogFail, assetVars
<1>5. CASE WatchdogRewind(j)
  BY <1>5, RetryAssumption DEF WatchdogRewind, Stuck, RewindTo, StageNames, assetVars
<1>6. CASE LockGetsStale(j)
  BY <1>6 DEF LockGetsStale, assetVars
<1>7. CASE PendingExpires(j)
  BY <1>7 DEF PendingExpires, rowVars, assetVars
<1> QED
  BY <1>1, <1>2, <1>3, <1>4, <1>5, <1>6, <1>7 DEF Worker, Watchdog

(* A slot that starts, moves on or ends leaves the others' obligations. *)
LEMMA LoadSafe ==
    ASSUME PipelineInv, NEW h \in Handlers, NEW j \in Jobs,
           NEW step \in Steps \ {"sent"}, NEW copy \in Locals, copy.job = j,
           Load(h, step, copy)
    PROVE  PipelineInv'
<1>1. TypeOK'
  BY LoadTyped DEF PipelineInv
<1>2. InFlight'
  BY DEF PipelineInv, TypeOK, InFlight, Load
<1>3. StatusHasAssets' /\ RetriesBounded' /\ SentWasDelivered' /\ ProcessingIsLocked'
      /\ NotWaiting' /\ BetweenUnlocked'
  BY DEF PipelineInv, StatusHasAssets, RetriesBounded, SentWasDelivered, ProcessingIsLocked, NotWaiting, BetweenUnlocked,
         Load, rowVars, assetVars, histVars
<1> QED
  BY <1>1, <1>2, <1>3 DEF PipelineInv

LEMMA HandlerStepSafe ==
    ASSUME PipelineInv, NEW h \in Handlers, Handler(h)
    PROVE  StatusHasAssets' /\ RetriesBounded' /\ SentWasDelivered'
           /\ ProcessingIsLocked' /\ NotWaiting' /\ BetweenUnlocked' /\ InFlight'
<1> DEFINE Safe == /\ StatusHasAssets /\ RetriesBounded /\ SentWasDelivered
                   /\ ProcessingIsLocked /\ NotWaiting /\ BetweenUnlocked /\ InFlight
<1> USE DEF StatusHasAssets, RetriesBounded, SentWasDelivered, ProcessingIsLocked, NotWaiting, BetweenUnlocked,
            InFlight
<1>1. ASSUME NEW j \in Jobs, NEW s \in Targets, UpdateRead(h, j, s) PROVE Safe'
  <2> DEFINE copy == [Blank EXCEPT !.job = j, !.newStatus = s, !.status = status[j],
                                   !.retry = retry[j], !.failedStage = failedStage[j],
                                   !.errorCode = errorCode[j]]
  <2>1. copy \in Locals /\ copy.job = j
    BY BlankTyped, TargetsAssumption DEF PipelineInv, TypeOK, Locals
  <2> QED
    BY <1>1, <2>1, LoadSafe DEF UpdateRead, Steps, PipelineInv
<1>2. ASSUME NEW j \in Jobs, NEW u \in Urls, VideoUrlRead(h, j, u) PROVE Safe'
  <2> DEFINE copy == [Blank EXCEPT !.job = j, !.url = url[j], !.newUrl = u]
  <2>1. copy \in Locals /\ copy.job = j
    BY BlankTyped DEF PipelineInv, TypeOK, Locals
  <2> QED
    BY <1>2, <2>1, LoadSafe DEF VideoUrlRead, Steps, PipelineInv
<1>3. ASSUME NEW j \in Jobs, NEW u \in Urls, SendRead(h, j, u) PROVE Safe'
  <2> DEFINE copy == [Blank EXCEPT !.job = j, !.status = status[j], !.url = url[j],
                                   !.newUrl = u]
  <2>1. copy \in Locals /\ copy.job = j
    BY BlankTyped DEF PipelineInv, TypeOK, Locals
  <2> QED
    BY <1>3, <2>1, LoadSafe DEF SendRead, Steps, PipelineInv
<1>4. CASE UpdateCommit(h)
  <2>1. \A k \in Jobs \ touched' : status'[k] = status[k] /\ retry'[k] = retry[k]
    BY <1>4 DEF UpdateCommit, PipelineInv, TypeOK
  <2>2. InFlight'
    <3>1. CASE ClearNext(h)
      BY <1>4, <3>1, ClearNextSame DEF UpdateCommit, PipelineInv
    <3>2. CASE Finish(h)
      BY <1>4, <3>2 DEF UpdateCommit, Finish, PipelineInv, TypeOK
    <3> QED
      BY <1>4, <3>1, <3>2 DEF UpdateCommit
  <2> QED
    BY <1>4, <2>1, <2>2 DEF UpdateCommit, assetVars, PipelineInv, TypeOK
<1>5. CASE VideoUrlCommit(h)
  BY <1>5 DEF VideoUrlCommit, Finish, rowVars, histVars, PipelineInv, TypeOK
<1>6. CASE SendDelivers(h)
  <2>1. \A k \in Jobs : delivered[k] \subseteq delivered'[k]
    BY <1>6 DEF SendDelivers, PipelineInv, TypeOK
  <2>2. pc'[h] = "sent" => delivered'[req[h].job] # {}
    <3>1. req[h].job \in Jobs
      BY <1>6 DEF SendDelivers, PipelineInv
    <3>2. CASE Finish(h)
      BY <3>2 DEF Finish, PipelineInv, TypeOK
    <3>3. CASE delivered' = [delivered EXCEPT ![req[h].job] = @ \cup {req[h].newUrl}]
      <4>1. req[h].newUrl \in delivered'[req[h].job]
        BY <3>1, <3>3 DEF PipelineInv, TypeOK
      <4> QED
        BY <4>1
    <3> QED
      BY <1>6, <3>2, <3>3 DEF SendDelivers
  <2>3. \A g \in Handlers \ {h} : pc'[g] = pc[g] /\ req'[g] = req[g]
    <3>1. CASE Goto(h, "sent")
      BY <3>1 DEF Goto, PipelineInv, TypeOK
    <3>2. CASE Finish(h)
      BY <3>2 DEF Finish, PipelineInv, TypeOK
    <3> QED
      BY <1>6, <3>1, <3>2 DEF SendDelivers
  <2>4. pc'[h] # "idle" => req'[h] = req[h] /\ pc[h] # "idle"
    <3>1. pc[h] = "send" /\ (Goto(h, "sent") \/ Finish(h))
      BY <1>6 DEF SendDelivers
    <3>2. CASE Goto(h, "sent")
      BY <3>1, <3>2 DEF Goto
    <3>3. CASE Finish(h)
      BY <3>3 DEF Finish, PipelineInv, TypeOK
    <3> QED
      BY <3>1, <3>2, <3>3
  <2>5. InFlight'
    BY <2>1, <2>2, <2>3, <2>4 DEF PipelineInv
  <2> QED
    BY <1>6, <2>1, <2>5 DEF SendDelivers, rowVars, assetVars, histVars, PipelineInv, TypeOK
<1>7. CASE SendCommit(h)
  <2>1. \A k \in Jobs : status'[k] = status[k] \/ (status'[k] = "sent" /\ delivered[k] # {})
    <3>1. delivered[req[h].job] # {}
      BY <1>7 DEF SendCommit, PipelineInv
    <3>2. \A k \in Jobs \ {req[h].job} : status'[k] = status[k]
      BY <1>7 DEF SendCommit, PipelineInv, TypeOK
    <3>3. req[h].job \in Jobs => status'[req[h].job] \in {status[req[h].job], "sent"}
      <4> DEFINE new == Flushed(status[req[h].job], req[h].status, "sent")
      <4>1. req[h].job \in Jobs => status'[req[h].job] = new
        BY <1>7 DEF SendCommit, PipelineInv, TypeOK
      <4>2. new \in {status[req[h].job], "sent"}
        BY DEF Flushed
      <4> QED
        BY <4>1, <4>2
    <3>4. ASSUME NEW k \in Jobs
          PROVE  status'[k] = status[k] \/ (status'[k] = "sent" /\ delivered[k] # {})
      <4>1. CASE k = req[h].job
        BY <4>1, <3>1, <3>3
      <4>2. CASE k # req[h].job
        BY <4>2, <3>2
      <4> QED
        BY <4>1, <4>2
    <3> QED
      BY <3>4
  <2>2. InFlight'
    BY <1>7, ClearNextSame DEF SendCommit, PipelineInv
  <2>3. StatusHasAssets' /\ ProcessingIsLocked'
    BY <1>7, <2>1 DEF SendCommit, NeededFor, Processing, histVars, PipelineInv, TypeOK
  <2>4. RetriesBounded' /\ SentWasDelivered' /\ NotWaiting' /\ BetweenUnlocked'
    BY <1>7, <2>1 DEF SendCommit, histVars, PipelineInv, TypeOK
  <2> QED
    BY <2>2, <2>3, <2>4
<1>8. CASE ClearPending(h)
  BY <1>8 DEF ClearPending, Finish, rowVars, assetVars, histVars, PipelineInv, TypeOK
<1>9. CASE Crash(h)
  BY <1>9 DEF Crash, Finish, rowVars, assetVars, histVars, PipelineInv, TypeOK
<1>10. ASSUME NEW j \in Jobs, SubmitSees(h, j) PROVE Safe'
  <2> DEFINE copy == [Blank EXCEPT !.job = j]
  <2>1. copy \in Locals /\ copy.job = j
    BY BlankTyped DEF Locals
  <2> QED
    BY <1>10, <2>1, LoadSafe DEF SubmitSees, Steps, PipelineInv
<1>11. CASE SubmitGuard(h)
  <2>1. InFlight'
    BY <1>11 DEF SubmitGuard, Goto, Finish, PipelineInv, TypeOK
  <2> QED
    BY <1>11, <2>1 DEF SubmitGuard, rowVars, assetVars, histVars, PipelineInv
<1>12. CASE SetPending(h)
  BY <1>12 DEF SetPending, Finish, rowVars, assetVars, histVars, PipelineInv, TypeOK
<1> QED
  BY <1>1, <1>2, <1>3, <1>4, <1>5, <1>6, <1>7, <1>8, <1>9, <1>10, <1>11, <1>12 DEF Handler

-----------------------------------------------------------------------------
LEMMA InitPipelineInv == Init => PipelineInv
<1> SUFFICES ASSUME Init PROVE PipelineInv
  OBVIOUS
<1>0. /\ pc \in [Handlers -> Steps] /\ req \in [Handlers -> Locals]
      /\ InFlight
  <2>1. PICK released \in [Handlers -> Jobs \cup {NoJob}] :
           /\ pc  = [h \in Handlers |-> IF released[h] = NoJob THEN "idle" ELSE "mark"]
           /\ req = [h \in Handlers |-> [Blank EXCEPT !.job = released[h]]]
    BY DEF Init
  <2>2. \A j \in Jobs \cup {NoJob} : /\ [Blank EXCEPT !.job = j] \in Locals
                                     /\ [Blank EXCEPT !.job = j].job = j
    BY BlankTyped DEF Locals
  <2>3. pc \in [Handlers -> Steps] /\ req \in [Handlers -> Locals]
    BY <2>1, <2>2 DEF Steps
  <2>4. InFlight
    BY <2>1, <2>2 DEF InFlight
  <2> QED
    BY <2>3, <2>4
<1>1. TypeOK
  BY <1>0, RetryAssumption DEF Init, TypeOK, Life!Released, Statuses, LockAges, Errors
<1>2. StatusHasAssets /\ RetriesBounded /\ SentWasDelivered /\ ProcessingIsLocked
      /\ NotWaiting /\ BetweenUnlocked
  <2>1. \A j \in Jobs : /\ status[j] \in {"unverified", "process_stop", "queued"}
                        /\ retry[j] = 0 /\ lock[j] = "none"
    BY DEF Init, Life!Released
  <2> QED
    BY <2>1, RetryAssumption DEF StatusHasAssets, RetriesBounded, SentWasDelivered,
     ProcessingIsLocked, NotWaiting, BetweenUnlocked, NeededFor, Processing
<1> QED
  BY <1>0, <1>1, <1>2 DEF PipelineInv

LEMMA StepPipelineInv == PipelineInv /\ [Next]_vars => PipelineInv'
<1> SUFFICES ASSUME PipelineInv, [Next]_vars PROVE PipelineInv'
  OBVIOUS
<1>1. ASSUME NEW j \in Jobs, Worker(j) \/ Watchdog(j) \/ LockGetsStale(j) \/ PendingExpires(j)
      PROVE  PipelineInv'
  BY <1>1, RowStepTyped, RowStepSafe DEF PipelineInv
<1>2. ASSUME NEW h \in Handlers, Handler(h) PROVE PipelineInv'
  BY <1>2, HandlerStepTyped, HandlerStepSafe DEF PipelineInv
<1>3. CASE UNCHANGED vars
  BY <1>3 DEF vars, rowVars, assetVars, slotVars, histVars, PipelineInv, TypeOK, StatusHasAssets,
     RetriesBounded, SentWasDelivered, ProcessingIsLocked, NotWaiting, BetweenUnlocked, InFlight
<1> QED
  BY <1>1, <1>2, <1>3 DEF Next

(* The inductive invariant of the pipeline: types, and what every row owes *)
(* to its assets, retries, lock and delivery (schema.sql 284-328, jobs.py  *)
(* 326-489). *)
THEOREM SpecPipelineInv == Spec => []PipelineInv
  BY InitPipelineInv, StepPipelineInv, PTL DEF Spec

(* Rewinds never lose or invent rendered work. *)
THEOREM SpecStatusHasAssets == Spec => []StatusHasAssets
  BY SpecPipelineInv, PTL DEF PipelineInv

(* The watchdog never rewinds a job more than max_retry times. *)
THEOREM SpecRetriesBounded == Spec => []RetriesBounded
  BY SpecPipelineInv, PTL DEF PipelineInv

(* A job is "sent" only if the messaging service accepted its video. *)
THEOREM SpecSentWasDelivered == Spec => []SentWasDelivered
  BY SpecPipelineInv, PTL DEF PipelineInv

(* The watchdog sees every processing job no operator moved. *)
THEOREM SpecProcessingIsLocked == Spec => []ProcessingIsLocked
  BY SpecPipelineInv, PTL DEF PipelineInv

-----------------------------------------------------------------------------
(* The lifecycle contract.                                                 *)

(* What a step may do to a job: move it the way a worker may, or disturb it. *)
JobStep(j, s) ==
    /\ status' = [status EXCEPT ![j] = s] /\ touched \subseteq touched' /\ touched' \subseteq Jobs
    /\ s \in Statuses
    /\ \/ j \in touched' \/ s = status[j] \/ Phase(s) = Phase(status[j])
       \/ Phase(s) \in Life!Work(Phase(status[j]))

LEMMA PhaseTyped == \A s \in Statuses : Phase(s) \in Life!Phases
  BY DEF Phase, Life!Phases, Life!Released, Statuses

LEMMA JobStepRefines ==
    ASSUME TypeOK, NEW k \in Jobs, NEW s, JobStep(k, s)
    PROVE  [Life!Next]_<<phases, touched>>
<1>1. status' \in [Jobs -> Statuses] /\ phases' \in [Jobs -> Life!Phases]
  BY PhaseTyped DEF JobStep, TypeOK, phases
<1>2. \A j \in Jobs \ touched' : phases'[j] # phases[j] => phases'[j] \in Life!Work(phases[j])
  BY DEF JobStep, TypeOK, phases
<1> QED BY <1>1, <1>2 DEF JobStep, Life!Next

(* What a worker, the watchdog and the delivery make of a status. *)
LEMMA PhaseMoves ==
    /\ \A s \in DOMAIN TakeTo : \/ Phase(TakeTo[s]) = Phase(s)
                                \/ Phase(TakeTo[s]) \in Life!Work(Phase(s))
    /\ \A s \in DOMAIN DoneTo : Phase(DoneTo[s]) = Phase(s)
    /\ \A s \in DOMAIN StageNames : /\ Phase("failed") \in Life!Work(Phase(s))
                                    /\ \/ Phase(RewindTo[s]) = Phase(s)
                                       \/ Phase(RewindTo[s]) \in Life!Work(Phase(s))
    /\ \A s \in Statuses : s # "wait" => Phase("sent") \in Life!Work(Phase(s))
  BY DEF TakeTo, DoneTo, StageNames, RewindTo, Phase, Life!Work, Statuses

LEMMA LifecycleStep ==
    PipelineInv /\ [Next]_vars =>
        [Life!Next]_<<phases, touched>>
<1> SUFFICES ASSUME PipelineInv, [Next]_vars
             PROVE  [Life!Next]_<<phases, touched>>
  OBVIOUS
<1>0. TypeOK /\ InFlight /\ NotWaiting
  BY DEF PipelineInv
<1>1. ASSUME status' = status, touched' = touched
      PROVE  [Life!Next]_<<phases, touched>>
  BY <1>1 DEF phases
<1>2. ASSUME NEW j \in Jobs, Worker(j) \/ Watchdog(j)
      PROVE  \E s \in Statuses : JobStep(j, s)
  <2>1. CASE WorkerTake(j)
    BY <1>0, <2>1, Tables, PhaseMoves DEF WorkerTake, JobStep, histVars, TypeOK
  <2>2. CASE WorkerDone(j)
    BY <1>0, <2>2, Tables, PhaseMoves DEF WorkerDone, JobStep, histVars, TypeOK
  <2>3. CASE WorkerFails(j) \/ WatchdogFail(j)
    <3>1. /\ status[j] \in DOMAIN StageNames /\ status' = [status EXCEPT ![j] = "failed"]
          /\ touched' = touched
      BY <2>3 DEF WorkerFails, WatchdogFail, Stuck, histVars
    <3>2. "failed" \in Statuses
      BY DEF Statuses
    <3> QED BY <1>0, <3>1, <3>2, PhaseMoves DEF JobStep, TypeOK
  <2>4. CASE WatchdogRewind(j)
    BY <1>0, <2>4, Tables, PhaseMoves DEF WatchdogRewind, Stuck, JobStep, histVars, TypeOK
  <2> QED BY <1>2, <2>1, <2>2, <2>3, <2>4 DEF Worker, Watchdog
<1>3. ASSUME NEW h \in Handlers, UpdateCommit(h)
      PROVE  \E j \in Jobs, s \in Statuses : JobStep(j, s)
  <2>1. PICK l \in Locals : l = req[h] /\ l.job \in Jobs
    BY <1>0, <1>3 DEF TypeOK, InFlight, UpdateCommit
  <2>2. Flushed(status[l.job], l.status, l.newStatus) \in Statuses
    BY <1>0, <2>1 DEF TypeOK, Locals, Flushed
  <2>3. /\ status' = [status EXCEPT ![l.job] = Flushed(status[l.job], l.status, l.newStatus)]
        /\ touched' = touched \cup {l.job}
    BY <1>3, <2>1 DEF UpdateCommit
  <2> QED BY <1>0, <2>1, <2>2, <2>3 DEF JobStep, TypeOK
<1>4. ASSUME NEW h \in Handlers, SendCommit(h)
      PROVE  \E j \in Jobs, s \in Statuses : JobStep(j, s)
  <2>1. PICK l \in Locals : l = req[h] /\ l.job \in Jobs
    BY <1>0, <1>4 DEF TypeOK, InFlight, SendCommit
  <2> DEFINE new == Flushed(status[l.job], l.status, "sent")
  <2>2. new \in {status[l.job], "sent"} /\ new \in Statuses /\ "sent" \in Statuses
    BY <1>0, <2>1 DEF TypeOK, Flushed, Statuses
  <2>3. status' = [status EXCEPT ![l.job] = new] /\ touched' = touched
    BY <1>4, <2>1 DEF SendCommit, histVars
  <2>4. l.job \in touched' \/ new = status[l.job] \/ Phase(new) \in Life!Work(Phase(status[l.job]))
    <3>1. l.job \notin touched => Phase("sent") \in Life!Work(Phase(status[l.job]))
      BY <1>0, <2>1, PhaseMoves DEF NotWaiting, TypeOK
    <3> QED BY <2>2, <2>3, <3>1
  <2> HIDE DEF new
  <2> QED BY <1>0, <2>1, <2>2, <2>3, <2>4 DEF JobStep, TypeOK
<1>5. ASSUME NEW h \in Handlers, Handler(h)
      PROVE  \/ UpdateCommit(h) \/ SendCommit(h)
             \/ status' = status /\ touched' = touched
  BY <1>5 DEF Handler, SubmitSees, SubmitGuard, SetPending, UpdateRead, VideoUrlRead,
     SendRead, Load, VideoUrlCommit, SendDelivers, ClearPending, Crash, rowVars, histVars
<1>6. ASSUME NEW j \in Jobs, LockGetsStale(j) \/ PendingExpires(j)
      PROVE  status' = status /\ touched' = touched
  BY <1>6 DEF LockGetsStale, PendingExpires, rowVars, histVars
<1>7. UNCHANGED vars => status' = status /\ touched' = touched
  BY DEF vars, rowVars, histVars
<1> QED
  BY <1>0, <1>1, <1>2, <1>3, <1>4, <1>5, <1>6, <1>7, JobStepRefines DEF Next

(* Workers, watchdog and delivery implement the lifecycle contract. *)
THEOREM SpecLifecycle == Spec => Lifecycle
<1>1. Init => Life!Init
  BY DEF Init, Life!Init, Life!Released, Phase, phases
<1> QED
  BY <1>1, LifecycleStep, SpecPipelineInv, PTL DEF Spec, Lifecycle, Life!Spec

-----------------------------------------------------------------------------
(* What is left to do.                                                     *)

Running(s) == s \in DOMAIN ToDo

LEMMA ToDoTyped ==
    /\ \A s \in DOMAIN ToDo : ToDo[s] \in 1 .. 10
    /\ \A k \in LockAges : LockToDo[k] \in 0 .. 2
    /\ \A s \in DOMAIN TakeTo \cup DOMAIN DoneTo \cup DOMAIN StageNames : Running(s)
  BY DEF ToDo, LockToDo, LockAges, TakeTo, DoneTo, StageNames, Running

LEMMA LeftTyped ==
    ASSUME PipelineInv, NEW j \in Jobs \ touched
    PROVE  /\ Left(j) \in Nat
           /\ Running(status[j]) => Left(j) > 0
           /\ ~Running(status[j]) => Left(j) = 0
<1>1. MaxRetry - retry[j] \in Nat
  BY RetryAssumption DEF PipelineInv, TypeOK, RetriesBounded
<1>2. CASE Running(status[j])
  <2>1. ToDo[status[j]] \in 1 .. 10 /\ LockToDo[lock[j]] \in 0 .. 2
    BY <1>2, ToDoTyped DEF PipelineInv, TypeOK, Running
  <2>2. Left(j) = 13 * (MaxRetry - retry[j]) + ToDo[status[j]] + LockToDo[lock[j]]
    BY <1>2 DEF Left, Running
  <2> QED
    BY <1>1, <1>2, <2>1, <2>2
<1>3. CASE ~Running(status[j])
  BY <1>3 DEF Left, Running
<1> QED
  BY <1>2, <1>3

Descends(j) ==
    /\ Left(j)' \in 0 .. Left(j)
    /\ status'[j] # status[j] \/ lock'[j] # lock[j] => Left(j)' < Left(j) \/ Left(j) = 0

(* A row that keeps status, lock and retries keeps its place. *)
LEMMA SameRow ==
    ASSUME PipelineInv, NEW j \in Jobs \ touched,
           status'[j] = status[j], lock'[j] = lock[j], retry'[j] = retry[j]
    PROVE  Descends(j)
<1>1. Left(j)' = Left(j)
  BY DEF Left
<1> QED
  BY <1>1, LeftTyped DEF Descends

(* A running row that goes on in its turn, or ends. *)
LEMMA GoesOn ==
    ASSUME PipelineInv, PipelineInv', NEW j \in Jobs \ (touched \cup touched'),
           Running(status[j]), retry'[j] = retry[j],
           Running(status'[j]) => ToDo[status'[j]] + LockToDo[lock'[j]]
                                    < ToDo[status[j]] + LockToDo[lock[j]]
    PROVE  Descends(j)
<1>1. Left(j) \in Nat /\ Left(j) > 0 /\ Left(j)' \in Nat
  <2>1. Left(j) \in Nat /\ Left(j) > 0
    BY LeftTyped
  <2>2. MaxRetry - retry'[j] \in Nat
    BY RetryAssumption DEF PipelineInv, TypeOK, RetriesBounded
  <2>3. Running(status'[j]) => ToDo[status'[j]] \in 1 .. 10 /\ LockToDo[lock'[j]] \in 0 .. 2
    BY ToDoTyped DEF PipelineInv, TypeOK, Running
  <2>4. Left(j)' = IF Running(status'[j])
                   THEN 13 * (MaxRetry - retry'[j]) + ToDo[status'[j]] + LockToDo[lock'[j]]
                   ELSE 0
    BY DEF Left, Running
  <2> QED
    BY <2>1, <2>2, <2>3, <2>4
<1>2. CASE ~Running(status'[j])
  <2>1. Left(j)' = 0
    BY <1>2 DEF Left, Running
  <2> QED
    BY <1>1, <2>1 DEF Descends
<1>3. CASE Running(status'[j])
  <2>1. /\ ToDo[status'[j]] \in 1 .. 10 /\ LockToDo[lock'[j]] \in 0 .. 2
        /\ ToDo[status[j]] \in 1 .. 10 /\ LockToDo[lock[j]] \in 0 .. 2
        /\ MaxRetry - retry[j] \in Nat
    BY <1>3, ToDoTyped, RetryAssumption DEF PipelineInv, TypeOK, RetriesBounded, Running
  <2>2. /\ Left(j) = 13 * (MaxRetry - retry[j]) + ToDo[status[j]] + LockToDo[lock[j]]
        /\ Left(j)' = 13 * (MaxRetry - retry[j]) + ToDo[status'[j]] + LockToDo[lock'[j]]
    BY <1>3 DEF Left, Running
  <2>3. Left(j)' < Left(j)
    BY <1>3, <2>1, <2>2
  <2> QED
    BY <1>1, <2>3 DEF Descends
<1> QED
  BY <1>2, <1>3

(* The row a worker, a clock or the watchdog moves. *)
LEMMA RowDescends ==
    ASSUME PipelineInv, PipelineInv', NEW j \in Jobs \ (touched \cup touched'),
           Worker(j) \/ Watchdog(j) \/ LockGetsStale(j)
    PROVE  Descends(j)
<1>0. TypeOK /\ status[j] \in Statuses /\ lock[j] \in LockAges /\ retry[j] \in Nat
  BY DEF PipelineInv, TypeOK
<1>1. CASE WorkerTake(j)
  <2>1. /\ status[j] \in DOMAIN TakeTo /\ lock[j] = "none" /\ retry' = retry
        /\ status'[j] = TakeTo[status[j]] /\ lock'[j] = "fresh"
    BY <1>0, <1>1 DEF WorkerTake, TypeOK
  <2>2. ToDo[status'[j]] + LockToDo[lock'[j]] < ToDo[status[j]] + LockToDo[lock[j]]
    BY <2>1 DEF TakeTo, ToDo, LockToDo
  <2> QED
    BY <2>1, <2>2, GoesOn, ToDoTyped
<1>2. CASE WorkerDone(j)
  <2>1. /\ status[j] \in DOMAIN DoneTo /\ lock[j] # "none" /\ retry' = retry
        /\ status'[j] = DoneTo[status[j]] /\ lock'[j] = "none"
    BY <1>0, <1>2 DEF WorkerDone, TypeOK
  <2>2. ToDo[status'[j]] + LockToDo[lock'[j]] < ToDo[status[j]] + LockToDo[lock[j]]
    BY <1>0, <2>1 DEF DoneTo, ToDo, LockToDo, LockAges
  <2> QED
    BY <2>1, <2>2, GoesOn, ToDoTyped
<1>3. CASE WorkerFails(j) \/ WatchdogFail(j)
  <2>1. status[j] \in DOMAIN StageNames /\ retry' = retry /\ status'[j] = "failed"
    BY <1>0, <1>3 DEF WorkerFails, WatchdogFail, Stuck, TypeOK
  <2>2. ~Running("failed")
    BY DEF Running, ToDo
  <2> QED
    BY <2>1, <2>2, GoesOn, ToDoTyped
<1>4. CASE WatchdogRewind(j)
  <2>1. /\ status[j] \in DOMAIN StageNames /\ lock[j] = "stale" /\ retry[j] < MaxRetry
        /\ status'[j] = RewindTo[status[j]] /\ lock'[j] = "none" /\ retry'[j] = retry[j] + 1
    BY <1>0, <1>4 DEF WatchdogRewind, Stuck, TypeOK
  <2>2. /\ Running(status[j]) /\ Running(status'[j])
        /\ ToDo[status[j]] \in 1 .. 10 /\ ToDo[status'[j]] \in 1 .. 10
        /\ LockToDo["stale"] = 0 /\ LockToDo["none"] = 2
    BY <2>1 DEF Running, ToDo, LockToDo, StageNames, RewindTo
  <2>3. /\ Left(j) = 13 * (MaxRetry - retry[j]) + ToDo[status[j]]
        /\ Left(j)' = 13 * (MaxRetry - (retry[j] + 1)) + ToDo[status'[j]] + 2
    <3>1. /\ Left(j) = 13 * (MaxRetry - retry[j]) + ToDo[status[j]] + LockToDo[lock[j]]
          /\ Left(j)' = 13 * (MaxRetry - retry'[j]) + ToDo[status'[j]] + LockToDo[lock'[j]]
      BY <2>2 DEF Left, Running
    <3> QED
      BY <1>0, <2>1, <2>2, <3>1, RetryAssumption
  <2>4. Left(j) \in Nat /\ Left(j)' \in Nat /\ Left(j)' < Left(j)
    <3>1. MaxRetry \in Nat /\ retry[j] \in Nat /\ retry[j] < MaxRetry
      BY <1>0, <2>1, RetryAssumption
    <3> QED
      BY <2>2, <2>3, <3>1
  <2> QED
    BY <2>4 DEF Descends
<1>5. CASE LockGetsStale(j)
  <2>1. /\ lock[j] = "fresh" /\ lock'[j] = "stale" /\ retry' = retry /\ status' = status
    BY <1>0, <1>5 DEF LockGetsStale, TypeOK
  <2>2. CASE Running(status[j])
    <3>1. ToDo[status[j]] \in 1 .. 10 /\ LockToDo["fresh"] = 1 /\ LockToDo["stale"] = 0
      BY <2>2, ToDoTyped DEF Running, LockToDo
    <3>2. ToDo[status'[j]] + LockToDo[lock'[j]] < ToDo[status[j]] + LockToDo[lock[j]]
      BY <2>1, <3>1
    <3> QED
      BY <2>1, <2>2, <3>2, GoesOn
  <2>3. CASE ~Running(status[j])
    BY <2>1, <2>3 DEF Descends, Left, Running
  <2> QED
    BY <2>2, <2>3
<1> QED
  BY <1>1, <1>2, <1>3, <1>4, <1>5 DEF Worker, Watchdog

LEMMA StepDescends ==
    ASSUME PipelineInv, PipelineInv', [Next]_vars, NEW j \in Jobs \ touched'
    PROVE  Descends(j)
<1>0. TypeOK /\ InFlight
  BY DEF PipelineInv
<1>1. ASSUME NEW k \in Jobs, Worker(k) \/ Watchdog(k) \/ LockGetsStale(k) \/ PendingExpires(k)
      PROVE  Descends(j)
  <2>1. touched' = touched
    BY <1>1 DEF Worker, WorkerTake, WorkerDone, WorkerFails, Watchdog, WatchdogFail,
       WatchdogRewind, LockGetsStale, PendingExpires, histVars
  <2>2. CASE k = j /\ ~PendingExpires(k)
    BY <1>1, <2>1, <2>2, RowDescends
  <2>3. CASE k # j \/ PendingExpires(k)
    <3>1. status'[j] = status[j] /\ lock'[j] = lock[j] /\ retry'[j] = retry[j]
      BY <1>0, <1>1, <2>3 DEF TypeOK, Worker, WorkerTake, WorkerDone, WorkerFails, Watchdog,
         WatchdogFail, WatchdogRewind, LockGetsStale, PendingExpires, rowVars
    <3> QED
      BY <2>1, <3>1, SameRow
  <2> QED
    BY <2>2, <2>3
<1>2. ASSUME NEW h \in Handlers, SendCommit(h)
      PROVE  Descends(j)
  <2>1. /\ lock' = lock /\ retry' = retry /\ touched' = touched /\ req[h].job \in Jobs
        /\ status' = [status EXCEPT ![req[h].job] = Flushed(@, req[h].status, "sent")]
    BY <1>0, <1>2 DEF SendCommit, InFlight, histVars
  <2>2. status'[j] \in {status[j], "sent"}
    BY <1>0, <2>1 DEF TypeOK, Flushed
  <2>3. CASE status'[j] = status[j]
    BY <2>1, <2>3, SameRow
  <2>4. CASE status'[j] = "sent"
    <3>1. ~Running("sent")
      BY DEF Running, ToDo
    <3>2. CASE Running(status[j])
      BY <2>1, <2>4, <3>1, <3>2, GoesOn
    <3>3. CASE ~Running(status[j])
      BY <2>4, <3>1, <3>3 DEF Descends, Left, Running
    <3> QED
      BY <3>2, <3>3
  <2> QED
    BY <2>2, <2>3, <2>4
<1>3. ASSUME NEW h \in Handlers, UpdateCommit(h)
      PROVE  Descends(j)
  <2>1. /\ lock' = lock /\ touched' = touched \cup {req[h].job} /\ req[h].job \in Jobs
        /\ status'[j] = status[j] /\ retry'[j] = retry[j]
    BY <1>0, <1>3 DEF UpdateCommit, InFlight, TypeOK
  <2> QED
    BY <2>1, SameRow
<1>4. ASSUME UNCHANGED <<status, lock, retry, touched>>
      PROVE  Descends(j)
  BY <1>4, SameRow
<1>5. ASSUME NEW h \in Handlers, Handler(h)
      PROVE  \/ UpdateCommit(h) \/ SendCommit(h)
             \/ UNCHANGED <<status, lock, retry, touched>>
  BY <1>5 DEF Handler, SubmitSees, SubmitGuard, SetPending, UpdateRead, VideoUrlRead,
     SendRead, Load, VideoUrlCommit, SendDelivers, ClearPending, Crash, rowVars, histVars
<1>6. UNCHANGED vars => UNCHANGED <<status, lock, retry, touched>>
  BY DEF vars, rowVars, histVars
<1> QED
  BY <1>1, <1>2, <1>3, <1>4, <1>5, <1>6 DEF Next

(* Every move of a job leaves less to do: the safety half of QueuedSettles. *)
THEOREM SpecWorkDescends == Spec => WorkDescends
<1>1. PipelineInv /\ PipelineInv' /\ [Next]_vars =>
        \A j \in Jobs \ touched' :
          /\ Left(j)' \in 0 .. Left(j)
          /\ status'[j] # status[j] \/ lock'[j] # lock[j] => Left(j)' < Left(j) \/ Left(j) = 0
  BY StepDescends DEF Descends
<1> QED
  BY <1>1, SpecPipelineInv, PTL DEF Spec, WorkDescends

(* A job with something left to do waits for a polling worker, the clock   *)
(* or the watchdog. *)
THEOREM SpecSomebodyComes == Spec => []SomebodyComes
<1>1. PipelineInv => SomebodyComes
  <2> SUFFICES ASSUME PipelineInv, NEW j \in Jobs \ touched, Left(j) > 0
               PROVE  (status[j] \in DOMAIN TakeTo /\ lock[j] = "none") \/ lock[j] = "fresh" \/ Stuck(j)
    BY DEF SomebodyComes
  <2>1. lock[j] \in {"none", "fresh", "stale"} /\ Running(status[j])
    BY LeftTyped DEF PipelineInv, TypeOK, LockAges
  <2>2. status[j] \in Processing => lock[j] # "none"
    BY DEF PipelineInv, ProcessingIsLocked
  <2>3. status[j] \in {"queued", "photo_done", "video_done"} => lock[j] = "none"
    BY DEF PipelineInv, BetweenUnlocked
  <2> QED
    BY <2>1, <2>2, <2>3 DEF Running, ToDo, Processing, TakeTo, Stuck, StageNames
<1> QED
  BY <1>1, SpecPipelineInv, PTL
=============================================================================
