----------------------------- MODULE Submission -----------------------------
(***************************************************************************)
(* How a phone number turns into a render job: the handlers                *)
(*   POST /api/v1/video/submit      (src/app/routers/video.py)             *)
(*   POST /api/v1/auth/verify-otp   (src/app/routers/auth.py)              *)
(*   POST /api/v1/auth/resend-otp   (src/app/routers/auth.py)              *)
(* over the MySQL tables users, user_verification, user_otp, jobs and      *)
(* job_assets, the S3 bucket of selfies, and the Redis key video:pending.  *)
(*                                                                         *)
(* Several web processes and thread-pool threads serve requests at once.   *)
(* A handler is a REPEATABLE READ transaction: all of its plain reads see  *)
(* the snapshot taken by its first query, and its writes become visible    *)
(* together at db.commit().  So each handler is a read step that fixes its *)
(* local copies and decides where it is going, the Redis or S3 calls it    *)
(* makes on the way, a commit step that writes what was computed from the  *)
(* local copies, and what it does after the commit.  A slot of Requests    *)
(* runs one handler at a time; it may die between any two steps.           *)
(***************************************************************************)
EXTENDS Naturals, FiniteSets

CONSTANTS
    Numbers,            \* mobile numbers, as typed: hash_phone is taken of the raw string
    Clean,              \* _clean_number: the typed form -> the phone it dials
    SettingsRows,       \* app settings the behaviours run under, see "settings"
    Requests,           \* request slots: how many handlers may be in flight at once
    MaxJobs,            \* bound: AUTO_INCREMENT ids of jobs
    MaxOtps,            \* bound: OTP rows ever issued
    OperatorTargets,    \* bound: the statuses operators ask for
    MaxOperatorMoves    \* bound: status changes made by hand on the admin page

ASSUME NumbersAssumption == Numbers # {}
ASSUME BoundsAssumption  == /\ MaxJobs \in Nat \ {0}
                            /\ MaxOtps \in Nat \ {0}
                            /\ MaxOperatorMoves \in Nat
(* update_settings accepts 0 .. 1000 for max_videos_per_user. *)
ASSUME SettingsAssumption ==
    \A s \in SettingsRows : s.maxVideos \in Nat /\ s.allowMultiple \in BOOLEAN

JobIds == 1 .. MaxJobs
OtpIds == 1 .. MaxOtps
NoJob  == 0
NoOtp  == 0

(* The job states this part of the system tells apart; "processing" stands *)
(* for the six statuses a worker moves a job through, "none" for no row.   *)
JobStatuses == {"wait", "process_stop", "unverified", "queued",
                "processing", "sent", "failed"}

ASSUME TargetsAssumption == OperatorTargets \subseteq JobStatuses

(* Age of an OTP: within the resend cooldown, past it, past expires_at.    *)
Fresh   == 0
Resend  == 1
Expired == 2

VARIABLES
    users,            \* numbers with a users row (unique phone_hash)
    verified,         \* numbers whose user_verification.is_verified is set
    videoCount,       \* users.video_count
    status,           \* jobs.status, "none" while no committed row has the id
    owner,            \* jobs.user_id
    photoChecked,     \* jobs whose selfie carried a validation token
    assets,           \* jobs with a committed job_assets row
    bucket,           \* selfies uploaded to S3, by the job id in the key
    nextJob,          \* AUTO_INCREMENT of jobs: never handed out twice
    otp,              \* user_otp rows in created_at order
    nextOtp,
    pending,          \* Redis video:pending:<user>, NoJob when absent
    photoValidation,  \* feature flag photo_validation
    settings,         \* maxVideos, allowMultiple, held and unlimited (cleaned numbers)
    pc, req,          \* per slot: the handler's next step and local copies
    moved,            \* history: jobs whose status was changed by hand
    handled,          \* history: those of them moved into or out of "wait"
    operatorMoves,    \* bound counter
    overlapped        \* history: numbers that two requests served at once

userVars == <<users, verified, videoCount>>
jobVars  == <<status, owner, photoChecked, assets>>
s3Vars   == <<bucket, nextJob>>
otpVars  == <<otp, nextOtp>>
envVars  == <<photoValidation, settings, moved, handled, operatorMoves>>
vars == <<userVars, jobVars, s3Vars, otpVars, pending, envVars, pc, req, overlapped>>

Steps == {"idle", "guard", "insert", "commit", "newOtp",
          "verify", "resend", "setPending"}

(* A handler's local copies: the number it serves, whether it added the    *)
(* user, the video_count it loaded, the status its job will get, whether   *)
(* the photo was validated, the job and OTP row it works on, and a job its *)
(* snapshot showed in flight.                                              *)
Locals == [num : Numbers, isNew : BOOLEAN, count : Nat, status : JobStatuses,
           checked : BOOLEAN, job : JobIds \cup {NoJob},
           otp : OtpIds \cup {NoOtp}, seen : JobIds \cup {NoJob}]

AnyNumber == CHOOSE n \in Numbers : TRUE

(* What an idle slot holds: nothing reads it. *)
Blank == [num |-> AnyNumber, isNew |-> FALSE, count |-> 0, status |-> "wait",
          checked |-> FALSE, job |-> NoJob, otp |-> NoOtp, seen |-> NoJob]

-----------------------------------------------------------------------------
(* Queries. *)

PastWait(j) == status[j] \notin {"none", "wait"}
InFlight(j) == status[j] \notin {"none", "sent", "failed"}

(* Mutants of WaitJobs: held jobs, or all unfinished jobs, taken for waiting. *)
WaitOrHeldJobs(n) == {j \in JobIds : owner[j] = n /\ status[j] \in {"wait", "process_stop"}}
UnfinishedJobs(n) == {j \in JobIds : owner[j] = n /\ InFlight(j)}

WaitJobs(n)     == {j \in JobIds : owner[j] = n /\ status[j] = "wait"}
InFlightJobs(n) == {j \in JobIds : owner[j] = n /\ InFlight(j)}
Counted(n)      == {j \in JobIds : owner[j] = n /\ PastWait(j)}

(* .first() without ORDER BY: any matching row, or None. *)
FirstOf(S) == IF S = {} THEN {NoJob} ELSE S

Unused(n) == {o \in OtpIds : o < nextOtp /\ otp[o].owner = n /\ ~otp[o].used}

(* .order_by(created_at.desc()).first() *)
Latest(S) == {o \in S : \A p \in S : p <= o}

(* The only code verify_otp compares the input with. *)
AcceptedOtps(n) == Latest({o \in Unused(n) : otp[o].age # Expired})

(* A resend is refused only while the latest unused code is in cooldown. *)
CooldownOver(n) == \A o \in Latest(Unused(n)) : otp[o].age # Fresh

(* Mutant of AtCap: one video too many. *)
AtCapOffByOne(n) == /\ ~settings.allowMultiple /\ n \in users
                    /\ videoCount[n] > settings.maxVideos
                    /\ Clean[n] \notin settings.unlimited

(* The per-user limit, bypassed for the whitelist. *)
AtCap(n) == /\ ~settings.allowMultiple
            /\ n \in users
            /\ videoCount[n] >= settings.maxVideos
            /\ Clean[n] \notin settings.unlimited

Held(n) == Clean[n] \in settings.held

(* Status a verified user's new job starts in. *)
InitialStatus(n) ==
    IF ~photoValidation THEN "unverified"
    ELSE IF Held(n) THEN "process_stop" ELSE "queued"

(* Status a waiting job gets once its OTP is entered.  The handler looks   *)
(* at parent_role, which _validate_inputs made mandatory, so its           *)
(* "unverified" branch is never taken.                                     *)
NextStatus(n) == IF Held(n) THEN "process_stop" ELSE "queued"

-----------------------------------------------------------------------------
(* Writes shared by several handlers. *)

Finish(r) == /\ pc'  = [pc EXCEPT ![r] = "idle"]
             /\ req' = [req EXCEPT ![r] = Blank]

Goto(r, step) == pc' = [pc EXCEPT ![r] = step] /\ UNCHANGED req

(* Mutant of CountUp: the counter is forgotten. *)
CountKept(l) == UNCHANGED videoCount

(* user.video_count += 1 writes the value loaded with the snapshot, plus one. *)
CountUp(l) == videoCount' = [videoCount EXCEPT ![l.num] = l.count + 1]

(* is_used = TRUE.  Nobody looks at the age of a used code, so none is kept. *)
Spent(row) == [owner |-> row.owner, used |-> TRUE, age |-> Fresh]

AddOtp(n, rows) ==
    /\ nextOtp \in OtpIds
    /\ otp' = [rows EXCEPT ![nextOtp] = [owner |-> n, used |-> FALSE, age |-> Fresh]]
    /\ nextOtp' = nextOtp + 1

-----------------------------------------------------------------------------
(* POST /submit *)

(* Mutants of AfterRead: no one-in-flight guard, no check for a waiting job. *)
AfterReadNoGuard(n) ==
    IF n \in verified \/ WaitJobs(n) = {} THEN "insert" ELSE "newOtp"
AfterReadAlwaysInserts(n) ==
    IF n \in verified /\ ~settings.allowMultiple THEN "guard" ELSE "insert"

(* Flag, token and field checks, then the snapshot: user, cap,             *)
(* verification, the waiting job and the jobs in flight.                   *)
AfterRead(n) ==
    IF n \in verified THEN IF settings.allowMultiple THEN "insert" ELSE "guard"
    ELSE IF WaitJobs(n) # {} THEN "newOtp" ELSE "insert"

SubmitRead(r, n) ==
    /\ pc[r] = "idle"
    /\ ~AtCap(n)
    /\ \E seen \in FirstOf(InFlightJobs(n)) :
          req' = [req EXCEPT ![r] =
                    [Blank EXCEPT !.num = n, !.isNew = n \notin users,
                       !.count   = videoCount[n],
                       !.status  = IF n \in verified THEN InitialStatus(n) ELSE "wait",
                       !.checked = photoValidation,
                       !.seen    = seen]]
    /\ pc' = [pc EXCEPT ![r] = AfterRead(n)]
    /\ UNCHANGED <<userVars, jobVars, s3Vars, otpVars, pending, envVars>>

(* "Reject if a job is still in flight": the Redis key, then the snapshot, *)
(* whose answer is cached.  The handler returns without a commit.          *)
SubmitGuard(r) ==
    /\ pc[r] = "guard"
    /\ LET n == req[r].num IN
       \/ /\ pending[n] # NoJob
          /\ Finish(r) /\ UNCHANGED pending
       \/ /\ pending[n] = NoJob /\ req[r].seen # NoJob
          /\ pending' = [pending EXCEPT ![n] = req[r].seen]
          /\ Finish(r)
       \/ /\ pending[n] = NoJob /\ req[r].seen = NoJob
          /\ Goto(r, "insert") /\ UNCHANGED pending
    /\ UNCHANGED <<userVars, jobVars, s3Vars, otpVars, envVars>>

(* Mutant of InsertBlocked: no unique key on phone_hash to wait for. *)
NeverBlocked(r) == FALSE

(* Inserting the users row waits for another uncommitted insert of the     *)
(* same phone_hash, and fails once one is committed.                       *)
InsertBlocked(r) ==
    /\ req[r].isNew
    /\ \E q \in Requests \ {r} :
          pc[q] = "commit" /\ req[q].isNew /\ req[q].num = req[r].num

DuplicateUser(r) == req[r].isNew /\ req[r].num \in users

(* Mutant of SubmitInsert: the pending key is set before the commit. *)
SubmitInsertCachesFirst(r) ==
    /\ pc[r] = "insert" /\ ~InsertBlocked(r) /\ ~DuplicateUser(r)
    /\ nextJob \in JobIds
    /\ nextJob' = nextJob + 1
    /\ bucket'  = bucket \cup {nextJob}
    /\ req' = [req EXCEPT ![r].job = nextJob]
    /\ pc'  = [pc EXCEPT ![r] = "commit"]
    /\ pending' = [pending EXCEPT ![req[r].num] = nextJob]
    /\ UNCHANGED <<userVars, jobVars, otpVars, envVars>>

(* flush: the rows get their ids, and the selfie goes to S3.               *)
SubmitInsert(r) ==
    /\ pc[r] = "insert" /\ ~InsertBlocked(r) /\ ~DuplicateUser(r)
    /\ nextJob \in JobIds
    /\ nextJob' = nextJob + 1
    /\ bucket'  = bucket \cup {nextJob}
    /\ req' = [req EXCEPT ![r].job = nextJob]
    /\ pc'  = [pc EXCEPT ![r] = "commit"]
    /\ UNCHANGED <<userVars, jobVars, otpVars, pending, envVars>>

(* Mutant of SubmitInsertFails: a failed upload is ignored. *)
SubmitInsertIgnoresUpload(r) ==
    /\ pc[r] = "insert" /\ ~InsertBlocked(r) /\ ~DuplicateUser(r)
    /\ nextJob \in JobIds
    /\ nextJob' = nextJob + 1
    /\ req' = [req EXCEPT ![r].job = nextJob]
    /\ pc'  = [pc EXCEPT ![r] = "commit"]
    /\ UNCHANGED <<userVars, jobVars, bucket, otpVars, pending, envVars>>

(* IntegrityError on phone_hash, or the upload fails and the transaction   *)
(* is rolled back; an id already handed out is lost.                       *)
SubmitInsertFails(r) ==
    /\ pc[r] = "insert" /\ ~InsertBlocked(r)
    /\ IF DuplicateUser(r) THEN UNCHANGED nextJob
       ELSE nextJob \in JobIds /\ nextJob' = nextJob + 1
    /\ Finish(r)
    /\ UNCHANGED <<userVars, jobVars, bucket, otpVars, pending, envVars>>

(* Mutant of CommitRow: every job starts as a verified user's would. *)
CommitRowSkipsWait(r) ==
    LET l == req[r] IN
    /\ status' = [status EXCEPT ![l.job] = InitialStatus(l.num)]
    /\ owner'  = [owner EXCEPT ![l.job] = l.num]
    /\ assets' = assets \cup {l.job}
    /\ photoChecked' = IF l.checked THEN photoChecked \cup {l.job} ELSE photoChecked

CommitRow(r) ==
    LET l == req[r] IN
    /\ status' = [status EXCEPT ![l.job] = l.status]
    /\ owner'  = [owner EXCEPT ![l.job] = l.num]
    /\ assets' = assets \cup {l.job}
    /\ photoChecked' = IF l.checked THEN photoChecked \cup {l.job} ELSE photoChecked

(* Unverified user: the user, the "wait" job and its OTP appear together.  *)
SubmitCommitWait(r) ==
    /\ pc[r] = "commit" /\ req[r].status = "wait"
    /\ users' = users \cup {req[r].num}
    /\ CommitRow(r)
    /\ AddOtp(req[r].num, otp)
    /\ Finish(r)
    /\ UNCHANGED <<verified, videoCount, s3Vars, pending, envVars>>

(* Verified user: the job, and video_count from the value loaded earlier.  *)
SubmitCommitVerified(r) ==
    /\ pc[r] = "commit" /\ req[r].status # "wait"
    /\ CommitRow(r)
    /\ CountUp(req[r])
    /\ Goto(r, "setPending")
    /\ UNCHANGED <<users, verified, s3Vars, otpVars, pending, envVars>>

(* A job already waits: only another OTP is issued, the new photo is dropped. *)
SubmitNewOtp(r) ==
    /\ pc[r] = "newOtp"
    /\ AddOtp(req[r].num, otp)
    /\ Finish(r)
    /\ UNCHANGED <<userVars, jobVars, s3Vars, pending, envVars>>

(* Cache.set_pending_video, after the commit of submit or verify_otp. *)
SetPending(r) ==
    /\ pc[r] = "setPending"
    /\ pending' = [pending EXCEPT ![req[r].num] = req[r].job]
    /\ Finish(r)
    /\ UNCHANGED <<userVars, jobVars, s3Vars, otpVars, envVars>>

-----------------------------------------------------------------------------
(* POST /verify-otp *)

VerifyRead(r, n) ==
    /\ pc[r] = "idle" /\ n \in users
    /\ \E o \in AcceptedOtps(n), j \in FirstOf(WaitJobs(n)) :
          req' = [req EXCEPT ![r] =
                    [Blank EXCEPT !.num = n, !.count = videoCount[n],
                                  !.job = j, !.otp = o]]
    /\ pc' = [pc EXCEPT ![r] = "verify"]
    /\ UNCHANGED <<userVars, jobVars, s3Vars, otpVars, pending, envVars>>

(* One commit: the OTP is used, the user is verified, and the waiting job, *)
(* if the snapshot showed one, is released and counted.                    *)
VerifyCommit(r) ==
    /\ pc[r] = "verify"
    /\ LET l == req[r] IN
       /\ otp' = [otp EXCEPT ![l.otp] = Spent(@)]
       /\ verified' = verified \cup {l.num}
       /\ IF l.job = NoJob
          THEN Finish(r) /\ UNCHANGED <<status, videoCount>>
          ELSE /\ status' = [status EXCEPT ![l.job] = NextStatus(l.num)]
               /\ CountUp(l)
               /\ Goto(r, "setPending")
    /\ UNCHANGED <<users, owner, photoChecked, assets, s3Vars, nextOtp, pending, envVars>>

-----------------------------------------------------------------------------
(* POST /resend-otp *)

ResendRead(r, n) ==
    /\ pc[r] = "idle" /\ n \in users /\ n \notin verified
    /\ CooldownOver(n)
    /\ req' = [req EXCEPT ![r] = [Blank EXCEPT !.num = n]]
    /\ pc'  = [pc EXCEPT ![r] = "resend"]
    /\ UNCHANGED <<userVars, jobVars, s3Vars, otpVars, pending, envVars>>

(* UPDATE ... WHERE NOT is_used is a current read: it sees what was        *)
(* committed meanwhile.                                                    *)
Invalidated(n) == [o \in OtpIds |-> IF o \in Unused(n) THEN Spent(otp[o]) ELSE otp[o]]

ResendCommit(r) ==
    /\ pc[r] = "resend"
    /\ AddOtp(req[r].num, Invalidated(req[r].num))
    /\ Finish(r)
    /\ UNCHANGED <<userVars, jobVars, s3Vars, pending, envVars>>

-----------------------------------------------------------------------------
(* The surroundings of the handlers. *)

(* The process dies, or Redis or the messaging call raises: whatever is    *)
(* not committed is rolled back.                                           *)
Crash(r) == /\ pc[r] # "idle"
            /\ Finish(r)
            /\ UNCHANGED <<userVars, jobVars, s3Vars, otpVars, pending, envVars>>

(* Time passes: an older code is never younger than a newer one. *)
Tick(o) == /\ o < nextOtp /\ ~otp[o].used /\ otp[o].age # Expired
           /\ \A p \in OtpIds : p < o => otp[p].used \/ otp[p].age > otp[o].age
           /\ otp' = [otp EXCEPT ![o].age = @ + 1]
           /\ UNCHANGED <<userVars, jobVars, s3Vars, nextOtp, pending, envVars, pc, req>>

(* The 30 minute TTL of the key, or Cache.clear_pending_video. *)
PendingGone(n) == /\ pending[n] # NoJob
                  /\ pending' = [pending EXCEPT ![n] = NoJob]
                  /\ UNCHANGED <<userVars, jobVars, s3Vars, otpVars, envVars, pc, req>>

ToggleValidation ==
    /\ photoValidation' = ~photoValidation
    /\ UNCHANGED <<userVars, jobVars, s3Vars, otpVars, pending, settings, moved, handled,
                   operatorMoves, pc, req>>

(* Jobs whose status somebody wrote without the usual guards.  *)
Disturbed == moved \cup {j \in JobIds : status[j] # "none" /\ owner[j] \in overlapped}

Life == INSTANCE JobLifecycle WITH Jobs <- JobIds, phase <- status, disturbed <- Disturbed

(* Workers, watchdog and delivery do what RenderPipeline allows them. *)
WorkerStep(j, s) ==
    /\ s \in Life!Work(status[j])
    /\ status' = [status EXCEPT ![j] = s]
    /\ UNCHANGED <<userVars, owner, photoChecked, assets, s3Vars, otpVars,
                   pending, envVars, pc, req>>

(* PATCH /jobs/update-job accepts any status for any job; send-video marks *)
(* any job "sent", a waiting one too.                                      *)
OperatorMove(j, s) ==
    /\ operatorMoves < MaxOperatorMoves
    /\ status[j] \notin {"none", s}
    /\ operatorMoves' = operatorMoves + 1
    /\ status' = [status EXCEPT ![j] = s]
    /\ moved' = moved \cup {j}
    /\ handled' = IF "wait" \in {status[j], s} THEN handled \cup {j} ELSE handled
    /\ UNCHANGED <<userVars, owner, photoChecked, assets, s3Vars, otpVars,
                   pending, photoValidation, settings, pc, req>>

-----------------------------------------------------------------------------
Init ==
    /\ users = {} /\ verified = {}
    /\ videoCount = [n \in Numbers |-> 0]
    /\ status = [j \in JobIds |-> "none"]
    /\ owner  = [j \in JobIds |-> AnyNumber]
    /\ photoChecked = {} /\ assets = {} /\ bucket = {}
    /\ nextJob = 1
    /\ otp = [o \in OtpIds |-> [owner |-> AnyNumber, used |-> FALSE, age |-> Fresh]]
    /\ nextOtp = 1
    /\ pending = [n \in Numbers |-> NoJob]
    /\ photoValidation = TRUE
    /\ settings \in SettingsRows
    /\ pc  = [r \in Requests |-> "idle"]
    /\ req = [r \in Requests |-> Blank]
    /\ moved = {} /\ handled = {} /\ operatorMoves = 0 /\ overlapped = {}

HandlerStep(r) ==
    \/ \E n \in Numbers : SubmitRead(r, n) \/ VerifyRead(r, n) \/ ResendRead(r, n)
    \/ SubmitGuard(r) \/ SubmitInsert(r) \/ SubmitInsertFails(r)
    \/ SubmitCommitWait(r) \/ SubmitCommitVerified(r) \/ SubmitNewOtp(r)
    \/ SetPending(r) \/ VerifyCommit(r) \/ ResendCommit(r)
    \/ Crash(r)

Step ==
    \/ \E r \in Requests : HandlerStep(r)
    \/ \E o \in OtpIds : Tick(o)
    \/ \E n \in Numbers : PendingGone(n)
    \/ ToggleValidation
    \/ \E j \in JobIds, s \in JobStatuses : WorkerStep(j, s)
    \/ \E j \in JobIds, s \in OperatorTargets : OperatorMove(j, s)

Serving(r, n) == pc[r] # "idle" /\ req[r].num = n

Meeting == {n \in Numbers : \E r, q \in Requests : r # q /\ Serving(r, n) /\ Serving(q, n)}

Next == Step /\ overlapped' = overlapped \cup Meeting'

Spec == Init /\ [][Next]_vars

-----------------------------------------------------------------------------
(* Properties. *)

TypeOK ==
    /\ users \subseteq Numbers /\ verified \subseteq Numbers
    /\ videoCount \in [Numbers -> Nat]
    /\ status \in [JobIds -> JobStatuses \cup {"none"}]
    /\ owner \in [JobIds -> Numbers]
    /\ photoChecked \subseteq JobIds /\ assets \subseteq JobIds /\ bucket \subseteq JobIds
    /\ nextJob \in 1 .. MaxJobs + 1
    /\ otp \in [OtpIds -> [owner : Numbers, used : BOOLEAN, age : Fresh .. Expired]]
    /\ nextOtp \in 1 .. MaxOtps + 1
    /\ pending \in [Numbers -> JobIds \cup {NoJob}]
    /\ photoValidation \in BOOLEAN /\ settings \in SettingsRows
    /\ pc \in [Requests -> Steps] /\ req \in [Requests -> Locals]
    /\ moved \subseteq JobIds /\ handled \subseteq moved /\ operatorMoves \in 0 .. MaxOperatorMoves
    /\ overlapped \subseteq Numbers

(* No photo is rendered for a number that never entered a code: a job that *)
(* left "wait" belongs to a verified user, whatever requests overlap,      *)
(* unless an operator moved it past the gate by hand.                      *)
ProcessedImpliesVerified ==
    \A j \in JobIds : PastWait(j) /\ j \notin handled => owner[j] \in verified

(* video_count, on which the per-user cap is decided, is written from a    *)
(* stale copy and may lose increments, but it never exceeds the jobs the   *)
(* user really got past "wait": nobody is refused videos he did not have.  *)
(* (An operator who puts a job back to "wait" lets it be counted twice.)   *)
Untouched(n) == \A j \in handled : owner[j] # n

VideoCountNeverOvercounts ==
    \A n \in Numbers : Untouched(n) => videoCount[n] <= Cardinality(Counted(n))

(* Every committed job has its job_assets row, and the selfie the row      *)
(* points to is in S3: the upload precedes the commit and a failed upload  *)
(* takes the job with it.                                                  *)
CommittedJobHasSelfie ==
    \A j \in JobIds : status[j] # "none" => j \in assets /\ j \in bucket

(* The cached "pending video" of a user, which is returned to him as his   *)
(* job_id, is a committed job of that user, never an id that was rolled    *)
(* back or another user's.                                                 *)
PendingIsOwnJob ==
    \A n \in Numbers : pending[n] # NoJob =>
        status[pending[n]] # "none" /\ owner[pending[n]] = n

(* What holds for a number whose requests came one after the other, and    *)
(* none of whose jobs was moved by hand, although requests crash anywhere, *)
(* and workers, watchdog, expiry, the flags, and whatever befalls other    *)
(* numbers interfere.                                                      *)
Serial(n) == n \notin overlapped /\ \A j \in moved : owner[j] # n

(* The guard of submit: with multiple requests off, a user has one video   *)
(* in flight.                                                              *)
AtMostOneInFlight ==
    ~settings.allowMultiple =>
        \A n \in Numbers : Serial(n) => \A j, k \in InFlightJobs(n) : j = k

(* max_videos_per_user bounds the jobs a number gets, unless whitelisted;  *)
(* a limit of 0 still lets a new number have one, since the limit is only  *)
(* looked at for existing users.                                           *)
Limit == IF settings.maxVideos = 0 THEN 1 ELSE settings.maxVideos

CapRespected ==
    ~settings.allowMultiple =>
        \A n \in Numbers : Serial(n) /\ Clean[n] \notin settings.unlimited =>
            Cardinality(Counted(n)) <= Limit

(* "wait" means awaiting OTP verification: a verified user, who is refused *)
(* another code, has no job left there.  It rests on the unique phone_hash *)
(* and on "wait" being left only through verification, so a job moved by   *)
(* hand voids it for its user.                                             *)
NoWaitJobOnceVerified == \A n \in verified : Untouched(n) => WaitJobs(n) = {}

(* video_count is the user's job count. *)
VideoCountExact ==
    \A n \in Numbers : Serial(n) => videoCount[n] = Cardinality(Counted(n))

(* The requests' side of the lifecycle: they create jobs and release       *)
(* waiting ones, and never touch a job that was released, so that what a   *)
(* worker has taken is not queued again.                                   *)
Lifecycle == Life!Spec

(* A selfie that was never validated goes to "unverified", never straight  *)
(* from "wait" into the queue.                                             *)
UncheckedPhotoNotQueued ==
    [][\A j \in JobIds \ handled' :
          status[j] = "wait" /\ status'[j] = "queued" => j \in photoChecked]_vars

(* Only the pipeline and the operator move a job backwards: a request      *)
(* never re-queues a job that a worker has already taken.                  *)
Taken == {"processing", "sent", "failed"}
RequestNeverRequeues ==
    [][\A j \in JobIds : status[j] \in Taken /\ status'[j] # status[j]
                         => pc' = pc]_vars
=============================================================================
