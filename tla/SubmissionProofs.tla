-------------------------- MODULE SubmissionProofs --------------------------
(***************************************************************************)
(* The safety properties of Submission, for any numbers, any number of     *)
(* request slots and any bounds, from the inductive invariant Inv of       *)
(* SubmissionInv.                                                          *)
(***************************************************************************)
EXTENDS SubmissionInv, TLAPS, FiniteSetTheorems

-----------------------------------------------------------------------------
(* Types. *)

LEMMA BlankType == Blank \in Locals /\ AnyNumber \in Numbers
<1>1. AnyNumber \in Numbers BY NumbersAssumption DEF AnyNumber
<1> QED BY <1>1 DEF Blank, Locals, JobStatuses

(* What every handler does to its own slot keeps the slots well typed. *)
LEMMA FinishType ==
    ASSUME TypeOK, NEW r \in Requests, Finish(r)
    PROVE  pc' \in [Requests -> Steps] /\ req' \in [Requests -> Locals]
BY BlankType DEF TypeOK, Finish, Steps

LEMMA GotoType ==
    ASSUME TypeOK, NEW r \in Requests, NEW step \in Steps, Goto(r, step)
    PROVE  pc' \in [Requests -> Steps] /\ req' \in [Requests -> Locals]
BY DEF TypeOK, Goto, Steps

OtpRow == [owner : Numbers, used : BOOLEAN, age : Fresh .. Expired]

LEMMA AddOtpType ==
    ASSUME NEW n \in Numbers, NEW rows \in [OtpIds -> OtpRow], nextOtp \in 1 .. MaxOtps + 1,
           AddOtp(n, rows)
    PROVE  otp' \in [OtpIds -> OtpRow] /\ nextOtp' \in 1 .. MaxOtps + 1
BY BoundsAssumption DEF AddOtp, OtpRow, OtpIds, Fresh, Resend, Expired

LEMMA SpentType == ASSUME NEW row \in OtpRow PROVE Spent(row) \in OtpRow
BY DEF Spent, OtpRow, Fresh, Expired

LEMMA NumType ==
    ASSUME TypeOK, NEW r \in Requests
    PROVE  /\ req[r] \in Locals /\ req[r].num \in Numbers /\ req[r].count \in Nat
           /\ req[r].status \in JobStatuses /\ req[r].job \in JobIds \cup {NoJob}
           /\ req[r].seen \in JobIds \cup {NoJob} /\ req[r].isNew \in BOOLEAN
BY DEF TypeOK, Locals

LEMMA TypeInit == Init => TypeOK
BY BlankType, BoundsAssumption
   DEF Init, TypeOK, JobIds, OtpIds, JobStatuses, Steps, NoJob, Fresh, Resend, Expired

LEMMA OverlapStep == TypeOK /\ [Next]_vars => overlapped' \subseteq Numbers
BY DEF Next, vars, Meeting, TypeOK

LEMMA TypeStep == Inv /\ [Next]_vars => TypeOK'
<1> SUFFICES ASSUME Inv, [Next]_vars PROVE TypeOK'
    OBVIOUS
<1>0. TypeOK /\ overlapped' \subseteq Numbers
    BY OverlapStep DEF Inv
<1> USE <1>0
<1> USE BoundsAssumption
<1>1. ASSUME NEW r \in Requests, NEW n \in Numbers, SubmitRead(r, n) PROVE TypeOK'
  <2>1. n \in Numbers /\ videoCount[n] \in Nat /\ photoValidation \in BOOLEAN
    BY DEF TypeOK
  <2>2. PICK seen \in FirstOf(InFlightJobs(n)) :
          req' = [req EXCEPT ![r] =
                    [Blank EXCEPT !.num = n, !.isNew = n \notin users,
                       !.count   = videoCount[n],
                       !.status  = IF n \in verified THEN InitialStatus(n) ELSE "wait",
                       !.checked = photoValidation,
                       !.seen    = seen]]
    BY <1>1 DEF SubmitRead
  <2>3. seen \in JobIds \cup {NoJob}
    BY DEF FirstOf, InFlightJobs
  <2>4. (IF n \in verified THEN InitialStatus(n) ELSE "wait") \in JobStatuses
    BY DEF InitialStatus, JobStatuses
  <2>5. req' \in [Requests -> Locals]
    <3> DEFINE l == [Blank EXCEPT !.num = n, !.isNew = n \notin users,
                       !.count   = videoCount[n],
                       !.status  = IF n \in verified THEN InitialStatus(n) ELSE "wait",
                       !.checked = photoValidation,
                       !.seen    = seen]
    <3>1. videoCount[n] \in Nat /\ photoValidation \in BOOLEAN
      BY DEF TypeOK
    <3>2. l \in Locals
      <4> DEFINE k == [Blank EXCEPT !.num = n, !.isNew = n \notin users, !.count = videoCount[n]]
      <4>1. k \in Locals
        BY <3>1, BlankType DEF Locals
      <4>2. [k EXCEPT !.status = IF n \in verified THEN InitialStatus(n) ELSE "wait",
                      !.checked = photoValidation, !.seen = seen] \in Locals
        <5> HIDE DEF k
        <5> QED
          BY <4>1, <2>3, <2>4, <3>1 DEF Locals
      <4> QED
        BY <4>2
    <3>3. req' = [req EXCEPT ![r] = l] /\ req \in [Requests -> Locals]
      BY <2>2 DEF TypeOK
    <3> HIDE DEF l
    <3> QED
      BY <3>2, <3>3
  <2>6. pc' \in [Requests -> Steps]
    BY <1>1 DEF SubmitRead, AfterRead, TypeOK, Steps
  <2> QED
    BY <1>1, <2>5, <2>6 DEF SubmitRead, TypeOK, userVars, jobVars, s3Vars, otpVars, envVars
<1>2. ASSUME NEW r \in Requests, NEW n \in Numbers, VerifyRead(r, n) PROVE TypeOK'
  <2>1. PICK o \in AcceptedOtps(n), j \in FirstOf(WaitJobs(n)) :
          req' = [req EXCEPT ![r] =
                    [Blank EXCEPT !.num = n, !.count = videoCount[n],
                                  !.job = j, !.otp = o]]
    BY <1>2 DEF VerifyRead
  <2>2. o \in OtpIds \cup {NoOtp} /\ j \in JobIds \cup {NoJob} /\ videoCount[n] \in Nat
    BY DEF FirstOf, WaitJobs, AcceptedOtps, Latest, Unused, TypeOK
  <2>3. req' \in [Requests -> Locals]
    BY <2>1, <2>2, BlankType DEF TypeOK, Locals
  <2>4. pc' \in [Requests -> Steps]
    BY <1>2 DEF VerifyRead, TypeOK, Steps
  <2> QED
    BY <1>2, <2>3, <2>4 DEF VerifyRead, TypeOK, userVars, jobVars, s3Vars, otpVars, envVars
<1>3. ASSUME NEW r \in Requests, NEW n \in Numbers, ResendRead(r, n) PROVE TypeOK'
  <2>1. req' \in [Requests -> Locals]
    BY <1>3, BlankType DEF ResendRead, TypeOK, Locals
  <2> QED
    BY <1>3, <2>1 DEF ResendRead, TypeOK, Steps, userVars, jobVars, s3Vars, otpVars, envVars
<1>4. ASSUME NEW r \in Requests, SubmitGuard(r) PROVE TypeOK'
  <2>1. pc' \in [Requests -> Steps] /\ req' \in [Requests -> Locals]
    BY <1>4, FinishType, GotoType DEF SubmitGuard, Steps
  <2>2. pending' \in [Numbers -> JobIds \cup {NoJob}]
    BY <1>4, NumType DEF SubmitGuard, TypeOK
  <2> QED
    BY <1>4, <2>1, <2>2 DEF SubmitGuard, TypeOK, userVars, jobVars, s3Vars, otpVars, envVars
<1>5. ASSUME NEW r \in Requests, SubmitInsert(r) PROVE TypeOK'
  <2>1. nextJob' \in 1 .. MaxJobs + 1 /\ bucket' \subseteq JobIds
    BY <1>5 DEF SubmitInsert, TypeOK, JobIds
  <2>2. pc' \in [Requests -> Steps] /\ req' \in [Requests -> Locals]
    <3>1. pc' \in [Requests -> Steps]
      BY <1>5 DEF SubmitInsert, TypeOK, Steps
    <3>2. [req[r] EXCEPT !.job = nextJob] \in Locals
      BY <1>5, NumType DEF SubmitInsert, Locals
    <3>3. req' = [req EXCEPT ![r] = [req[r] EXCEPT !.job = nextJob]]
      BY <1>5 DEF SubmitInsert, TypeOK
    <3> QED
      BY <3>1, <3>2, <3>3 DEF TypeOK
  <2> QED
    BY <1>5, <2>1, <2>2 DEF SubmitInsert, TypeOK, userVars, jobVars, otpVars, envVars
<1>6. ASSUME NEW r \in Requests, SubmitInsertFails(r) PROVE TypeOK'
  <2>1. nextJob' \in 1 .. MaxJobs + 1
    BY <1>6 DEF SubmitInsertFails, TypeOK, JobIds
  <2>2. pc' \in [Requests -> Steps] /\ req' \in [Requests -> Locals]
    BY <1>6, FinishType DEF SubmitInsertFails
  <2> QED
    BY <1>6, <2>1, <2>2 DEF SubmitInsertFails, TypeOK, userVars, jobVars, otpVars, envVars
<1>7. ASSUME NEW r \in Requests, CommitRow(r), pc[r] = "commit"
      PROVE  /\ status' \in [JobIds -> JobStatuses \cup {"none"}]
             /\ owner' \in [JobIds -> Numbers]
             /\ photoChecked' \subseteq JobIds /\ assets' \subseteq JobIds
  <2>1. req[r].job \in JobIds
    BY <1>7 DEF Inv, FreshIds
  <2> QED
    BY <1>7, <2>1, NumType DEF CommitRow, TypeOK
<1>8. ASSUME NEW r \in Requests, SubmitCommitWait(r) PROVE TypeOK'
  <2>1. otp' \in [OtpIds -> OtpRow] /\ nextOtp' \in 1 .. MaxOtps + 1
    BY <1>8, AddOtpType, NumType DEF SubmitCommitWait, TypeOK, OtpRow
  <2>2. users' \subseteq Numbers
    BY <1>8, NumType DEF SubmitCommitWait, TypeOK
  <2> QED
    BY <1>7, <1>8, <2>1, <2>2, FinishType
    DEF SubmitCommitWait, TypeOK, OtpRow, s3Vars, envVars
<1>9. ASSUME NEW r \in Requests, SubmitCommitVerified(r) PROVE TypeOK'
  <2>1. videoCount' \in [Numbers -> Nat]
    BY <1>9, NumType DEF SubmitCommitVerified, CountUp, TypeOK
  <2>2. pc' \in [Requests -> Steps] /\ req' \in [Requests -> Locals]
    BY <1>9, GotoType DEF SubmitCommitVerified, Steps
  <2> QED
    BY <1>7, <1>9, <2>1, <2>2
    DEF SubmitCommitVerified, TypeOK, s3Vars, otpVars, envVars
<1>10. ASSUME NEW r \in Requests, SubmitNewOtp(r) PROVE TypeOK'
  <2>1. otp' \in [OtpIds -> OtpRow] /\ nextOtp' \in 1 .. MaxOtps + 1
    BY <1>10, AddOtpType, NumType DEF SubmitNewOtp, TypeOK, OtpRow
  <2> QED
    BY <1>10, <2>1, FinishType
    DEF SubmitNewOtp, TypeOK, OtpRow, userVars, jobVars, s3Vars, envVars
<1>11. ASSUME NEW r \in Requests, SetPending(r) PROVE TypeOK'
  <2>1. pending' \in [Numbers -> JobIds \cup {NoJob}]
    BY <1>11, NumType DEF SetPending, TypeOK
  <2> QED
    BY <1>11, <2>1, FinishType
    DEF SetPending, TypeOK, userVars, jobVars, s3Vars, otpVars, envVars
<1>12. ASSUME NEW r \in Requests, VerifyCommit(r) PROVE TypeOK'
  <2>1. otp' \in [OtpIds -> [owner : Numbers, used : BOOLEAN, age : Fresh .. Expired]]
    <3>1. otp' = [otp EXCEPT ![req[r].otp] = Spent(@)]
      BY <1>12 DEF VerifyCommit
    <3>2. otp \in [OtpIds -> OtpRow]
      BY DEF TypeOK, OtpRow
    <3> QED
      BY <3>1, <3>2, SpentType DEF OtpRow
  <2>2. /\ pc' \in [Requests -> Steps] /\ req' \in [Requests -> Locals]
    BY <1>12, FinishType, GotoType DEF VerifyCommit, Steps
  <2>3. verified' \subseteq Numbers
    BY <1>12, NumType DEF VerifyCommit, TypeOK
  <2>4. videoCount' \in [Numbers -> Nat]
    BY <1>12, NumType DEF VerifyCommit, CountUp, TypeOK
  <2>5. status' \in [JobIds -> JobStatuses \cup {"none"}]
    BY <1>12, NumType DEF VerifyCommit, TypeOK, NextStatus, JobStatuses
  <2> QED
    BY <1>12, <2>1, <2>2, <2>3, <2>4, <2>5 DEF VerifyCommit, TypeOK, s3Vars, envVars
<1>13. ASSUME NEW r \in Requests, ResendCommit(r) PROVE TypeOK'
  <2>1. Invalidated(req[r].num) \in [OtpIds -> OtpRow]
    BY SpentType DEF Invalidated, TypeOK, OtpRow
  <2>2. otp' \in [OtpIds -> OtpRow] /\ nextOtp' \in 1 .. MaxOtps + 1
    BY <1>13, <2>1, AddOtpType, NumType DEF ResendCommit, TypeOK
  <2> QED
    BY <1>13, <2>2, FinishType
    DEF ResendCommit, TypeOK, OtpRow, userVars, jobVars, s3Vars, envVars
<1>14. ASSUME NEW r \in Requests, Crash(r) PROVE TypeOK'
  BY <1>14, FinishType
  DEF Crash, TypeOK, userVars, jobVars, s3Vars, otpVars, envVars
<1>15. ASSUME NEW o \in OtpIds, Tick(o) PROVE TypeOK'
  <2>1. otp' \in [OtpIds -> [owner : Numbers, used : BOOLEAN, age : Fresh .. Expired]]
    BY <1>15 DEF Tick, TypeOK, Fresh, Expired
  <2> QED
    BY <1>15, <2>1 DEF Tick, TypeOK, userVars, jobVars, s3Vars, envVars
<1>16. ASSUME NEW n \in Numbers, PendingGone(n) PROVE TypeOK'
  BY <1>16 DEF PendingGone, TypeOK, userVars, jobVars, s3Vars, otpVars, envVars
<1>17. ASSUME ToggleValidation PROVE TypeOK'
  BY <1>17 DEF ToggleValidation, TypeOK, userVars, jobVars, s3Vars, otpVars
<1>18. ASSUME NEW j \in JobIds, NEW s \in JobStatuses, WorkerStep(j, s) PROVE TypeOK'
  BY <1>18 DEF WorkerStep, Life!Work, TypeOK, userVars, s3Vars, otpVars, envVars
<1>19. ASSUME NEW j \in JobIds, NEW s \in JobStatuses, OperatorMove(j, s) PROVE TypeOK'
  BY <1>19 DEF OperatorMove, TypeOK, userVars, s3Vars, otpVars
<1>20. ASSUME UNCHANGED vars PROVE TypeOK'
  BY <1>20 DEF vars, TypeOK, userVars, jobVars, s3Vars, otpVars, envVars
<1> QED
  BY <1>1, <1>2, <1>3, <1>4, <1>5, <1>6, <1>8, <1>9, <1>10, <1>11, <1>12, <1>13,
     <1>14, <1>15, <1>16, <1>17, <1>18, <1>19, <1>20, TargetsAssumption
  DEF Next, Step, HandlerStep

-----------------------------------------------------------------------------
(* What a step can do to one slot: nothing, free it, or run the one step   *)
(* of its handler that leaves it busy.                                     *)
Busy(q) == \/ \E n \in Numbers : SubmitRead(q, n) \/ VerifyRead(q, n) \/ ResendRead(q, n)
           \/ SubmitGuard(q) \/ SubmitInsert(q) \/ SubmitCommitVerified(q) \/ VerifyCommit(q)

LEMMA SlotStep ==
    ASSUME TypeOK, [Next]_vars, NEW q \in Requests
    PROVE  \/ pc'[q] = pc[q] /\ req'[q] = req[q]
           \/ pc'[q] = "idle"
           \/ Busy(q) /\ pc'[q] # "idle"
<1>1. ASSUME NEW r \in Requests, r # q, HandlerStep(r)
      PROVE  pc'[q] = pc[q] /\ req'[q] = req[q]
  BY <1>1 DEF HandlerStep, SubmitRead, VerifyRead, ResendRead, SubmitGuard, SubmitInsert,
     SubmitInsertFails, SubmitCommitWait, SubmitCommitVerified, SubmitNewOtp, SetPending,
     VerifyCommit, ResendCommit, Crash, Finish, Goto, TypeOK
<1>2. ASSUME HandlerStep(q)
      PROVE  pc'[q] = "idle" \/ (Busy(q) /\ pc'[q] # "idle")
  <2>1. Finish(q) => pc'[q] = "idle"
    BY DEF Finish, TypeOK
  <2> QED
    BY <1>2, <2>1 DEF HandlerStep, Busy, SubmitInsertFails, SubmitCommitWait, SubmitNewOtp,
       SetPending, ResendCommit, Crash
<1>3. ASSUME ~ \E r \in Requests : HandlerStep(r)
      PROVE  pc'[q] = pc[q] /\ req'[q] = req[q]
  BY <1>3, TargetsAssumption DEF Next, Step, vars, Tick, PendingGone, ToggleValidation, WorkerStep, Life!Work, OperatorMove
<1> QED BY <1>1, <1>2, <1>3

(* The steps that touch the tables; all others leave them alone. *)
TableStep(r) == SubmitCommitWait(r) \/ SubmitCommitVerified(r) \/ VerifyCommit(r)
Moved == \E j \in JobIds, s \in JobStatuses : WorkerStep(j, s) \/ OperatorMove(j, s)

LEMMA TableCases ==
    ASSUME [Next]_vars
    PROVE  \/ \E r \in Requests : TableStep(r)
           \/ Moved
           \/ UNCHANGED <<userVars, jobVars, moved, handled>>
<1>1. ASSUME NEW r \in Requests, HandlerStep(r)
      PROVE  TableStep(r) \/ UNCHANGED <<userVars, jobVars, moved, handled>>
  BY <1>1 DEF HandlerStep, TableStep, envVars, SubmitRead, VerifyRead, ResendRead,
     SubmitGuard, SubmitInsert, SubmitInsertFails, SubmitNewOtp, SetPending, ResendCommit, Crash
<1>2. ASSUME ~ \E r \in Requests : HandlerStep(r)
      PROVE  Moved \/ UNCHANGED <<userVars, jobVars, moved, handled>>
  BY <1>2, TargetsAssumption DEF Next, Step, Moved, vars, envVars, Tick, PendingGone, ToggleValidation
<1> QED
  BY <1>1, <1>2

(* Rows are neither deleted nor given to another user, what is granted     *)
(* stays granted, and without the operator nobody leads back to "wait".    *)
LEMMA RowsStep ==
    ASSUME Inv, [Next]_vars
    PROVE  /\ \A j \in JobIds : status[j] # "none" => owner'[j] = owner[j] /\ status'[j] # "none"
           /\ handled \subseteq handled' /\ verified \subseteq verified' /\ users \subseteq users'
           /\ \A j \in JobIds \ handled' : PastWait(j) => PastWait(j)'
<1>0. TypeOK BY DEF Inv
<1>1. ASSUME NEW r \in Requests, SubmitCommitWait(r) \/ SubmitCommitVerified(r)
      PROVE  /\ \A j \in JobIds : status[j] # "none" =>
                    status'[j] = status[j] /\ owner'[j] = owner[j]
             /\ handled' = handled /\ verified' = verified /\ users \subseteq users'
  <2>1. status[req[r].job] = "none"
    BY <1>1 DEF Inv, FreshIds, SubmitCommitWait, SubmitCommitVerified
  <2> QED
    BY <1>0, <1>1, <2>1 DEF SubmitCommitWait, SubmitCommitVerified, CommitRow, TypeOK, envVars
<1>2. ASSUME NEW r \in Requests, VerifyCommit(r)
      PROVE  /\ \A j \in JobIds : status[j] # "none" =>
                    /\ owner'[j] = owner[j]
                    /\ status'[j] \in {status[j], "process_stop", "queued"}
             /\ handled' = handled /\ verified \subseteq verified' /\ users' = users
  BY <1>0, <1>2 DEF VerifyCommit, NextStatus, TypeOK, envVars
<1>3. ASSUME Moved
      PROVE  /\ \A j \in JobIds : status[j] # "none" =>
                    /\ owner'[j] = owner[j] /\ status'[j] # "none"
                    /\ j \notin handled' /\ status[j] # "wait" => status'[j] # "wait"
             /\ handled \subseteq handled' /\ verified' = verified /\ users' = users
  BY <1>0, <1>3 DEF Moved, WorkerStep, Life!Work, OperatorMove, TypeOK, JobStatuses, userVars, envVars
<1>4. ASSUME UNCHANGED <<userVars, jobVars, moved, handled>>
      PROVE  /\ status' = status /\ owner' = owner
             /\ handled' = handled /\ verified' = verified /\ users' = users
  BY <1>4 DEF userVars, jobVars
<1> QED
  BY <1>1, <1>2, <1>3, <1>4, TableCases DEF TableStep, PastWait

LEMMA UntouchedStep ==
    ASSUME Inv, [Next]_vars, NEW n \in Numbers, Untouched(n)'
    PROVE  Untouched(n)
BY RowsStep DEF Untouched, Inv, TypeOK, FreshIds

LEMMA CountedStep ==
    ASSUME Inv, [Next]_vars, NEW n \in Numbers, Untouched(n)'
    PROVE  Counted(n) \subseteq Counted(n)'
<1>1. ASSUME NEW j \in Counted(n) PROVE j \in Counted(n)'
  <2>1. j \in JobIds /\ status[j] # "none" /\ owner[j] = n /\ PastWait(j)
    BY DEF Counted, PastWait
  <2>2. owner'[j] = n
    BY <2>1, RowsStep
  <2>3. j \notin handled'
    BY <2>2 DEF Untouched
  <2> QED BY <2>1, <2>2, <2>3, RowsStep DEF Counted
<1> QED BY <1>1

-----------------------------------------------------------------------------
(* The parts of the invariant about slots.  A slot that does not move is   *)
(* covered by RowsStep, a freed one has nothing to show.                   *)

LEMMA FlowVerifiedStep == Inv /\ [Next]_vars => FlowVerified'
<1> SUFFICES ASSUME Inv, [Next]_vars, NEW q \in Requests, Submitting(q)'
             PROVE  /\ req'[q].status # "wait" => req'[q].num \in verified'
                    /\ req'[q].status = "wait" => pc'[q] # "guard"
    BY DEF FlowVerified
<1>0. TypeOK BY DEF Inv
<1>1. CASE pc'[q] = pc[q] /\ req'[q] = req[q]
  BY <1>1, RowsStep DEF Inv, FlowVerified, Submitting
<1>2. CASE pc'[q] = "idle"
  BY <1>2 DEF Submitting
<1>3. CASE Busy(q)
  <2>1. ASSUME NEW n \in Numbers, SubmitRead(q, n)
        PROVE  /\ req'[q].status # "wait" => req'[q].num \in verified'
               /\ req'[q].status = "wait" => pc'[q] # "guard"
    <3>1. req'[q].num = n /\ (n \notin verified => req'[q].status = "wait")
          /\ (n \in verified => req'[q].status = InitialStatus(n))
      BY <1>0, <2>1 DEF SubmitRead, TypeOK, Blank
    <3>2. pc'[q] = AfterRead(n) /\ verified' = verified
      BY <1>0, <2>1 DEF SubmitRead, TypeOK, userVars
    <3> QED BY <3>1, <3>2 DEF AfterRead, InitialStatus
  <2>2. CASE SubmitGuard(q) \/ SubmitInsert(q)
    <3>1. Submitting(q) /\ req'[q].num = req[q].num /\ req'[q].status = req[q].status
          /\ pc'[q] # "guard"
      BY <1>0, <2>2, NumType
      DEF SubmitGuard, SubmitInsert, Submitting, Goto, Finish, TypeOK, Locals
    <3> QED BY <3>1, RowsStep DEF Inv, FlowVerified
  <2> QED
    BY <1>0, <1>3, <2>1, <2>2
    DEF Busy, VerifyRead, ResendRead, SubmitCommitVerified, VerifyCommit, Goto, Finish,
        Submitting, TypeOK
<1> QED BY <1>0, <1>1, <1>2, <1>3, SlotStep

LEMMA SubmittedStatusStep == Inv /\ [Next]_vars => SubmittedStatus'
<1> SUFFICES ASSUME Inv, [Next]_vars, NEW q \in Requests, Submitting(q)'
             PROVE  req'[q].status \in {"wait"} \cup Life!Released
    BY DEF SubmittedStatus
<1>0. TypeOK BY DEF Inv
<1>1. CASE pc'[q] = pc[q] /\ req'[q] = req[q]
  BY <1>1 DEF Inv, SubmittedStatus, Submitting
<1>2. CASE pc'[q] = "idle"
  BY <1>2 DEF Submitting
<1>3. CASE Busy(q)
  <2>1. ASSUME NEW n \in Numbers, SubmitRead(q, n)
        PROVE  req'[q].status \in {"wait"} \cup Life!Released
    <3>1. req'[q].status = IF n \in verified THEN InitialStatus(n) ELSE "wait"
      BY <1>0, <2>1 DEF SubmitRead, TypeOK, Blank
    <3> QED BY <3>1 DEF InitialStatus, Life!Released
  <2>2. CASE SubmitGuard(q) \/ SubmitInsert(q)
    <3>1. Submitting(q) /\ req'[q].status = req[q].status
      BY <1>0, <2>2, NumType
      DEF SubmitGuard, SubmitInsert, Submitting, Goto, Finish, TypeOK, Locals
    <3> QED BY <3>1 DEF Inv, SubmittedStatus
  <2> QED
    BY <1>0, <1>3, <2>1, <2>2
    DEF Busy, VerifyRead, ResendRead, SubmitCommitVerified, VerifyCommit, Goto, Finish,
        Submitting, TypeOK
<1> QED BY <1>0, <1>1, <1>2, <1>3, SlotStep

LEMMA OwnRowsStep == Inv /\ [Next]_vars => OwnRows'
<1> SUFFICES ASSUME Inv, [Next]_vars, NEW q \in Requests
             PROVE  /\ pc'[q] \in {"verify", "setPending"} => IsRowOf(req[q].job, req[q].num)'
                    /\ pc'[q] = "guard" => IsRowOf(req[q].seen, req[q].num)'
    BY DEF OwnRows
<1>0. TypeOK BY DEF Inv
<1>a. ASSUME NEW j \in JobIds \cup {NoJob}, NEW n \in Numbers, IsRowOf(j, n)
      PROVE  j = NoJob \/ (status'[j] # "none" /\ owner'[j] = n)
  BY <1>a, RowsStep DEF IsRowOf
<1>1. CASE pc'[q] = pc[q] /\ req'[q] = req[q]
  BY <1>0, <1>1, <1>a, NumType DEF Inv, OwnRows, IsRowOf
<1>2. CASE pc'[q] = "idle"
  BY <1>2
<1>3. CASE Busy(q) /\ pc'[q] # "idle"
  <2>1. ASSUME NEW n \in Numbers, SubmitRead(q, n)
        PROVE  pc'[q] \notin {"verify", "setPending"} /\ IsRowOf(req[q].seen, req[q].num)'
    <3>1. req'[q].num = n /\ req'[q].seen \in FirstOf(InFlightJobs(n))
      BY <1>0, <2>1 DEF SubmitRead, TypeOK, Blank
    <3> QED
      BY <1>0, <2>1, <3>1 DEF SubmitRead, AfterRead, FirstOf, InFlightJobs, InFlight, IsRowOf,
         TypeOK, jobVars
  <2>2. ASSUME NEW n \in Numbers, VerifyRead(q, n)
        PROVE  pc'[q] = "verify" /\ IsRowOf(req[q].job, req[q].num)'
    <3>1. req'[q].num = n /\ req'[q].job \in FirstOf(WaitJobs(n))
      BY <1>0, <2>2 DEF VerifyRead, TypeOK, Blank
    <3> QED
      BY <1>0, <2>2, <3>1 DEF VerifyRead, FirstOf, WaitJobs, IsRowOf, TypeOK, jobVars
  <2>3. CASE SubmitCommitVerified(q)
    <3>1. req' = req /\ pc'[q] = "setPending" /\ req[q].job \in JobIds
      BY <1>0, <2>3 DEF SubmitCommitVerified, Goto, TypeOK, Inv, FreshIds
    <3>2. status'[req[q].job] = req[q].status /\ owner'[req[q].job] = req[q].num
      BY <1>0, <2>3, <3>1 DEF SubmitCommitVerified, CommitRow, TypeOK
    <3> QED
      BY <1>0, <3>1, <3>2, NumType DEF IsRowOf, JobStatuses
  <2>4. CASE VerifyCommit(q)
    <3>1. req[q].job # NoJob /\ req' = req /\ pc'[q] = "setPending"
      BY <1>0, <1>3, <2>4 DEF VerifyCommit, Goto, Finish, TypeOK
    <3>2. IsRowOf(req[q].job, req[q].num)
      BY <2>4 DEF VerifyCommit, Inv, OwnRows
    <3> QED BY <1>0, <1>a, <3>1, <3>2, NumType DEF IsRowOf
  <2> QED
    BY <1>0, <1>3, <2>1, <2>2, <2>3, <2>4
    DEF Busy, ResendRead, SubmitGuard, SubmitInsert, Goto, Finish, TypeOK
<1> QED BY <1>0, <1>1, <1>2, <1>3, SlotStep

(* Only SubmitInsert takes an id, and only the slot that took it uses it. *)
LEMMA FreshIdsStep == Inv /\ [Next]_vars => FreshIds'
<1> SUFFICES ASSUME Inv, [Next]_vars PROVE FreshIds'
    OBVIOUS
<1>0. TypeOK /\ FreshIds BY DEF Inv
<1>a. nextJob \in Nat /\ nextJob <= nextJob' /\ nextJob' \in Nat /\ bucket \subseteq bucket'
  <2>1. nextJob \in Nat /\ nextJob + 1 > nextJob
    BY <1>0, BoundsAssumption DEF TypeOK
  <2>2. \/ \E r \in Requests : SubmitInsert(r) \/ SubmitInsertFails(r)
        \/ UNCHANGED s3Vars
    BY DEF Next, Step, HandlerStep, vars, SubmitRead, VerifyRead, ResendRead, SubmitGuard,
       SubmitCommitWait, SubmitCommitVerified, SubmitNewOtp, SetPending, VerifyCommit,
       ResendCommit, Crash, Tick, PendingGone, ToggleValidation, WorkerStep, Life!Work, OperatorMove
  <2>3. nextJob' \in {nextJob, nextJob + 1} /\ bucket \subseteq bucket'
    BY <2>2 DEF SubmitInsert, SubmitInsertFails, s3Vars
  <2> QED BY <2>1, <2>3
<1>1. ASSUME NEW j \in JobIds, status[j] = "none",
             \A r \in Requests : pc[r] = "commit" /\ pc'[r] # "commit" => req[r].job # j
      PROVE  status'[j] = "none"
  <2>1. ASSUME NEW r \in Requests, SubmitCommitWait(r) \/ SubmitCommitVerified(r)
        PROVE  status'[j] = "none"
    <3>1. pc[r] = "commit" /\ pc'[r] # "commit"
      BY <1>0, <2>1 DEF SubmitCommitWait, SubmitCommitVerified, Finish, Goto, TypeOK
    <3>2. req[r].job # j
      BY <1>1, <3>1
    <3> QED BY <1>0, <1>1, <2>1, <3>2 DEF SubmitCommitWait, SubmitCommitVerified, CommitRow, TypeOK
  <2>2. ASSUME NEW r \in Requests, VerifyCommit(r) PROVE status'[j] = "none"
    <3>1. req[r].job # j
      BY <1>1, <2>2, NumType, <1>0 DEF VerifyCommit, Inv, OwnRows, IsRowOf, JobIds, NoJob
    <3> QED BY <1>0, <1>1, <2>2, <3>1 DEF VerifyCommit, TypeOK
  <2>3. CASE Moved
    BY <1>0, <1>1, <2>3 DEF Moved, WorkerStep, Life!Work, OperatorMove, TypeOK
  <2> QED BY <1>1, <2>1, <2>2, <2>3, TableCases DEF TableStep, jobVars
<1>2. ASSUME NEW j \in JobIds, j >= nextJob' PROVE status'[j] = "none"
  <2>1. j \in Nat /\ j >= nextJob
    BY <1>a, <1>2 DEF JobIds
  <2>2. ASSUME NEW r \in Requests, pc[r] = "commit" PROVE req[r].job # j
    BY <1>0, <2>1, <2>2, <1>a DEF FreshIds, JobIds
  <2> QED BY <1>0, <1>1, <2>1, <2>2 DEF FreshIds
<1>3. ASSUME NEW j \in moved' PROVE status'[j] # "none"
  <2>1. CASE j \in moved
    BY <1>0, <2>1, RowsStep DEF FreshIds, TypeOK
  <2>2. CASE j \notin moved
    <3>1. status[j] # "none" /\ j \in JobIds
      BY <1>0, <1>3, <2>2, TableCases
      DEF TableStep, Moved, WorkerStep, Life!Work, OperatorMove, envVars,
          SubmitCommitWait, SubmitCommitVerified, VerifyCommit
    <3> QED BY <3>1, RowsStep
  <2> QED BY <2>1, <2>2
<1>4. ASSUME NEW r \in Requests, pc'[r] = "commit"
      PROVE  \/ pc[r] = "commit" /\ req'[r] = req[r]
             \/ /\ SubmitInsert(r) /\ req'[r].job = nextJob /\ nextJob \in JobIds
                /\ nextJob' = nextJob + 1 /\ nextJob \in bucket'
  <2>1. SubmitInsert(r) => /\ req'[r].job = nextJob /\ nextJob \in JobIds
                           /\ nextJob' = nextJob + 1 /\ nextJob \in bucket'
    BY <1>0, NumType DEF SubmitInsert, TypeOK, Locals
  <2>2. Busy(r) => SubmitInsert(r)
    BY <1>0, <1>4 DEF Busy, SubmitRead, AfterRead, VerifyRead, ResendRead, SubmitGuard,
       SubmitCommitVerified, VerifyCommit, Goto, Finish, TypeOK
  <2> QED BY <1>0, <1>4, <2>1, <2>2, SlotStep
<1>5. ASSUME NEW r \in Requests, pc'[r] = "commit"
      PROVE  /\ req'[r].job \in JobIds /\ req'[r].job < nextJob'
             /\ status'[req'[r].job] = "none" /\ req'[r].job \in bucket'
  <2>1. CASE pc[r] = "commit" /\ req'[r] = req[r]
    <3>1. /\ req[r].job \in JobIds /\ req[r].job < nextJob
          /\ status[req[r].job] = "none" /\ req[r].job \in bucket
      BY <1>0, <2>1 DEF FreshIds
    <3>2. ASSUME NEW q \in Requests, pc[q] = "commit", pc'[q] # "commit"
          PROVE  req[q].job # req[r].job
      BY <1>0, <1>5, <2>1, <3>2 DEF FreshIds
    <3> QED BY <1>a, <1>1, <2>1, <3>1, <3>2 DEF JobIds
  <2>2. CASE SubmitInsert(r)
    <3>1. /\ req'[r].job = nextJob /\ nextJob \in JobIds
          /\ nextJob' = nextJob + 1 /\ nextJob \in bucket'
      BY <1>0, <2>2, NumType DEF SubmitInsert, TypeOK, Locals
    <3>2. status[nextJob] = "none" /\ status' = status
      BY <1>0, <1>a, <2>2, <3>1 DEF FreshIds, SubmitInsert, jobVars
    <3> QED BY <1>a, <3>1, <3>2
  <2> QED BY <1>4, <1>5, <2>1, <2>2
<1>6. ASSUME NEW r \in Requests, NEW q \in Requests \ {r}, pc'[r] = "commit", pc'[q] = "commit"
      PROVE  req'[q].job # req'[r].job
  <2>1. ASSUME NEW x \in Requests, NEW y \in Requests, SubmitInsert(x), x # y,
               pc[y] = "commit", req'[x].job = nextJob, req'[y] = req[y]
        PROVE  req'[y].job # req'[x].job
    BY <1>0, <1>a, <2>1 DEF FreshIds, JobIds
  <2>2. ~ (SubmitInsert(r) /\ SubmitInsert(q))
    BY <1>0, <1>6 DEF SubmitInsert, TypeOK
  <2>3. CASE pc[r] = "commit" /\ req'[r] = req[r] /\ pc[q] = "commit" /\ req'[q] = req[q]
    BY <1>0, <2>3 DEF FreshIds
  <2> QED BY <1>4, <1>6, <2>1, <2>2, <2>3
<1> QED BY <1>2, <1>3, <1>5, <1>6 DEF FreshIds

-----------------------------------------------------------------------------
(* Counting jobs. *)

LEMMA JobSetFinite ==
    ASSUME NEW S \in SUBSET JobIds
    PROVE  IsFiniteSet(S) /\ Cardinality(S) \in Nat
<1>1. IsFiniteSet(JobIds)
  BY BoundsAssumption, FS_Interval DEF JobIds
<1> QED BY <1>1, FS_Subset, FS_CardinalityType

LEMMA JobSetGrows ==
    ASSUME NEW S \in SUBSET JobIds, NEW T \in SUBSET JobIds, S \subseteq T
    PROVE  Cardinality(S) <= Cardinality(T)
BY JobSetFinite, FS_Subset

LEMMA OneMoreJob ==
    ASSUME NEW S \in SUBSET JobIds, NEW j \in JobIds, j \notin S
    PROVE  Cardinality(S \cup {j}) = Cardinality(S) + 1
BY JobSetFinite, FS_AddElement

LEMMA CountedGrows ==
    ASSUME Inv, [Next]_vars, NEW n \in Numbers, Untouched(n)'
    PROVE  /\ Cardinality(Counted(n)) <= Cardinality(Counted(n)')
           /\ \A j \in JobIds :
                Cardinality(Counted(n) \cup {j}) <= Cardinality(Counted(n)' \cup {j})
           /\ Cardinality(Counted(n)) \in Nat /\ Cardinality(Counted(n)') \in Nat
           /\ \A j \in JobIds : /\ Cardinality(Counted(n) \cup {j}) \in Nat
                                /\ Cardinality(Counted(n)' \cup {j}) \in Nat
<1>1. Counted(n) \subseteq JobIds /\ Counted(n)' \subseteq JobIds
  BY DEF Counted
<1> QED BY <1>1, CountedStep, JobSetGrows, JobSetFinite

(* A count is loaded no higher than the jobs it counts, and those only     *)
(* become more.                                                            *)
LEMMA StaleCountsStep == Inv /\ [Next]_vars => StaleCounts'
<1> SUFFICES ASSUME Inv, [Next]_vars PROVE StaleCounts'
    OBVIOUS
<1> SUFFICES ASSUME NEW q \in Requests, NEW n \in Numbers, n = req'[q].num, Untouched(n)'
             PROVE  /\ Submitting(q)' /\ req'[q].status # "wait" =>
                          req'[q].count <= Cardinality(Counted(n)')
                    /\ pc'[q] = "verify" /\ req'[q].job # NoJob =>
                          req'[q].count + 1 <= Cardinality(Counted(n)' \cup {req'[q].job})
  <2>1. ASSUME NEW q \in Requests PROVE req'[q].num \in Numbers
    BY TypeStep DEF TypeOK, Locals
  <2>2. ASSUME NEW q \in Requests, NEW n \in Numbers, n = req'[q].num
        PROVE  /\ Untouched(n)' <=> Untouched(req[q].num)'
               /\ Counted(n)' = Counted(req[q].num)'
    BY <2>2 DEF Untouched, Counted, PastWait
  <2> QED BY <2>1, <2>2 DEF StaleCounts
<1>0. TypeOK /\ TypeOK' /\ StaleCounts /\ VideoCountNeverOvercounts
  BY TypeStep DEF Inv
<1>a. req'[q].count \in Nat /\ req'[q].job \in JobIds \cup {NoJob}
  BY <1>0 DEF TypeOK, Locals
<1>b. Untouched(n)
  BY UntouchedStep
<1>c. /\ Cardinality(Counted(n)) <= Cardinality(Counted(n)')
      /\ \A j \in JobIds : Cardinality(Counted(n) \cup {j}) <= Cardinality(Counted(n)' \cup {j})
      /\ Cardinality(Counted(n)) \in Nat /\ Cardinality(Counted(n)') \in Nat
      /\ \A j \in JobIds : /\ Cardinality(Counted(n) \cup {j}) \in Nat
                           /\ Cardinality(Counted(n)' \cup {j}) \in Nat
  BY CountedGrows
<1>d. videoCount[n] <= Cardinality(Counted(n)) /\ videoCount[n] \in Nat
  BY <1>0, <1>b DEF VideoCountNeverOvercounts, TypeOK
<1>f. ASSUME NEW k \in Nat, NEW j \in JobIds, k <= Cardinality(Counted(n) \cup {j})
      PROVE  k <= Cardinality(Counted(n)' \cup {j})
  <2> DEFINE a == Cardinality(Counted(n) \cup {j})
             b == Cardinality(Counted(n)' \cup {j})
  <2>1. a \in Nat /\ b \in Nat /\ a <= b
    BY <1>c
  <2> HIDE DEF a, b
  <2>2. k <= a => k <= b
    BY <2>1
  <2> QED BY <1>f, <2>2 DEF a, b
<1>e. ASSUME req[q].num = n
      PROVE  /\ Submitting(q) /\ req[q].status # "wait" =>
                   req[q].count <= Cardinality(Counted(n))
             /\ pc[q] = "verify" /\ req[q].job # NoJob =>
                   req[q].count + 1 <= Cardinality(Counted(n) \cup {req[q].job})
  BY <1>0, <1>b, <1>e DEF StaleCounts
<1>1. CASE pc'[q] = pc[q] /\ req'[q] = req[q]
  <2>1. CASE Submitting(q)' /\ req'[q].status # "wait"
    <3>1. req'[q].count <= Cardinality(Counted(n)) /\ pc'[q] # "verify"
      BY <1>1, <1>e, <2>1 DEF Submitting
    <3> QED BY <1>a, <1>c, <3>1
  <2>2. CASE pc'[q] = "verify" /\ req'[q].job # NoJob
    <3>1. req'[q].count + 1 <= Cardinality(Counted(n) \cup {req'[q].job})
      BY <1>1, <1>e, <2>2
    <3>2. req'[q].job \in JobIds /\ ~Submitting(q)'
      BY <1>a, <2>2 DEF Submitting
    <3>3. PICK k \in Nat : k = req'[q].count + 1
      BY <1>a
    <3>4. k <= Cardinality(Counted(n)' \cup {req'[q].job})
      BY <1>f, <3>1, <3>2, <3>3
    <3> QED BY <3>2, <3>3, <3>4
  <2> QED BY <2>1, <2>2
<1>2. CASE pc'[q] = "idle"
  BY <1>2 DEF Submitting
<1>3. CASE Busy(q) /\ pc'[q] # "idle"
  <2>1. ASSUME NEW m \in Numbers, SubmitRead(q, m)
        PROVE  req'[q].count <= Cardinality(Counted(n)') /\ pc'[q] # "verify"
    <3>1. req'[q].num = m /\ req'[q].count = videoCount[m] /\ pc'[q] # "verify"
      BY <1>0, <2>1 DEF SubmitRead, AfterRead, TypeOK, Blank
    <3> QED BY <1>c, <1>d, <3>1
  <2>2. ASSUME NEW m \in Numbers, VerifyRead(q, m)
        PROVE  /\ ~Submitting(q)'
               /\ req'[q].job # NoJob =>
                    req'[q].count + 1 <= Cardinality(Counted(n)' \cup {req'[q].job})
    <3>1. /\ req'[q].num = m /\ req'[q].count = videoCount[m]
          /\ req'[q].job \in FirstOf(WaitJobs(m)) /\ pc'[q] = "verify"
      BY <1>0, <2>2 DEF VerifyRead, TypeOK, Blank
    <3>2. CASE req'[q].job # NoJob
      <4>0. req'[q].job \in WaitJobs(n)
        BY <3>1, <3>2 DEF FirstOf
      <4>1. req'[q].job \in JobIds /\ req'[q].job \notin Counted(n) /\ Counted(n) \subseteq JobIds
        BY <4>0 DEF WaitJobs, Counted, PastWait
      <4>2. Cardinality(Counted(n) \cup {req'[q].job}) = Cardinality(Counted(n)) + 1
        BY <4>1, OneMoreJob
      <4>3. req'[q].count + 1 <= Cardinality(Counted(n) \cup {req'[q].job})
        BY <1>a, <1>c, <1>d, <3>1, <4>2
      <4> QED BY <1>a, <1>f, <3>1, <4>1, <4>3 DEF Submitting
    <3> QED BY <3>1, <3>2 DEF Submitting
  <2>3. CASE SubmitGuard(q) \/ SubmitInsert(q)
    <3>1. /\ Submitting(q) /\ req'[q].num = req[q].num /\ req'[q].status = req[q].status
          /\ req'[q].count = req[q].count /\ pc'[q] # "verify"
      BY <1>0, <1>3, <2>3, NumType
      DEF SubmitGuard, SubmitInsert, Submitting, Goto, Finish, TypeOK, Locals
    <3> QED BY <1>a, <1>c, <1>e, <3>1
  <2>4. CASE (\E m \in Numbers : ResendRead(q, m)) \/ SubmitCommitVerified(q) \/ VerifyCommit(q)
    <3>1. pc'[q] \notin {"guard", "insert", "commit", "verify"}
      BY <1>0, <2>4 DEF ResendRead, SubmitCommitVerified, VerifyCommit, Goto, Finish, TypeOK
    <3> QED BY <3>1 DEF Submitting
  <2> QED BY <1>3, <2>1, <2>2, <2>3, <2>4 DEF Busy
<1> QED BY <1>0, <1>1, <1>2, <1>3, SlotStep

-----------------------------------------------------------------------------
(* The parts of the invariant about the tables. *)

LEMMA ProcessedStep == Inv /\ [Next]_vars => ProcessedImpliesVerified'
<1> SUFFICES ASSUME Inv, [Next]_vars, NEW j \in JobIds, PastWait(j)', j \notin handled'
             PROVE  owner'[j] \in verified'
    BY DEF ProcessedImpliesVerified
<1>0. TypeOK BY DEF Inv
<1>1. CASE PastWait(j)
  <2>1. owner[j] \in verified /\ owner'[j] = owner[j] /\ verified \subseteq verified'
    BY <1>1, RowsStep DEF Inv, ProcessedImpliesVerified, PastWait
  <2> QED BY <2>1
<1>2. CASE ~PastWait(j)
  <2>1. ASSUME NEW r \in Requests, SubmitCommitWait(r) PROVE owner'[j] \in verified'
    BY <1>0, <1>2, <2>1 DEF SubmitCommitWait, CommitRow, PastWait, TypeOK
  <2>2. ASSUME NEW r \in Requests, SubmitCommitVerified(r) PROVE owner'[j] \in verified'
    <3>1. req[r].job = j
      BY <1>0, <1>2, <2>2 DEF SubmitCommitVerified, CommitRow, PastWait, TypeOK
    <3>2. owner'[j] = req[r].num /\ verified' = verified
      BY <1>0, <2>2, <3>1 DEF SubmitCommitVerified, CommitRow, TypeOK
    <3>3. req[r].num \in verified
      BY <2>2 DEF SubmitCommitVerified, Inv, FlowVerified, Submitting
    <3> QED BY <3>2, <3>3
  <2>3. ASSUME NEW r \in Requests, VerifyCommit(r) PROVE owner'[j] \in verified'
    <3>1. req[r].job = j /\ req[r].job # NoJob
      BY <1>0, <1>2, <2>3 DEF VerifyCommit, PastWait, TypeOK
    <3>2. owner'[j] = req[r].num
      BY <2>3, <3>1 DEF VerifyCommit, Inv, OwnRows, IsRowOf
    <3> QED BY <2>3, <3>2 DEF VerifyCommit
  <2>4. CASE Moved
    BY <1>0, <1>2, <2>4 DEF Moved, WorkerStep, Life!Work, OperatorMove, PastWait, TypeOK
  <2>5. CASE UNCHANGED <<userVars, jobVars, moved, handled>>
    BY <1>2, <2>5 DEF jobVars, PastWait
  <2> QED BY <2>1, <2>2, <2>3, <2>4, <2>5, TableCases DEF TableStep
<1> QED BY <1>1, <1>2

(* Whoever writes video_count has just added a job to the set it counts. *)
LEMMA VideoCountStep == Inv /\ [Next]_vars => VideoCountNeverOvercounts'
<1> SUFFICES ASSUME Inv, [Next]_vars, NEW n \in Numbers, Untouched(n)'
             PROVE  videoCount'[n] <= Cardinality(Counted(n)')
    BY DEF VideoCountNeverOvercounts
<1>0. TypeOK BY DEF Inv
<1>a. Untouched(n)
  BY UntouchedStep
<1>b. /\ Cardinality(Counted(n)) <= Cardinality(Counted(n)')
      /\ Cardinality(Counted(n)) \in Nat /\ Cardinality(Counted(n)') \in Nat
      /\ Counted(n) \subseteq Counted(n)'
      /\ Counted(n) \subseteq JobIds /\ Counted(n)' \subseteq JobIds
  BY CountedGrows, CountedStep DEF Counted
<1>1. CASE videoCount'[n] = videoCount[n]
  BY <1>0, <1>1, <1>a, <1>b DEF Inv, VideoCountNeverOvercounts, TypeOK
<1>2. ASSUME NEW r \in Requests, SubmitCommitVerified(r), req[r].num = n
      PROVE  videoCount'[n] <= Cardinality(Counted(n)')
  <2>1. videoCount'[n] = req[r].count + 1 /\ req[r].count \in Nat
    BY <1>0, <1>2, NumType DEF SubmitCommitVerified, CountUp, TypeOK
  <2>2. req[r].count <= Cardinality(Counted(n))
    BY <1>2, <1>a DEF Inv, StaleCounts, SubmitCommitVerified, Submitting
  <2>3. req[r].job \in JobIds /\ status[req[r].job] = "none"
    BY <1>2 DEF Inv, FreshIds, SubmitCommitVerified
  <2>4. req[r].job \notin Counted(n) /\ req[r].job \in Counted(n)'
    <3>1. status'[req[r].job] = req[r].status /\ owner'[req[r].job] = n
      BY <1>0, <1>2, <2>3 DEF SubmitCommitVerified, CommitRow, TypeOK
    <3>2. req[r].status \notin {"none", "wait"}
      BY <1>0, <1>2, NumType DEF SubmitCommitVerified, JobStatuses
    <3> QED BY <2>3, <3>1, <3>2 DEF Counted, PastWait
  <2>5. Cardinality(Counted(n)) + 1 <= Cardinality(Counted(n)')
    <3>1. Counted(n) \cup {req[r].job} \subseteq Counted(n)'
      BY <1>b, <2>4
    <3>2. Cardinality(Counted(n) \cup {req[r].job}) <= Cardinality(Counted(n)')
      BY <1>b, <2>3, <3>1, JobSetGrows
    <3>3. Cardinality(Counted(n) \cup {req[r].job}) = Cardinality(Counted(n)) + 1
      BY <1>b, <2>3, <2>4, OneMoreJob
    <3> QED BY <3>2, <3>3
  <2> QED BY <1>b, <2>1, <2>2, <2>5
<1>3. ASSUME NEW r \in Requests, VerifyCommit(r), req[r].num = n, req[r].job # NoJob
      PROVE  videoCount'[n] <= Cardinality(Counted(n)')
  <2>1. videoCount'[n] = req[r].count + 1 /\ req[r].count \in Nat /\ req[r].job \in JobIds
    BY <1>0, <1>3, NumType DEF VerifyCommit, CountUp, TypeOK
  <2>2. req[r].count + 1 <= Cardinality(Counted(n) \cup {req[r].job})
    BY <1>3, <1>a DEF Inv, StaleCounts, VerifyCommit
  <2>3. req[r].job \in Counted(n)'
    <3>1. owner'[req[r].job] = n
      BY <1>3 DEF VerifyCommit, Inv, OwnRows, IsRowOf
    <3>2. status'[req[r].job] \in {"process_stop", "queued"}
      BY <1>0, <1>3, <2>1 DEF VerifyCommit, NextStatus, TypeOK
    <3> QED BY <2>1, <3>1, <3>2 DEF Counted, PastWait
  <2>4. Counted(n) \cup {req[r].job} \subseteq Counted(n)'
    BY <1>b, <2>3
  <2>5. Cardinality(Counted(n) \cup {req[r].job}) <= Cardinality(Counted(n)')
    BY <1>b, <2>1, <2>4, JobSetGrows
  <2>6. Cardinality(Counted(n) \cup {req[r].job}) \in Nat
    BY <1>b, <2>1, JobSetFinite
  <2> QED BY <1>b, <2>1, <2>2, <2>5, <2>6
<1>4. ASSUME videoCount'[n] # videoCount[n]
      PROVE  \E r \in Requests : /\ req[r].num = n
                                 /\ \/ SubmitCommitVerified(r)
                                    \/ VerifyCommit(r) /\ req[r].job # NoJob
  <2>1. CASE Moved
    BY <1>4, <2>1 DEF Moved, WorkerStep, Life!Work, OperatorMove, userVars
  <2>2. ASSUME NEW r \in Requests, TableStep(r)
        PROVE  /\ req[r].num = n
               /\ SubmitCommitVerified(r) \/ (VerifyCommit(r) /\ req[r].job # NoJob)
    BY <1>0, <1>4, <2>2
    DEF TableStep, SubmitCommitWait, SubmitCommitVerified, VerifyCommit, CountUp, TypeOK
  <2> QED BY <1>4, <2>1, <2>2, TableCases DEF userVars
<1> QED BY <1>1, <1>2, <1>3, <1>4

LEMMA SelfieStep == Inv /\ [Next]_vars => CommittedJobHasSelfie'
<1> SUFFICES ASSUME Inv, [Next]_vars, NEW j \in JobIds, status'[j] # "none"
             PROVE  j \in assets' /\ j \in bucket'
    BY DEF CommittedJobHasSelfie
<1>0. TypeOK BY DEF Inv
<1>1. assets \subseteq assets' /\ bucket \subseteq bucket'
  <2>1. \/ \E r \in Requests : SubmitCommitWait(r) \/ SubmitCommitVerified(r)
        \/ UNCHANGED assets
    BY TableCases DEF TableStep, Moved, VerifyCommit, WorkerStep, Life!Work, OperatorMove, jobVars
  <2>2. (\E r \in Requests : SubmitInsert(r)) \/ UNCHANGED bucket
    BY DEF Next, Step, HandlerStep, vars, s3Vars, SubmitRead, VerifyRead, ResendRead, SubmitGuard,
       SubmitInsertFails, SubmitCommitWait, SubmitCommitVerified, SubmitNewOtp, SetPending,
       VerifyCommit, ResendCommit, Crash, Tick, PendingGone, ToggleValidation, WorkerStep,
       OperatorMove
  <2> QED BY <2>1, <2>2 DEF SubmitCommitWait, SubmitCommitVerified, CommitRow, SubmitInsert
<1>2. CASE status[j] # "none"
  BY <1>1, <1>2 DEF Inv, CommittedJobHasSelfie
<1>3. CASE status[j] = "none"
  <2>1. ASSUME NEW r \in Requests, SubmitCommitWait(r) \/ SubmitCommitVerified(r)
        PROVE  j \in assets' /\ j \in bucket'
    <3>1. req[r].job = j
      BY <1>0, <1>3, <2>1 DEF SubmitCommitWait, SubmitCommitVerified, CommitRow, TypeOK
    <3>2. j \in bucket
      BY <2>1, <3>1 DEF SubmitCommitWait, SubmitCommitVerified, Inv, FreshIds
    <3> QED
      BY <1>1, <2>1, <3>1, <3>2 DEF SubmitCommitWait, SubmitCommitVerified, CommitRow
  <2>2. ASSUME NEW r \in Requests, VerifyCommit(r) PROVE FALSE
    BY <1>0, <1>3, <2>2 DEF VerifyCommit, TypeOK, Inv, OwnRows, IsRowOf
  <2>3. CASE Moved
    BY <1>0, <1>3, <2>3 DEF Moved, WorkerStep, Life!Work, OperatorMove, TypeOK
  <2> QED BY <1>3, <2>1, <2>2, <2>3, TableCases DEF TableStep, jobVars
<1> QED BY <1>2, <1>3

LEMMA PendingStep == Inv /\ [Next]_vars => PendingIsOwnJob'
<1> SUFFICES ASSUME Inv, [Next]_vars, NEW n \in Numbers, pending'[n] # NoJob
             PROVE  status'[pending'[n]] # "none" /\ owner'[pending'[n]] = n
    BY DEF PendingIsOwnJob
<1>0. TypeOK BY DEF Inv
<1>1. ASSUME NEW j \in JobIds \cup {NoJob}, IsRowOf(j, n), j # NoJob
      PROVE  status'[j] # "none" /\ owner'[j] = n
  BY <1>1, RowsStep DEF IsRowOf
<1>2. CASE pending'[n] = pending[n]
  <2>1. IsRowOf(pending[n], n)
    BY <1>2 DEF Inv, PendingIsOwnJob, IsRowOf
  <2> QED BY <1>0, <1>1, <1>2, <2>1 DEF TypeOK
<1>3. ASSUME NEW r \in Requests, SubmitGuard(r), pending'[n] # pending[n]
      PROVE  pending'[n] = req[r].seen /\ IsRowOf(req[r].seen, n)
  BY <1>0, <1>3 DEF SubmitGuard, TypeOK, Inv, OwnRows
<1>4. ASSUME NEW r \in Requests, SetPending(r), pending'[n] # pending[n]
      PROVE  pending'[n] = req[r].job /\ IsRowOf(req[r].job, n)
  BY <1>0, <1>4 DEF SetPending, TypeOK, Inv, OwnRows
<1>5. ASSUME NEW m \in Numbers, PendingGone(m) PROVE pending'[n] = pending[n]
  BY <1>0, <1>5 DEF PendingGone, TypeOK
<1>6. \/ \E r \in Requests : SubmitGuard(r) \/ SetPending(r)
      \/ \E m \in Numbers : PendingGone(m)
      \/ UNCHANGED pending
  BY DEF Next, Step, HandlerStep, vars, SubmitRead, VerifyRead, ResendRead, SubmitInsert,
     SubmitInsertFails, SubmitCommitWait, SubmitCommitVerified, SubmitNewOtp,
     VerifyCommit, ResendCommit, Crash, Tick, ToggleValidation, WorkerStep, Life!Work, OperatorMove
<1> QED BY <1>0, <1>1, <1>2, <1>3, <1>4, <1>5, <1>6, NumType

-----------------------------------------------------------------------------
(* One waiting job per user. *)

LEMMA UsersFirstStep == Inv /\ [Next]_vars => UsersFirst'
<1> SUFFICES ASSUME Inv, [Next]_vars PROVE UsersFirst'
    OBVIOUS
<1>0. TypeOK /\ UsersFirst BY DEF Inv
<1>1. ASSUME NEW r \in Requests, SubmitCommitWait(r) PROVE UsersFirst'
  BY <1>0, <1>1 DEF SubmitCommitWait, CommitRow, UsersFirst, TypeOK
<1>2. ASSUME NEW r \in Requests, SubmitCommitVerified(r) PROVE UsersFirst'
  <2>1. req[r].num \in users
    BY <1>0, <1>2 DEF SubmitCommitVerified, Inv, FlowVerified, Submitting, UsersFirst
  <2> QED BY <1>0, <1>2, <2>1 DEF SubmitCommitVerified, CommitRow, UsersFirst, TypeOK
<1>3. ASSUME NEW r \in Requests, VerifyCommit(r) PROVE UsersFirst'
  <2>1. req[r].num \in users
    BY <1>3 DEF VerifyCommit, Inv, VerifySeesWait
  <2>2. \A j \in JobIds : status'[j] # "none" => status[j] # "none" \/ j = req[r].job
    BY <1>0, <1>3 DEF VerifyCommit, TypeOK
  <2>3. req[r].job # NoJob => status[req[r].job] # "none"
    BY <1>3 DEF VerifyCommit, Inv, OwnRows, IsRowOf
  <2> QED
    BY <1>0, <1>3, <2>1, <2>2, <2>3 DEF VerifyCommit, UsersFirst, JobIds, NoJob
<1>4. CASE Moved
  BY <1>0, <1>4 DEF Moved, WorkerStep, Life!Work, OperatorMove, UsersFirst, TypeOK, userVars
<1>5. CASE UNCHANGED <<userVars, jobVars, moved, handled>>
  BY <1>0, <1>5 DEF UsersFirst, userVars, jobVars
<1> QED BY <1>1, <1>2, <1>3, <1>4, <1>5, TableCases DEF TableStep

(* A job appears in "wait" only with its user, *)
LEMMA EnterWait ==
    ASSUME Inv, [Next]_vars, NEW n \in Numbers, Untouched(n)',
           NEW j \in JobIds, status'[j] = "wait", owner'[j] = n
    PROVE  \/ status[j] = "wait" /\ owner[j] = n
           \/ \E r \in Requests : /\ SubmitCommitWait(r) /\ req[r].num = n /\ req[r].job = j
                                  /\ n \notin users
<1>0. TypeOK BY DEF Inv
<1>a. Untouched(n)
  BY UntouchedStep
<1>1. ASSUME NEW r \in Requests, SubmitCommitWait(r)
      PROVE  \/ status[j] = "wait" /\ owner[j] = n
             \/ req[r].num = n /\ req[r].job = j /\ n \notin users
  <2>1. CASE req[r].job = j
    <3>1. req[r].num = n
      BY <1>0, <1>1, <2>1 DEF SubmitCommitWait, CommitRow, TypeOK
    <3> QED
      BY <1>0, <1>1, <1>a, <2>1, <3>1, NumType DEF SubmitCommitWait, Inv, NewUsersOnly, Submitting
  <2>2. CASE req[r].job # j
    BY <1>0, <1>1, <2>2 DEF SubmitCommitWait, CommitRow, TypeOK
  <2> QED BY <2>1, <2>2
<1>2. ASSUME NEW r \in Requests, SubmitCommitVerified(r)
      PROVE  status[j] = "wait" /\ owner[j] = n
  BY <1>0, <1>2 DEF SubmitCommitVerified, CommitRow, TypeOK
<1>3. ASSUME NEW r \in Requests, VerifyCommit(r)
      PROVE  status[j] = "wait" /\ owner[j] = n
  BY <1>0, <1>3 DEF VerifyCommit, NextStatus, TypeOK
<1>4. CASE Moved
  BY <1>0, <1>4 DEF Moved, WorkerStep, Life!Work, OperatorMove, TypeOK, Untouched
<1>5. CASE UNCHANGED <<userVars, jobVars, moved, handled>>
  BY <1>5 DEF jobVars
<1> QED BY <1>1, <1>2, <1>3, <1>4, <1>5, TableCases DEF TableStep

(* and leaves it only with its user's verification. *)
LEMMA LeaveWait ==
    ASSUME Inv, [Next]_vars, NEW n \in Numbers, Untouched(n)',
           NEW j \in JobIds, status[j] = "wait", owner[j] = n, n \notin verified'
    PROVE  status'[j] = "wait" /\ owner'[j] = n
<1>0. TypeOK BY DEF Inv
<1>1. ASSUME NEW r \in Requests, SubmitCommitWait(r) \/ SubmitCommitVerified(r)
      PROVE  status'[j] = "wait" /\ owner'[j] = n
  <2>1. req[r].job # j
    BY <1>1 DEF SubmitCommitWait, SubmitCommitVerified, Inv, FreshIds
  <2> QED BY <1>0, <1>1, <2>1 DEF SubmitCommitWait, SubmitCommitVerified, CommitRow, TypeOK
<1>2. ASSUME NEW r \in Requests, VerifyCommit(r)
      PROVE  status'[j] = "wait" /\ owner'[j] = n
  <2>1. req[r].job # j
    BY <1>2 DEF VerifyCommit, Inv, OwnRows, IsRowOf, NoJob, JobIds
  <2> QED BY <1>0, <1>2, <2>1 DEF VerifyCommit, TypeOK
<1>3. CASE Moved
  BY <1>0, <1>3 DEF Moved, WorkerStep, Life!Work, OperatorMove, TypeOK, Untouched
<1>4. CASE UNCHANGED <<userVars, jobVars, moved, handled>>
  BY <1>4 DEF jobVars
<1> QED BY <1>1, <1>2, <1>3, <1>4, TableCases DEF TableStep

LEMMA OneWaitJobStep == Inv /\ [Next]_vars => OneWaitJob'
<1> SUFFICES ASSUME Inv, [Next]_vars, NEW n \in Numbers, Untouched(n)'
             PROVE  /\ n \in users' \ verified' => WaitJobs(n)' # {}
                    /\ \A j, k \in WaitJobs(n)' : j = k
    BY DEF OneWaitJob
<1>0. TypeOK /\ OneWaitJob /\ UsersFirst BY DEF Inv
<1>a. Untouched(n)
  BY UntouchedStep
<1>1. ASSUME n \in users' \ verified' PROVE WaitJobs(n)' # {}
  <2>1. CASE n \in users
    <3>1. PICK j \in JobIds : status[j] = "wait" /\ owner[j] = n
      BY <1>0, <1>1, <1>a, <2>1, RowsStep DEF OneWaitJob, WaitJobs
    <3> QED BY <1>1, <3>1, LeaveWait DEF WaitJobs
  <2>2. CASE n \notin users
    <3>1. PICK r \in Requests : SubmitCommitWait(r) /\ req[r].num = n
      BY <1>1, <2>2, TableCases
      DEF TableStep, Moved, SubmitCommitWait, SubmitCommitVerified, VerifyCommit,
          WorkerStep, Life!Work, OperatorMove, userVars
    <3>2. req[r].job \in JobIds
      BY <3>1 DEF SubmitCommitWait, Inv, FreshIds
    <3>3. status'[req[r].job] = "wait" /\ owner'[req[r].job] = n
      BY <1>0, <3>1, <3>2 DEF SubmitCommitWait, CommitRow, TypeOK
    <3> QED BY <3>2, <3>3 DEF WaitJobs
  <2> QED BY <2>1, <2>2
<1>2. ASSUME NEW j \in WaitJobs(n)', NEW k \in WaitJobs(n)', j # k PROVE FALSE
  <2>0. /\ j \in JobIds /\ status'[j] = "wait" /\ owner'[j] = n
        /\ k \in JobIds /\ status'[k] = "wait" /\ owner'[k] = n
    BY DEF WaitJobs
  <2>1. CASE n \in users
    <3>1. j \in WaitJobs(n) /\ k \in WaitJobs(n)
      BY <2>0, <2>1, EnterWait DEF WaitJobs
    <3> QED BY <1>0, <1>2, <1>a, <3>1 DEF OneWaitJob
  <2>2. CASE n \notin users
    <3>1. ~(status[j] = "wait" /\ owner[j] = n) /\ ~(status[k] = "wait" /\ owner[k] = n)
      BY <1>0, <2>0, <2>2 DEF UsersFirst
    <3>2. PICK r \in Requests : SubmitCommitWait(r) /\ req[r].job = j
      BY <2>0, <3>1, EnterWait
    <3>3. status'[k] = status[k] /\ owner'[k] = owner[k]
      BY <1>0, <1>2, <2>0, <3>2 DEF SubmitCommitWait, CommitRow, TypeOK
    <3> QED BY <2>0, <3>1, <3>3
  <2> QED BY <2>1, <2>2
<1> QED BY <1>1, <1>2

LEMMA NoWaitJobStep == Inv /\ [Next]_vars => NoWaitJobOnceVerified'
<1> SUFFICES ASSUME Inv, [Next]_vars, NEW n \in Numbers, n \in verified', Untouched(n)',
                    NEW j \in JobIds, status'[j] = "wait", owner'[j] = n
             PROVE  FALSE
  <2>1. ASSUME Inv, [Next]_vars PROVE verified' \subseteq Numbers
    BY <2>1, TypeStep DEF TypeOK
  <2> QED BY <2>1 DEF NoWaitJobOnceVerified, WaitJobs
<1>0. TypeOK /\ Untouched(n)
  BY UntouchedStep DEF Inv
<1>1. CASE status[j] = "wait" /\ owner[j] = n
  <2>1. n \notin verified
    BY <1>0, <1>1 DEF Inv, NoWaitJobOnceVerified, WaitJobs
  <2>2. PICK r \in Requests : VerifyCommit(r) /\ req[r].num = n
    BY <2>1, TableCases
    DEF TableStep, Moved, SubmitCommitWait, SubmitCommitVerified, VerifyCommit,
        WorkerStep, Life!Work, OperatorMove, userVars
  <2>3. req[r].job = j
    BY <1>0, <1>1, <2>2 DEF VerifyCommit, Inv, VerifySeesWait, WaitJobs
  <2>4. req[r].job # NoJob
    BY <2>3 DEF NoJob, JobIds
  <2> QED BY <1>0, <2>2, <2>3, <2>4 DEF VerifyCommit, NextStatus, TypeOK
<1>2. CASE \E r \in Requests : SubmitCommitWait(r) /\ n \notin users
  BY <1>2 DEF SubmitCommitWait, Inv, UsersFirst
<1> QED BY <1>1, <1>2, EnterWait

LEMMA VerifySeesWaitStep == Inv /\ [Next]_vars => VerifySeesWait'
<1> SUFFICES ASSUME Inv, [Next]_vars PROVE VerifySeesWait'
    OBVIOUS
<1> SUFFICES ASSUME NEW q \in Requests, NEW n \in Numbers, n = req'[q].num, pc'[q] = "verify"
             PROVE  /\ n \in users'
                    /\ Untouched(n)' => WaitJobs(n)' \subseteq {req'[q].job}
  <2>1. ASSUME NEW q \in Requests PROVE req'[q].num \in Numbers
    BY TypeStep DEF TypeOK, Locals
  <2>2. ASSUME NEW q \in Requests, NEW n \in Numbers, n = req'[q].num
        PROVE  /\ Untouched(n)' <=> Untouched(req[q].num)'
               /\ WaitJobs(n)' = WaitJobs(req[q].num)'
    BY <2>2 DEF Untouched, WaitJobs
  <2> QED BY <2>1, <2>2 DEF VerifySeesWait
<1>0. TypeOK BY DEF Inv
<1>1. CASE pc'[q] = pc[q] /\ req'[q] = req[q]
  <2>1. n \in users /\ (Untouched(n) => WaitJobs(n) \subseteq {req'[q].job})
    BY <1>1 DEF Inv, VerifySeesWait
  <2>2. ASSUME Untouched(n)', NEW j \in WaitJobs(n)' PROVE j \in WaitJobs(n)
    BY <2>1, <2>2, EnterWait DEF WaitJobs
  <2> QED BY <2>1, <2>2, RowsStep, UntouchedStep
<1>2. CASE Busy(q)
  <2>1. VerifyRead(q, n)
    <3>1. ASSUME NEW m \in Numbers, VerifyRead(q, m) PROVE m = n
      BY <1>0, <3>1 DEF VerifyRead, TypeOK, Blank
    <3>2. ASSUME NEW m \in Numbers, SubmitRead(q, m) \/ ResendRead(q, m) PROVE FALSE
      BY <1>0, <3>2 DEF SubmitRead, AfterRead, ResendRead, TypeOK
    <3>3. ~ (SubmitGuard(q) \/ SubmitInsert(q) \/ SubmitCommitVerified(q) \/ VerifyCommit(q))
      BY <1>0 DEF SubmitGuard, SubmitInsert, SubmitCommitVerified, VerifyCommit, Goto, Finish,
         TypeOK
    <3> QED BY <1>2, <3>1, <3>2, <3>3 DEF Busy
  <2>2. /\ n \in users /\ users' = users /\ req'[q].job \in FirstOf(WaitJobs(n))
        /\ WaitJobs(n)' = WaitJobs(n)
    BY <1>0, <2>1 DEF VerifyRead, TypeOK, Blank, WaitJobs, userVars, jobVars
  <2>3. Untouched(n) => \A j, k \in WaitJobs(n) : j = k
    BY DEF Inv, OneWaitJob
  <2> QED BY <2>2, <2>3, UntouchedStep DEF FirstOf
<1> QED BY <1>0, <1>1, <1>2, SlotStep

LEMMA NewUsersOnlyStep == Inv /\ [Next]_vars => NewUsersOnly'
<1> SUFFICES ASSUME Inv, [Next]_vars PROVE NewUsersOnly'
    OBVIOUS
<1> SUFFICES ASSUME NEW q \in Requests, NEW n \in Numbers, n = req'[q].num, Submitting(q)'
             PROVE  /\ req'[q].isNew => req'[q].status = "wait"
                    /\ req'[q].status = "wait" /\ ~req'[q].isNew => n \in users' /\ ~Untouched(n)'
                    /\ req'[q].isNew /\ pc'[q] = "commit" =>
                          /\ n \notin users'
                          /\ \A x \in Requests \ {q} :
                                pc'[x] = "commit" /\ req'[x].isNew => req'[x].num # n
  <2>1. ASSUME NEW q \in Requests PROVE req'[q].num \in Numbers
    BY TypeStep DEF TypeOK, Locals
  <2>2. ASSUME NEW q \in Requests, NEW n \in Numbers, n = req'[q].num
        PROVE  Untouched(n)' <=> Untouched(req[q].num)'
    BY <2>2 DEF Untouched
  <2> QED BY <2>1, <2>2 DEF NewUsersOnly
<1>0. TypeOK BY DEF Inv
(* What a slot in "commit" did in this step. *)
<1>a. ASSUME NEW x \in Requests, pc'[x] = "commit"
      PROVE  (pc[x] = "commit" /\ req'[x] = req[x]) \/ SubmitInsert(x)
  <2>1. Busy(x) => SubmitInsert(x)
    BY <1>0, <1>a DEF Busy, SubmitRead, AfterRead, VerifyRead, ResendRead, SubmitGuard,
       SubmitCommitVerified, VerifyCommit, Goto, Finish, TypeOK
  <2> QED BY <1>0, <1>a, <2>1, SlotStep
<1>b. ASSUME NEW x \in Requests, SubmitInsert(x)
      PROVE  /\ req'[x].isNew = req[x].isNew /\ req'[x].num = req[x].num
             /\ req'[x].status = req[x].status /\ users' = users
             /\ \A y \in Requests \ {x} : pc'[y] = pc[y] /\ req'[y] = req[y]
             /\ req[x].isNew => /\ req[x].num \notin users
                                /\ \A y \in Requests \ {x} :
                                      pc[y] = "commit" /\ req[y].isNew => req[y].num # req[x].num
  BY <1>0, <1>b, NumType DEF SubmitInsert, InsertBlocked, DuplicateUser, userVars, TypeOK, Locals
<1>1. CASE pc'[q] = pc[q] /\ req'[q] = req[q]
  <2>1. Submitting(q) /\ req[q].num = n
    BY <1>1 DEF Submitting
  <2>2. ASSUME req[q].isNew, pc[q] = "commit"
        PROVE  /\ n \notin users'
               /\ \A x \in Requests \ {q} :
                     pc'[x] = "commit" /\ req'[x].isNew => req'[x].num # n
    <3>1. /\ n \notin users
          /\ \A x \in Requests \ {q} : pc[x] = "commit" /\ req[x].isNew => req[x].num # n
      BY <2>1, <2>2 DEF Inv, NewUsersOnly
    <3>2. ASSUME n \in users' PROVE FALSE
      <4>1. PICK r \in Requests : SubmitCommitWait(r) /\ req[r].num = n
        BY <3>1, <3>2, TableCases
        DEF TableStep, Moved, SubmitCommitWait, SubmitCommitVerified, VerifyCommit,
            WorkerStep, Life!Work, OperatorMove, userVars
      <4>2. r # q
        BY <1>0, <1>1, <2>2, <4>1 DEF SubmitCommitWait, Finish, TypeOK
      <4>3. pc[r] = "commit" /\ req[r].status = "wait" /\ Submitting(r)
        BY <4>1 DEF SubmitCommitWait, Submitting
      <4>4. ~req[r].isNew
        BY <3>1, <4>1, <4>2, <4>3
      <4> QED BY <3>1, <4>1, <4>3, <4>4 DEF Inv, NewUsersOnly
    <3>3. ASSUME NEW x \in Requests \ {q}, pc'[x] = "commit", req'[x].isNew
          PROVE  req'[x].num # n
      BY <1>a, <1>b, <2>1, <2>2, <3>1, <3>3
    <3> QED BY <3>2, <3>3
  <2>3. ASSUME req[q].status = "wait", ~req[q].isNew PROVE n \in users' /\ ~Untouched(n)'
    <3>1. n \in users /\ ~Untouched(n)
      BY <2>1, <2>3 DEF Inv, NewUsersOnly
    <3> QED BY <3>1, RowsStep, UntouchedStep
  <2>4. req[q].isNew => req[q].status = "wait"
    BY <2>1 DEF Inv, NewUsersOnly
  <2> QED BY <1>1, <2>2, <2>3, <2>4
<1>2. ASSUME SubmitRead(q, n)
      PROVE  /\ req'[q].isNew => req'[q].status = "wait"
             /\ req'[q].status = "wait" /\ ~req'[q].isNew => n \in users' /\ ~Untouched(n)'
             /\ pc'[q] # "commit"
  <2>1. /\ req'[q].isNew = (n \notin users) /\ pc'[q] = AfterRead(n) /\ users' = users
        /\ req'[q].status = IF n \in verified THEN InitialStatus(n) ELSE "wait"
    BY <1>0, <1>2 DEF SubmitRead, TypeOK, Blank, userVars
  <2>2. verified \subseteq users
    BY DEF Inv, UsersFirst
  <2>3. InitialStatus(n) # "wait" /\ pc'[q] # "commit"
    BY <2>1 DEF InitialStatus, AfterRead
  <2>4. ASSUME n \in users, n \notin verified PROVE ~Untouched(n)'
    <3>1. WaitJobs(n) = {}
      BY <2>1, <2>4 DEF Submitting, AfterRead
    <3>2. ~Untouched(n)
      BY <2>4, <3>1 DEF Inv, OneWaitJob
    <3> QED BY <3>2, UntouchedStep
  <2> QED BY <2>1, <2>2, <2>3, <2>4
<1>3. CASE SubmitGuard(q) \/ SubmitInsert(q)
  <2>1. /\ Submitting(q) /\ req[q].num = n /\ req'[q].isNew = req[q].isNew
        /\ req'[q].status = req[q].status /\ (pc'[q] = "commit" => SubmitInsert(q))
    BY <1>0, <1>3, NumType
    DEF SubmitGuard, SubmitInsert, Submitting, Goto, Finish, TypeOK, Locals
  <2>2. /\ req[q].isNew => req[q].status = "wait"
        /\ req[q].status = "wait" /\ ~req[q].isNew => n \in users /\ ~Untouched(n)
    BY <2>1 DEF Inv, NewUsersOnly
  <2> QED BY <1>b, <2>1, <2>2, RowsStep, UntouchedStep
<1>4. CASE Busy(q)
  <2>1. SubmitRead(q, n) \/ SubmitGuard(q) \/ SubmitInsert(q)
    <3>1. ASSUME NEW m \in Numbers, SubmitRead(q, m) PROVE m = n
      BY <1>0, <3>1 DEF SubmitRead, TypeOK, Blank
    <3>2. ASSUME NEW m \in Numbers, VerifyRead(q, m) \/ ResendRead(q, m) PROVE FALSE
      BY <1>0, <3>2 DEF VerifyRead, ResendRead, Submitting, TypeOK
    <3>3. ~ (SubmitCommitVerified(q) \/ VerifyCommit(q))
      BY <1>0 DEF SubmitCommitVerified, VerifyCommit, Goto, Finish, Submitting, TypeOK
    <3> QED BY <1>4, <3>1, <3>2, <3>3 DEF Busy
  <2> QED BY <1>2, <1>3, <2>1
<1> QED BY <1>0, <1>1, <1>4, SlotStep DEF Submitting

-----------------------------------------------------------------------------
(* Numbers whose requests come one at a time.                              *)

LEMMA SettingsFixed ==
    ASSUME [Next]_vars
    PROVE  settings' = settings /\ (UNCHANGED <<moved, handled>>
                                    \/ \E j \in JobIds, s \in OperatorTargets : OperatorMove(j, s))
<1>1. ASSUME NEW r \in Requests, HandlerStep(r) PROVE UNCHANGED envVars
  BY <1>1 DEF HandlerStep, SubmitRead, VerifyRead, ResendRead, SubmitGuard,
     SubmitInsert, SubmitInsertFails, SubmitCommitWait, SubmitCommitVerified, SubmitNewOtp,
     SetPending, VerifyCommit, ResendCommit, Crash
<1>2. ASSUME (\E o \in OtpIds : Tick(o)) \/ (\E n \in Numbers : PendingGone(n))
             \/ (\E j \in JobIds, s \in JobStatuses : WorkerStep(j, s)) \/ UNCHANGED vars
      PROVE UNCHANGED envVars
  BY <1>2 DEF Tick, PendingGone, WorkerStep, vars
<1> QED BY <1>1, <1>2 DEF Next, Step, envVars, ToggleValidation, OperatorMove

LEMMA MovedGrows ==
    ASSUME [Next]_vars
    PROVE  moved \subseteq moved' /\ overlapped \subseteq overlapped'
<1>1. overlapped \subseteq overlapped'
  BY DEF Next, vars
<1> QED BY <1>1, SettingsFixed DEF OperatorMove

LEMMA SerialStep ==
    ASSUME Inv, [Next]_vars, NEW n \in Numbers, Serial(n)'
    PROVE  /\ Serial(n) /\ Untouched(n)
           /\ \A j \in JobIds, s \in JobStatuses : OperatorMove(j, s) => owner[j] # n
           /\ \A r, q \in Requests : Serving(r, n) /\ Serving(q, n) => r = q
<1>0. TypeOK /\ MeetingsSeen /\ FreshIds BY DEF Inv, SerialInv
<1>1. \A j \in moved : owner[j] # n
  BY <1>0, MovedGrows, RowsStep DEF Serial, TypeOK, FreshIds
<1>2. ASSUME NEW j \in JobIds, NEW s \in JobStatuses, OperatorMove(j, s) PROVE owner[j] # n
  BY <1>0, <1>2 DEF Serial, OperatorMove
<1> QED
  BY <1>0, <1>1, <1>2, MovedGrows DEF Serial, MeetingsSeen, Meeting, Untouched, TypeOK

LEMMA MeetingsStep == Inv /\ [Next]_vars => MeetingsSeen'
<1> SUFFICES ASSUME Inv, [Next]_vars PROVE MeetingsSeen'
    OBVIOUS
<1>0. TypeOK /\ MeetingsSeen BY DEF Inv, SerialInv
<1>1. CASE Next BY <1>1 DEF Next, MeetingsSeen
<1>2. CASE UNCHANGED vars BY <1>0, <1>2 DEF vars, MeetingsSeen, Meeting, Serving
<1> QED BY <1>1, <1>2

(* A lone verification's job waits until it commits. *)
LEMMA StillWaitsStep == Inv /\ [Next]_vars => StillWaits'
<1> SUFFICES ASSUME Inv, [Next]_vars, NEW q \in Requests, pc'[q] = "verify",
                    req'[q].num \notin overlapped', req'[q].job \notin {NoJob} \cup moved'
             PROVE  status'[req'[q].job] = "wait"
  BY DEF StillWaits
<1>0. TypeOK /\ StillWaits /\ MeetingsSeen BY DEF Inv, SerialInv
<1>1. ASSUME NEW j \in JobIds, status[j] = "wait", j \notin moved',
             \A r \in Requests : VerifyCommit(r) => req[r].job # j
      PROVE  status'[j] = "wait"
  <2>1. ASSUME NEW r \in Requests, SubmitCommitWait(r) \/ SubmitCommitVerified(r)
        PROVE  status'[j] = "wait"
    <3>1. status[req[r].job] = "none"
      BY <2>1 DEF Inv, FreshIds, SubmitCommitWait, SubmitCommitVerified
    <3> QED
      BY <1>0, <1>1, <2>1, <3>1 DEF SubmitCommitWait, SubmitCommitVerified, CommitRow, TypeOK
  <2>2. ASSUME NEW r \in Requests, VerifyCommit(r) PROVE status'[j] = "wait"
    BY <1>0, <1>1, <2>2 DEF VerifyCommit, TypeOK
  <2>3. ASSUME Moved PROVE status'[j] = "wait"
    BY <1>0, <1>1, <2>3 DEF Moved, WorkerStep, Life!Work, OperatorMove, TypeOK
  <2> QED BY <1>1, <2>1, <2>2, <2>3, TableCases DEF TableStep, jobVars
<1>2. CASE pc'[q] = pc[q] /\ req'[q] = req[q]
  <2>1. /\ req[q].job \in JobIds /\ owner[req[q].job] = req[q].num
        /\ req[q].num \notin overlapped /\ req[q].job \notin moved
        /\ req[q].num \in Numbers
    BY <1>0, <1>2, MovedGrows, NumType DEF Inv, OwnRows, IsRowOf
  <2>2. status[req[q].job] = "wait"
    BY <1>0, <1>2, <2>1 DEF StillWaits, JobIds, NoJob
  <2>3. ASSUME NEW r \in Requests, VerifyCommit(r), req[r].job = req[q].job PROVE FALSE
    <3>1. pc[r] = "verify" /\ pc'[r] # "verify"
      BY <1>0, <2>3 DEF VerifyCommit, Finish, Goto, TypeOK
    <3>2. req[r].num = req[q].num
      BY <1>0, <2>1, <2>3, <3>1 DEF Inv, OwnRows, IsRowOf, JobIds, NoJob
    <3> QED BY <1>0, <1>2, <2>1, <3>1, <3>2 DEF MeetingsSeen, Meeting, Serving
  <2> QED BY <1>1, <1>2, <2>1, <2>2, <2>3
<1>3. CASE Busy(q)
  <2>1. PICK n \in Numbers : VerifyRead(q, n)
    BY <1>0, <1>3 DEF Busy, SubmitRead, AfterRead, ResendRead, SubmitGuard, SubmitInsert,
       SubmitCommitVerified, VerifyCommit, Goto, Finish, TypeOK
  <2>2. req'[q].job \in FirstOf(WaitJobs(n)) /\ status' = status
    BY <1>0, <2>1 DEF VerifyRead, TypeOK, Blank, jobVars
  <2> QED BY <2>2 DEF FirstOf, WaitJobs
<1> QED BY <1>0, <1>2, <1>3, SlotStep

(* Commits for other numbers and the workers leave a number's counts alone. *)
LEMMA OthersStep ==
    ASSUME Inv, [Next]_vars, NEW n \in Numbers, Serial(n)',
           \A r \in Requests : TableStep(r) => req[r].num # n
    PROVE  /\ videoCount'[n] = videoCount[n] /\ Counted(n)' = Counted(n)
           /\ InFlightJobs(n)' \subseteq InFlightJobs(n)
<1>0. TypeOK BY DEF Inv
<1>1. ASSUME NEW r \in Requests, SubmitCommitWait(r) \/ SubmitCommitVerified(r), req[r].num # n
      PROVE  /\ videoCount'[n] = videoCount[n]
             /\ \A j \in JobIds : \/ status'[j] = status[j] /\ owner'[j] = owner[j]
                                  \/ status[j] = "none" /\ owner'[j] # n
  <2>1. req[r].job \in JobIds /\ status[req[r].job] = "none"
    BY <1>1 DEF Inv, FreshIds, SubmitCommitWait, SubmitCommitVerified
  <2> QED
    BY <1>0, <1>1, <2>1
    DEF SubmitCommitWait, SubmitCommitVerified, CommitRow, CountUp, TypeOK
<1>2. ASSUME NEW r \in Requests, VerifyCommit(r), req[r].num # n
      PROVE  /\ videoCount'[n] = videoCount[n]
             /\ \A j \in JobIds : \/ status'[j] = status[j] /\ owner'[j] = owner[j]
                                  \/ owner[j] # n /\ owner'[j] # n
  <2>1. IsRowOf(req[r].job, req[r].num)
    BY <1>2 DEF VerifyCommit, Inv, OwnRows
  <2> QED BY <1>0, <1>2, <2>1, NumType DEF VerifyCommit, CountUp, IsRowOf, TypeOK
<1>3. ASSUME NEW j \in JobIds, NEW s \in JobStatuses, WorkerStep(j, s)
      PROVE  /\ videoCount' = videoCount /\ owner' = owner /\ PastWait(j) /\ PastWait(j)'
             /\ InFlight(j)' => InFlight(j)
             /\ \A k \in JobIds \ {j} : status'[k] = status[k]
  BY <1>0, <1>3 DEF WorkerStep, Life!Work, PastWait, InFlight, TypeOK, userVars, JobStatuses
<1>4. CASE UNCHANGED <<userVars, jobVars, moved, handled>>
  BY <1>4 DEF userVars, jobVars, Counted, InFlightJobs, PastWait, InFlight
<1>5. CASE \E r \in Requests : TableStep(r)
  <2>1. /\ videoCount'[n] = videoCount[n]
        /\ \A j \in JobIds : \/ status'[j] = status[j] /\ owner'[j] = owner[j]
                             \/ (status[j] = "none" \/ owner[j] # n) /\ owner'[j] # n
    BY <1>1, <1>2, <1>5 DEF TableStep
  <2> QED BY <2>1 DEF Counted, InFlightJobs, PastWait, InFlight
<1>6. CASE \E j \in JobIds, s \in JobStatuses : WorkerStep(j, s)
  <2>1. PICK j \in JobIds, s \in JobStatuses : WorkerStep(j, s)
    BY <1>6
  <2>2. \A k \in JobIds : (PastWait(k)' <=> PastWait(k)) /\ (InFlight(k)' => InFlight(k))
    BY <1>3, <2>1 DEF PastWait, InFlight
  <2> QED BY <1>3, <2>1, <2>2 DEF Counted, InFlightJobs, PastWait
<1>7. ASSUME NEW j \in JobIds, NEW s \in JobStatuses, OperatorMove(j, s)
      PROVE  /\ videoCount'[n] = videoCount[n] /\ Counted(n)' = Counted(n)
             /\ InFlightJobs(n)' \subseteq InFlightJobs(n)
  <2>1. owner[j] # n
    BY <1>7, SerialStep
  <2>2. /\ videoCount' = videoCount /\ owner' = owner
        /\ \A k \in JobIds \ {j} : status'[k] = status[k]
    BY <1>0, <1>7 DEF OperatorMove, TypeOK, userVars
  <2> QED BY <2>1, <2>2 DEF Counted, InFlightJobs, PastWait, InFlight
<1> QED BY <1>4, <1>5, <1>6, <1>7, TableCases DEF Moved

(* A commit for such a number: no other slot serves it, and its copies     *)
(* were fresh.                                                             *)
LEMMA OwnCommit ==
    ASSUME Inv, [Next]_vars, NEW n \in Numbers, Serial(n)', NEW r \in Requests,
           TableStep(r), req[r].num = n
    PROVE  /\ \A q \in Requests : q # r => ~Serving(q, n) /\ pc'[q] = pc[q] /\ req'[q] = req[q]
           /\ ~Submitting(r)' /\ pc'[r] # "verify"
<1>0. TypeOK BY DEF Inv
<1>1. pc[r] # "idle"
  BY DEF TableStep, SubmitCommitWait, SubmitCommitVerified, VerifyCommit
<1>2. \A q \in Requests : q # r => ~Serving(q, n)
  BY <1>1, SerialStep DEF Serving
<1>3. \A q \in Requests : q # r => pc'[q] = pc[q] /\ req'[q] = req[q]
  BY <1>0 DEF TableStep, SubmitCommitWait, SubmitCommitVerified, VerifyCommit, Finish, Goto, TypeOK
<1>4. ~Submitting(r)' /\ pc'[r] # "verify"
  BY <1>0 DEF TableStep, SubmitCommitWait, SubmitCommitVerified, VerifyCommit, Finish, Goto,
     Submitting, TypeOK
<1> QED BY <1>2, <1>3, <1>4

LEMMA FreshCopiesStep == Inv /\ [Next]_vars => FreshCopies' /\ RoomLeft'
<1> SUFFICES ASSUME Inv, [Next]_vars PROVE FreshCopies' /\ RoomLeft'
    OBVIOUS
<1> SUFFICES ASSUME NEW q \in Requests, NEW n \in Numbers, n = req'[q].num, Serial(n)'
             PROVE  /\ Submitting(q)' \/ pc'[q] = "verify" => req'[q].count = videoCount'[n]
                    /\ Submitting(q)' /\ req'[q].status # "wait" /\ ~settings'.allowMultiple =>
                         /\ Clean[n] \notin settings'.unlimited =>
                               videoCount'[n] < settings'.maxVideos
                         /\ pc'[q] # "guard" \/ req'[q].seen = NoJob => InFlightJobs(n)' = {}
  <2>1. ASSUME NEW q \in Requests PROVE req'[q].num \in Numbers
    BY TypeStep DEF TypeOK, Locals
  <2>2. ASSUME NEW q \in Requests, NEW n \in Numbers, n = req'[q].num
        PROVE  (Serial(n)' <=> Serial(req[q].num)') /\ InFlightJobs(n)' = InFlightJobs(req[q].num)'
    BY <2>2 DEF Serial, InFlightJobs
  <2> QED BY <2>1, <2>2 DEF FreshCopies, RoomLeft
<1>0. TypeOK /\ FreshCopies /\ RoomLeft BY DEF Inv, SerialInv
<1>a. Serial(n) /\ settings' = settings
  BY SerialStep, SettingsFixed
<1>1. CASE \E r \in Requests : TableStep(r) /\ req[r].num = n
  <2>1. PICK r \in Requests : TableStep(r) /\ req[r].num = n
    BY <1>1
  <2>2. CASE q = r
    BY <2>1, <2>2, OwnCommit
  <2>3. CASE q # r
    BY <2>1, <2>3, OwnCommit DEF Serving, Submitting
  <2> QED BY <2>2, <2>3
<1>2. CASE \A r \in Requests : TableStep(r) => req[r].num # n
  <2>0. videoCount'[n] = videoCount[n] /\ InFlightJobs(n)' \subseteq InFlightJobs(n)
    BY <1>2, OthersStep
  <2>b. ASSUME req[q].num = n
        PROVE  /\ Submitting(q) \/ pc[q] = "verify" => req[q].count = videoCount[n]
               /\ Submitting(q) /\ req[q].status # "wait" /\ ~settings.allowMultiple =>
                     /\ Clean[n] \notin settings.unlimited => videoCount[n] < settings.maxVideos
                     /\ pc[q] # "guard" \/ req[q].seen = NoJob => InFlightJobs(n) = {}
    BY <1>0, <1>a, <2>b DEF FreshCopies, RoomLeft
  <2>1. CASE pc'[q] = pc[q] /\ req'[q] = req[q]
    BY <1>a, <2>0, <2>1, <2>b DEF Submitting
  <2>2. CASE pc'[q] = "idle"
    BY <2>2 DEF Submitting
  <2>3. ASSUME SubmitRead(q, n)
        PROVE  /\ req'[q].count = videoCount'[n] /\ pc'[q] # "verify"
               /\ Submitting(q)' /\ req'[q].status # "wait" /\ ~settings'.allowMultiple =>
                         /\ Clean[n] \notin settings'.unlimited =>
                               videoCount'[n] < settings'.maxVideos
                         /\ pc'[q] # "guard" \/ req'[q].seen = NoJob => InFlightJobs(n)' = {}
    <3>1. /\ req'[q].count = videoCount[n] /\ pc'[q] = AfterRead(n) /\ ~AtCap(n)
          /\ req'[q].status = IF n \in verified THEN InitialStatus(n) ELSE "wait"
          /\ req'[q].seen \in FirstOf(InFlightJobs(n))
      BY <1>0, <2>3 DEF SubmitRead, TypeOK, Blank
    <3>2. pc'[q] \in {"guard", "insert", "newOtp"}
      BY <3>1 DEF AfterRead
    <3>3. ASSUME req'[q].status # "wait", ~settings.allowMultiple
          PROVE  /\ Clean[n] \notin settings.unlimited => videoCount[n] < settings.maxVideos
                 /\ pc'[q] = "guard"
                 /\ req'[q].seen = NoJob => InFlightJobs(n) = {}
      <4>1. n \in verified /\ n \in users
        BY <3>1, <3>3 DEF Inv, UsersFirst
      <4>2. videoCount[n] \in Nat /\ settings.maxVideos \in Nat
        BY <1>0, SettingsAssumption DEF TypeOK
      <4>3. pc'[q] = "guard"
        BY <3>1, <3>3, <4>1 DEF AfterRead
      <4>4. req'[q].seen = NoJob => InFlightJobs(n) = {}
        BY <3>1 DEF FirstOf, InFlightJobs, JobIds, NoJob
      <4> QED BY <3>1, <3>3, <4>1, <4>2, <4>3, <4>4 DEF AtCap
    <3> QED BY <1>a, <2>0, <3>1, <3>2, <3>3
  <2>4. ASSUME VerifyRead(q, n) PROVE req'[q].count = videoCount'[n] /\ ~Submitting(q)'
    <3>1. req'[q].count = videoCount[n] /\ pc'[q] = "verify"
      BY <1>0, <2>4 DEF VerifyRead, TypeOK, Blank
    <3> QED BY <2>0, <3>1 DEF Submitting
  <2>5. CASE SubmitGuard(q) \/ SubmitInsert(q)
    <3>1. CASE pc'[q] = "idle"
      BY <3>1 DEF Submitting
    <3>2. CASE pc'[q] # "idle"
      <4>1. /\ Submitting(q) /\ req[q].num = n /\ req'[q].count = req[q].count
            /\ req'[q].status = req[q].status /\ pc'[q] # "verify"
            /\ pc[q] # "guard" \/ req[q].seen = NoJob
        BY <1>0, <2>5, <3>2, NumType
        DEF SubmitGuard, SubmitInsert, Submitting, Goto, Finish, TypeOK, Locals
      <4> QED BY <1>a, <2>0, <2>b, <4>1
    <3> QED BY <3>1, <3>2
  <2>6. CASE Busy(q)
    <3>1. /\ \A m \in Numbers : SubmitRead(q, m) => m = n
          /\ \A m \in Numbers : VerifyRead(q, m) => m = n
      <4>1. ASSUME NEW m \in Numbers, SubmitRead(q, m) PROVE m = n
        BY <1>0, <4>1 DEF SubmitRead, TypeOK, Blank
      <4>2. ASSUME NEW m \in Numbers, VerifyRead(q, m) PROVE m = n
        BY <1>0, <4>2 DEF VerifyRead, TypeOK, Blank
      <4> QED BY <4>1, <4>2
    <3>2. CASE (\E m \in Numbers : ResendRead(q, m)) \/ SubmitCommitVerified(q) \/ VerifyCommit(q)
      <4>1. pc'[q] \notin {"guard", "insert", "commit", "verify"}
        BY <1>0, <3>2 DEF ResendRead, SubmitCommitVerified, VerifyCommit, Goto, Finish, TypeOK
      <4> QED BY <4>1 DEF Submitting
    <3>3. CASE SubmitRead(q, n) \/ VerifyRead(q, n)
      BY <2>3, <2>4, <3>3
    <3> QED BY <2>5, <2>6, <3>1, <3>2, <3>3 DEF Busy
  <2> QED BY <1>0, <2>1, <2>2, <2>6, SlotStep
<1> QED BY <1>1, <1>2

(* What a commit does to a number served by one slot. *)
LEMMA CommitVerified ==
    ASSUME Inv, [Next]_vars, NEW n \in Numbers, Serial(n)', NEW r \in Requests,
           SubmitCommitVerified(r), req[r].num = n
    PROVE  /\ videoCount'[n] = videoCount[n] + 1
           /\ Cardinality(Counted(n)') = Cardinality(Counted(n)) + 1
           /\ ~settings.allowMultiple =>
                 /\ Clean[n] \notin settings.unlimited => videoCount[n] < settings.maxVideos
                 /\ InFlightJobs(n)' \subseteq {req[r].job}
<1>0. TypeOK /\ FreshCopies /\ RoomLeft BY DEF Inv, SerialInv
<1>1. Serial(n)
  BY SerialStep
<1>2. req[r].count = videoCount[n] /\ videoCount' = [videoCount EXCEPT ![n] = req[r].count + 1]
  BY <1>0, <1>1 DEF FreshCopies, SubmitCommitVerified, CountUp, Submitting
<1>3. /\ req[r].job \in JobIds /\ status[req[r].job] = "none"
      /\ status' = [status EXCEPT ![req[r].job] = req[r].status]
      /\ owner' = [owner EXCEPT ![req[r].job] = n] /\ req[r].status \notin {"none", "wait"}
  BY <1>0, NumType DEF SubmitCommitVerified, CommitRow, Inv, FreshIds, JobStatuses
<1>4. Counted(n)' = Counted(n) \cup {req[r].job} /\ req[r].job \notin Counted(n)
  BY <1>0, <1>3 DEF Counted, PastWait, TypeOK
<1>5. Cardinality(Counted(n)') = Cardinality(Counted(n)) + 1
  BY <1>3, <1>4, OneMoreJob DEF Counted
<1>6. ASSUME ~settings.allowMultiple
      PROVE  /\ Clean[n] \notin settings.unlimited => videoCount[n] < settings.maxVideos
             /\ InFlightJobs(n)' \subseteq {req[r].job}
  <2>1. /\ Clean[n] \notin settings.unlimited => videoCount[n] < settings.maxVideos
        /\ InFlightJobs(n) = {}
    BY <1>0, <1>1, <1>6 DEF RoomLeft, SubmitCommitVerified, Submitting
  <2>2. InFlightJobs(n)' \subseteq InFlightJobs(n) \cup {req[r].job}
    BY <1>0, <1>3 DEF InFlightJobs, InFlight, TypeOK
  <2> QED BY <2>1, <2>2
<1> QED BY <1>0, <1>2, <1>5, <1>6 DEF TypeOK

LEMMA CommitVerify ==
    ASSUME Inv, [Next]_vars, NEW n \in Numbers, Serial(n)', NEW r \in Requests,
           VerifyCommit(r), req[r].num = n, req[r].job # NoJob
    PROVE  /\ videoCount'[n] = videoCount[n] + 1
           /\ Cardinality(Counted(n)') = Cardinality(Counted(n)) + 1
           /\ Cardinality(Counted(n)) = 0
           /\ InFlightJobs(n)' = InFlightJobs(n)
<1>0. TypeOK /\ FreshCopies /\ StillWaits BY DEF Inv, SerialInv
<1>1. Serial(n) /\ Untouched(n)
  BY SerialStep
<1>2. /\ req[r].count = videoCount[n] /\ videoCount' = [videoCount EXCEPT ![n] = req[r].count + 1]
  BY <1>0, <1>1 DEF FreshCopies, VerifyCommit, CountUp
<1>a. /\ req[r].job \in JobIds /\ owner[req[r].job] = n /\ owner' = owner
      /\ status' = [status EXCEPT ![req[r].job] = NextStatus(n)]
  BY <1>0, NumType DEF VerifyCommit, Inv, OwnRows, IsRowOf
<1>3. /\ req[r].job \in JobIds /\ owner[req[r].job] = n /\ status[req[r].job] = "wait"
      /\ status' = [status EXCEPT ![req[r].job] = NextStatus(n)] /\ owner' = owner
  BY <1>0, <1>1, <1>a DEF Serial, StillWaits, VerifyCommit
<1>4. NextStatus(n) \in {"process_stop", "queued"}
  BY DEF NextStatus
<1>5. Counted(n)' = Counted(n) \cup {req[r].job} /\ req[r].job \notin Counted(n)
  BY <1>0, <1>2, <1>3, <1>4 DEF Counted, PastWait, TypeOK
<1>6. InFlightJobs(n)' = InFlightJobs(n)
  BY <1>0, <1>2, <1>3, <1>4 DEF InFlightJobs, InFlight, TypeOK
<1>7. n \notin verified
  BY <1>1, <1>2, <1>3 DEF Inv, NoWaitJobOnceVerified, WaitJobs
<1>8. Counted(n) = {}
  BY <1>1, <1>7 DEF Inv, ProcessedImpliesVerified, Counted, Untouched
<1>9. Cardinality(Counted(n)') = Cardinality(Counted(n)) + 1
  BY <1>3, <1>5, OneMoreJob DEF Counted
<1> QED BY <1>0, <1>2, <1>6, <1>8, <1>9, FS_EmptySet DEF TypeOK

LEMMA CommitWait ==
    ASSUME Inv, [Next]_vars, NEW n \in Numbers, Serial(n)', NEW r \in Requests,
           SubmitCommitWait(r), req[r].num = n
    PROVE  /\ videoCount'[n] = videoCount[n] /\ Counted(n)' = Counted(n)
           /\ InFlightJobs(n)' \subseteq {req[r].job}
<1>0. TypeOK BY DEF Inv
<1>1. Untouched(n)
  BY SerialStep
<1>2. n \notin users
  BY <1>1 DEF SubmitCommitWait, Inv, NewUsersOnly, Submitting
<1>3. InFlightJobs(n) = {}
  BY <1>2 DEF InFlightJobs, InFlight, Inv, UsersFirst
<1>4. /\ req[r].job \in JobIds /\ status[req[r].job] = "none" /\ videoCount' = videoCount
      /\ status' = [status EXCEPT ![req[r].job] = "wait"]
      /\ owner' = [owner EXCEPT ![req[r].job] = n]
  BY DEF SubmitCommitWait, CommitRow, Inv, FreshIds
<1> QED BY <1>0, <1>3, <1>4 DEF Counted, InFlightJobs, PastWait, InFlight, TypeOK

LEMMA SerialTablesStep ==
    Inv /\ [Next]_vars => VideoCountExact' /\ CapRespected' /\ AtMostOneInFlight'
<1> SUFFICES ASSUME Inv, [Next]_vars, NEW n \in Numbers, Serial(n)'
             PROVE  /\ videoCount'[n] = Cardinality(Counted(n)')
                    /\ ~settings'.allowMultiple /\ Clean[n] \notin settings'.unlimited =>
                          Cardinality(Counted(n)') <= Limit'
                    /\ ~settings'.allowMultiple => \A j, k \in InFlightJobs(n)' : j = k
    BY DEF VideoCountExact, CapRespected, AtMostOneInFlight
<1>0. TypeOK /\ VideoCountExact /\ CapRespected /\ AtMostOneInFlight BY DEF Inv, SerialInv
<1>a. /\ settings' = settings /\ Limit' = Limit /\ Limit \in Nat /\ settings.maxVideos \in Nat
      /\ Limit >= 1 /\ settings.maxVideos <= Limit /\ videoCount[n] \in Nat
      /\ Serial(n)
  BY <1>0, SerialStep, SettingsFixed, SettingsAssumption DEF Limit, TypeOK
<1>b. /\ videoCount[n] = Cardinality(Counted(n))
      /\ ~settings.allowMultiple /\ Clean[n] \notin settings.unlimited =>
            Cardinality(Counted(n)) <= Limit
      /\ ~settings.allowMultiple => \A j, k \in InFlightJobs(n) : j = k
  BY <1>0, <1>a DEF VideoCountExact, CapRespected, AtMostOneInFlight
<1>1. CASE \A r \in Requests : TableStep(r) => req[r].num # n
  BY <1>1, <1>a, <1>b, OthersStep
<1>2. ASSUME NEW r \in Requests, SubmitCommitVerified(r), req[r].num = n
      PROVE  /\ videoCount'[n] = Cardinality(Counted(n)')
             /\ ~settings.allowMultiple /\ Clean[n] \notin settings.unlimited =>
                   Cardinality(Counted(n)') <= Limit
             /\ ~settings.allowMultiple => \A j, k \in InFlightJobs(n)' : j = k
  BY <1>2, <1>a, <1>b, CommitVerified
<1>3. ASSUME NEW r \in Requests, VerifyCommit(r), req[r].num = n
      PROVE  /\ videoCount'[n] = Cardinality(Counted(n)')
             /\ ~settings.allowMultiple /\ Clean[n] \notin settings.unlimited =>
                   Cardinality(Counted(n)') <= Limit
             /\ ~settings.allowMultiple => \A j, k \in InFlightJobs(n)' : j = k
  <2>1. CASE req[r].job # NoJob
    BY <1>3, <1>a, <1>b, <2>1, CommitVerify
  <2>2. CASE req[r].job = NoJob
    <3>1. videoCount' = videoCount /\ status' = status /\ owner' = owner
      BY <1>3, <2>2 DEF VerifyCommit
    <3>2. Counted(n)' = Counted(n) /\ InFlightJobs(n)' = InFlightJobs(n)
      BY <3>1 DEF Counted, InFlightJobs, PastWait, InFlight
    <3> QED BY <1>b, <3>1, <3>2
  <2> QED BY <2>1, <2>2
<1>4. ASSUME NEW r \in Requests, SubmitCommitWait(r), req[r].num = n
      PROVE  /\ videoCount'[n] = Cardinality(Counted(n)')
             /\ ~settings.allowMultiple /\ Clean[n] \notin settings.unlimited =>
                   Cardinality(Counted(n)') <= Limit
             /\ ~settings.allowMultiple => \A j, k \in InFlightJobs(n)' : j = k
  BY <1>4, <1>b, CommitWait
<1> QED BY <1>1, <1>2, <1>3, <1>4, <1>a DEF TableStep

-----------------------------------------------------------------------------
(* The inductive invariant, and what follows for every execution.          *)

LEMMA InvInit == Init => Inv
<1> SUFFICES ASSUME Init PROVE Inv
    OBVIOUS
<1>1. TypeOK
  BY TypeInit
<1>2. \A n \in Numbers : Counted(n) = {} /\ WaitJobs(n) = {}
  BY DEF Init, Counted, WaitJobs, PastWait
<1>3. VideoCountNeverOvercounts
  <2>1. Cardinality({}) = 0
    BY FS_EmptySet
  <2>2. \A n \in Numbers : videoCount[n] = 0 /\ Cardinality(Counted(n)) = 0
    BY <1>2, <2>1 DEF Init
  <2> QED BY <2>2 DEF VideoCountNeverOvercounts
<1>4. ProcessedImpliesVerified /\ CommittedJobHasSelfie /\ PendingIsOwnJob
  BY DEF Init, ProcessedImpliesVerified, CommittedJobHasSelfie, PendingIsOwnJob, PastWait
<1>5. NoWaitJobOnceVerified /\ UsersFirst /\ OneWaitJob
  BY <1>2 DEF Init, NoWaitJobOnceVerified, UsersFirst, OneWaitJob
<1>6. FreshIds /\ FlowVerified /\ SubmittedStatus /\ OwnRows /\ StaleCounts /\ NewUsersOnly
      /\ VerifySeesWait
  BY DEF Init, FreshIds, FlowVerified, SubmittedStatus, OwnRows, StaleCounts, NewUsersOnly, VerifySeesWait, Submitting
<1>7. MeetingsSeen /\ FreshCopies /\ StillWaits /\ RoomLeft
  BY DEF Init, MeetingsSeen, Meeting, Serving, FreshCopies, StillWaits, RoomLeft, Submitting
<1>8. VideoCountExact /\ CapRespected /\ AtMostOneInFlight
  <2>1. \A n \in Numbers : videoCount[n] = 0 /\ Cardinality(Counted(n)) = 0 /\ InFlightJobs(n) = {}
    BY <1>2, FS_EmptySet DEF Init, InFlightJobs, InFlight
  <2>2. Limit \in Nat
    BY SettingsAssumption DEF Init, Limit
  <2> QED BY <2>1, <2>2 DEF VideoCountExact, CapRespected, AtMostOneInFlight
<1> QED BY <1>1, <1>3, <1>4, <1>5, <1>6, <1>7, <1>8 DEF Inv, SerialInv

LEMMA InvStep == Inv /\ [Next]_vars => Inv'
BY TypeStep, ProcessedStep, VideoCountStep, SelfieStep, PendingStep, NoWaitJobStep,
   FreshIdsStep, FlowVerifiedStep, SubmittedStatusStep, OwnRowsStep, StaleCountsStep, UsersFirstStep,
   OneWaitJobStep, NewUsersOnlyStep, VerifySeesWaitStep, MeetingsStep,
   StillWaitsStep, FreshCopiesStep, SerialTablesStep
DEF Inv, SerialInv

(* Every reachable state satisfies the inductive invariant. *)
THEOREM SpecInv == Spec => []Inv
BY InvInit, InvStep, PTL DEF Spec

(* Every reachable state is well typed. *)
THEOREM SpecTypeOK == Spec => []TypeOK
<1>1. Inv => TypeOK BY DEF Inv
<1> QED BY <1>1, SpecInv, PTL

(* Only verified users' jobs get past "wait". *)
THEOREM SpecProcessedImpliesVerified == Spec => []ProcessedImpliesVerified
<1>1. Inv => ProcessedImpliesVerified BY DEF Inv
<1> QED BY <1>1, SpecInv, PTL

(* video_count never exceeds the jobs the user got past "wait". *)
THEOREM SpecVideoCountNeverOvercounts == Spec => []VideoCountNeverOvercounts
<1>1. Inv => VideoCountNeverOvercounts BY DEF Inv
<1> QED BY <1>1, SpecInv, PTL

(* A verified user has no job left in "wait". *)
THEOREM SpecNoWaitJobOnceVerified == Spec => []NoWaitJobOnceVerified
<1>1. Inv => NoWaitJobOnceVerified BY DEF Inv
<1> QED BY <1>1, SpecInv, PTL

(* Every committed job has its assets row and its selfie in S3. *)
THEOREM SpecCommittedJobHasSelfie == Spec => []CommittedJobHasSelfie
<1>1. Inv => CommittedJobHasSelfie BY DEF Inv
<1> QED BY <1>1, SpecInv, PTL

(* The pending key of a user names a committed job of his. *)
THEOREM SpecPendingIsOwnJob == Spec => []PendingIsOwnJob
<1>1. Inv => PendingIsOwnJob BY DEF Inv
<1> QED BY <1>1, SpecInv, PTL

(* With multiple requests off, a number whose requests come one at a time, *)
(* and none of whose jobs was moved by hand, has one video in flight.      *)
THEOREM SpecAtMostOneInFlight == Spec => []AtMostOneInFlight
<1>1. Inv => AtMostOneInFlight BY DEF Inv, SerialInv
<1> QED BY <1>1, SpecInv, PTL

(* Such a number never gets more jobs past "wait" than the limit.          *)
THEOREM SpecCapRespected == Spec => []CapRespected
<1>1. Inv => CapRespected BY DEF Inv, SerialInv
<1> QED BY <1>1, SpecInv, PTL

(* Its video_count is the number of those jobs.                            *)
THEOREM SpecVideoCountExact == Spec => []VideoCountExact
<1>1. Inv => VideoCountExact BY DEF Inv, SerialInv
<1> QED BY <1>1, SpecInv, PTL

-----------------------------------------------------------------------------
(* The requests keep to their side of the jobs' lifecycle.                 *)

LEMMA DisturbedStep ==
    ASSUME Inv, [Next]_vars
    PROVE  Disturbed \subseteq Disturbed' /\ Disturbed' \subseteq JobIds
BY MovedGrows, RowsStep, TypeStep DEF Disturbed, TypeOK

(* Who moves a job that nobody disturbed. *)
LEMMA Movers ==
    ASSUME Inv, [Next]_vars
    PROVE  \/ status' = status
           \/ \E j \in JobIds, p \in Life!Phases :
                /\ status' = [status EXCEPT ![j] = p]
                /\ j \notin Disturbed' => p \in Life!Request(status[j]) \cup Life!Work(status[j])
<1>0. TypeOK BY DEF Inv
<1>1. ASSUME NEW r \in Requests, SubmitCommitWait(r) \/ SubmitCommitVerified(r)
      PROVE  \E j \in JobIds, p \in Life!Phases :
                /\ status' = [status EXCEPT ![j] = p]
                /\ p \in Life!Request(status[j]) \cup Life!Work(status[j])
  <2>1. /\ req[r].job \in JobIds /\ status[req[r].job] = "none"
        /\ status' = [status EXCEPT ![req[r].job] = req[r].status]
    BY <1>1 DEF SubmitCommitWait, SubmitCommitVerified, CommitRow, Inv, FreshIds
  <2>2. req[r].status \in {"wait"} \cup Life!Released
    BY <1>1 DEF SubmitCommitWait, SubmitCommitVerified, Inv, SubmittedStatus, Submitting
  <2> QED BY <2>1, <2>2 DEF Life!Request, Life!Phases
<1>2. ASSUME NEW r \in Requests, VerifyCommit(r), req[r].job # NoJob
      PROVE  \E j \in JobIds, p \in Life!Phases :
                /\ status' = [status EXCEPT ![j] = p]
                /\ j \notin Disturbed' => p \in Life!Request(status[j]) \cup Life!Work(status[j])
  <2>1. /\ req[r].job \in JobIds /\ owner[req[r].job] = req[r].num
        /\ status[req[r].job] # "none" /\ owner' = owner
        /\ status' = [status EXCEPT ![req[r].job] = NextStatus(req[r].num)]
    BY <1>0, <1>2, NumType DEF VerifyCommit, Inv, OwnRows, IsRowOf
  <2>2. NextStatus(req[r].num) \in {"process_stop", "queued"}
    BY DEF NextStatus
  <2>3. ASSUME req[r].job \notin Disturbed' PROVE status[req[r].job] = "wait"
    <3>1. status'[req[r].job] # "none" /\ owner'[req[r].job] = req[r].num
      BY <1>0, <2>1, <2>2 DEF TypeOK
    <3>2. req[r].num \notin overlapped /\ req[r].job \notin moved
      BY <2>1, <2>3, <3>1, MovedGrows DEF Disturbed
    <3> QED BY <1>2, <3>2 DEF VerifyCommit, Inv, SerialInv, StillWaits
  <2>4. NextStatus(req[r].num) \in Life!Phases
    BY <2>2 DEF Life!Phases, Life!Released
  <2>5. status[req[r].job] = "wait" => NextStatus(req[r].num) \in Life!Request(status[req[r].job])
    BY <2>2 DEF Life!Request
  <2> QED BY <2>1, <2>3, <2>4, <2>5
<1>3. ASSUME NEW j \in JobIds, NEW s \in JobStatuses, WorkerStep(j, s)
      PROVE  s \in Life!Phases /\ status' = [status EXCEPT ![j] = s] /\ s \in Life!Work(status[j])
  BY <1>3 DEF WorkerStep, JobStatuses, Life!Phases, Life!Released
<1>4. ASSUME NEW j \in JobIds, NEW s \in JobStatuses, OperatorMove(j, s)
      PROVE  s \in Life!Phases /\ status' = [status EXCEPT ![j] = s] /\ j \in Disturbed'
  BY <1>0, <1>4 DEF OperatorMove, JobStatuses, Life!Phases, Life!Released, Disturbed, TypeOK
<1>5. ASSUME NEW r \in Requests, VerifyCommit(r), req[r].job = NoJob
      PROVE  status' = status
  BY <1>5 DEF VerifyCommit
<1> QED BY <1>1, <1>2, <1>3, <1>4, <1>5, TableCases DEF TableStep, Moved, jobVars

LEMMA LifecycleStep == Inv /\ [Next]_vars => [Life!Next]_<<status, Disturbed>>
<1> SUFFICES ASSUME Inv, [Next]_vars
             PROVE  /\ status' \in [JobIds -> Life!Phases]
                    /\ \A j \in JobIds \ Disturbed' : status'[j] # status[j] =>
                          status'[j] \in Life!Request(status[j]) \cup Life!Work(status[j])
  BY DisturbedStep DEF Life!Next
<1>1. status \in [JobIds -> Life!Phases] /\ status' \in [JobIds -> Life!Phases]
  BY TypeStep DEF Inv, TypeOK, JobStatuses, Life!Phases, Life!Released
<1> QED BY <1>1, Movers

(* The handlers implement the lifecycle contract. *)
THEOREM SpecLifecycle == Spec => Lifecycle
<1>1. Init => Life!Init
  BY DEF Init, Life!Init, Disturbed, Life!Released
<1> QED BY <1>1, LifecycleStep, SpecInv, PTL DEF Spec, Lifecycle, Life!Spec
=============================================================================
