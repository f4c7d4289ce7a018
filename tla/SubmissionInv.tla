---------------------------- MODULE SubmissionInv ----------------------------
(* The inductive invariant behind the safety properties of Submission:     *)
(* what a handler in flight may rely on although its local copies may be   *)
(* stale.                                                                  *)
EXTENDS Submission

(* A slot waiting to commit holds an id no committed row has, and no other *)
(* slot has; its selfie is uploaded.                                       *)
FreshIds ==
    /\ \A j \in JobIds : j >= nextJob => status[j] = "none"
    /\ \A j \in moved : status[j] # "none"
    /\ \A r \in Requests : pc[r] = "commit" =>
          /\ req[r].job \in JobIds /\ req[r].job < nextJob
          /\ status[req[r].job] = "none"
          /\ req[r].job \in bucket
          /\ \A q \in Requests \ {r} : pc[q] = "commit" => req[q].job # req[r].job

(* Only verified users' submissions carry a status other than "wait". *)
Submitting(r) == pc[r] \in {"guard", "insert", "commit"}
FlowVerified ==
    \A r \in Requests : Submitting(r) =>
        /\ req[r].status # "wait" => req[r].num \in verified
        /\ req[r].status = "wait" => pc[r] # "guard"

(* A job starts waiting, or released. *)
SubmittedStatus ==
    \A r \in Requests : Submitting(r) => req[r].status \in {"wait"} \cup Life!Released

(* The jobs a slot points to are committed rows of the number it serves. *)
IsRowOf(j, n) == j = NoJob \/ (status[j] # "none" /\ owner[j] = n)
OwnRows ==
    \A r \in Requests :
        /\ pc[r] \in {"verify", "setPending"} => IsRowOf(req[r].job, req[r].num)
        /\ pc[r] = "guard" => IsRowOf(req[r].seen, req[r].num)

(* A loaded video_count is stale but never too high. *)
StaleCounts ==
    \A r \in Requests : Untouched(req[r].num) =>
        /\ Submitting(r) /\ req[r].status # "wait" =>
              req[r].count <= Cardinality(Counted(req[r].num))
        /\ pc[r] = "verify" /\ req[r].job # NoJob =>
              req[r].count + 1 <= Cardinality(Counted(req[r].num) \cup {req[r].job})

(* Users exist before anything of theirs does. *)
UsersFirst ==
    /\ verified \subseteq users
    /\ \A j \in JobIds : status[j] # "none" => owner[j] \in users

(* As long as nobody interferes by hand, an unverified user has exactly    *)
(* one job waiting.                                                        *)
OneWaitJob ==
    \A n \in Numbers : Untouched(n) =>
        /\ n \in users \ verified => WaitJobs(n) # {}
        /\ \A j, k \in WaitJobs(n) : j = k

(* So only a new user's submission can still add a waiting job, and the    *)
(* unique key lets one of those through.                                   *)
NewUsersOnly ==
    \A r \in Requests : Submitting(r) =>
        /\ req[r].isNew => req[r].status = "wait"
        /\ req[r].status = "wait" /\ ~req[r].isNew =>
              req[r].num \in users /\ ~Untouched(req[r].num)
        /\ req[r].isNew /\ pc[r] = "commit" =>
              /\ req[r].num \notin users
              /\ \A q \in Requests \ {r} :
                    pc[q] = "commit" /\ req[q].isNew => req[q].num # req[r].num

(* A verification under way has seen every job its user has waiting.       *)
VerifySeesWait ==
    \A r \in Requests : pc[r] = "verify" =>
        /\ req[r].num \in users
        /\ Untouched(req[r].num) => WaitJobs(req[r].num) \subseteq {req[r].job}

(* The rest is about numbers whose requests come one at a time: what their *)
(* slot loaded is what the tables still say, and a verified user's         *)
(* submission that passed the checks still has room.  The job a lone       *)
(* verification is about still waits, unless it was moved itself.          *)
MeetingsSeen == Meeting \subseteq overlapped

FreshCopies ==
    \A r \in Requests : Serial(req[r].num) =>
        (Submitting(r) \/ pc[r] = "verify" => req[r].count = videoCount[req[r].num])

StillWaits ==
    \A r \in Requests :
        pc[r] = "verify" /\ req[r].num \notin overlapped /\ req[r].job \notin {NoJob} \cup moved
        => status[req[r].job] = "wait"

RoomLeft ==
    \A r \in Requests :
        Serial(req[r].num) /\ Submitting(r) /\ req[r].status # "wait"
        /\ ~settings.allowMultiple =>
            /\ Clean[req[r].num] \notin settings.unlimited =>
                  videoCount[req[r].num] < settings.maxVideos
            /\ pc[r] # "guard" \/ req[r].seen = NoJob => InFlightJobs(req[r].num) = {}

SerialInv ==
    /\ MeetingsSeen /\ FreshCopies /\ StillWaits /\ RoomLeft
    /\ VideoCountExact /\ CapRespected /\ AtMostOneInFlight

Inv ==
    /\ TypeOK /\ ProcessedImpliesVerified /\ VideoCountNeverOvercounts
    /\ CommittedJobHasSelfie /\ PendingIsOwnJob /\ NoWaitJobOnceVerified
    /\ FreshIds /\ FlowVerified /\ SubmittedStatus /\ OwnRows /\ StaleCounts
    /\ UsersFirst /\ OneWaitJob /\ NewUsersOnly /\ VerifySeesWait
    /\ SerialInv
==============================================================================
