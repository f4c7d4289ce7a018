---------------------------- MODULE JobLifecycle ----------------------------
(***************************************************************************)
(* The contract on jobs.status between the requests that create and        *)
(* release a job (Submission) and those who work on it (RenderPipeline).   *)
(* Each side may make its own moves only.  Both modules implement this     *)
(* specification, and Submission assumes of the pipeline exactly the moves *)
(* that RenderPipeline makes.                                              *)
(*                                                                         *)
(* Some jobs are disturbed: an operator wrote their status by hand, or     *)
(* requests that overlapped wrote it from stale reads.  The contract binds *)
(* everybody else, for ever.                                               *)
(***************************************************************************)

CONSTANT Jobs
VARIABLES phase,      \* jobs.status, all that a worker does being "processing"
          disturbed

Released == {"queued", "process_stop", "unverified"}
Phases   == Released \cup {"none", "wait", "processing", "sent", "failed"}

(* Where a request may take a job: into the table, and out of "wait". *)
Request(p) == CASE p = "none" -> {"wait"} \cup Released
                [] p = "wait" -> {"queued", "process_stop"}
                [] OTHER      -> {}

(* Where workers, watchdog and delivery may take it.  send-video looks at  *)
(* no status: any released job may be delivered.                           *)
Work(p) == (IF p \in {"none", "wait"} THEN {} ELSE {"sent"}) \cup
           CASE p = "queued"     -> {"processing"}
             [] p = "processing" -> {"queued", "failed"}
             [] OTHER            -> {}

Init == /\ phase \in [Jobs -> {"none"} \cup Released]
        /\ disturbed = {}

(* A step moves every undisturbed job that it moves in one of these ways. *)
Next == /\ disturbed \subseteq disturbed' /\ disturbed' \subseteq Jobs
        /\ phase' \in [Jobs -> Phases]
        /\ \A j \in Jobs \ disturbed' :
              phase'[j] # phase[j] => phase'[j] \in Request(phase[j]) \cup Work(phase[j])

Spec == Init /\ [][Next]_<<phase, disturbed>>
=============================================================================
