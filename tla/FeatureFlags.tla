---------------------------- MODULE FeatureFlags -----------------------------
(***************************************************************************)
(* The feature flags in Redis (FeatureFlags in src/app/core/redis.py) and  *)
(* the three that write them:                                              *)
(*   POST check_photo, which tries the provider's keys in turn and, when   *)
(*     all of them refuse, switches photo validation off by itself;        *)
(*   PATCH settings/photo-validation, the admin's switch for it, which     *)
(*   scripts/check_vision.py also turns on;                                *)
(*   POST pipeline/pause, which also writes an audit row.                  *)
(*                                                                         *)
(* set_flag is two Redis commands, one for the flag and one for its        *)
(* auto_off mark; other processes and threads run between them.            *)
(***************************************************************************)
EXTENDS PhotoCheck, FiniteSets

CONSTANTS
    Slots,       \* requests in flight
    KeyCounts,   \* how many keys the active provider may have
    Answers      \* analyses the vision model may give

ASSUME KeyCountAssumption == KeyCounts \subseteq Nat \ {0}
ASSUME AnswersAssumption  == Answers \subseteq Analyses /\ Answers # {}

Flags == {"photo_validation", "pipeline_paused"}

VARIABLES
    value,     \* per flag: what is_enabled returns
    autoOff,   \* flags with the mark auto_off
    audited,   \* pause or resume, in the last of their config_audit rows
    pc, job,   \* per slot: next step, local copies
    dirty      \* history: flags whose last writers overlapped or stopped halfway

flagVars == <<value, autoOff, audited>>
vars == <<flagVars, pc, job, dirty>>

Steps == {"idle", "try", "reply", "set", "mark", "audit"}

(* keys and refused: how many there are and how many have failed so far;   *)
(* said, labels: one's answer about the photo and decide's verdict, if any; *)
(* alone: no other writer of the flag was there since this one began.      *)
Locals == [flag : Flags, want : BOOLEAN, auto : BOOLEAN, keys : Nat, refused : Nat,
           said : SUBSET Answers, labels : SUBSET Labels, alone : BOOLEAN]
Blank  == [flag |-> "photo_validation", want |-> TRUE, auto |-> FALSE, keys |-> 0,
           refused |-> 0, said |-> {}, labels |-> {}, alone |-> TRUE]

Writers(f) == {r \in Slots : pc[r] \in {"set", "mark", "audit"} /\ job[r].flag = f}

Goto(r, step) == pc' = [pc EXCEPT ![r] = step]

(* The slot r becomes a writer: those already at it are no longer alone.   *)
BeginWrite(r, l) ==
    /\ Goto(r, "set")
    /\ job' = [s \in Slots |->
                 IF s = r THEN [l EXCEPT !.alone = Writers(l.flag) = {}]
                 ELSE IF s \in Writers(l.flag) THEN [job[s] EXCEPT !.alone = FALSE]
                 ELSE job[s]]

Free(r) == Goto(r, "idle") /\ job' = [job EXCEPT ![r] = Blank]

EndWrite(r) ==
    /\ Free(r)
    /\ dirty' = IF job[r].alone THEN dirty \ {job[r].flag} ELSE dirty \cup {job[r].flag}

-----------------------------------------------------------------------------
(* POST check_photo. *)

CheckStart(r, n) ==
    /\ pc[r] = "idle"
    /\ Goto(r, "try")
    /\ job' = [job EXCEPT ![r] = [Blank EXCEPT !.keys = n]]
    /\ UNCHANGED <<flagVars, dirty>>

(* The first key that answers decides: no later key is asked. *)
KeyAnswers(r, a) ==
    /\ pc[r] = "try"
    /\ Goto(r, "reply")
    /\ job' = [job EXCEPT ![r].said = {a}, ![r].labels = {Decide(a)}]
    /\ UNCHANGED <<flagVars, dirty>>

(* 200 with the verdict, and a token if it is APPROVED. *)
Reply(r) ==
    /\ pc[r] = "reply"
    /\ Free(r)
    /\ UNCHANGED <<flagVars, dirty>>

(* Mutant of KeyRefuses: the first refusal is final. *)
KeyRefusesOnce(r) ==
    /\ pc[r] = "try"
    /\ BeginWrite(r, [job[r] EXCEPT !.refused = @ + 1, !.want = FALSE, !.auto = TRUE])
    /\ UNCHANGED <<flagVars, dirty>>

(* An error or an unreadable answer: the next key; after the last one      *)
(* validation is switched off. *)
KeyRefuses(r) ==
    /\ pc[r] = "try"
    /\ IF job[r].refused + 1 < job[r].keys
       THEN job' = [job EXCEPT ![r].refused = @ + 1] /\ UNCHANGED pc
       ELSE BeginWrite(r, [job[r] EXCEPT !.refused = @ + 1, !.want = FALSE, !.auto = TRUE])
    /\ UNCHANGED <<flagVars, dirty>>

(* PATCH settings/photo-validation; POST pipeline/pause. *)
Switch(r, f, b) ==
    /\ pc[r] = "idle"
    /\ BeginWrite(r, [Blank EXCEPT !.flag = f, !.want = b])
    /\ UNCHANGED <<flagVars, dirty>>

-----------------------------------------------------------------------------
(* set_flag. *)

(* Switching on removes the mark, the system's switching off sets it; an   *)
(* admin who switches off leaves it as it is. *)
Marks(l) == l.want \/ l.auto

Leave(r) ==
    IF job[r].flag = "pipeline_paused"
    THEN Goto(r, "audit") /\ UNCHANGED <<job, dirty>>
    ELSE EndWrite(r)

(* Mutant of SetFlag: resuming is forgotten. *)
SetFlagOn(r) ==
    /\ pc[r] = "set"
    /\ value' = [value EXCEPT ![job[r].flag] = @ \/ job[r].want]
    /\ IF Marks(job[r]) THEN Goto(r, "mark") /\ UNCHANGED <<job, dirty>> ELSE Leave(r)
    /\ UNCHANGED <<autoOff, audited>>

SetFlag(r) ==
    /\ pc[r] = "set"
    /\ value' = [value EXCEPT ![job[r].flag] = job[r].want]
    /\ IF Marks(job[r]) THEN Goto(r, "mark") /\ UNCHANGED <<job, dirty>> ELSE Leave(r)
    /\ UNCHANGED <<autoOff, audited>>

(* Mutant of SetMark: the mark is never removed. *)
SetMarkForEver(r) ==
    /\ pc[r] = "mark"
    /\ autoOff' = IF job[r].auto THEN autoOff \cup {job[r].flag} ELSE autoOff
    /\ Leave(r)
    /\ UNCHANGED <<value, audited>>

SetMark(r) ==
    /\ pc[r] = "mark"
    /\ autoOff' = IF job[r].want THEN autoOff \ {job[r].flag} ELSE autoOff \cup {job[r].flag}
    /\ Leave(r)
    /\ UNCHANGED <<value, audited>>

(* No client: set_flag returns FALSE.  check_photo ends with its 503 and   *)
(* the admin's switch with a 500, but pipeline/pause goes on to the audit. *)
SetSkipped(r) ==
    /\ pc[r] = "set"
    /\ IF job[r].flag = "pipeline_paused"
       THEN /\ Goto(r, "audit")
            /\ job' = [job EXCEPT ![r].alone = FALSE]
       ELSE Free(r)
    /\ UNCHANGED <<flagVars, dirty>>

(* pipeline/pause: the audit row. *)
WriteAudit(r) ==
    /\ pc[r] = "audit"
    /\ audited' = job[r].want
    /\ EndWrite(r)
    /\ UNCHANGED <<value, autoOff>>

(* Redis or MySQL raises, or the process dies.  A writer stops where it is. *)
Fails(r) ==
    /\ pc[r] # "idle"
    /\ Free(r)
    /\ dirty' = IF pc[r] \in {"mark", "audit"} THEN dirty \cup {job[r].flag} ELSE dirty
    /\ UNCHANGED flagVars

-----------------------------------------------------------------------------
(* No key in Redis: the defaults of is_enabled. *)
Init ==
    /\ value = [f \in Flags |-> f = "photo_validation"]
    /\ autoOff = {} /\ audited = FALSE
    /\ pc = [r \in Slots |-> "idle"] /\ job = [r \in Slots |-> Blank]
    /\ dirty = {}

Check(r)  == (\E n \in KeyCounts : CheckStart(r, n)) \/ (\E a \in Answers : KeyAnswers(r, a))
             \/ KeyRefuses(r) \/ Reply(r)
Setter(r) == SetFlag(r) \/ SetMark(r) \/ SetSkipped(r) \/ WriteAudit(r)

Next == \E r \in Slots :
    \/ Check(r) \/ (\E f \in Flags, b \in BOOLEAN : Switch(r, f, b)) \/ Setter(r) \/ Fails(r)

Spec == Init /\ [][Next]_vars

-----------------------------------------------------------------------------
(* Properties. *)

TypeOK ==
    /\ value \in [Flags -> BOOLEAN] /\ autoOff \subseteq Flags /\ audited \in BOOLEAN
    /\ pc \in [Slots -> Steps] /\ job \in [Slots -> Locals] /\ dirty \subseteq Flags

(* check_photo lets through a clear picture of a child of the right age    *)
(* with somebody who can be its parent, all of these and nothing else,     *)
(* although decide looks at the distance of the two ages and not at who is *)
(* the older.                                                              *)
ApprovedIffFamily ==
    \A r \in Slots : \A a \in job[r].said :
        "APPROVED" \in job[r].labels <=> IsClear(a) /\ IsFamily(a)

(* Validation never goes off by itself while a key still answered: either  *)
(* an admin switched it off, or one request had every key refuse.          *)
OffIsEarned ==
    [][value["photo_validation"] /\ ~value'["photo_validation"] =>
          \E r \in Slots : /\ pc[r] = "set" /\ job[r].flag = "photo_validation"
                           /\ ~job[r].want /\ job[r].said = {}
                           /\ job[r].auto => job[r].refused = job[r].keys]_vars

(* The admin page shows "auto_off" only while validation is off, unless    *)
(* two writers of the flag overlapped or one stopped halfway; the next     *)
(* writer that is alone puts it right.                                     *)
Quiet(f) == f \notin dirty /\ \A r \in Writers(f) : pc[r] = "set"
MarkAgrees == Quiet("photo_validation") /\ "photo_validation" \in autoOff
              => ~value["photo_validation"]

(* The last pause or resume in the audit log is what the worker sees,      *)
(* under the same proviso and unless Redis was away.                       *)
PauseAudited == Quiet("pipeline_paused") => value["pipeline_paused"] = audited

(* Why: who is alone really is, and has written what it wanted.            *)
AloneIsAlone == \A r \in Slots : \A f \in Flags :
    r \in Writers(f) /\ job[r].alone =>
        /\ Writers(f) = {r}
        /\ pc[r] # "set" => value[f] = job[r].want
AutoTriedAll == \A r \in Slots : job[r].auto =>
    /\ pc[r] \in {"set", "mark"} /\ job[r].flag = "photo_validation" /\ ~job[r].want
    /\ job[r].refused = job[r].keys
Trying == \A r \in Slots : pc[r] = "try" =>
    job[r].flag = "photo_validation" /\ job[r].refused < job[r].keys

Undecided ==
    \A r \in Slots : pc[r] # "reply" => job[r].said = {} /\ job[r].labels = {}
Decided ==
    \A r \in Slots : pc[r] = "reply" => \E a \in Answers :
        job[r].said = {a} /\ job[r].labels = {Decide(a)}

Auditing == \A r \in Slots : pc[r] = "audit" => job[r].flag = "pipeline_paused"

FlagsInv == TypeOK /\ Undecided /\ Decided /\ ApprovedIffFamily /\ MarkAgrees /\ PauseAudited
            /\ AloneIsAlone /\ AutoTriedAll /\ Trying /\ Auditing
=============================================================================
