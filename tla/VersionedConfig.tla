--------------------------- MODULE VersionedConfig --------------------------
(***************************************************************************)
(* The two versioned tables of which one row is live: pipeline_config      *)
(* (src/app/routers/config.py, services/config_service.py) and             *)
(* vision_config (src/app/services/vision_service.py).  Admins insert,     *)
(* re-activate and delete versions; API processes seed an empty table.     *)
(*                                                                         *)
(* A request reads a snapshot.  Its UPDATE ... WHERE active = 1 locks the  *)
(* active rows and the gap where a new one would go, until it commits; on  *)
(* a table without an active row the locks are gap locks only, several     *)
(* transactions can hold them, and of two that then insert one is rolled   *)
(* back (InnoDB, external).  Rows change when a transaction commits.       *)
(***************************************************************************)
EXTENDS Integers, FiniteSets

CONSTANTS
    Admins, Seeders,    \* requests in flight; processes that may seed
    Tables,             \* the tables looked at: "pipeline", "vision"
    MaxRows,            \* bound: rows ever inserted
    MaxCommits          \* bound: commits that change the active row

ASSUME TableAssumption == Tables \subseteq {"pipeline", "vision"}
                          /\ MaxRows \in Nat \ {0} /\ MaxCommits \in Nat
ASSUME ActorAssumption == Admins \cap Seeders = {} /\ IsFiniteSet(Seeders)

Ids    == 1 .. MaxRows
None   == 0     \* no row
NewRow == -1    \* the row a create request will insert
Refs   == Ids \cup {None, NewRow}
Actors == Admins \cup Seeders
Steps  == {"idle", "switch", "write", "delete", "seed"}

VARIABLES
    table, populated,   \* which of Tables, whether it began with an active row
    rows, active,       \* ids in the table, those with the active mark
    nextId,             \* AUTO_INCREMENT
    locks,              \* actors whose UPDATE holds the active rows
    pc, target, prev,   \* per actor: next step, row it works on, active row it read
    readAt,             \* history: per actor, `commits' when it read
    audit,              \* last config_audit row: prev_config_id, the row that was
                        \* active, and whether a commit came after the read
    commits             \* bound counter, and the version of the table

kind      == <<table, populated>>
tableVars == <<rows, active, nextId, commits>>
actorVars == <<pc, target, prev, readAt>>
vars == <<kind, tableVars, locks, actorVars, audit>>

(* get_active_config, get_active_vision: the newest of the active rows. *)
Newest(S) == IF S = {} THEN None ELSE CHOOSE c \in S : \A d \in S : d <= c
Current   == Newest(active)

Finish(p) == /\ pc' = [pc EXCEPT ![p] = "idle"]
             /\ target' = [target EXCEPT ![p] = None]
             /\ prev' = [prev EXCEPT ![p] = None]
             /\ readAt' = [readAt EXCEPT ![p] = 0]

Start(p, step, c, old) ==
    /\ pc[p] = "idle"
    /\ pc' = [pc EXCEPT ![p] = step]
    /\ target' = [target EXCEPT ![p] = c]
    /\ prev' = [prev EXCEPT ![p] = old]
    /\ readAt' = [readAt EXCEPT ![p] = commits]
    /\ UNCHANGED <<tableVars, locks, audit>>

-----------------------------------------------------------------------------
(* Switching to another version: create_and_activate, rollback_config and  *)
(* their vision_config counterparts. *)

(* Mutant of CreateRead: the newest version is taken for the active one. *)
CreateReadNewest(p) == Start(p, "switch", NewRow, Newest(rows))
CreateRead(p) == Start(p, "switch", NewRow, Current)

(* rollback_config refuses the row it read as active; activate_vision      *)
(* does not ask.                                                           *)
RollbackRead(p, c) ==
    /\ c \in rows /\ (table = "pipeline" => Current # c)
    /\ Start(p, "switch", c, Current)

(* Mutant of MayLock: the old rows are not locked. *)
MayLockAlways(p) == TRUE
MayLock(p) == locks = {} \/ active = {}

(* UPDATE ... SET active = 0 WHERE active = 1. *)
Deactivate(p) ==
    /\ pc[p] = "switch" /\ MayLock(p)
    /\ locks' = locks \cup {p}
    /\ pc' = [pc EXCEPT ![p] = "write"]
    /\ UNCHANGED <<tableVars, target, prev, readAt, audit>>

(* Mutant of Activated: the old rows keep their mark. *)
ActivatedBeside(c) == active \cup {c}
Activated(c) == {c}

Audited(p, was) ==
    IF table = "pipeline"
    THEN audit' = [prev |-> prev[p], was |-> was, late |-> readAt[p] # commits]
    ELSE UNCHANGED audit

(* INSERT of an active row, the audit row, COMMIT. *)
CreateCommit(p) ==
    /\ pc[p] = "write" /\ locks = {p} /\ target[p] = NewRow
    /\ nextId \in Ids /\ commits < MaxCommits
    /\ rows' = rows \cup {nextId} /\ active' = Activated(nextId) /\ nextId' = nextId + 1
    /\ Audited(p, Current)
    /\ locks' = locks \ {p} /\ Finish(p)
    /\ commits' = commits + 1

(* The existing row gets the mark; if it is gone the ORM raises and the    *)
(* request aborts. *)
RollbackCommit(p) ==
    /\ pc[p] = "write" /\ locks = {p} /\ target[p] \in rows
    /\ commits < MaxCommits
    /\ active' = Activated(target[p])
    /\ Audited(p, Current)
    /\ locks' = locks \ {p} /\ Finish(p)
    /\ commits' = commits + 1
    /\ UNCHANGED <<rows, nextId>>

(* An error (a row that is gone, a deadlock) or a crash: ROLLBACK. *)
Abort(p) ==
    /\ pc[p] # "idle"
    /\ locks' = locks \ {p} /\ Finish(p)
    /\ UNCHANGED <<tableVars, audit>>

-----------------------------------------------------------------------------
(* delete_vision: refuses an active row, then deletes. *)
DeleteRead(p, c) ==
    /\ table = "vision" /\ c \in rows \ active
    /\ Start(p, "delete", c, None)

DeleteCommit(p) ==
    /\ pc[p] = "delete"
    /\ (target[p] \in active => locks = {}) /\ commits < MaxCommits
    /\ rows' = rows \ {target[p]} /\ active' = active \ {target[p]}
    /\ commits' = commits + 1 /\ Finish(p)
    /\ UNCHANGED <<nextId, locks, audit>>

(* Mutant of SeedRead: seeds without looking. *)
SeedBlindly(s) == Start(s, "seed", NewRow, None)

(* ensure_default_config at start-up, ensure_default_vision also at every  *)
(* check_photo: look, then insert. *)
SeedRead(s) == active = {} /\ Start(s, "seed", NewRow, None)

SeedCommit(s) ==
    /\ pc[s] = "seed" /\ locks = {} /\ nextId \in Ids /\ commits < MaxCommits
    /\ rows' = rows \cup {nextId} /\ active' = active \cup {nextId} /\ nextId' = nextId + 1
    /\ commits' = commits + 1 /\ Finish(s)
    /\ UNCHANGED <<locks, audit>>

-----------------------------------------------------------------------------
Init ==
    /\ table \in Tables /\ populated \in BOOLEAN
    /\ rows = IF populated THEN {1} ELSE {}
    /\ active = rows /\ nextId = Cardinality(rows) + 1 /\ commits = 0
    /\ locks = {} /\ pc = [a \in Actors |-> "idle"]
    /\ target = [a \in Actors |-> None] /\ prev = [a \in Actors |-> None]
    /\ readAt = [a \in Actors |-> 0]
    /\ audit = [prev |-> None, was |-> None, late |-> FALSE]

Admin(p) ==
    \/ CreateRead(p) \/ (\E c \in Ids : RollbackRead(p, c) \/ DeleteRead(p, c))
    \/ Deactivate(p) \/ CreateCommit(p) \/ RollbackCommit(p) \/ Abort(p) \/ DeleteCommit(p)

Step ==
    \/ \E p \in Admins : Admin(p)
    \/ \E s \in Seeders : SeedRead(s) \/ SeedCommit(s) \/ Abort(s)

Next == Step /\ UNCHANGED kind

Spec == Init /\ [][Next]_vars

-----------------------------------------------------------------------------
(* Properties. *)

TypeOK ==
    /\ rows \subseteq Ids /\ active \subseteq rows
    /\ nextId \in 1 .. MaxRows + 1 /\ (\A c \in rows : c < nextId)
    /\ locks \subseteq Admins
    /\ pc \in [Actors -> Steps] /\ target \in [Actors -> Refs] /\ prev \in [Actors -> Refs]
    /\ readAt \in [Actors -> Nat] /\ commits \in Nat
    /\ audit \in [prev : Refs, was : Refs, late : BOOLEAN]
    /\ table \in Tables /\ populated \in BOOLEAN

(* However admins race, a table of which no row can be deleted and that    *)
(* starts with an active row always has exactly one.                       *)
OneActive == populated /\ table = "pipeline" => \E c \in rows : active = {c}

(* Why: the row lock is exclusive, only its holder writes, and nobody      *)
(* finds the table empty.                                                  *)
Serialised ==
    populated /\ table = "pipeline" =>
        /\ \A p, q \in locks : p = q
        /\ \A a \in Actors : pc[a] \notin {"seed", "delete"}
        /\ \A p \in Admins : pc[p] = "write" <=> p \in locks

ConfigInv == TypeOK /\ OneActive /\ Serialised

(* On any table, with deletes and racing seeds too: stray active rows come *)
(* only from seeders that found the table empty at the same time, so there *)
(* are never more than one per seeder beside the one an admin chose.       *)
ActiveBounded == Cardinality(active) <= Cardinality(Seeders) + 1

(* Why: a seed about to happen has its place already. *)
Seeding      == {s \in Seeders : pc[s] = "seed"}
SeedReserved == Cardinality(active) + Cardinality(Seeding) <= Cardinality(Seeders) + 1

(* The audit log names the version a switch replaced: it can only be wrong *)
(* when another commit fell between the request's read and its own commit. *)
AuditErrsOnlyOnRace == ~audit.late => audit.prev = audit.was

(* Why: what a request read is current until the next commit. *)
ReadsCurrent ==
    \A p \in Admins :
        /\ readAt[p] <= commits
        /\ pc[p] \in {"switch", "write"} /\ readAt[p] = commits => prev[p] = Current
=============================================================================
