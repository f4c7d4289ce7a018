----------------------- MODULE VersionedConfigProofs ------------------------
(***************************************************************************)
(* For any number of admins and processes: pipeline_config keeps exactly   *)
(* one active row once it has one, and a seeded or deleted-from table      *)
(* never has more than one stray active row per seeder.                    *)
(***************************************************************************)
EXTENDS VersionedConfig, TLAPS, FiniteSetTheorems

(* Ids are bounded, so some active row is the newest. *)
LEMMA NewestTyped ==
    ASSUME NEW S \in SUBSET Ids
    PROVE  Newest(S) \in Refs
<1>1. CASE S = {}
  BY <1>1 DEF Newest, Refs
<1>2. CASE S # {}
  <2> DEFINE gaps == {MaxRows - c : c \in S}
  <2>1. gaps \in SUBSET Nat /\ gaps # {}
    <3>1. \A c \in S : MaxRows - c \in Nat
      BY TableAssumption DEF Ids
    <3> QED
      BY <1>2, <3>1
  <2>2. PICK n \in gaps : \A m \in gaps : n <= m
    <3>1. \E n \in gaps : \A m \in gaps : <<m, n>> \notin OpToRel(<, Nat)
      <4> HIDE DEF gaps
      <4> QED
        BY <2>1, NatLessThanWellFounded, WFMin
    <3>2. \A n, m \in gaps : <<m, n>> \notin OpToRel(<, Nat) => n <= m
      BY <2>1 DEF OpToRel
    <3> QED
      BY <3>1, <3>2
  <2>3. PICK c \in S : n = MaxRows - c
    OBVIOUS
  <2>4. \A d \in S : MaxRows - c <= MaxRows - d
    BY <2>2, <2>3
  <2>5. \A d \in S : d <= c
    BY <2>4, TableAssumption DEF Ids
  <2>6. Newest(S) \in S
    BY <1>2, <2>5 DEF Newest
  <2> QED
    BY <2>6 DEF Refs
<1> QED
  BY <1>1, <1>2

-----------------------------------------------------------------------------
(* Types. *)

LEMMA CurrentTyped == TypeOK => Current \in Refs
  BY NewestTyped DEF TypeOK, Current

(* Refs contains what a request can start from. *)
LEMMA RefsHave == None \in Refs /\ NewRow \in Refs /\ Ids \subseteq Refs
  BY DEF Refs

(* A switch leaves a well-formed audit row. *)
LEMMA AuditTyped ==
    ASSUME TypeOK, NEW p \in Admins, Audited(p, Current)
    PROVE  audit' \in [prev : Refs, was : Refs, late : BOOLEAN]
<1>1. CASE table = "pipeline"
  <2> DEFINE late == readAt[p] # commits
  <2>1. audit' = [prev |-> prev[p], was |-> Current, late |-> late]
    BY <1>1 DEF Audited
  <2>2. late \in BOOLEAN
    OBVIOUS
  <2>3. prev[p] \in Refs /\ Current \in Refs
    BY CurrentTyped DEF TypeOK, Actors
  <2> HIDE DEF late
  <2> QED
    BY <2>1, <2>2, <2>3
<1>2. CASE table # "pipeline"
  BY <1>2 DEF Audited, TypeOK
<1> QED
  BY <1>1, <1>2

LEMMA StepTyped ==
    ASSUME TypeOK, Next
    PROVE  TypeOK'
<1>0. table' = table /\ populated' = populated
  BY DEF Next, kind
<1> USE <1>0, CurrentTyped, RefsHave, TableAssumption DEF TypeOK, Steps, Actors, Start, Finish,
        kind, tableVars, actorVars
<1>1. ASSUME NEW p \in Admins,
             CreateRead(p) \/ (\E c \in Ids : RollbackRead(p, c) \/ DeleteRead(p, c))
      PROVE  TypeOK'
  BY <1>1 DEF CreateRead, RollbackRead, DeleteRead
<1>2. ASSUME NEW p \in Admins, Deactivate(p) PROVE TypeOK'
  BY <1>2 DEF Deactivate
<1>3. ASSUME NEW p \in Admins, CreateCommit(p) PROVE TypeOK'
  <2>1. audit' \in [prev : Refs, was : Refs, late : BOOLEAN]
    BY <1>3, AuditTyped DEF CreateCommit
  <2>2. rows' \subseteq Ids /\ active' \subseteq rows' /\ nextId' \in 1 .. MaxRows + 1
        /\ (\A c \in rows' : c < nextId')
    BY <1>3 DEF CreateCommit, Activated, Ids
  <2>3. commits' \in Nat /\ locks' \subseteq Admins
        /\ pc' \in [Actors -> Steps] /\ target' \in [Actors -> Refs] /\ prev' \in [Actors -> Refs]
        /\ readAt' \in [Actors -> Nat]
    BY <1>3 DEF CreateCommit
  <2> QED
    BY <1>3, <2>1, <2>2, <2>3 DEF CreateCommit
<1>4. ASSUME NEW p \in Admins, RollbackCommit(p) PROVE TypeOK'
  <2>1. audit' \in [prev : Refs, was : Refs, late : BOOLEAN]
    BY <1>4, AuditTyped DEF RollbackCommit
  <2> QED
    BY <1>4, <2>1 DEF RollbackCommit, Activated
<1>5. ASSUME NEW p \in Actors, Abort(p) PROVE TypeOK'
  BY <1>5 DEF Abort
<1>6. ASSUME NEW p \in Admins, DeleteCommit(p) PROVE TypeOK'
  BY <1>6 DEF DeleteCommit
<1>7. ASSUME NEW s \in Seeders, SeedRead(s) PROVE TypeOK'
  BY <1>7 DEF SeedRead
<1>8. ASSUME NEW s \in Seeders, SeedCommit(s) PROVE TypeOK'
  <2>1. rows' \subseteq Ids /\ active' \subseteq rows' /\ nextId' \in 1 .. MaxRows + 1
        /\ (\A c \in rows' : c < nextId')
    BY <1>8 DEF SeedCommit, Ids
  <2> QED
    BY <1>8, <2>1 DEF SeedCommit
<1> QED
  BY <1>1, <1>2, <1>3, <1>4, <1>5, <1>6, <1>7, <1>8 DEF Next, Step, Admin

-----------------------------------------------------------------------------
(* One active row. *)

LEMMA OneActiveStep ==
    ASSUME ConfigInv, Next, populated, table = "pipeline"
    PROVE  OneActive' /\ Serialised'
<1> USE DEF ConfigInv, TypeOK, OneActive, Serialised, Actors, Start, Finish,
        kind, tableVars, actorVars
<1>0. active # {} /\ table' = table /\ populated' = populated
  BY DEF Next
<1>1. ASSUME NEW p \in Admins,
             CreateRead(p) \/ (\E c \in Ids : RollbackRead(p, c) \/ DeleteRead(p, c))
      PROVE  OneActive' /\ Serialised'
  BY <1>1 DEF CreateRead, RollbackRead, DeleteRead
<1>2. ASSUME NEW p \in Admins, Deactivate(p) PROVE OneActive' /\ Serialised'
  BY <1>0, <1>2 DEF Deactivate, MayLock
<1>3. ASSUME NEW p \in Admins, CreateCommit(p) \/ RollbackCommit(p)
      PROVE  OneActive' /\ Serialised'
  <2>1. OneActive'
    BY <1>3 DEF CreateCommit, RollbackCommit, Activated
  <2>2. Serialised'
    BY <1>3, ActorAssumption DEF CreateCommit, RollbackCommit
  <2> QED
    BY <2>1, <2>2
<1>4. ASSUME NEW p \in Actors, Abort(p) PROVE OneActive' /\ Serialised'
  BY <1>4, ActorAssumption DEF Abort
<1>5. \A p \in Admins : ~DeleteCommit(p)
  BY DEF DeleteCommit
<1>6. \A s \in Seeders : ~SeedRead(s) /\ ~SeedCommit(s)
  BY <1>0 DEF SeedRead, SeedCommit
<1> QED
  BY <1>1, <1>2, <1>3, <1>4, <1>5, <1>6 DEF Next, Step, Admin

LEMMA InitConfigInv == Init => ConfigInv
<1> SUFFICES ASSUME Init PROVE ConfigInv
  OBVIOUS
<1>1. (nextId = 1 /\ rows = {} /\ ~populated) \/ (nextId = 2 /\ rows = {1})
  <2>1. Cardinality({}) = 0 /\ Cardinality({1}) = 1
    BY FS_EmptySet, FS_Singleton
  <2> QED
    BY <2>1, TableAssumption DEF Init
<1>2. TypeOK
  <2>1. rows \subseteq Ids /\ active \subseteq rows /\ nextId \in 1 .. MaxRows + 1
        /\ (\A c \in rows : c < nextId)
    BY <1>1, TableAssumption DEF Init, Ids
  <2> QED
    BY <2>1, RefsHave DEF Init, TypeOK, Steps
<1>3. OneActive /\ Serialised
  BY <1>1, ActorAssumption DEF Init, OneActive, Serialised, Actors
<1> QED
  BY <1>2, <1>3 DEF ConfigInv

LEMMA StepConfigInv == ConfigInv /\ [Next]_vars => ConfigInv'
<1> SUFFICES ASSUME ConfigInv, [Next]_vars PROVE ConfigInv'
  OBVIOUS
<1>1. CASE Next
  <2>1. TypeOK'
    BY <1>1, StepTyped DEF ConfigInv
  <2>2. CASE populated /\ table = "pipeline"
    BY <1>1, <2>1, <2>2, OneActiveStep DEF ConfigInv
  <2>3. CASE ~(populated /\ table = "pipeline")
    <3>1. ~(populated' /\ table' = "pipeline")
      BY <1>1, <2>3 DEF Next, kind
    <3> QED
      BY <2>1, <3>1 DEF ConfigInv, OneActive, Serialised
  <2> QED
    BY <2>2, <2>3
<1>2. CASE UNCHANGED vars
  BY <1>2 DEF vars, kind, tableVars, actorVars, ConfigInv, TypeOK, OneActive, Serialised
<1> QED
  BY <1>1, <1>2

(* The inductive invariant: types, one active row, serialised writers. *)
THEOREM SpecConfigInv == Spec => []ConfigInv
  BY InitConfigInv, StepConfigInv, PTL DEF Spec

(* pipeline_config never has none or two active rows once it has one,      *)
(* whatever creates, rollbacks and seeds race (config.py 144-215).         *)
THEOREM SpecOneActive == Spec => []OneActive
  BY SpecConfigInv, PTL DEF ConfigInv

-----------------------------------------------------------------------------
(* Stray active rows. *)

LEMMA Counts ==
    ASSUME NEW A \in SUBSET Ids, NEW B \in SUBSET Seeders
    PROVE  /\ IsFiniteSet(A) /\ Cardinality(A) \in Nat
           /\ IsFiniteSet(B) /\ Cardinality(B) \in Nat
           /\ Cardinality(Seeders) \in Nat /\ Cardinality(B) <= Cardinality(Seeders)
<1>1. IsFiniteSet(Ids)
  BY TableAssumption, FS_Interval DEF Ids
<1>2. IsFiniteSet(A) /\ Cardinality(A) \in Nat
  BY <1>1, FS_Subset, FS_CardinalityType
<1>3. IsFiniteSet(B) /\ Cardinality(B) \in Nat /\ Cardinality(B) <= Cardinality(Seeders)
  BY ActorAssumption, FS_Subset, FS_CardinalityType
<1>4. Cardinality(Seeders) \in Nat
  BY ActorAssumption, FS_CardinalityType
<1> QED
  BY <1>2, <1>3, <1>4

(* A step that leaves no more active rows and no more pending seeds. *)
LEMMA SeedShrinks ==
    ASSUME TypeOK, TypeOK', SeedReserved, active' \subseteq active, Seeding' \subseteq Seeding
    PROVE  SeedReserved'
<1>1. Cardinality(active') <= Cardinality(active)
  BY Counts, FS_Subset DEF TypeOK
<1>2. Cardinality(Seeding') <= Cardinality(Seeding)
  <2>1. Seeding \subseteq Seeders
    BY DEF Seeding
  <2>2. IsFiniteSet(Seeding)
    BY <2>1, Counts
  <2> HIDE DEF Seeding
  <2> QED
    BY <2>2, FS_Subset
<1>3. /\ Cardinality(active) \in Nat /\ Cardinality(active') \in Nat
      /\ Cardinality(Seeding) \in Nat /\ Cardinality(Seeding') \in Nat
      /\ Cardinality(Seeders) \in Nat
  <2>1. active \subseteq Ids /\ active' \subseteq Ids
    BY DEF TypeOK
  <2>2. Seeding \subseteq Seeders /\ Seeding' \subseteq Seeders
    BY DEF Seeding
  <2> QED
    BY <2>1, <2>2, Counts
<1> QED
  BY <1>1, <1>2, <1>3 DEF SeedReserved

LEMMA SeedStep ==
    ASSUME TypeOK, TypeOK', SeedReserved, Next
    PROVE  SeedReserved'
<1> USE DEF Start, Finish, kind, tableVars, actorVars
<1>1. ASSUME NEW p \in Admins, CreateCommit(p) \/ RollbackCommit(p) PROVE SeedReserved'
  <2>1. PICK c \in Ids : active' = {c}
    BY <1>1 DEF CreateCommit, RollbackCommit, Activated, TypeOK
  <2>2. Cardinality(active') = 1
    BY <2>1, FS_Singleton
  <2>3. Seeding' \subseteq Seeders
    BY DEF Seeding
  <2>4. Cardinality(Seeding') \in Nat /\ Cardinality(Seeders) \in Nat
        /\ Cardinality(Seeding') <= Cardinality(Seeders)
    BY <2>3, Counts DEF TypeOK
  <2> QED
    BY <2>2, <2>4 DEF SeedReserved
<1>2. ASSUME NEW s \in Seeders, SeedRead(s) PROVE SeedReserved'
  <2>1. active' = {} /\ Cardinality(active') = 0
    BY <1>2, FS_EmptySet DEF SeedRead
  <2>2. Seeding' \subseteq Seeders
    BY DEF Seeding
  <2>3. Cardinality(Seeding') \in Nat /\ Cardinality(Seeders) \in Nat
        /\ Cardinality(Seeding') <= Cardinality(Seeders)
    BY <2>2, Counts DEF TypeOK
  <2> QED
    BY <2>1, <2>3 DEF SeedReserved
<1>3. ASSUME NEW s \in Seeders, SeedCommit(s) PROVE SeedReserved'
  <2>1. active' = active \cup {nextId} /\ nextId \notin active
    BY <1>3 DEF SeedCommit, TypeOK, Ids
  <2>2. s \in Seeding /\ Seeding' = Seeding \ {s}
    BY <1>3, ActorAssumption DEF SeedCommit, Seeding, TypeOK, Actors
  <2>3. /\ Cardinality(active) \in Nat /\ Cardinality(Seeding) \in Nat
        /\ Cardinality(Seeders) \in Nat /\ IsFiniteSet(active) /\ IsFiniteSet(Seeding)
    BY Counts DEF TypeOK, Seeding
  <2>4. Cardinality(active') = Cardinality(active) + 1
    BY <2>1, <2>3, FS_AddElement
  <2>5. Cardinality(Seeding') = Cardinality(Seeding) - 1
    BY <2>2, <2>3, FS_RemoveElement
  <2> QED
    BY <2>3, <2>4, <2>5 DEF SeedReserved
<1>4. ASSUME NEW p \in Admins,
             \/ CreateRead(p) \/ (\E c \in Ids : RollbackRead(p, c) \/ DeleteRead(p, c))
             \/ Deactivate(p) \/ DeleteCommit(p)
      PROVE  SeedReserved'
  <2>1. active' \subseteq active
    BY <1>4 DEF CreateRead, RollbackRead, DeleteRead, Deactivate, DeleteCommit
  <2>2. Seeding' \subseteq Seeding
    BY <1>4, ActorAssumption DEF CreateRead, RollbackRead, DeleteRead, Deactivate, DeleteCommit,
       Seeding, TypeOK, Actors
  <2> QED
    BY <2>1, <2>2, SeedShrinks
<1>5. ASSUME NEW a \in Actors, Abort(a) PROVE SeedReserved'
  <2>1. active' = active /\ Seeding' \subseteq Seeding
    BY <1>5 DEF Abort, Seeding, TypeOK, Actors
  <2> QED
    BY <2>1, SeedShrinks
<1> QED
  BY <1>1, <1>2, <1>3, <1>4, <1>5 DEF Next, Step, Admin, Actors

LEMMA InitSeedReserved == Init => SeedReserved
<1> SUFFICES ASSUME Init PROVE SeedReserved
  OBVIOUS
<1>1. Seeding = {} /\ (active = {} \/ active = {1})
  BY DEF Init, Seeding, Actors
<1>2. Cardinality({}) = 0 /\ Cardinality({1}) = 1
  BY FS_EmptySet, FS_Singleton
<1>3. Cardinality(Seeders) \in Nat
  BY ActorAssumption, FS_CardinalityType
<1>4. Cardinality(active) \in {0, 1} /\ Cardinality(Seeding) = 0
  BY <1>1, <1>2
<1> QED
  BY <1>3, <1>4 DEF SeedReserved

(* Whatever is deleted and seeded, stray active rows are no more than the  *)
(* processes that found the table empty together (vision_service.py        *)
(* 44-60, 75-89).                                                          *)
THEOREM SpecActiveBounded == Spec => []ActiveBounded
<1>1. TypeOK /\ SeedReserved /\ TypeOK' /\ [Next]_vars => SeedReserved'
  <2>1. CASE UNCHANGED vars
    BY <2>1 DEF vars, tableVars, actorVars, SeedReserved, Seeding
  <2> QED
    BY <2>1, SeedStep
<1>2. TypeOK /\ SeedReserved => ActiveBounded
  <2> SUFFICES ASSUME TypeOK, SeedReserved PROVE ActiveBounded
    OBVIOUS
  <2>1. Cardinality(active) \in Nat /\ Cardinality(Seeding) \in Nat
        /\ Cardinality(Seeders) \in Nat
    BY Counts DEF TypeOK, Seeding
  <2> QED
    BY <2>1 DEF SeedReserved, ActiveBounded
<1>3. ConfigInv => TypeOK
  BY DEF ConfigInv
<1> QED
  BY InitSeedReserved, SpecConfigInv, <1>1, <1>2, <1>3, PTL DEF Spec

-----------------------------------------------------------------------------
(* The audit log. *)

(* A commit is later than everything that was read before it. *)
LEMMA CommitLater ==
    ASSUME TypeOK, ReadsCurrent, commits' = commits + 1, NEW p \in Actors, Finish(p)
    PROVE  ReadsCurrent'
<1> SUFFICES ASSUME NEW q \in Admins
             PROVE  /\ readAt'[q] <= commits'
                    /\ pc'[q] \in {"switch", "write"} /\ readAt'[q] = commits' => prev'[q] = Current'
  BY DEF ReadsCurrent
<1>1. CASE q = p
  BY <1>1 DEF Finish, TypeOK, Actors
<1>2. CASE q # p
  BY <1>2 DEF Finish, TypeOK, Actors, ReadsCurrent
<1> QED
  BY <1>1, <1>2

LEMMA ReadsCurrentStep ==
    ASSUME TypeOK, ReadsCurrent, Next
    PROVE  ReadsCurrent'
<1> USE DEF tableVars, actorVars
<1>1. ASSUME NEW p \in Admins,
             CreateRead(p) \/ (\E c \in Ids : RollbackRead(p, c) \/ DeleteRead(p, c))
      PROVE  ReadsCurrent'
  BY <1>1 DEF CreateRead, RollbackRead, DeleteRead, Start, ReadsCurrent, Current, TypeOK, Actors
<1>2. ASSUME NEW p \in Admins, Deactivate(p) PROVE ReadsCurrent'
  BY <1>2 DEF Deactivate, ReadsCurrent, Current, TypeOK, Actors
<1>3. ASSUME NEW p \in Admins, CreateCommit(p) \/ RollbackCommit(p) \/ DeleteCommit(p)
      PROVE  ReadsCurrent'
  BY <1>3, CommitLater DEF CreateCommit, RollbackCommit, DeleteCommit, Actors
<1>4. ASSUME NEW s \in Seeders, SeedCommit(s) PROVE ReadsCurrent'
  BY <1>4, CommitLater DEF SeedCommit, Actors
<1>5. ASSUME NEW a \in Actors, Abort(a) PROVE ReadsCurrent'
  BY <1>5 DEF Abort, Finish, ReadsCurrent, Current, TypeOK, Actors
<1>6. ASSUME NEW s \in Seeders, SeedRead(s) PROVE ReadsCurrent'
  BY <1>6, ActorAssumption DEF SeedRead, Start, ReadsCurrent, Current, TypeOK, Actors
<1> QED
  BY <1>1, <1>2, <1>3, <1>4, <1>5, <1>6 DEF Next, Step, Admin, Actors

LEMMA AuditStep ==
    ASSUME TypeOK, ReadsCurrent, AuditErrsOnlyOnRace, Next
    PROVE  AuditErrsOnlyOnRace'
<1> USE DEF AuditErrsOnlyOnRace
<1>1. ASSUME NEW p \in Admins, CreateCommit(p) \/ RollbackCommit(p) PROVE AuditErrsOnlyOnRace'
  <2>1. pc[p] = "write" /\ Audited(p, Current)
    BY <1>1 DEF CreateCommit, RollbackCommit
  <2> DEFINE late == readAt[p] # commits
  <2>2. CASE audit' = [prev |-> prev[p], was |-> Current, late |-> late]
    <3>1. audit'.prev = prev[p] /\ audit'.was = Current /\ audit'.late = late
      <4> HIDE DEF late
      <4> QED
        BY <2>2
    <3>2. ~late => prev[p] = Current
      BY <2>1 DEF ReadsCurrent
    <3> QED
      BY <3>1, <3>2
  <2>3. CASE UNCHANGED audit
    BY <2>3
  <2> QED
    BY <2>1, <2>2, <2>3 DEF Audited
<1>2. ASSUME UNCHANGED audit PROVE AuditErrsOnlyOnRace'
  BY <1>2
<1>3. \A p \in Admins : Admin(p) => CreateCommit(p) \/ RollbackCommit(p) \/ UNCHANGED audit
  BY DEF Admin, CreateRead, RollbackRead, DeleteRead, Start, Deactivate, Abort, DeleteCommit
<1>4. \A s \in Seeders : SeedRead(s) \/ SeedCommit(s) \/ Abort(s) => UNCHANGED audit
  BY DEF SeedRead, SeedCommit, Abort, Start
<1> QED
  BY <1>1, <1>2, <1>3, <1>4 DEF Next, Step

(* The audit row of a switch names the version it replaced unless another  *)
(* commit came between its read and its own (config.py 149, 197-213).      *)
THEOREM SpecAuditErrsOnlyOnRace == Spec => []AuditErrsOnlyOnRace
<1>1. Init => ReadsCurrent /\ AuditErrsOnlyOnRace
  BY DEF Init, ReadsCurrent, AuditErrsOnlyOnRace, Actors
<1>2. TypeOK /\ ReadsCurrent /\ AuditErrsOnlyOnRace /\ [Next]_vars
      => ReadsCurrent' /\ AuditErrsOnlyOnRace'
  <2>1. TypeOK /\ ReadsCurrent /\ AuditErrsOnlyOnRace /\ UNCHANGED vars
        => ReadsCurrent' /\ AuditErrsOnlyOnRace'
    BY DEF vars, tableVars, actorVars, ReadsCurrent, Current, AuditErrsOnlyOnRace
  <2> QED
    BY <2>1, ReadsCurrentStep, AuditStep
<1>3. ConfigInv => TypeOK
  BY DEF ConfigInv
<1> QED
  BY SpecConfigInv, <1>1, <1>2, <1>3, PTL DEF Spec
=============================================================================
