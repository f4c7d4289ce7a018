------------------------- MODULE FeatureFlagsProofs --------------------------
(***************************************************************************)
(* Proofs about FeatureFlags: FlagsInv is inductive, for any slots, keys,  *)
(* answers and age limits, and the properties follow.                      *)
(***************************************************************************)
EXTENDS FeatureFlags, TLAPS

(* decide approves the clear pictures of a family and no other.  The       *)
(* parent is the older one because a child of at most ChildMax cannot be   *)
(* MinGap years older than anybody (photo_validation.py 274-306).           *)
THEOREM DecideExact ==
    ASSUME NEW a \in Analyses
    PROVE  Decide(a) = "APPROVED" <=> IsClear(a) /\ IsFamily(a)
<1>1. /\ a.number_of_people \in Int
      /\ a.parent_estimated_age \in Nat /\ a.child_estimated_age \in Nat
  BY DEF Analyses
<1>2. ASSUME Decide(a) = "APPROVED" PROVE IsClear(a) /\ IsFamily(a)
  <2>1. /\ IsClear(a)
        /\ ~(a.number_of_people > 2) /\ ~(a.number_of_people < 2)
        /\ a.parent_present /\ a.child_present
        /\ ChildAgeFits(a) /\ ~(AgeGap(a) < MinGap)
    BY <1>2 DEF Decide, IsClear
  <2>2. a.number_of_people = 2
    BY <1>1, <2>1
  <2>3. a.child_estimated_age \in ChildMin .. ChildMax
    BY <1>1, <2>1, AgeAssumption DEF ChildAgeFits
  <2>4. a.parent_estimated_age >= a.child_estimated_age + MinGap
    BY <1>1, <2>1, <2>3, AgeAssumption DEF AgeGap
  <2> QED
    BY <2>1, <2>2, <2>3, <2>4 DEF IsFamily
<1>3. ASSUME IsClear(a), IsFamily(a) PROVE Decide(a) = "APPROVED"
  <2>1. ~(a.number_of_people > 2) /\ ~(a.number_of_people < 2)
    BY <1>3 DEF IsFamily
  <2>2. ChildAgeFits(a)
    BY <1>1, <1>3, AgeAssumption DEF IsFamily, ChildAgeFits
  <2>3. ~(AgeGap(a) < MinGap)
    BY <1>1, <1>3, AgeAssumption DEF IsFamily, AgeGap
  <2> QED
    BY <1>3, <2>1, <2>2, <2>3 DEF Decide, IsClear, IsFamily
<1> QED
  BY <1>2, <1>3

(* decide answers with one of the labels. *)
LEMMA DecideTyped == \A a \in Analyses : Decide(a) \in Labels
  BY DEF Decide, Labels

LEMMA BlankTyped == Blank \in Locals
  BY DEF Blank, Locals, Flags

-----------------------------------------------------------------------------
(* Conjuncts that concern one slot at a time. *)
SlotInv == Undecided /\ Decided /\ AutoTriedAll /\ Trying /\ Auditing

(* So is the label in an answer. *)
LEMMA DecidedExactly == TypeOK /\ Undecided /\ Decided => ApprovedIffFamily
<1> SUFFICES ASSUME TypeOK, Undecided, Decided, NEW r \in Slots, NEW a \in job[r].said
             PROVE  "APPROVED" \in job[r].labels <=> IsClear(a) /\ IsFamily(a)
  BY DEF ApprovedIffFamily
<1>1. pc[r] = "reply"
  BY DEF Undecided
<1>2. PICK b \in Answers : job[r].said = {b} /\ job[r].labels = {Decide(b)}
  BY <1>1 DEF Decided
<1>3. a = b /\ a \in Analyses
  BY <1>2, AnswersAssumption
<1>4. "APPROVED" \in job[r].labels <=> Decide(a) = "APPROVED"
  BY <1>2, <1>3
<1> QED
  BY <1>3, <1>4, DecideExact

(* What a step of slot r does to the slots: r gets step and copy l; a      *)
(* writer that joins tells the others that they are not alone.             *)
Moves(r, step, l) ==
    /\ pc'  = [pc EXCEPT ![r] = step]
    /\ l \in Locals /\ job'[r] = l
    /\ job' \in [Slots -> Locals]
    /\ \A s \in Slots \ {r} :
          job'[s] = job[s] \/ job'[s] = [job[s] EXCEPT !.alone = FALSE]

LEMMA MovesTyped ==
    ASSUME TypeOK, NEW r \in Slots, NEW step \in Steps, NEW l, Moves(r, step, l)
    PROVE  pc' \in [Slots -> Steps] /\ job' \in [Slots -> Locals]
  BY DEF TypeOK, Moves

(* The slot conjuncts survive if the moving slot satisfies them. *)
LEMMA MovesSlotInv ==
    ASSUME TypeOK, SlotInv, NEW r \in Slots, NEW step \in Steps, NEW l, Moves(r, step, l),
           step # "reply" => l.said = {} /\ l.labels = {},
           step = "reply" => \E a \in Answers : l.said = {a} /\ l.labels = {Decide(a)},
           l.auto => /\ step \in {"set", "mark"} /\ l.flag = "photo_validation" /\ ~l.want
                     /\ l.refused = l.keys,
           step = "try" => l.flag = "photo_validation" /\ l.refused < l.keys,
           step = "audit" => l.flag = "pipeline_paused"
    PROVE  SlotInv'
<1>1. pc'[r] = step /\ job'[r] = l
  BY DEF TypeOK, Moves
<1>2. \A s \in Slots \ {r} :
          /\ pc'[s] = pc[s]
          /\ job'[s].said = job[s].said /\ job'[s].labels = job[s].labels
          /\ job'[s].auto = job[s].auto /\ job'[s].flag = job[s].flag
          /\ job'[s].want = job[s].want
          /\ job'[s].refused = job[s].refused /\ job'[s].keys = job[s].keys
  BY DEF TypeOK, Moves, Locals
<1>3. Undecided'
  BY <1>1, <1>2 DEF SlotInv, Undecided
<1>4. Decided'
  BY <1>1, <1>2 DEF SlotInv, Decided
<1>5. AutoTriedAll'
  BY <1>1, <1>2 DEF SlotInv, AutoTriedAll
<1>6. Trying'
  BY <1>1, <1>2 DEF SlotInv, Trying
<1>7. Auditing'
  BY <1>1, <1>2 DEF SlotInv, Auditing
<1> QED
  BY <1>3, <1>4, <1>5, <1>6, <1>7 DEF SlotInv

-----------------------------------------------------------------------------
(* The other conjuncts concern one flag at a time. *)
AloneOf(f) == \A r \in Writers(f) : job[r].alone =>
    Writers(f) = {r} /\ (pc[r] # "set" => value[f] = job[r].want)

FlagOK(f) ==
    /\ AloneOf(f)
    /\ f = "photo_validation" /\ Quiet(f) /\ f \in autoOff => ~value[f]
    /\ f = "pipeline_paused" /\ Quiet(f) => value[f] = audited

FlagInv == \A f \in Flags : FlagOK(f)

LEMMA FlagInvMeans == FlagInv <=> MarkAgrees /\ PauseAudited /\ AloneIsAlone
<1>1. AloneIsAlone <=> \A f \in Flags : AloneOf(f)
  BY DEF AloneIsAlone, AloneOf, Writers
<1>2. MarkAgrees <=> \A f \in Flags :
          f = "photo_validation" /\ Quiet(f) /\ f \in autoOff => ~value[f]
  BY DEF MarkAgrees, Flags
<1>3. PauseAudited <=> \A f \in Flags :
          f = "pipeline_paused" /\ Quiet(f) => value[f] = audited
  BY DEF PauseAudited, Flags
<1> QED
  BY <1>1, <1>2, <1>3 DEF FlagInv, FlagOK

(* A flag whose writers and values a step leaves alone. *)
Untouched(f) ==
    /\ value'[f] = value[f] /\ (f \in autoOff' <=> f \in autoOff)
    /\ f = "pipeline_paused" => audited' = audited
    /\ f \in dirty' <=> f \in dirty
    /\ Writers(f)' = Writers(f)
    /\ \A r \in Writers(f) :
          pc'[r] = pc[r] /\ job'[r].alone = job[r].alone /\ job'[r].want = job[r].want

LEMMA UntouchedOK ==
    ASSUME NEW f \in Flags, FlagOK(f), Untouched(f)
    PROVE  FlagOK(f)'
<1>1. AloneOf(f)'
  BY DEF FlagOK, AloneOf, Untouched
<1>2. Quiet(f)' => Quiet(f)
  BY DEF Quiet, Untouched
<1> QED
  BY <1>1, <1>2 DEF FlagOK, Untouched

(* A step of slot r that writes no flag and neither joins nor leaves the   *)
(* writers. *)
LEMMA NoWriterOK ==
    ASSUME TypeOK, FlagInv, NEW r \in Slots, NEW step \in Steps, NEW l,
           pc' = [pc EXCEPT ![r] = step], job' = [job EXCEPT ![r] = l], l \in Locals,
           pc[r] \notin {"set", "mark", "audit"}, step \notin {"set", "mark", "audit"},
           UNCHANGED flagVars, UNCHANGED dirty
    PROVE  FlagInv'
<1> SUFFICES ASSUME NEW f \in Flags PROVE FlagOK(f)'
  BY DEF FlagInv
<1>1. Writers(f)' = Writers(f) /\ r \notin Writers(f)
  BY DEF TypeOK, Writers
<1>2. Untouched(f)
  BY <1>1 DEF Untouched, flagVars, Writers, TypeOK
<1> QED
  BY <1>2, UntouchedOK DEF FlagInv

(* Joining the writers of a flag. *)
LEMMA BeginWriteOK ==
    ASSUME TypeOK, FlagInv, NEW r \in Slots, NEW l \in Locals,
           pc[r] \notin {"set", "mark", "audit"}, BeginWrite(r, l),
           UNCHANGED flagVars, UNCHANGED dirty
    PROVE  /\ \E k \in Locals : /\ Moves(r, "set", k)
                               /\ k = [l EXCEPT !.alone = Writers(l.flag) = {}]
           /\ FlagInv'
<1> DEFINE k == [l EXCEPT !.alone = Writers(l.flag) = {}]
<1>1. k \in Locals /\ k.flag = l.flag /\ (k.alone <=> Writers(l.flag) = {})
  BY DEF Locals
<1>2. /\ pc' = [pc EXCEPT ![r] = "set"]
      /\ job' = [s \in Slots |-> IF s = r THEN k
                                 ELSE IF s \in Writers(l.flag) THEN [job[s] EXCEPT !.alone = FALSE]
                                 ELSE job[s]]
  BY DEF BeginWrite, Goto
<1> HIDE DEF k
<1>3. \A s \in Slots : /\ [job[s] EXCEPT !.alone = FALSE] \in Locals
                        /\ [job[s] EXCEPT !.alone = FALSE].alone = FALSE
                        /\ [job[s] EXCEPT !.alone = FALSE].flag = job[s].flag
  BY DEF TypeOK, Locals
<1>4. Moves(r, "set", k)
  BY <1>1, <1>2, <1>3 DEF Moves, TypeOK
<1>5. /\ Writers(l.flag)' = Writers(l.flag) \cup {r}
      /\ \A f \in Flags \ {l.flag} : Writers(f)' = Writers(f)
      /\ r \notin Writers(l.flag)
  BY <1>1, <1>2, <1>3 DEF Writers, TypeOK
<1>6. ASSUME NEW f \in Flags \ {l.flag} PROVE FlagOK(f)'
  <2>1. \A s \in Writers(f) : s \in Slots /\ s # r /\ s \notin Writers(l.flag)
    BY DEF Writers
  <2>2. \A s \in Writers(f) : pc'[s] = pc[s] /\ job'[s] = job[s]
    BY <1>2, <2>1 DEF TypeOK
  <2>3. Untouched(f)
    BY <1>5, <2>2 DEF Untouched, flagVars
  <2> QED
    BY <2>3, UntouchedOK DEF FlagInv
<1>7. ASSUME l.flag \in Flags PROVE FlagOK(l.flag)'
  <2>1. \A s \in Writers(l.flag) : s \in Slots /\ s # r
    BY <1>5 DEF Writers
  <2>2. \A s \in Writers(l.flag) : ~job'[s].alone /\ pc'[s] = pc[s]
    BY <1>2, <1>3, <2>1 DEF TypeOK
  <2>3. job'[r] = k /\ pc'[r] = "set"
    BY <1>2 DEF TypeOK
  <2>4. AloneOf(l.flag)'
    BY <1>1, <1>5, <2>2, <2>3 DEF AloneOf
  <2>5. Quiet(l.flag)' => Quiet(l.flag)
    BY <1>5, <2>2 DEF Quiet
  <2> QED
    BY <1>7, <2>4, <2>5 DEF FlagOK, FlagInv, flagVars
<1> QED
  BY <1>1, <1>4, <1>6, <1>7 DEF FlagInv, k

(* A step of a writer r of flag g leaves the other flags alone. *)
WritesOnly(r, step, l) ==
    /\ pc' = [pc EXCEPT ![r] = step] /\ job' = [job EXCEPT ![r] = l] /\ l \in Locals
    /\ l.flag = job[r].flag \/ step = "idle"
    /\ \A f \in Flags \ {job[r].flag} :
          /\ value'[f] = value[f] /\ (f \in autoOff' <=> f \in autoOff)
          /\ f \in dirty' <=> f \in dirty
    /\ job[r].flag # "pipeline_paused" => audited' = audited

LEMMA OtherFlagsOK ==
    ASSUME TypeOK, FlagInv, NEW r \in Slots, NEW step \in Steps, NEW l,
           pc[r] \in {"set", "mark", "audit"}, WritesOnly(r, step, l),
           NEW f \in Flags \ {job[r].flag}
    PROVE  FlagOK(f)'
<1>1. /\ pc'[r] = step /\ job'[r] = l
      /\ \A s \in Slots \ {r} : pc'[s] = pc[s] /\ job'[s] = job[s]
  BY DEF WritesOnly, TypeOK
<1>2. r \notin Writers(f) /\ Writers(f)' = Writers(f)
  BY <1>1 DEF Writers, WritesOnly
<1>3. Untouched(f)
  <2>1. f = "pipeline_paused" => audited' = audited
    BY DEF WritesOnly
  <2>2. \A s \in Writers(f) : s \in Slots \ {r}
    BY <1>2 DEF Writers
  <2> QED
    BY <1>1, <1>2, <2>1, <2>2 DEF Untouched, WritesOnly
<1> QED
  BY <1>3, UntouchedOK DEF FlagInv

(* A writer that goes on: it is not at "set" any more, so its flag is not  *)
(* quiet; if it is alone, the value is the one it wants.                   *)
LEMMA GoOnOK ==
    ASSUME TypeOK, FlagInv, NEW r \in Slots, NEW step \in {"mark", "audit"}, NEW l,
           pc[r] \in {"set", "mark", "audit"}, WritesOnly(r, step, l),
           l.alone => job[r].alone /\ value'[job[r].flag] = l.want,
           l.flag = job[r].flag
    PROVE  FlagInv'
<1>3. PICK g \in Flags : g = job[r].flag
  BY DEF TypeOK, Locals
<1>1. /\ pc'[r] = step /\ job'[r] = l
      /\ \A s \in Slots \ {r} : pc'[s] = pc[s] /\ job'[s] = job[s]
  BY DEF WritesOnly, TypeOK
<1>2. r \in Writers(g) /\ Writers(g)' = Writers(g)
  BY <1>1, <1>3 DEF Writers
<1>4. ~Quiet(g)'
  BY <1>1, <1>2 DEF Quiet
<1>5. AloneOf(g)
  BY DEF FlagInv, FlagOK
<1>6. \A s \in Writers(g) : s = r \/ s \in Slots \ {r}
  BY DEF Writers
<1>7. AloneOf(g)'
  BY <1>1, <1>2, <1>3, <1>5, <1>6 DEF AloneOf
<1>8. FlagOK(g)'
  BY <1>4, <1>7 DEF FlagOK
<1>9. \A f \in Flags \ {g} : FlagOK(f)'
  BY <1>3, OtherFlagsOK DEF Steps
<1>10. ASSUME NEW f \in Flags PROVE FlagOK(f)'
  <2>1. CASE f = g
    BY <1>8, <2>1
  <2>2. CASE f # g
    BY <1>9, <2>2
  <2> QED
    BY <2>1, <2>2
<1> QED
  BY <1>10 DEF FlagInv

(* A writer that leaves: it was alone and the flag agrees with its mark    *)
(* and its audit row, or the flag is dirty, or nothing was written.        *)
LEMMA LeavesOK ==
    ASSUME TypeOK, FlagInv, NEW r \in Slots,
           pc[r] \in {"set", "mark", "audit"}, WritesOnly(r, "idle", Blank),
           \/ job[r].flag \in dirty'
           \/ /\ job[r].flag = "photo_validation" /\ job[r].flag \in autoOff'
                 => ~value'[job[r].flag]
              /\ job[r].flag = "pipeline_paused" => value'[job[r].flag] = audited'
           \/ pc[r] = "set" /\ UNCHANGED flagVars /\ UNCHANGED dirty
    PROVE  FlagInv'
<1>1. PICK g \in Flags : g = job[r].flag
  BY DEF TypeOK, Locals
<1>2. /\ pc'[r] = "idle"
      /\ \A s \in Slots \ {r} : pc'[s] = pc[s] /\ job'[s] = job[s]
  BY DEF WritesOnly, TypeOK
<1>3. r \in Writers(g) /\ Writers(g)' = Writers(g) \ {r}
  BY <1>1, <1>2 DEF Writers
<1>4. AloneOf(g)
  BY DEF FlagInv, FlagOK
<1>5. \A s \in Writers(g)' : job'[s] = job[s] /\ pc'[s] = pc[s] /\ Writers(g) # {s}
  BY <1>2, <1>3 DEF Writers
<1>6. AloneOf(g)'
  BY <1>3, <1>4, <1>5 DEF AloneOf
<1>7. FlagOK(g)'
  <2>1. CASE g \in dirty'
    BY <1>6, <2>1 DEF FlagOK, Quiet
  <2>2. CASE /\ g = "photo_validation" /\ g \in autoOff' => ~value'[g]
             /\ g = "pipeline_paused" => value'[g] = audited'
    BY <1>6, <2>2 DEF FlagOK
  <2>3. CASE pc[r] = "set" /\ UNCHANGED flagVars /\ UNCHANGED dirty
    <3>1. Quiet(g)' => Quiet(g)
      BY <1>3, <1>5, <2>3 DEF Quiet
    <3> QED
      BY <1>6, <2>3, <3>1 DEF FlagOK, FlagInv, flagVars
  <2> QED
    BY <1>1, <2>1, <2>2, <2>3
<1>8. \A f \in Flags \ {g} : FlagOK(f)'
  BY <1>1, OtherFlagsOK DEF Steps
<1>9. ASSUME NEW f \in Flags PROVE FlagOK(f)'
  <2>1. CASE f = g
    BY <1>7, <2>1
  <2>2. CASE f # g
    BY <1>8, <2>2
  <2> QED
    BY <2>1, <2>2
<1> QED
  BY <1>9 DEF FlagInv

-----------------------------------------------------------------------------
(* The actions.  Core is FlagsInv without what follows from the rest. *)
Core == TypeOK /\ SlotInv /\ FlagInv

LEMMA CoreMeans == FlagsInv <=> Core
  BY FlagInvMeans, DecidedExactly DEF Core, FlagsInv, SlotInv

(* A step that touches no other slot. *)
LEMMA SoloMoves ==
    ASSUME TypeOK, NEW r \in Slots, NEW step \in Steps, NEW l \in Locals,
           pc' = [pc EXCEPT ![r] = step], job' = [job EXCEPT ![r] = l]
    PROVE  Moves(r, step, l)
  BY DEF TypeOK, Moves

LEMMA FreeMoves ==
    ASSUME TypeOK, SlotInv, NEW r \in Slots, Free(r)
    PROVE  pc' \in [Slots -> Steps] /\ job' \in [Slots -> Locals] /\ SlotInv'
<1>1. Moves(r, "idle", Blank)
  BY BlankTyped, SoloMoves DEF Free, Goto, Steps
<1>2. pc' \in [Slots -> Steps] /\ job' \in [Slots -> Locals]
  BY <1>1, MovesTyped DEF Steps
<1>3. SlotInv'
  BY <1>1, MovesSlotInv DEF Steps, Blank
<1> QED
  BY <1>2, <1>3

(* Steps before a verdict is written. *)
LEMMA CheckStep ==
    ASSUME Core, NEW r \in Slots, Check(r)
    PROVE  Core'
<1> USE DEF Core
<1>1. ASSUME NEW n \in KeyCounts, CheckStart(r, n) PROVE Core'
  <2> DEFINE l == [Blank EXCEPT !.keys = n]
  <2>1. /\ l \in Locals /\ l.flag = "photo_validation" /\ ~l.auto /\ l.said = {}
        /\ l.labels = {} /\ l.refused < l.keys
    <3>1. n \in Nat /\ 0 < n
      BY KeyCountAssumption
    <3>2. l \in Locals
      BY <3>1, BlankTyped DEF Locals
    <3>3. /\ l.flag = "photo_validation" /\ l.auto = FALSE /\ l.said = {}
          /\ l.labels = {} /\ l.refused = 0 /\ l.keys = n
      BY DEF Blank
    <3> QED
      BY <3>1, <3>2, <3>3
  <2>2. pc' = [pc EXCEPT ![r] = "try"] /\ job' = [job EXCEPT ![r] = l] /\ pc[r] = "idle"
    BY <1>1 DEF CheckStart, Goto
  <2>3. UNCHANGED flagVars /\ UNCHANGED dirty
    BY <1>1 DEF CheckStart
  <2> HIDE DEF l
  <2>4. Moves(r, "try", l)
    BY <2>1, <2>2, SoloMoves DEF Steps
  <2>5. TypeOK'
    BY <2>3, <2>4, MovesTyped DEF Steps, TypeOK, flagVars
  <2>6. SlotInv'
    BY <2>1, <2>4, MovesSlotInv DEF Steps
  <2>7. FlagInv'
    BY <2>1, <2>2, <2>3, NoWriterOK DEF Steps
  <2> QED
    BY <2>5, <2>6, <2>7
<1>2. ASSUME NEW a \in Answers, KeyAnswers(r, a) PROVE Core'
  <2> DEFINE l == [job[r] EXCEPT !.said = {a}, !.labels = {Decide(a)}]
  <2>1. pc[r] = "try" /\ job[r] \in Locals /\ Decide(a) \in Labels /\ ~job[r].auto
    BY <1>2, DecideTyped, AnswersAssumption DEF KeyAnswers, TypeOK, SlotInv, AutoTriedAll
  <2>2. /\ l \in Locals /\ l.said = {a} /\ l.labels = {Decide(a)} /\ ~l.auto
    BY <2>1 DEF Locals
  <2>3. /\ pc' = [pc EXCEPT ![r] = "reply"] /\ job' = [job EXCEPT ![r] = l]
        /\ UNCHANGED flagVars /\ UNCHANGED dirty
    BY <1>2 DEF KeyAnswers, Goto
  <2> HIDE DEF l
  <2>4. Moves(r, "reply", l)
    BY <2>2, <2>3, SoloMoves DEF Steps
  <2>5. TypeOK'
    BY <2>3, <2>4, MovesTyped DEF Steps, TypeOK, flagVars
  <2>6. SlotInv'
    BY <2>2, <2>4, MovesSlotInv DEF Steps
  <2>7. FlagInv'
    BY <2>1, <2>2, <2>3, NoWriterOK DEF Steps
  <2> QED
    BY <2>5, <2>6, <2>7
<1>3. ASSUME KeyRefuses(r) PROVE Core'
  <2>1. /\ pc[r] = "try" /\ job[r] \in Locals /\ ~job[r].auto /\ job[r].said = {}
        /\ job[r].labels = {} /\ job[r].flag = "photo_validation"
        /\ job[r].refused < job[r].keys
    BY <1>3 DEF KeyRefuses, TypeOK, SlotInv, AutoTriedAll, Undecided, Trying
  <2>2. UNCHANGED flagVars /\ UNCHANGED dirty
    BY <1>3 DEF KeyRefuses
  <2>3. CASE job[r].refused + 1 < job[r].keys
    <3> DEFINE l == [job[r] EXCEPT !.refused = @ + 1]
    <3>1. /\ l \in Locals /\ l.flag = "photo_validation" /\ ~l.auto /\ l.said = {}
          /\ l.labels = {} /\ l.refused < l.keys
      BY <2>1, <2>3 DEF Locals
    <3>2. pc' = [pc EXCEPT ![r] = "try"] /\ job' = [job EXCEPT ![r] = l]
      BY <1>3, <2>1, <2>3 DEF KeyRefuses, TypeOK
    <3> HIDE DEF l
    <3>3. Moves(r, "try", l)
      BY <3>1, <3>2, SoloMoves DEF Steps
    <3>4. TypeOK'
      BY <2>2, <3>3, MovesTyped DEF Steps, TypeOK, flagVars
    <3>5. SlotInv'
      BY <3>1, <3>3, MovesSlotInv DEF Steps
    <3>6. FlagInv'
      BY <2>1, <2>2, <3>1, <3>2, NoWriterOK DEF Steps
    <3> QED
      BY <3>4, <3>5, <3>6
  <2>4. CASE ~(job[r].refused + 1 < job[r].keys)
    <3> DEFINE l == [job[r] EXCEPT !.refused = @ + 1, !.want = FALSE, !.auto = TRUE]
    <3>1. /\ l \in Locals /\ l.flag = "photo_validation" /\ ~l.want /\ l.said = {}
          /\ l.labels = {} /\ l.refused = l.keys
      <4>1. job[r].refused \in Nat /\ job[r].keys \in Nat
        BY <2>1 DEF Locals
      <4>2. job[r].refused + 1 = job[r].keys
        BY <2>1, <2>4, <4>1
      <4> DEFINE m == [job[r] EXCEPT !.refused = @ + 1]
      <4>a. m \in Locals /\ m.refused = job[r].refused + 1
        BY <2>1, <4>1 DEF Locals
      <4>b. l = [m EXCEPT !.want = FALSE, !.auto = TRUE]
        BY <2>1 DEF Locals
      <4> HIDE DEF l, m
      <4>c. [m EXCEPT !.want = FALSE, !.auto = TRUE] \in Locals
        BY <4>a DEF Locals
      <4>d. [m EXCEPT !.want = FALSE, !.auto = TRUE].refused = m.refused
        BY <4>a DEF Locals
      <4>3. l \in Locals /\ l.refused = job[r].refused + 1
        BY <4>a, <4>b, <4>c, <4>d
      <4>4. /\ l.flag = job[r].flag /\ l.want = FALSE /\ l.said = job[r].said
            /\ l.labels = job[r].labels /\ l.keys = job[r].keys
        BY <2>1 DEF Locals, l
      <4> QED
        BY <2>1, <4>2, <4>3, <4>4
    <3>2. BeginWrite(r, l)
      BY <1>3, <2>4 DEF KeyRefuses
    <3> HIDE DEF l
    <3>3. PICK k \in Locals : Moves(r, "set", k) /\ k = [l EXCEPT !.alone = Writers(l.flag) = {}]
      BY <2>1, <2>2, <3>1, <3>2, BeginWriteOK
    <3>4. /\ k.flag = "photo_validation" /\ ~k.want /\ k.said = {} /\ k.labels = {}
          /\ k.refused = k.keys
      <4>1. /\ k.flag = l.flag /\ k.want = l.want /\ k.said = l.said /\ k.labels = l.labels
            /\ k.refused = l.refused /\ k.keys = l.keys
        BY <3>1, <3>3 DEF Locals
      <4> QED
        BY <3>1, <4>1
    <3>5. TypeOK'
      BY <2>2, <3>3, MovesTyped DEF Steps, TypeOK, flagVars
    <3>6. SlotInv'
      <4>1. k.auto => /\ "set" \in {"set", "mark"} /\ k.flag = "photo_validation" /\ ~k.want
                      /\ k.refused = k.keys
        BY <3>4
      <4>2. "set" \in Steps /\ "set" # "reply" /\ "set" # "try" /\ "set" # "audit"
        BY DEF Steps
      <4> QED
        BY <3>3, <3>4, <4>1, <4>2, MovesSlotInv
    <3>7. FlagInv'
      BY <2>1, <2>2, <3>1, <3>2, BeginWriteOK
    <3> QED
      BY <3>5, <3>6, <3>7
  <2> QED
    BY <2>3, <2>4
<1>4. ASSUME Reply(r) PROVE Core'
  <2>1. /\ pc[r] = "reply" /\ Free(r) /\ UNCHANGED flagVars /\ UNCHANGED dirty
    BY <1>4 DEF Reply
  <2>2. TypeOK' /\ SlotInv'
    BY <2>1, FreeMoves DEF TypeOK, flagVars
  <2>3. FlagInv'
    BY <2>1, BlankTyped, NoWriterOK DEF Free, Goto, Steps
  <2> QED
    BY <2>2, <2>3
<1> QED
  BY <1>1, <1>2, <1>3, <1>4 DEF Check

(* An admin's switch. *)
LEMMA SwitchStep ==
    ASSUME Core, NEW r \in Slots, NEW f \in Flags, NEW b \in BOOLEAN, Switch(r, f, b)
    PROVE  Core'
<1> USE DEF Core
<1> DEFINE l == [Blank EXCEPT !.flag = f, !.want = b]
<1>1. l \in Locals
  BY BlankTyped DEF Locals
<1>2. l.auto = FALSE /\ l.said = {} /\ l.labels = {}
  BY DEF Blank
<1>3. BeginWrite(r, l) /\ pc[r] = "idle" /\ UNCHANGED flagVars /\ UNCHANGED dirty
  BY DEF Switch
<1> HIDE DEF l
<1>4. PICK k \in Locals : Moves(r, "set", k) /\ k = [l EXCEPT !.alone = Writers(l.flag) = {}]
  BY <1>1, <1>3, BeginWriteOK
<1>5. k.auto = l.auto /\ k.said = l.said /\ k.labels = l.labels
  BY <1>1, <1>4 DEF Locals
<1>6. TypeOK'
  BY <1>3, <1>4, MovesTyped DEF Steps, TypeOK, flagVars
<1>7. SlotInv'
  <2>1. "set" \in Steps /\ "set" # "reply" /\ "set" # "try" /\ "set" # "audit"
    BY DEF Steps
  <2>2. ~k.auto /\ k.said = {} /\ k.labels = {}
    BY <1>2, <1>5
  <2> QED
    BY <1>4, <2>1, <2>2, MovesSlotInv
<1>8. FlagInv'
  BY <1>1, <1>3, BeginWriteOK
<1> QED
  BY <1>6, <1>7, <1>8

(* A writer that goes on with its copy as it is. *)
LEMMA KeepsSlot ==
    ASSUME TypeOK, SlotInv, NEW r \in Slots, NEW step \in {"mark", "audit"},
           pc[r] \in {"set", "mark"}, pc' = [pc EXCEPT ![r] = step], UNCHANGED job,
           step = "audit" => job[r].flag = "pipeline_paused"
    PROVE  /\ pc' \in [Slots -> Steps] /\ SlotInv'
           /\ job' = [job EXCEPT ![r] = job[r]] /\ job[r] \in Locals
<1>1. job' = [job EXCEPT ![r] = job[r]] /\ job[r] \in Locals /\ step \in Steps
  BY DEF TypeOK, Steps
<1>2. Moves(r, step, job[r])
  BY <1>1, SoloMoves
<1>3. job[r].said = {} /\ job[r].labels = {}
  BY DEF SlotInv, Undecided
<1>4. job[r].auto => /\ step \in {"set", "mark"} /\ job[r].flag = "photo_validation"
                     /\ ~job[r].want /\ job[r].refused = job[r].keys
  BY DEF SlotInv, AutoTriedAll
<1>5. step # "reply" /\ step # "try"
  OBVIOUS
<1>6. SlotInv'
  BY <1>1, <1>2, <1>3, <1>4, <1>5, MovesSlotInv
<1>7. pc' \in [Slots -> Steps]
  BY <1>1 DEF TypeOK
<1> QED
  BY <1>1, <1>6, <1>7

(* What EndWrite and Free do, in the terms of the lemmas on flags. *)
LEMMA EndsWritesOnly ==
    ASSUME TypeOK, NEW r \in Slots, Free(r),
           \A f \in Flags \ {job[r].flag} :
              /\ value'[f] = value[f] /\ (f \in autoOff' <=> f \in autoOff)
              /\ f \in dirty' <=> f \in dirty,
           job[r].flag # "pipeline_paused" => audited' = audited
    PROVE  WritesOnly(r, "idle", Blank)
  BY BlankTyped DEF WritesOnly, Free, Goto

LEMMA SetFlagStep ==
    ASSUME Core, NEW r \in Slots, SetFlag(r)
    PROVE  Core'
<1> USE DEF Core
<1>1. PICK g \in Flags : g = job[r].flag
  BY DEF TypeOK, Locals
<1>2. /\ pc[r] = "set" /\ value' = [value EXCEPT ![g] = job[r].want]
      /\ autoOff' = autoOff /\ audited' = audited /\ job[r] \in Locals
      /\ job[r].want \in BOOLEAN
  BY <1>1 DEF SetFlag, TypeOK, Locals
<1>3. /\ value' \in [Flags -> BOOLEAN] /\ value'[g] = job[r].want
      /\ \A f \in Flags \ {g} : value'[f] = value[f]
  BY <1>2 DEF TypeOK
<1>4. ASSUME NEW step \in {"mark", "audit"}, pc' = [pc EXCEPT ![r] = step],
             UNCHANGED job, UNCHANGED dirty,
             step = "audit" => job[r].flag = "pipeline_paused"
      PROVE  Core'
  <2>1. /\ pc' \in [Slots -> Steps] /\ SlotInv'
        /\ job' = [job EXCEPT ![r] = job[r]] /\ job[r] \in Locals
    BY <1>2, <1>4, KeepsSlot
  <2>2. WritesOnly(r, step, job[r])
    BY <1>1, <1>2, <1>3, <1>4, <2>1 DEF WritesOnly
  <2>3. FlagInv'
    BY <1>1, <1>2, <1>3, <2>2, GoOnOK
  <2>4. TypeOK'
    BY <1>2, <1>3, <1>4, <2>1 DEF TypeOK
  <2> QED
    BY <2>1, <2>3, <2>4
<1>5. ASSUME EndWrite(r), ~Marks(job[r]), job[r].flag # "pipeline_paused" PROVE Core'
  <2>1. ~job[r].want /\ Free(r)
    BY <1>5 DEF Marks, EndWrite
  <2>2. dirty' \subseteq Flags /\ \A f \in Flags \ {g} : f \in dirty' <=> f \in dirty
    BY <1>1, <1>5 DEF EndWrite, TypeOK
  <2>3. WritesOnly(r, "idle", Blank)
    BY <1>1, <1>2, <1>3, <2>1, <2>2, EndsWritesOnly
  <2>4. FlagInv'
    BY <1>1, <1>2, <1>3, <1>5, <2>1, <2>3, LeavesOK
  <2>5. TypeOK' /\ SlotInv'
    BY <1>2, <1>3, <2>1, <2>2, FreeMoves DEF TypeOK
  <2> QED
    BY <2>4, <2>5
<1>6. CASE Marks(job[r])
  BY <1>4, <1>6 DEF SetFlag, Goto
<1>7. CASE ~Marks(job[r]) /\ job[r].flag = "pipeline_paused"
  BY <1>4, <1>7 DEF SetFlag, Leave, Goto
<1>8. CASE ~Marks(job[r]) /\ job[r].flag # "pipeline_paused"
  BY <1>5, <1>8 DEF SetFlag, Leave
<1> QED
  BY <1>6, <1>7, <1>8

LEMMA SetMarkStep ==
    ASSUME Core, NEW r \in Slots, SetMark(r)
    PROVE  Core'
<1> USE DEF Core
<1>1. PICK g \in Flags : g = job[r].flag
  BY DEF TypeOK, Locals
<1>2. /\ pc[r] = "mark" /\ value' = value /\ audited' = audited
      /\ job[r] \in Locals /\ job[r].want \in BOOLEAN /\ autoOff' \subseteq Flags
      /\ \A f \in Flags \ {g} : f \in autoOff' <=> f \in autoOff
      /\ g \in autoOff' => ~job[r].want
  BY <1>1 DEF SetMark, TypeOK, Locals
<1>3. r \in Writers(g) /\ (job[r].alone => value[g] = job[r].want)
  <2>1. r \in Writers(g)
    BY <1>1, <1>2 DEF Writers
  <2> QED
    BY <1>2, <2>1 DEF FlagInv, FlagOK, AloneOf
<1>4. CASE g = "pipeline_paused"
  <2>1. pc' = [pc EXCEPT ![r] = "audit"] /\ UNCHANGED job /\ UNCHANGED dirty
    BY <1>1, <1>4 DEF SetMark, Leave, Goto
  <2>2. /\ pc' \in [Slots -> Steps] /\ SlotInv'
        /\ job' = [job EXCEPT ![r] = job[r]]
    BY <1>1, <1>2, <1>4, <2>1, KeepsSlot
  <2>3. WritesOnly(r, "audit", job[r])
    BY <1>1, <1>2, <2>1, <2>2 DEF WritesOnly
  <2>4. FlagInv'
    BY <1>1, <1>2, <1>3, <2>3, GoOnOK
  <2>5. TypeOK'
    BY <1>2, <2>1, <2>2 DEF TypeOK
  <2> QED
    BY <2>2, <2>4, <2>5
<1>5. CASE g # "pipeline_paused"
  <2>1. EndWrite(r) /\ Free(r)
    BY <1>1, <1>5 DEF SetMark, Leave, EndWrite
  <2>2. /\ dirty' \subseteq Flags /\ \A f \in Flags \ {g} : f \in dirty' <=> f \in dirty
        /\ ~job[r].alone => g \in dirty'
    BY <1>1, <2>1 DEF EndWrite, TypeOK
  <2>3. WritesOnly(r, "idle", Blank)
    BY <1>1, <1>2, <2>1, <2>2, EndsWritesOnly
  <2>4. FlagInv'
    <3>1. CASE job[r].alone
      BY <1>1, <1>2, <1>3, <1>5, <2>3, <3>1, LeavesOK
    <3>2. CASE ~job[r].alone
      BY <1>1, <1>2, <2>2, <2>3, <3>2, LeavesOK
    <3> QED
      BY <3>1, <3>2
  <2>5. TypeOK' /\ SlotInv'
    BY <1>2, <2>1, <2>2, FreeMoves DEF TypeOK
  <2> QED
    BY <2>4, <2>5
<1> QED
  BY <1>4, <1>5

LEMMA SetSkippedStep ==
    ASSUME Core, NEW r \in Slots, SetSkipped(r)
    PROVE  Core'
<1> USE DEF Core
<1>1. PICK g \in Flags : g = job[r].flag
  BY DEF TypeOK, Locals
<1>2. pc[r] = "set" /\ UNCHANGED flagVars /\ UNCHANGED dirty /\ job[r] \in Locals
  BY DEF SetSkipped, TypeOK
<1>3. CASE g = "pipeline_paused"
  <2> DEFINE l == [job[r] EXCEPT !.alone = FALSE]
  <2>1. l \in Locals /\ ~l.alone
    BY <1>2 DEF Locals
  <2>2. /\ l.flag = job[r].flag /\ l.auto = job[r].auto
        /\ l.said = job[r].said /\ l.labels = job[r].labels
    BY <1>2 DEF Locals
  <2>3. pc' = [pc EXCEPT ![r] = "audit"] /\ job' = [job EXCEPT ![r] = l]
    BY <1>1, <1>2, <1>3 DEF SetSkipped, Goto, TypeOK
  <2> HIDE DEF l
  <2>4. Moves(r, "audit", l)
    BY <2>1, <2>3, SoloMoves DEF Steps
  <2>5. SlotInv'
    <3>1. ~l.auto /\ l.said = {} /\ l.labels = {}
      BY <1>1, <1>2, <1>3, <2>2 DEF SlotInv, AutoTriedAll, Undecided
    <3>2. "audit" \in Steps /\ "audit" # "reply" /\ "audit" # "try"
      BY DEF Steps
    <3> QED
      BY <1>1, <1>3, <2>2, <2>4, <3>1, <3>2, MovesSlotInv
  <2>6. WritesOnly(r, "audit", l)
    BY <1>2, <2>1, <2>2, <2>3 DEF WritesOnly, flagVars
  <2>7. FlagInv'
    BY <1>2, <2>1, <2>2, <2>6, GoOnOK
  <2>8. TypeOK'
    BY <1>2, <2>4, MovesTyped DEF Steps, TypeOK, flagVars
  <2> QED
    BY <2>5, <2>7, <2>8
<1>4. CASE g # "pipeline_paused"
  <2>1. Free(r)
    BY <1>1, <1>4 DEF SetSkipped
  <2>2. WritesOnly(r, "idle", Blank)
    BY <1>2, <2>1, EndsWritesOnly DEF flagVars
  <2>3. FlagInv'
    BY <1>2, <2>2, LeavesOK
  <2>4. TypeOK' /\ SlotInv'
    BY <1>2, <2>1, FreeMoves DEF TypeOK, flagVars
  <2> QED
    BY <2>3, <2>4
<1> QED
  BY <1>3, <1>4

(* The audit row is of pipeline_paused: no other flag gets this far. *)
LEMMA WriteAuditStep ==
    ASSUME Core, NEW r \in Slots, WriteAudit(r)
    PROVE  Core'
<1> USE DEF Core
<1>1. PICK g \in Flags : g = job[r].flag
  BY DEF TypeOK, Locals
<1>2. /\ pc[r] = "audit" /\ value' = value /\ autoOff' = autoOff /\ audited' = job[r].want
      /\ job[r] \in Locals /\ job[r].want \in BOOLEAN /\ Free(r) /\ EndWrite(r)
  BY DEF WriteAudit, TypeOK, Locals, EndWrite
<1>3. g = "pipeline_paused"
  BY <1>1, <1>2 DEF SlotInv, Auditing
<1>4. job[r].alone => value[g] = job[r].want
  <2>1. r \in Writers(g)
    BY <1>1, <1>2 DEF Writers
  <2> QED
    BY <1>2, <2>1 DEF FlagInv, FlagOK, AloneOf
<1>5. /\ dirty' \subseteq Flags /\ \A f \in Flags \ {g} : f \in dirty' <=> f \in dirty
      /\ ~job[r].alone => g \in dirty'
  BY <1>1, <1>2 DEF EndWrite, TypeOK
<1>6. WritesOnly(r, "idle", Blank)
  BY <1>1, <1>2, <1>3, <1>5, EndsWritesOnly
<1>7. FlagInv'
  <2>1. CASE job[r].alone
    BY <1>1, <1>2, <1>3, <1>4, <1>6, <2>1, LeavesOK
  <2>2. CASE ~job[r].alone
    BY <1>1, <1>2, <1>5, <1>6, <2>2, LeavesOK
  <2> QED
    BY <2>1, <2>2
<1>8. TypeOK' /\ SlotInv'
  BY <1>2, <1>5, FreeMoves DEF TypeOK
<1> QED
  BY <1>7, <1>8

LEMMA FailsStep ==
    ASSUME Core, NEW r \in Slots, Fails(r)
    PROVE  Core'
<1> USE DEF Core
<1>1. PICK g \in Flags : g = job[r].flag
  BY DEF TypeOK, Locals
<1>2. /\ pc[r] # "idle" /\ Free(r) /\ UNCHANGED flagVars /\ dirty' \subseteq Flags
      /\ \A f \in Flags \ {g} : f \in dirty' <=> f \in dirty
  BY <1>1 DEF Fails, TypeOK
<1>3. TypeOK' /\ SlotInv'
  BY <1>2, FreeMoves DEF TypeOK, flagVars
<1>4. CASE pc[r] \in {"set", "mark", "audit"}
  <2>1. WritesOnly(r, "idle", Blank)
    BY <1>1, <1>2, EndsWritesOnly DEF flagVars
  <2>2. (pc[r] = "set" /\ UNCHANGED dirty) \/ g \in dirty'
    BY <1>1, <1>4 DEF Fails
  <2>3. FlagInv'
    BY <1>1, <1>2, <1>4, <2>1, <2>2, LeavesOK
  <2> QED
    BY <1>3, <2>3
<1>5. CASE pc[r] \notin {"set", "mark", "audit"}
  <2>1. UNCHANGED dirty
    BY <1>5 DEF Fails
  <2>2. FlagInv'
    BY <1>2, <1>5, <2>1, BlankTyped, NoWriterOK DEF Free, Goto, Steps
  <2> QED
    BY <1>3, <2>2
<1> QED
  BY <1>4, <1>5

-----------------------------------------------------------------------------
LEMMA InitCore == Init => Core
<1> SUFFICES ASSUME Init PROVE Core
  OBVIOUS
<1>1. TypeOK
  BY BlankTyped DEF Init, TypeOK, Steps
<1>2. SlotInv
  BY DEF Init, Blank, SlotInv, Undecided, Decided, AutoTriedAll, Trying, Auditing
<1>3. FlagInv
  <2>1. \A f \in Flags : Writers(f) = {}
    BY DEF Init, Writers
  <2> QED
    BY <2>1 DEF Init, FlagInv, FlagOK, AloneOf, Flags
<1> QED
  BY <1>1, <1>2, <1>3 DEF Core

LEMMA StepCore == Core /\ [Next]_vars => Core'
<1> SUFFICES ASSUME Core, [Next]_vars PROVE Core'
  OBVIOUS
<1>1. CASE UNCHANGED vars
  <2>1. TypeOK'
    BY <1>1 DEF Core, TypeOK, vars, flagVars
  <2>2. SlotInv'
    BY <1>1 DEF Core, SlotInv, Undecided, Decided, AutoTriedAll, Trying, Auditing, vars
  <2>3. FlagInv'
    BY <1>1 DEF Core, FlagInv, FlagOK, AloneOf, Quiet, Writers, vars, flagVars
  <2> QED
    BY <2>1, <2>2, <2>3 DEF Core
<1>2. CASE Next
  <2>1. PICK r \in Slots : \/ Check(r) \/ (\E f \in Flags, b \in BOOLEAN : Switch(r, f, b))
                           \/ Setter(r) \/ Fails(r)
    BY <1>2 DEF Next
  <2> QED
    BY <2>1, CheckStep, SwitchStep, SetFlagStep, SetMarkStep, SetSkippedStep, WriteAuditStep,
       FailsStep DEF Setter
<1> QED
  BY <1>1, <1>2

(* The inductive invariant of the feature flags: any number of requests,   *)
(* any keys, any answers of the vision model, any age limits.              *)
THEOREM SpecFlagsInv == Spec => []FlagsInv
<1>1. Spec => []Core
  BY InitCore, StepCore, PTL DEF Spec
<1> QED
  BY <1>1, CoreMeans, PTL

(* check_photo approves the clear pictures of a child of the right age     *)
(* with somebody who can be its parent, and nothing else.                  *)
THEOREM SpecApprovedIffFamily == Spec => []ApprovedIffFamily
<1>1. FlagsInv => ApprovedIffFamily
  BY DEF FlagsInv
<1> QED
  BY <1>1, SpecFlagsInv, PTL

(* The mark auto_off is there only while validation is off, unless writers *)
(* of the flag overlapped or one stopped halfway.                          *)
THEOREM SpecMarkAgrees == Spec => []MarkAgrees
<1>1. FlagsInv => MarkAgrees
  BY DEF FlagsInv
<1> QED
  BY <1>1, SpecFlagsInv, PTL

(* The last pause or resume in the audit log is what the worker sees,      *)
(* under the same proviso.                                                 *)
THEOREM SpecPauseAudited == Spec => []PauseAudited
<1>1. FlagsInv => PauseAudited
  BY DEF FlagsInv
<1> QED
  BY <1>1, SpecFlagsInv, PTL

(* Validation goes off only for an admin or after every key refused one    *)
(* photo.                                                                  *)
OffEarned == value["photo_validation"] /\ ~value'["photo_validation"] =>
    \E r \in Slots : /\ pc[r] = "set" /\ job[r].flag = "photo_validation"
                     /\ ~job[r].want /\ job[r].said = {}
                     /\ job[r].auto => job[r].refused = job[r].keys

LEMMA StepOffEarned == FlagsInv /\ [Next]_vars => OffEarned
<1> SUFFICES ASSUME FlagsInv, [Next]_vars,
                    value["photo_validation"], ~value'["photo_validation"]
             PROVE  \E r \in Slots : /\ pc[r] = "set" /\ job[r].flag = "photo_validation"
                                     /\ ~job[r].want /\ job[r].said = {}
                                     /\ job[r].auto => job[r].refused = job[r].keys
  BY DEF OffEarned
<1>1. PICK r \in Slots : SetFlag(r)
  BY DEF Next, Check, CheckStart, KeyAnswers, KeyRefuses, Reply, Switch, Setter, SetMark,
         SetSkipped, WriteAudit, Fails, vars, flagVars
<1>2. PICK g \in Flags : g = job[r].flag
  BY DEF FlagsInv, TypeOK, Locals
<1>3. pc[r] = "set" /\ value' = [value EXCEPT ![g] = job[r].want]
  BY <1>1, <1>2 DEF SetFlag
<1>4. g = "photo_validation" /\ ~job[r].want
  BY <1>3 DEF FlagsInv, TypeOK, Flags
<1>5. job[r].said = {} /\ (job[r].auto => job[r].refused = job[r].keys)
  BY <1>3 DEF FlagsInv, Undecided, AutoTriedAll
<1> QED
  BY <1>2, <1>3, <1>4, <1>5

THEOREM SpecOffIsEarned == Spec => OffIsEarned
<1>1. FlagsInv /\ [Next]_vars => [OffEarned]_vars
  BY StepOffEarned
<1>2. OffIsEarned <=> [][OffEarned]_vars
  BY DEF OffIsEarned, OffEarned
<1> QED
  BY <1>1, <1>2, SpecFlagsInv, PTL DEF Spec
=============================================================================
