----------------------------- MODULE JobReports -----------------------------
(***************************************************************************)
(* What an admin sees of the jobs: GET list, stats/summary, reports/stats, *)
(* reports/traffic-sources, reports/trend and reports/csv of               *)
(* src/app/routers/jobs.py, while submits add rows and workers, watchdog   *)
(* and operators change them (PATCH fields included).                      *)
(*                                                                         *)
(* A request runs its queries one after the other in one REPEATABLE READ   *)
(* transaction: all of them see the snapshot of the first.  The pages of a *)
(* list are requests of their own, so the table moves under the pager.     *)
(* Readers do not disturb each other: one client is modelled.              *)
(***************************************************************************)
EXTENDS Naturals, Sequences, FiniteSets

CONSTANTS
    MaxJobs,      \* bound: ids of jobs
    Statuses,     \* the values of jobs.status told apart, "sent" and "failed" among them
    Owner,        \* jobs.user_id
    Born,         \* the day of jobs.created_at
    Source,       \* jobs.utm_source
    Cities,       \* bound: the cities people type, Null for none
    Floor,        \* ADMIN_JOBS_VISIBLE_FROM
    Today,        \* the day of the behaviour, which updated_at gets
    Groups,       \* bound: the statuses and days of updated_at he lists
    Ranges,       \* bound: the days he wants a report on
    PageSize,
    Start,        \* bound: the statuses of the rows when he comes
    MaxMoves,     \* bound: rows added or changed in a behaviour
    Null

JobIds == 1 .. MaxJobs

ASSUME PageAssumption == PageSize \in Nat \ {0} /\ MaxJobs \in Nat /\ MaxMoves \in Nat
ASSUME NullAssumption == Null \notin {"unknown", "direct"}
ASSUME StatusAssumption == {"sent", "failed"} \subseteq Statuses /\ {"none", "unknown"} \cap Statuses = {}
                           /\ Start \subseteq [JobIds -> Statuses \cup {"none"}]

VARIABLES
    status,       \* "none" while no committed row has the id
    city,
    touched,      \* rows with updated_at = Today, the others were never updated
    pc,
    snap,         \* the snapshot of the open transaction
    walk,         \* the client's walk over the pages, with its histories: the jobs that
                  \* matched at every moment of it, how often one stopped or began to
                  \* match, and how often a page showed one that was shown before
    report,       \* what was asked for, and the answers it has got so far
    moves

rowVars == <<status, city, touched>>
vars == <<rowVars, pc, snap, walk, report, moves>>

Now    == [status |-> status, city |-> city, touched |-> touched]
NoSnap == [status |-> [j \in JobIds |-> "none"], city |-> [j \in JobIds |-> Null], touched |-> {}]
NoWalk == [filter |-> [statuses |-> {}, days |-> {}], page |-> 0, total |-> 0, listed |-> {}, kept |-> {},
             departures |-> 0, arrivals |-> 0, repeats |-> 0]
NoReport == [asked |-> [kind |-> "summary", range |-> {}, last |-> FALSE], figures |-> <<>>]

(* Mutant of View: every query reads what is committed by now. *)
Committed == Now

(* What a query of the open transaction sees. *)
View == snap

-----------------------------------------------------------------------------
(* Queries. *)

Rows(v)        == {j \in JobIds : v.status[j] # "none"}
Updated(v, j)  == IF j \in v.touched THEN Today ELSE Born[j]
Matching(v, g) == {j \in Rows(v) : /\ v.status[j] \in g.statuses
                                   /\ Born[j] >= Floor
                                   /\ Updated(v, j) \in g.days}
InRange(v, R)  == {j \in Rows(v) : Born[j] \in R}
With(v, S, s)  == {j \in S : v.status[j] = s}

(* Mutant of TotalPages: rounded down. *)
FullPages(n)  == n \div PageSize

TotalPages(n) == (n + PageSize - 1) \div PageSize

(* ORDER BY id DESC OFFSET ... LIMIT ... *)
Rank(S, j) == Cardinality({k \in S : k > j})

(* Mutant of Page: one row too many. *)
LongPage(S, p) == {j \in S : Rank(S, j) \in (p - 1) * PageSize .. p * PageSize}

Page(S, p) == {j \in S : Rank(S, j) \in (p - 1) * PageSize .. p * PageSize - 1}

(* {label: count}: the rows without a value are called `name', and if a    *)
(* value is spelt like that, the group that comes last overwrites the other *)
Breakdown(S, col, name, last) ==
    LET values   == {col[j] : j \in S}
        label(x) == IF x = Null THEN name ELSE x
        count(x) == Cardinality({j \in S : col[j] = x})
    IN  [l \in {label(x) : x \in values} |->
            IF l = name /\ {Null, name} \subseteq values
            THEN count(IF last THEN name ELSE Null)
            ELSE count(CHOOSE x \in values : label(x) = l)]

UsersOf(S)   == {Owner[j] : j \in S}
Returning(v) == {u \in UsersOf(Rows(v)) : Cardinality({j \in Rows(v) : Owner[j] = u}) > 1}

(* One group of rows as reports/traffic-sources and reports/csv count it. *)
Tally(v, S) == [total  |-> Cardinality(S),
                sent   |-> Cardinality(With(v, S, "sent")),
                failed |-> Cardinality(With(v, S, "failed"))]

Tallies(v, S, col) == [l \in {col[j] : j \in S} |-> Tally(v, {j \in S : col[j] = l})]

-----------------------------------------------------------------------------
(* The reports, each the answers to its queries in their order, from what  *)
(* the snapshot v holds.  a is what was asked for: the kind of report, the  *)
(* days, and which of two groups with one label comes last.                *)

Summary(v, a) ==
    <<LET S == {j \in Rows(v) : Updated(v, j) \in a.range} IN
      [total |-> Cardinality(S), status |-> Breakdown(S, v.status, "unknown", a.last),
       failed |-> Cardinality(With(v, S, "failed"))]>>

Stats(v, a) ==
    LET S == InRange(v, a.range) IN
    <<Cardinality(S), Cardinality(UsersOf(S)), Cardinality(UsersOf(S) \cap Returning(v)),
      Breakdown(S, v.status, "unknown", a.last), Breakdown(S, v.city, "unknown", a.last)>>

Traffic(v, a) ==
    LET S == InRange(v, a.range) IN
    <<[detail |-> Tallies(v, S, Source), simple |-> Breakdown(S, Source, "direct", a.last)],
      Breakdown(S, Source, "unknown", a.last)>>

Trend(v, a) ==
    LET S == InRange(v, a.range)
        on(d) == {j \in S : Born[j] = d}
        days == {Born[j] : j \in S}
    IN  <<[d \in days |-> [entries |-> Cardinality(on(d)), users |-> Cardinality(UsersOf(on(d)))]],
          [d \in days |-> Cardinality(UsersOf(on(d)) \cap Returning(v))]>>

Csv(v, a) ==
    LET S == InRange(v, a.range) IN
    <<Cardinality(S), Cardinality(With(v, S, "sent")), Cardinality(With(v, S, "failed")),
      Tallies(v, S, Born),
      Breakdown(S, v.status, "unknown", a.last), Breakdown(S, v.city, "unknown", a.last)>>

Reports == {"summary", "stats", "traffic", "trend", "csv"}

Answers(v, a) == CASE a.kind = "summary" -> Summary(v, a)
                   [] a.kind = "stats"   -> Stats(v, a)
                   [] a.kind = "traffic" -> Traffic(v, a)
                   [] a.kind = "trend"   -> Trend(v, a)
                   [] a.kind = "csv"     -> Csv(v, a)

-----------------------------------------------------------------------------
Init == /\ status \in Start
        /\ city = [j \in JobIds |-> Null] /\ touched = {}
        /\ pc = "idle" /\ snap = NoSnap /\ walk = NoWalk /\ report = NoReport
        /\ moves = 0

(* GET list: the count opens a transaction, the page is its second query. *)
Count(w) == /\ pc' = "page" /\ snap' = Now
            /\ walk' = [w EXCEPT !.total = Cardinality(Matching(Now, w.filter))]
            /\ UNCHANGED <<rowVars, report, moves>>

ListJobs(g) == /\ pc = "idle"
               /\ Count([NoWalk EXCEPT !.filter = g, !.page = 1, !.kept = Matching(Now, g)])

FetchPage ==
    /\ pc = "page"
    /\ LET rows == Page(Matching(View, walk.filter), walk.page)
       IN  walk' = [walk EXCEPT !.listed = @ \cup rows,
                                !.repeats = @ + Cardinality(rows \cap walk.listed)]
    /\ pc' = "turn" /\ snap' = NoSnap
    /\ UNCHANGED <<rowVars, report, moves>>

LastPage == walk.page >= TotalPages(walk.total)

TurnPage == pc = "turn" /\ ~LastPage /\ Count([walk EXCEPT !.page = @ + 1])

(* The first query of a report opens its transaction.  Which of two groups *)
(* with one label comes last is up to the database.                        *)
OpenReport(k, R) ==
    /\ pc = "idle"
    /\ \E b \in BOOLEAN :
          report' = [NoReport EXCEPT !.asked = [kind |-> k, range |-> R, last |-> b]]
    /\ pc' = "query" /\ snap' = Now
    /\ UNCHANGED <<rowVars, walk, moves>>

AskNext ==
    LET answers == Answers(View, report.asked)
        n == Len(report.figures) + 1
    IN  /\ pc = "query"
        /\ report' = [report EXCEPT !.figures = Append(@, answers[n])]
        /\ pc' = IF n = Len(answers) THEN "reply" ELSE "query"
        /\ UNCHANGED <<rowVars, snap, walk, moves>>

Leave == /\ pc = "reply" \/ (pc = "turn" /\ LastPage)
         /\ pc' = "idle" /\ snap' = NoSnap /\ walk' = NoWalk /\ report' = NoReport
         /\ UNCHANGED <<rowVars, moves>>

(* The rest of the system writes a row while the client reads. *)
Write ==
    /\ moves < MaxMoves /\ moves' = moves + 1
    /\ walk' = [walk EXCEPT !.kept = @ \cap Matching(Now', walk.filter),
                            !.departures = @ + Cardinality(Matching(Now, walk.filter)
                                                           \ Matching(Now', walk.filter)),
                            !.arrivals = @ + Cardinality(Matching(Now', walk.filter)
                                                         \ Matching(Now, walk.filter))]
    /\ UNCHANGED <<pc, snap, report>>

(* Ids are handed out at the insert, rows appear at the commit: in any order. *)
Submit(j) ==
    /\ status[j] = "none"
    /\ \E s \in Statuses, c \in Cities : /\ status' = [status EXCEPT ![j] = s]
                                         /\ city' = [city EXCEPT ![j] = c]
    /\ UNCHANGED touched
    /\ Write

MoveJob(j) ==
    /\ status[j] # "none"
    /\ \E s \in Statuses \ {status[j]} : status' = [status EXCEPT ![j] = s]
    /\ touched' = touched \cup {j}
    /\ UNCHANGED city
    /\ Write

(* PATCH fields; a request with a bad role or story changes nothing. *)
UpdateFields(j) ==
    /\ status[j] # "none"
    /\ \E c \in Cities : city' = [city EXCEPT ![j] = c]
    /\ touched' = touched \cup {j}
    /\ UNCHANGED status
    /\ Write

Next == \/ \E g \in Groups : ListJobs(g)
        \/ FetchPage \/ TurnPage
        \/ \E k \in Reports, R \in Ranges : OpenReport(k, R)
        \/ AskNext \/ Leave
        \/ \E j \in JobIds : Submit(j) \/ MoveJob(j) \/ UpdateFields(j)

Spec == Init /\ [][Next]_vars

-----------------------------------------------------------------------------
(* Properties. *)

(* Paging by offset over a table that moves: an admin who turns the pages  *)
(* to the end misses no more of the jobs that were there all the time than *)
(* there were jobs that left the list meanwhile.  New jobs and late        *)
(* commits of old ids, however many, hide nothing.                         *)
MissesAreDepartures ==
    pc = "turn" /\ LastPage => Cardinality(walk.kept \ walk.listed) <= walk.departures

Walking == pc \in {"page", "turn"}

(* Nor is he shown a job twice more often than jobs joined the list behind *)
(* his back: jobs that leave it, however many, repeat nothing.             *)
RepeatsAreArrivals == Walking => walk.repeats <= walk.arrivals

(* The page that the open transaction is going to show. *)
Coming == IF pc = "page" THEN Page(Matching(View, walk.filter), walk.page) ELSE {}
Listed == Matching(Now, walk.filter)
Missed == walk.kept \ (walk.listed \cup Coming)
Ahead(M, S, n)  == {j \in M : Rank(S, j) < n}
Behind(M, S, n) == {j \in M \cap S : Rank(S, j) >= n}

(* Why: of the jobs that stayed, only as many stand before the place the   *)
(* walk has reached without having been listed as jobs have left; and once *)
(* the last page is opened no job stands after it. *)
WalkInv ==
    Walking => /\ walk.kept \subseteq Listed
               /\ Cardinality(Ahead(Missed, Listed, walk.page * PageSize)) <= walk.departures
               /\ LastPage => Cardinality(Missed) <= walk.departures

(* And of the jobs that were listed only as many stand at or after that    *)
(* place, to be listed again, as have come and were not used up by repeats. *)
RepeatInv ==
    Walking => walk.repeats + Cardinality(Coming \cap walk.listed)
                  + Cardinality(Behind(walk.listed \cup Coming, Listed, walk.page * PageSize))
               <= walk.arrivals

Walks == [filter : Groups \cup {NoWalk.filter}, page : Nat, total : Nat,
          listed : SUBSET JobIds, kept : SUBSET JobIds,
          departures : Nat, arrivals : Nat, repeats : Nat]

WalkTyped == /\ status \in [JobIds -> Statuses \cup {"none"}]
             /\ pc \in {"idle", "page", "turn", "query", "reply"}
             /\ walk \in Walks

(* The sum of a breakdown, of numbers the number of units in all its parts. *)
SumOf(b) == Cardinality(UNION {{l} \X (1 .. b[l]) : l \in DOMAIN b})
Total(b) == SumOf([l \in DOMAIN b |-> b[l].total])
Sent(b)  == SumOf([l \in DOMAIN b |-> b[l].sent])

(* No value is spelt like the word that stands for "none given". *)
CityTold(v) == \A j \in JobIds : v.city[j] # "unknown"
SourceTold  == \A j \in JobIds : Source[j] # "unknown"

SummaryAgrees(F) == /\ SumOf(F[1].status) = F[1].total
                    /\ F[1].failed <= F[1].total

StatsAgree(F, v) == /\ F[3] <= F[2] /\ F[2] <= F[1]
                    /\ SumOf(F[4]) = F[1]
                    /\ SumOf(F[5]) <= F[1]
                    /\ CityTold(v) => SumOf(F[5]) = F[1]

TrafficAgrees(F) == LET rows == F[1].detail IN
                    /\ \A s \in DOMAIN rows : rows[s].sent + rows[s].failed <= rows[s].total
                    /\ SumOf(F[1].simple) <= Total(rows)
                    /\ SumOf(F[2]) <= Total(rows)
                    /\ SourceTold => SumOf(F[2]) = Total(rows)

TrendAgrees(F) == /\ DOMAIN F[2] = DOMAIN F[1]
                  /\ \A d \in DOMAIN F[1] : F[2][d] <= F[1][d].users /\ F[1][d].users <= F[1][d].entries

CsvAgrees(F, v) == /\ F[2] + F[3] <= F[1]
                   /\ Total(F[4]) = F[1] /\ Sent(F[4]) = F[2]
                   /\ SumOf(F[5]) = F[1]
                   /\ SumOf(F[6]) <= F[1]
                   /\ CityTold(v) => SumOf(F[6]) = F[1]

(* The figures of one report, computed by separate queries, fit together:  *)
(* breakdowns add up to the total, the returning users are among the users, *)
(* the sent and failed jobs among the jobs, the days add up to the summary. *)
FiguresAgree ==
    pc = "reply" =>
        CASE report.asked.kind = "summary" -> SummaryAgrees(report.figures)
          [] report.asked.kind = "stats"   -> StatsAgree(report.figures, snap)
          [] report.asked.kind = "traffic" -> TrafficAgrees(report.figures)
          [] report.asked.kind = "trend"   -> TrendAgrees(report.figures)
          [] report.asked.kind = "csv"     -> CsvAgrees(report.figures, snap)

ReportTyped == /\ snap.status \in [JobIds -> Statuses \cup {"none"}]
               /\ report = [asked |-> report.asked, figures |-> report.figures]
               /\ report.asked.kind \in Reports

(* Why: every answer so far is the one that the snapshot gives, and the    *)
(* reply waits for all of them.                                            *)
AnsweredFromSnap ==
    pc \in {"query", "reply"} =>
        LET answers == Answers(snap, report.asked) IN
        \E k \in IF pc = "reply" THEN {Len(answers)} ELSE 0 .. Len(answers) - 1 :
            report.figures = [n \in 1 .. k |-> answers[n]]
=============================================================================
