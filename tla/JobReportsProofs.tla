-------------------------- MODULE JobReportsProofs --------------------------
(***************************************************************************)
(* For any number of jobs, any page size and any table to begin with: a    *)
(* walk over the pages of the job list misses at most as many jobs as      *)
(* stopped matching its filter while it lasted, and repeats at most as     *)
(* many as began to; and the figures of every report fit together.         *)
(***************************************************************************)
EXTENDS JobReports, TLAPS, FiniteSetTheorems, FunctionTheorems

(* A set of jobs is finite, and so is any part of it. *)
LEMMA JobsFinite ==
    ASSUME NEW S \in SUBSET JobIds
    PROVE  IsFiniteSet(S) /\ Cardinality(S) \in Nat
<1>1. IsFiniteSet(JobIds)
  BY FS_Interval, PageAssumption DEF JobIds
<1> QED
  BY <1>1, FS_Subset, FS_CardinalityType

LEMMA Smaller ==
    ASSUME NEW S \in SUBSET JobIds, NEW T \in SUBSET S
    PROVE  Cardinality(T) <= Cardinality(S) /\ Cardinality(S) \in Nat /\ Cardinality(T) \in Nat
<1>1. IsFiniteSet(S) /\ T \in SUBSET JobIds
  BY JobsFinite
<1> QED
  BY <1>1, FS_Subset, JobsFinite

LEMMA JobsAreNumbers == JobIds \subseteq Nat
  BY PageAssumption DEF JobIds

-----------------------------------------------------------------------------
(* Places in a list. *)

LEMMA RankTyped ==
    ASSUME NEW S \in SUBSET JobIds, NEW j \in JobIds
    PROVE  Rank(S, j) \in Nat
  BY JobsFinite DEF Rank

(* Two jobs never stand at the same place. *)
LEMMA RankStrict ==
    ASSUME NEW S \in SUBSET JobIds, NEW j \in S, NEW k \in S, j < k
    PROVE  Rank(S, k) < Rank(S, j)
<1> DEFINE A == {i \in S : i > j}
           B == {i \in S : i > k}
<1>0. j \in Nat /\ k \in Nat /\ \A i \in S : i \in Nat
  BY JobsAreNumbers
<1>1. B \subseteq A \ {k} /\ k \in A /\ A \in SUBSET JobIds /\ B \in SUBSET JobIds
  <2>1. ASSUME NEW i \in B PROVE i \in A \ {k}
    <3>1. i \in S /\ i > k /\ i \in Nat
      BY <1>0
    <3>2. i > j /\ i # k
      BY <1>0, <3>1
    <3> QED
      BY <3>1, <3>2
  <2>2. k > j
    BY <1>0
  <2> QED
    BY <2>1, <2>2
<1>2. IsFiniteSet(A) /\ Cardinality(A) \in Nat /\ Cardinality(B) \in Nat
  BY <1>1, JobsFinite
<1>3. IsFiniteSet(A \ {k}) /\ Cardinality(A \ {k}) = Cardinality(A) - 1
  BY <1>1, <1>2, FS_RemoveElement
<1>4. Cardinality(B) <= Cardinality(A \ {k})
  BY <1>1, <1>3, FS_Subset
<1>5. Rank(S, j) = Cardinality(A) /\ Rank(S, k) = Cardinality(B)
  BY Zenon DEF Rank
<1> HIDE DEF A, B
<1> QED
  BY <1>2, <1>3, <1>4, <1>5

LEMMA RankInjective ==
    ASSUME NEW S \in SUBSET JobIds, NEW j \in S, NEW k \in S, Rank(S, j) = Rank(S, k)
    PROVE  j = k
<1>1. j \in Nat /\ k \in Nat /\ Rank(S, j) \in Nat /\ Rank(S, k) \in Nat
  BY RankTyped, JobsAreNumbers
<1>2. ~(j < k) /\ ~(k < j)
  BY <1>1, RankStrict
<1> QED
  BY <1>1, <1>2

(* A list of n jobs has its places below n. *)
LEMMA RankBelow ==
    ASSUME NEW S \in SUBSET JobIds, NEW j \in S
    PROVE  Rank(S, j) < Cardinality(S)
<1> DEFINE A == {i \in S : i > j}
<1>1. A \subseteq S \ {j} /\ A \in SUBSET JobIds
  <2>1. j \in Nat /\ ~(j > j)
    BY JobsAreNumbers
  <2> QED
    BY <2>1
<1>2. IsFiniteSet(S) /\ Cardinality(S) \in Nat /\ Cardinality(A) \in Nat
  BY <1>1, JobsFinite
<1>3. IsFiniteSet(S \ {j}) /\ Cardinality(S \ {j}) = Cardinality(S) - 1
  BY <1>2, FS_RemoveElement
<1>4. Cardinality(A) <= Cardinality(S \ {j})
  BY <1>1, <1>3, FS_Subset
<1>5. Rank(S, j) = Cardinality(A)
  BY Zenon DEF Rank
<1> HIDE DEF A
<1> QED
  BY <1>2, <1>3, <1>4, <1>5

(* A job more moves nobody forward; a job less moves nobody by more than   *)
(* one place. *)
LEMMA RankGrows ==
    ASSUME NEW S \in SUBSET JobIds, NEW T \in SUBSET JobIds, S \subseteq T, NEW j \in JobIds
    PROVE  Rank(S, j) <= Rank(T, j)
<1>1. {k \in S : k > j} \in SUBSET {k \in T : k > j} /\ {k \in T : k > j} \in SUBSET JobIds
  OBVIOUS
<1> QED
  BY <1>1, Smaller DEF Rank

LEMMA RankDrops ==
    ASSUME NEW S \in SUBSET JobIds, NEW i, NEW j \in JobIds
    PROVE  Rank(S, j) <= Rank(S \ {i}, j) + 1
<1> DEFINE A == {k \in S : k > j}
           B == {k \in S \ {i} : k > j}
<1>1. B = A \ {i} /\ A \in SUBSET JobIds /\ B \in SUBSET JobIds
  OBVIOUS
<1>2. IsFiniteSet(A) /\ Cardinality(A) \in Nat /\ Cardinality(B) \in Nat
  BY <1>1, JobsFinite
<1>3. Cardinality(A \ {i}) = IF i \in A THEN Cardinality(A) - 1 ELSE Cardinality(A)
  BY <1>2, FS_RemoveElement
<1> QED
  BY <1>1, <1>2, <1>3 DEF Rank

(* A job that joins moves back only the jobs below it. *)
LEMMA RankMoved ==
    ASSUME NEW S \in SUBSET JobIds, NEW i \in JobIds \ S, NEW k \in S,
           Rank(S \cup {i}, k) # Rank(S, k)
    PROVE  k < i /\ Rank(S \cup {i}, k) <= Rank(S, k) + 1
<1>1. S = (S \cup {i}) \ {i} /\ S \cup {i} \in SUBSET JobIds /\ k \in JobIds
  OBVIOUS
<1>2. Rank(S \cup {i}, k) <= Rank(S, k) + 1
  BY <1>1, RankDrops
<1>3. ~(i > k) => {m \in S \cup {i} : m > k} = {m \in S : m > k}
  OBVIOUS
<1>4. i > k
  BY <1>3 DEF Rank
<1> QED
  BY <1>2, <1>4, JobsAreNumbers

-----------------------------------------------------------------------------
(* The jobs that stand before a place of the list. *)

LEMMA AheadTyped ==
    ASSUME NEW M \in SUBSET JobIds, NEW S, NEW n
    PROVE  Ahead(M, S, n) \in SUBSET JobIds /\ Ahead(M, S, n) \in SUBSET M
           /\ Cardinality(Ahead(M, S, n)) \in Nat
<1>1. Ahead(M, S, n) \in SUBSET JobIds /\ Ahead(M, S, n) \in SUBSET M
  BY DEF Ahead
<1> QED
  BY <1>1, JobsFinite

LEMMA AheadShrinks ==
    ASSUME NEW S \in SUBSET JobIds, NEW T \in SUBSET JobIds, S \subseteq T, NEW n \in Nat,
           NEW M \in SUBSET JobIds, NEW L \in SUBSET M
    PROVE  Cardinality(Ahead(L, T, n)) <= Cardinality(Ahead(M, S, n))
<1>1. ASSUME NEW j \in Ahead(L, T, n) PROVE j \in Ahead(M, S, n)
  <2>1. j \in L /\ j \in JobIds /\ Rank(T, j) < n
    BY DEF Ahead
  <2>2. Rank(S, j) \in Nat /\ Rank(T, j) \in Nat /\ Rank(S, j) <= Rank(T, j)
    BY <2>1, RankTyped, RankGrows
  <2> QED
    BY <2>1, <2>2 DEF Ahead
<1> QED
  BY <1>1, AheadTyped, Smaller

LEMMA AheadGainsOne ==
    ASSUME NEW S \in SUBSET JobIds, NEW i, NEW n \in Nat,
           NEW M \in SUBSET S, NEW L \in SUBSET M
    PROVE  Cardinality(Ahead(L, S \ {i}, n)) <= Cardinality(Ahead(M, S, n)) + 1
<1> DEFINE D == Ahead(L, S \ {i}, n)
           X == Ahead(M, S, n)
<1>1. /\ D \in SUBSET JobIds /\ X \in SUBSET JobIds
      /\ Cardinality(D) \in Nat /\ Cardinality(X) \in Nat
  BY AheadTyped
<1>2. ASSUME NEW j \in D \ X PROVE j \in S /\ Rank(S, j) = n
  <2>1. j \in L /\ j \in JobIds /\ Rank(S \ {i}, j) < n /\ ~(Rank(S, j) < n)
    BY DEF Ahead
  <2>2. Rank(S, j) \in Nat /\ Rank(S \ {i}, j) \in Nat /\ Rank(S, j) <= Rank(S \ {i}, j) + 1
    BY <2>1, RankTyped, RankDrops
  <2> QED
    BY <2>1, <2>2
<1>3. \A j, k \in D \ X : j = k
  BY <1>2, RankInjective
<1> HIDE DEF D, X
<1>4. CASE D \subseteq X
  BY <1>1, <1>4, Smaller DEF D, X
<1>5. CASE ~(D \subseteq X)
  <2>1. PICK k \in D : k \notin X
    BY <1>5
  <2>2. D \subseteq X \cup {k}
    BY <1>3, <2>1
  <2>3. IsFiniteSet(X) /\ IsFiniteSet(X \cup {k}) /\ Cardinality(X \cup {k}) = Cardinality(X) + 1
    BY <1>1, <2>1, JobsFinite, FS_AddElement
  <2>4. Cardinality(D) <= Cardinality(X \cup {k})
    BY <2>2, <2>3, FS_Subset
  <2> QED
    BY <1>1, <2>3, <2>4 DEF D, X
<1> QED
  BY <1>4, <1>5

(* A page shows the jobs between its first and its last place. *)
LEMMA PageShows ==
    ASSUME NEW S \in SUBSET JobIds, NEW p \in Nat \ {0}, NEW M \in SUBSET S
    PROVE  Ahead(M \ Page(S, p), S, p * PageSize) \subseteq Ahead(M, S, (p - 1) * PageSize)
<1>1. p * PageSize \in Nat /\ (p - 1) * PageSize \in Nat
  BY PageAssumption
<1>2. ASSUME NEW j \in M, j \notin Page(S, p), Rank(S, j) < p * PageSize
      PROVE  Rank(S, j) < (p - 1) * PageSize
  <2>1. Rank(S, j) \in Nat
    BY RankTyped
  <2>2. Rank(S, j) \notin (p - 1) * PageSize .. p * PageSize - 1
    BY <1>2 DEF Page
  <2> QED
    BY <1>1, <1>2, <2>1, <2>2
<1> QED
  BY <1>2 DEF Ahead

(* The jobs that stand at or after a place. *)

LEMMA BehindTyped ==
    ASSUME NEW N \in SUBSET JobIds, NEW S, NEW n
    PROVE  Behind(N, S, n) \in SUBSET JobIds /\ Cardinality(Behind(N, S, n)) \in Nat
<1>1. Behind(N, S, n) \in SUBSET JobIds
  BY DEF Behind
<1> QED
  BY <1>1, JobsFinite

LEMMA BehindShrinks ==
    ASSUME NEW T \in SUBSET JobIds, NEW S \in SUBSET T, NEW n \in Nat, NEW N \in SUBSET JobIds
    PROVE  Cardinality(Behind(N, S, n)) <= Cardinality(Behind(N, T, n))
<1>1. ASSUME NEW j \in Behind(N, S, n) PROVE j \in Behind(N, T, n)
  <2>1. j \in N /\ j \in S /\ j \in JobIds /\ Rank(S, j) >= n
    BY DEF Behind
  <2>2. Rank(S, j) \in Nat /\ Rank(T, j) \in Nat /\ Rank(S, j) <= Rank(T, j)
    BY <2>1, RankTyped, RankGrows
  <2> QED
    BY <2>1, <2>2 DEF Behind
<1> QED
  BY <1>1, BehindTyped, Smaller

(* One job that joins the list brings no more than one listed job there:   *)
(* the one that stood right before the place, or itself. *)
LEMMA BehindGainsOne ==
    ASSUME NEW S \in SUBSET JobIds, NEW i \in JobIds \ S, NEW n \in Nat, NEW N \in SUBSET JobIds
    PROVE  Cardinality(Behind(N, S \cup {i}, n)) <= Cardinality(Behind(N, S, n)) + 1
<1> DEFINE T == S \cup {i}
           D == Behind(N, T, n)
           X == Behind(N, S, n)
<1>1. /\ T \in SUBSET JobIds /\ D \in SUBSET JobIds /\ X \in SUBSET JobIds
      /\ Cardinality(D) \in Nat /\ Cardinality(X) \in Nat
  BY BehindTyped
<1>2. ASSUME NEW j \in D \ X, j # i
      PROVE  j \in T /\ Rank(T, j) = n /\ j < i
  <2>1. j \in S /\ j \in JobIds /\ Rank(T, j) >= n /\ ~(Rank(S, j) >= n)
    BY <1>2 DEF Behind
  <2>2. Rank(S, j) \in Nat /\ Rank(T, j) \in Nat
    BY <1>1, <2>1, RankTyped
  <2>3. j < i /\ Rank(T, j) <= Rank(S, j) + 1
    BY <2>1, <2>2, RankMoved
  <2> QED
    BY <2>1, <2>2, <2>3
<1>3. ASSUME NEW j \in D \ X, j # i PROVE i \notin D
  <2>1. j \in T /\ i \in T /\ j < i /\ Rank(T, j) = n
    BY <1>2, <1>3
  <2>2. Rank(T, i) < n
    BY <1>1, <2>1, RankStrict
  <2>3. Rank(T, i) \in Nat
    BY <1>1, RankTyped
  <2> QED
    BY <2>2, <2>3 DEF Behind
<1> HIDE DEF D, X
<1>4. ASSUME NEW j \in D \ X, NEW k \in D \ X PROVE j = k
  <2>1. CASE j # i /\ k # i
    <3>1. j \in T /\ k \in T /\ Rank(T, j) = n /\ Rank(T, k) = n
      BY <1>2, <2>1
    <3> QED
      BY <1>1, <3>1, RankInjective
  <2> QED
    BY <1>3, <2>1
<1>5. CASE D \subseteq X
  <2>1. Cardinality(D) <= Cardinality(X)
    BY <1>1, <1>5, Smaller
  <2> QED
    BY <1>1, <2>1 DEF D, X
<1>6. CASE ~(D \subseteq X)
  <2>1. PICK k \in D : k \notin X
    BY <1>6
  <2>2. D \subseteq X \cup {k}
    BY <1>4, <2>1
  <2>3. IsFiniteSet(X) /\ IsFiniteSet(X \cup {k}) /\ Cardinality(X \cup {k}) = Cardinality(X) + 1
    BY <1>1, <2>1, JobsFinite, FS_AddElement
  <2>4. Cardinality(D) <= Cardinality(X \cup {k})
    BY <2>2, <2>3, FS_Subset
  <2> QED
    BY <1>1, <2>3, <2>4 DEF D, X
<1> QED
  BY <1>5, <1>6

(* A page repeats what it shows of the listed jobs, and these no longer    *)
(* stand at or after the place that follows it. *)
LEMMA PageUsesUp ==
    ASSUME NEW S \in SUBSET JobIds, NEW p \in Nat \ {0}, NEW N \in SUBSET JobIds
    PROVE  Cardinality(Page(S, p) \cap N) + Cardinality(Behind(N \cup Page(S, p), S, p * PageSize))
             <= Cardinality(Behind(N, S, (p - 1) * PageSize))
<1> DEFINE a == (p - 1) * PageSize
           b == p * PageSize
           A == Page(S, p) \cap N
           B == Behind(N \cup Page(S, p), S, b)
           C == Behind(N, S, a)
<1>1. a \in Nat /\ b \in Nat /\ a <= b
  BY PageAssumption
<1>2. \A j \in S : Rank(S, j) \in Nat
  BY RankTyped
<1>3. Page(S, p) = {j \in S : Rank(S, j) \in a .. b - 1}
  BY DEF Page
<1> HIDE DEF a, b
<1>4. A \subseteq C /\ B \subseteq C /\ A \cap B = {}
  BY <1>1, <1>2, <1>3 DEF Behind
<1>5. A \in SUBSET JobIds /\ B \in SUBSET JobIds /\ C \in SUBSET JobIds
  BY <1>3 DEF Behind
<1> HIDE DEF A, B, C
<1>6. IsFiniteSet(A) /\ IsFiniteSet(B) /\ Cardinality(A) \in Nat /\ Cardinality(B) \in Nat
  BY <1>5, JobsFinite
<1>7. Cardinality(A \cup B) = Cardinality(A) + Cardinality(B)
  BY <1>4, <1>6, FS_Union, FS_EmptySet
<1>8. Cardinality(A \cup B) <= Cardinality(C)
  BY <1>4, <1>5, Smaller
<1> QED
  BY <1>7, <1>8 DEF A, B, C, a, b

(* After the last page no place is left. *)
LEMMA LastPageReachesEnd ==
    ASSUME NEW n \in Nat, NEW p \in Nat, p >= TotalPages(n)
    PROVE  n <= p * PageSize
<1> DEFINE q == (n + PageSize - 1) \div PageSize
<1>1. PageSize \in Nat /\ PageSize > 0 /\ n + PageSize - 1 \in Nat
  BY PageAssumption
<1>2. q \in Nat /\ n + PageSize - 1 < (q + 1) * PageSize
  BY <1>1
<1>3. p >= q
  BY DEF TotalPages
<1> HIDE DEF q
<1>4. q * PageSize <= p * PageSize
  BY <1>1, <1>2, <1>3
<1>5. (q + 1) * PageSize = q * PageSize + PageSize /\ q * PageSize \in Nat /\ p * PageSize \in Nat
  BY <1>1, <1>2
<1> QED
  BY <1>1, <1>2, <1>4, <1>5

-----------------------------------------------------------------------------
(* The steps. *)

LEMMA Subsets ==
    ASSUME NEW v, NEW g
    PROVE  Matching(v, g) \in SUBSET JobIds /\ Cardinality(Matching(v, g)) \in Nat
<1>1. Matching(v, g) \in SUBSET JobIds
  BY DEF Matching, Rows
<1> QED
  BY <1>1, JobsFinite

(* A write changes whether one job matches. *)
LEMMA OneRow ==
    ASSUME WalkTyped, NEW j \in JobIds, Submit(j) \/ MoveJob(j) \/ UpdateFields(j), NEW g
    PROVE  LET L == Matching(Now, g)
               M == Matching(Now', g)
           IN  M = L \/ (j \notin L /\ M = L \cup {j}) \/ (j \in L /\ M = L \ {j})
<1>1. \A k \in JobIds \ {j} : status'[k] = status[k] /\ (k \in touched' <=> k \in touched)
  BY DEF Submit, MoveJob, UpdateFields, WalkTyped
<1>2. \A k \in JobIds \ {j} : k \in Matching(Now, g) <=> k \in Matching(Now', g)
  BY <1>1 DEF Matching, Rows, Updated, Now
<1> QED
  BY <1>2, Subsets

LEMMA WriteTyped ==
    ASSUME WalkTyped, NEW j \in JobIds, Submit(j) \/ MoveJob(j) \/ UpdateFields(j)
    PROVE  /\ WalkTyped'
           /\ walk'.filter = walk.filter /\ walk'.page = walk.page
           /\ walk'.total = walk.total /\ walk'.listed = walk.listed
           /\ walk'.kept = walk.kept \cap Matching(Now', walk.filter)
           /\ walk'.departures = walk.departures
                + Cardinality(Matching(Now, walk.filter) \ Matching(Now', walk.filter))
           /\ walk'.arrivals = walk.arrivals
                + Cardinality(Matching(Now', walk.filter) \ Matching(Now, walk.filter))
           /\ walk'.repeats = walk.repeats
           /\ UNCHANGED <<pc, snap>>
<1>1. Write
  BY DEF Submit, MoveJob, UpdateFields
<1>2. /\ Cardinality(Matching(Now, walk.filter) \ Matching(Now', walk.filter)) \in Nat
      /\ Cardinality(Matching(Now', walk.filter) \ Matching(Now, walk.filter)) \in Nat
  <2>1. /\ Matching(Now, walk.filter) \ Matching(Now', walk.filter) \in SUBSET JobIds
        /\ Matching(Now', walk.filter) \ Matching(Now, walk.filter) \in SUBSET JobIds
    BY Subsets
  <2> QED
    BY <2>1, JobsFinite
<1>3. status' \in [JobIds -> Statuses \cup {"none"}]
  BY DEF Submit, MoveJob, UpdateFields, WalkTyped
<1> DEFINE stay == walk.kept \cap Matching(Now', walk.filter)
           gone == walk.departures
                     + Cardinality(Matching(Now, walk.filter) \ Matching(Now', walk.filter))
           come == walk.arrivals
                     + Cardinality(Matching(Now', walk.filter) \ Matching(Now, walk.filter))
<1>4. /\ walk' = [walk EXCEPT !.kept = stay, !.departures = gone, !.arrivals = come]
      /\ UNCHANGED <<pc, snap>>
  BY <1>1 DEF Write
<1>5. gone \in Nat /\ come \in Nat /\ stay \in SUBSET JobIds
  BY <1>2 DEF WalkTyped, Walks
<1> HIDE DEF stay, gone, come
<1>6. /\ walk' \in Walks
      /\ walk'.filter = walk.filter /\ walk'.page = walk.page
      /\ walk'.total = walk.total /\ walk'.listed = walk.listed
      /\ walk'.kept = stay /\ walk'.departures = gone
      /\ walk'.arrivals = come /\ walk'.repeats = walk.repeats
  BY <1>4, <1>5 DEF WalkTyped, Walks
<1> QED
  BY <1>3, <1>4, <1>6 DEF WalkTyped, stay, gone, come

LEMMA WriteKeeps ==
    ASSUME WalkTyped, WalkInv, NEW j \in JobIds, Submit(j) \/ MoveJob(j) \/ UpdateFields(j)
    PROVE  WalkInv'
<1> SUFFICES ASSUME Walking' PROVE WalkInv'
  BY DEF WalkInv
<1> DEFINE L == Matching(Now, walk.filter)
           M == Matching(Now', walk.filter)
           n == walk.page * PageSize
<1>1. /\ Walking /\ Listed = L /\ Listed' = M
      /\ Missed' = Missed \cap M /\ (LastPage' <=> LastPage)
  BY WriteTyped DEF Walking, Listed, Missed, Coming, LastPage, View
<1>2. /\ walk.page \in Nat /\ walk.departures \in Nat /\ n \in Nat
      /\ walk.kept \subseteq L /\ Missed \in SUBSET L
      /\ Cardinality(Ahead(Missed, L, n)) <= walk.departures
      /\ LastPage => Cardinality(Missed) <= walk.departures
  BY <1>1, PageAssumption DEF WalkTyped, Walks, WalkInv, Missed
<1>3. /\ L \in SUBSET JobIds /\ M \in SUBSET JobIds /\ Missed \in SUBSET JobIds
      /\ Missed' \in SUBSET Missed /\ Missed' \in SUBSET JobIds
  BY <1>1, <1>2, Subsets
<1>4. walk'.departures \in Nat /\ walk'.departures >= walk.departures
  <2>1. Cardinality(L \ M) \in Nat
    BY <1>3, JobsFinite
  <2>2. walk'.departures = walk.departures + Cardinality(L \ M)
    BY WriteTyped
  <2> HIDE DEF L, M
  <2> QED
    BY <1>2, <2>1, <2>2
<1>5. Cardinality(Ahead(Missed', M, n)) <= walk'.departures
  <2>0. Cardinality(Ahead(Missed', M, n)) \in Nat /\ Cardinality(Ahead(Missed, L, n)) \in Nat
    BY <1>3, AheadTyped
  <2>1. CASE L \subseteq M
    <3>1. Cardinality(Ahead(Missed', M, n)) <= Cardinality(Ahead(Missed, L, n))
      BY <1>2, <1>3, <2>1, AheadShrinks
    <3> QED
      BY <1>2, <1>4, <2>0, <3>1
  <2>2. CASE j \in L /\ M = L \ {j}
    <3>1. Cardinality(Ahead(Missed', M, n)) <= Cardinality(Ahead(Missed, L, n)) + 1
      BY <1>2, <1>3, <2>2, AheadGainsOne
    <3>2. L \ M = {j}
      BY <2>2
    <3>3. walk'.departures = walk.departures + 1
      BY <3>2, FS_Singleton, WriteTyped
    <3> QED
      BY <1>2, <2>0, <3>1, <3>3
  <2> QED
    BY <2>1, <2>2, OneRow
<1>6. LastPage' => Cardinality(Missed') <= walk'.departures
  <2>1. Cardinality(Missed') <= Cardinality(Missed) /\ Cardinality(Missed) \in Nat
        /\ Cardinality(Missed') \in Nat
    BY <1>3, Smaller
  <2> QED
    BY <1>1, <1>2, <1>4, <2>1
<1>7. walk'.kept \subseteq M /\ walk'.page = walk.page
  BY WriteTyped
<1> QED
  BY <1>1, <1>5, <1>6, <1>7 DEF WalkInv

(* A page is opened: the walk's place moves behind it. *)
LEMMA OpenedPage ==
    ASSUME NEW w \in Walks, Count(w), w.page # 0, w.kept \subseteq Matching(Now, w.filter),
           Cardinality(Ahead(w.kept \ w.listed, Matching(Now, w.filter), (w.page - 1) * PageSize))
               <= w.departures
    PROVE  WalkInv'
<1> DEFINE L == Matching(Now, w.filter)
           M == w.kept \ w.listed
           n == w.page * PageSize
<1>1. /\ L \in SUBSET JobIds /\ Cardinality(L) \in Nat /\ M \in SUBSET L /\ M \in SUBSET JobIds
      /\ w.page \in Nat \ {0} /\ n \in Nat /\ w.departures \in Nat
  BY Subsets, PageAssumption DEF Walks
<1>2. /\ walk'.filter = w.filter /\ walk'.page = w.page /\ walk'.total = Cardinality(L)
      /\ walk'.listed = w.listed /\ walk'.kept = w.kept /\ walk'.departures = w.departures
      /\ pc' = "page" /\ snap' = Now /\ Now' = Now
  BY DEF Count, Walks, Now, rowVars
<1>3. Listed' = L /\ Missed' = M \ Page(L, w.page)
  BY <1>2 DEF Listed, Missed, Coming, View
<1>4. /\ Missed' \in SUBSET JobIds /\ Missed' \in SUBSET L
      /\ Cardinality(Ahead(Missed', L, n)) \in Nat /\ Cardinality(Missed') \in Nat
  BY <1>1, <1>3, AheadTyped, JobsFinite
<1>5. Cardinality(Ahead(Missed', L, n)) <= w.departures
  <2>1. Ahead(Missed', L, n) \subseteq Ahead(M, L, (w.page - 1) * PageSize)
    BY <1>1, <1>3, PageShows
  <2>2. /\ Cardinality(Ahead(Missed', L, n)) <= Cardinality(Ahead(M, L, (w.page - 1) * PageSize))
        /\ Cardinality(Ahead(M, L, (w.page - 1) * PageSize)) \in Nat
    BY <1>1, <2>1, AheadTyped, Smaller
  <2> QED
    BY <1>1, <1>4, <2>2
<1>6. LastPage' => Cardinality(Missed') <= w.departures
  <2> SUFFICES ASSUME LastPage' PROVE Missed' \subseteq Ahead(Missed', L, n)
    <3>1. Ahead(Missed', L, n) \subseteq Missed'
      BY DEF Ahead
    <3>2. Missed' \subseteq Ahead(Missed', L, n) => Ahead(Missed', L, n) = Missed'
      BY <3>1
    <3> HIDE DEF L, n
    <3> QED
      BY <1>5, <3>2
  <2>1. Cardinality(L) <= n
    BY <1>1, <1>2, LastPageReachesEnd DEF LastPage
  <2>2. ASSUME NEW j \in Missed' PROVE Rank(L, j) < n
    <3>1. j \in L /\ Rank(L, j) \in Nat
      BY <1>1, <1>4, RankTyped
    <3> QED
      BY <1>1, <2>1, <3>1, RankBelow
  <2> QED
    BY <2>2 DEF Ahead
<1> QED
  BY <1>2, <1>3, <1>5, <1>6 DEF WalkInv

LEMMA OpenedTyped ==
    ASSUME WalkTyped, NEW w \in Walks, Count(w)
    PROVE  WalkTyped'
  BY Subsets DEF Count, WalkTyped, Walks, rowVars

LEMMA NoWalkTyped == NoWalk \in Walks
  BY DEF NoWalk, Walks

LEMMA ListJobsKeeps ==
    ASSUME WalkTyped, NEW g \in Groups, ListJobs(g)
    PROVE  WalkTyped' /\ WalkInv'
<1> DEFINE w == [NoWalk EXCEPT !.filter = g, !.page = 1, !.kept = Matching(Now, g)]
<1>1. /\ w \in Walks /\ w.filter = g /\ w.page = 1 /\ w.kept = Matching(Now, g)
      /\ w.listed = {} /\ w.departures = 0
  BY Subsets DEF NoWalk, Walks
<1>2. Count(w)
  BY DEF ListJobs
<1> HIDE DEF w
<1>3. Ahead(w.kept \ w.listed, Matching(Now, w.filter), (w.page - 1) * PageSize) = {}
  <2>1. (w.page - 1) * PageSize = 0
    BY <1>1, PageAssumption
  <2>2. \A j \in Matching(Now, g) : Rank(Matching(Now, g), j) \in Nat
    BY Subsets, RankTyped
  <2> QED
    BY <1>1, <2>1, <2>2 DEF Ahead
<1>4. Cardinality(Ahead(w.kept \ w.listed, Matching(Now, w.filter), (w.page - 1) * PageSize))
        <= w.departures
  BY <1>1, <1>3, FS_EmptySet
<1> QED
  BY <1>1, <1>2, <1>4, OpenedPage, OpenedTyped

LEMMA TurnPageKeeps ==
    ASSUME WalkTyped, WalkInv, TurnPage
    PROVE  WalkTyped' /\ WalkInv'
<1> DEFINE w == [walk EXCEPT !.page = @ + 1]
<1>1. /\ w \in Walks /\ w.filter = walk.filter /\ w.page = walk.page + 1 /\ w.kept = walk.kept
      /\ w.listed = walk.listed /\ w.departures = walk.departures /\ walk.page \in Nat
  BY DEF WalkTyped, Walks
<1>2. Count(w) /\ pc = "turn"
  BY DEF TurnPage
<1> HIDE DEF w
<1>3. /\ walk.kept \subseteq Listed /\ Missed = walk.kept \ walk.listed
      /\ Cardinality(Ahead(Missed, Listed, walk.page * PageSize)) <= walk.departures
  BY <1>2 DEF WalkInv, Walking, Missed, Coming
<1>4. w.page # 0 /\ w.page - 1 = walk.page
  BY <1>1
<1> QED
  BY <1>1, <1>2, <1>3, <1>4, OpenedPage, OpenedTyped DEF Listed

LEMMA FetchPageKeeps ==
    ASSUME WalkTyped, WalkInv, FetchPage
    PROVE  WalkTyped' /\ WalkInv'
<1> DEFINE P == Page(Matching(View, walk.filter), walk.page)
           again == walk.repeats + Cardinality(P \cap walk.listed)
<1>1. P \in SUBSET JobIds /\ again \in Nat
  <2>1. P \in SUBSET JobIds /\ walk.repeats \in Nat
    BY Subsets DEF Page, WalkTyped, Walks
  <2>2. Cardinality(P \cap walk.listed) \in Nat
    BY <2>1, JobsFinite
  <2> QED
    BY <2>1, <2>2
<1>2. /\ pc = "page" /\ pc' = "turn" /\ Now' = Now /\ status' = status
      /\ walk' = [walk EXCEPT !.listed = @ \cup P, !.repeats = again]
  BY DEF FetchPage, Now, rowVars
<1> HIDE DEF P, again
<1>3. /\ walk' \in Walks /\ walk'.listed = walk.listed \cup P
      /\ walk'.filter = walk.filter /\ walk'.page = walk.page /\ walk'.total = walk.total
      /\ walk'.kept = walk.kept /\ walk'.departures = walk.departures
  BY <1>1, <1>2 DEF WalkTyped, Walks
<1>4. Missed' = Missed /\ Listed' = Listed /\ (LastPage' <=> LastPage)
  BY <1>2, <1>3 DEF Missed, Coming, Listed, LastPage, P
<1> QED
  BY <1>2, <1>3, <1>4 DEF WalkInv, WalkTyped, Walking

(* Whoever is not on a walk keeps the invariant. *)
LEMMA ElsewhereKeeps ==
    ASSUME WalkTyped,
           (\E k \in Reports, R \in Ranges : OpenReport(k, R)) \/ AskNext \/ Leave
    PROVE  WalkTyped' /\ WalkInv'
  BY NoWalkTyped DEF OpenReport, AskNext, Leave, WalkTyped, WalkInv, Walking, rowVars

LEMMA WalkStep == WalkTyped /\ WalkInv /\ [Next]_vars => WalkTyped' /\ WalkInv'
<1> SUFFICES ASSUME WalkTyped, WalkInv, [Next]_vars PROVE WalkTyped' /\ WalkInv'
  OBVIOUS
<1>1. ASSUME NEW g \in Groups, ListJobs(g) PROVE WalkTyped' /\ WalkInv'
  BY <1>1, ListJobsKeeps
<1>2. CASE FetchPage
  BY <1>2, FetchPageKeeps
<1>3. CASE TurnPage
  BY <1>3, TurnPageKeeps
<1>4. CASE (\E k \in Reports, R \in Ranges : OpenReport(k, R)) \/ AskNext \/ Leave
  BY <1>4, ElsewhereKeeps
<1>5. ASSUME NEW j \in JobIds, Submit(j) \/ MoveJob(j) \/ UpdateFields(j)
      PROVE  WalkTyped' /\ WalkInv'
  BY <1>5, WriteTyped, WriteKeeps
<1>6. CASE UNCHANGED vars
  BY <1>6 DEF vars, rowVars, WalkTyped, WalkInv, Walking, Listed, Missed, Coming, LastPage, Now, View
<1> QED
  BY <1>1, <1>2, <1>3, <1>4, <1>5, <1>6 DEF Next

(* The inductive invariant of the walk (jobs.py 221-259). *)
THEOREM SpecWalkInv == Spec => [](WalkTyped /\ WalkInv)
<1>1. Init => WalkTyped /\ WalkInv
  BY NoWalkTyped, StatusAssumption DEF Init, WalkTyped, WalkInv, Walking
<1> QED
  BY <1>1, WalkStep, PTL DEF Spec

(* Whoever turns the pages to the last one has missed, of the jobs that    *)
(* matched all the time, no more than stopped matching meanwhile.          *)
THEOREM SpecMissesAreDepartures == Spec => []MissesAreDepartures
<1>1. WalkTyped /\ WalkInv => MissesAreDepartures
  BY DEF WalkInv, Walking, Missed, Coming, MissesAreDepartures
<1> QED
  BY <1>1, SpecWalkInv, PTL

-----------------------------------------------------------------------------
(* Repeats. *)

LEMMA WriteRepeats ==
    ASSUME WalkTyped, RepeatInv, NEW j \in JobIds, Submit(j) \/ MoveJob(j) \/ UpdateFields(j)
    PROVE  RepeatInv'
<1> SUFFICES ASSUME Walking' PROVE RepeatInv'
  BY DEF RepeatInv
<1> DEFINE L == Matching(Now, walk.filter)
           M == Matching(Now', walk.filter)
           N == walk.listed \cup Coming
           n == walk.page * PageSize
           r == walk.repeats + Cardinality(Coming \cap walk.listed)
<1>1. /\ Walking /\ Listed = L /\ Listed' = M /\ Coming' = Coming
      /\ walk'.listed = walk.listed /\ walk'.page = walk.page /\ walk'.repeats = walk.repeats
      /\ walk'.arrivals = walk.arrivals + Cardinality(M \ L)
  BY WriteTyped DEF Walking, Listed, Coming, View
<1>2. L \in SUBSET JobIds /\ M \in SUBSET JobIds /\ Coming \in SUBSET JobIds
  BY Subsets DEF Coming, Page
<1>3. /\ N \in SUBSET JobIds /\ n \in Nat /\ walk.arrivals \in Nat
      /\ Cardinality(Coming \cap walk.listed) \in Nat /\ r \in Nat
  BY <1>2, JobsFinite, PageAssumption DEF WalkTyped, Walks
<1>4. r + Cardinality(Behind(N, L, n)) <= walk.arrivals
  BY <1>1 DEF RepeatInv
<1> HIDE DEF L, M, N, n, r
<1>5. Cardinality(Behind(N, L, n)) \in Nat /\ Cardinality(Behind(N, M, n)) \in Nat
  BY <1>3, BehindTyped
<1>6. r + Cardinality(Behind(N, M, n)) <= walk.arrivals + Cardinality(M \ L)
  <2>1. Cardinality(M \ L) \in Nat
    BY <1>2, JobsFinite
  <2>2. CASE j \notin L /\ M = L \cup {j}
    <3>1. Cardinality(Behind(N, M, n)) <= Cardinality(Behind(N, L, n)) + 1
      BY <1>2, <1>3, <2>2, BehindGainsOne
    <3>2. M \ L = {j}
      BY <2>2
    <3>3. Cardinality(M \ L) = 1
      BY <3>2, FS_Singleton
    <3> QED
      BY <1>3, <1>4, <1>5, <3>1, <3>3
  <2>3. CASE M = L \/ (j \in L /\ M = L \ {j})
    <3>1. Cardinality(Behind(N, M, n)) <= Cardinality(Behind(N, L, n))
      BY <1>2, <1>3, <2>3, BehindShrinks
    <3> QED
      BY <1>3, <1>4, <1>5, <2>1, <3>1
  <2> QED
    BY <2>2, <2>3, OneRow DEF L, M
<1> QED
  BY <1>1, <1>6 DEF RepeatInv, N, n, r

(* A page that is opened uses up the jobs it is going to repeat. *)
LEMMA OpenedRepeats ==
    ASSUME NEW w \in Walks, Count(w), w.page # 0,
           w.repeats + Cardinality(Behind(w.listed, Matching(Now, w.filter), (w.page - 1) * PageSize))
               <= w.arrivals
    PROVE  RepeatInv'
<1> DEFINE L == Matching(Now, w.filter)
           P == Page(L, w.page)
           u == Cardinality(P \cap w.listed)
           b == Cardinality(Behind(w.listed \cup P, L, w.page * PageSize))
           c == Cardinality(Behind(w.listed, L, (w.page - 1) * PageSize))
<1>1. /\ L \in SUBSET JobIds /\ P \in SUBSET JobIds /\ w.page \in Nat \ {0}
      /\ w.listed \in SUBSET JobIds /\ w.arrivals \in Nat /\ w.repeats \in Nat
  BY Subsets DEF Walks, Page
<1>2. /\ walk'.filter = w.filter /\ walk'.page = w.page /\ walk'.listed = w.listed
      /\ walk'.repeats = w.repeats /\ walk'.arrivals = w.arrivals
      /\ pc' = "page" /\ snap' = Now /\ Now' = Now
  BY DEF Count, Walks, Now, rowVars
<1>3. Listed' = L /\ Coming' = P
  BY <1>2 DEF Listed, Coming, View
<1>4. u + b <= c
  BY <1>1, PageUsesUp
<1>5. u \in Nat /\ b \in Nat /\ c \in Nat
  BY <1>1, JobsFinite, BehindTyped
<1>6. w.repeats + c <= w.arrivals
  OBVIOUS
<1>7. RepeatInv' <=> (Walking' => w.repeats + u + b <= w.arrivals)
  BY <1>2, <1>3 DEF RepeatInv
<1> HIDE DEF u, b, c
<1>8. w.repeats + u + b <= w.arrivals
  BY <1>1, <1>4, <1>5, <1>6
<1> QED
  BY <1>7, <1>8

LEMMA ListJobsRepeats ==
    ASSUME WalkTyped, NEW g \in Groups, ListJobs(g)
    PROVE  RepeatInv'
<1> DEFINE w == [NoWalk EXCEPT !.filter = g, !.page = 1, !.kept = Matching(Now, g)]
<1>1. w \in Walks /\ w.page = 1 /\ w.listed = {} /\ w.repeats = 0 /\ w.arrivals = 0
  BY Subsets DEF NoWalk, Walks
<1>2. Count(w)
  BY DEF ListJobs
<1> HIDE DEF w
<1>3. Behind(w.listed, Matching(Now, w.filter), (w.page - 1) * PageSize) = {}
  BY <1>1 DEF Behind
<1>4. Cardinality(Behind(w.listed, Matching(Now, w.filter), (w.page - 1) * PageSize)) = 0
  BY <1>3, FS_EmptySet
<1> QED
  BY <1>1, <1>2, <1>4, OpenedRepeats

LEMMA TurnPageRepeats ==
    ASSUME WalkTyped, RepeatInv, TurnPage
    PROVE  RepeatInv'
<1> DEFINE w == [walk EXCEPT !.page = @ + 1]
<1>1. /\ w \in Walks /\ w.filter = walk.filter /\ w.page = walk.page + 1 /\ walk.page \in Nat
      /\ w.listed = walk.listed /\ w.repeats = walk.repeats /\ w.arrivals = walk.arrivals
      /\ w.repeats \in Nat
  BY DEF WalkTyped, Walks
<1>2. Count(w) /\ pc = "turn"
  BY DEF TurnPage
<1> HIDE DEF w
<1>3. Coming = {} /\ Walking
  BY <1>2 DEF Coming, Walking
<1>4. Cardinality(Coming \cap walk.listed) = 0 /\ walk.listed \cup Coming = walk.listed
  BY <1>3, FS_EmptySet
<1>5. walk.repeats + Cardinality(Behind(walk.listed, Listed, walk.page * PageSize)) <= walk.arrivals
  <2>1. walk.repeats + 0 + Cardinality(Behind(walk.listed, Listed, walk.page * PageSize)) <= walk.arrivals
    BY <1>3, <1>4 DEF RepeatInv
  <2> QED
    BY <1>1, <2>1
<1>6. w.page # 0 /\ w.page - 1 = walk.page
  BY <1>1
<1> QED
  BY <1>1, <1>2, <1>5, <1>6, OpenedRepeats DEF Listed

LEMMA FetchPageRepeats ==
    ASSUME WalkTyped, RepeatInv, FetchPage
    PROVE  RepeatInv'
<1>1. /\ pc = "page" /\ pc' = "turn" /\ Now' = Now
      /\ walk' = [walk EXCEPT !.listed = @ \cup Coming,
                              !.repeats = @ + Cardinality(Coming \cap walk.listed)]
  BY DEF FetchPage, Coming, Now, rowVars
<1>2. /\ walk'.listed = walk.listed \cup Coming /\ walk'.arrivals = walk.arrivals
      /\ walk'.repeats = walk.repeats + Cardinality(Coming \cap walk.listed)
      /\ walk'.page = walk.page /\ walk'.filter = walk.filter
  BY <1>1 DEF WalkTyped, Walks
<1>3. Coming' = {} /\ Listed' = Listed
  BY <1>1, <1>2 DEF Coming, Listed
<1>4. /\ Cardinality(Coming' \cap walk'.listed) = 0
      /\ walk'.listed \cup Coming' = walk.listed \cup Coming
  BY <1>2, <1>3, FS_EmptySet
<1>5. walk'.repeats \in Nat
  <2>1. Coming \cap walk.listed \in SUBSET JobIds /\ walk.repeats \in Nat
    BY DEF WalkTyped, Walks
  <2> QED
    BY <1>2, <2>1, JobsFinite
<1>6. walk'.repeats + Cardinality(Behind(walk.listed \cup Coming, Listed, walk.page * PageSize))
        <= walk.arrivals
  BY <1>1, <1>2 DEF RepeatInv, Walking
<1>7. walk'.repeats + 0 + Cardinality(Behind(walk.listed \cup Coming, Listed, walk.page * PageSize))
        <= walk.arrivals
  BY <1>5, <1>6
<1> QED
  BY <1>2, <1>3, <1>4, <1>7 DEF RepeatInv

LEMMA RepeatStep == WalkTyped /\ RepeatInv /\ [Next]_vars => RepeatInv'
<1> SUFFICES ASSUME WalkTyped, RepeatInv, [Next]_vars PROVE RepeatInv'
  OBVIOUS
<1>1. ASSUME NEW g \in Groups, ListJobs(g) PROVE RepeatInv'
  BY <1>1, ListJobsRepeats
<1>2. CASE FetchPage
  BY <1>2, FetchPageRepeats
<1>3. CASE TurnPage
  BY <1>3, TurnPageRepeats
<1>4. CASE (\E k \in Reports, R \in Ranges : OpenReport(k, R)) \/ AskNext \/ Leave
  BY <1>4 DEF OpenReport, AskNext, Leave, RepeatInv, Walking
<1>5. ASSUME NEW j \in JobIds, Submit(j) \/ MoveJob(j) \/ UpdateFields(j) PROVE RepeatInv'
  BY <1>5, WriteRepeats
<1>6. CASE UNCHANGED vars
  BY <1>6 DEF vars, rowVars, RepeatInv, Walking, Listed, Coming, Now, View
<1> QED
  BY <1>1, <1>2, <1>3, <1>4, <1>5, <1>6 DEF Next

(* Whoever turns the pages is shown a job again no more often than a job   *)
(* began to match since he opened the first (jobs.py 221-259).             *)
THEOREM SpecRepeatsAreArrivals == Spec => []RepeatsAreArrivals
<1>1. Init => RepeatInv
  BY DEF Init, RepeatInv, Walking
<1>2. WalkTyped /\ RepeatInv => RepeatsAreArrivals
  <2> SUFFICES ASSUME WalkTyped, RepeatInv, Walking PROVE walk.repeats <= walk.arrivals
    BY DEF RepeatsAreArrivals
  <2> DEFINE u == Cardinality(Coming \cap walk.listed)
             b == Cardinality(Behind(walk.listed \cup Coming, Listed, walk.page * PageSize))
  <2>1. Coming \in SUBSET JobIds /\ walk.listed \in SUBSET JobIds
    BY Subsets DEF Coming, Page, WalkTyped, Walks
  <2>2. u \in Nat /\ b \in Nat
    BY <2>1, JobsFinite, BehindTyped
  <2>3. walk.repeats + u + b <= walk.arrivals
    BY DEF RepeatInv
  <2>4. walk.repeats \in Nat /\ walk.arrivals \in Nat
    BY DEF WalkTyped, Walks
  <2> HIDE DEF u, b
  <2> QED
    BY <2>2, <2>3, <2>4
<1> QED
  BY <1>1, <1>2, RepeatStep, SpecWalkInv, PTL DEF Spec

-----------------------------------------------------------------------------
(* Sums. *)

(* The parts of a set of jobs add up to it. *)
LEMMA PartsAddUp ==
    ASSUME NEW S \in SUBSET JobIds, NEW b, NEW part,
           \A j \in S : part[j] \in DOMAIN b,
           \A l \in DOMAIN b : b[l] = Cardinality({j \in S : part[j] = l})
    PROVE  SumOf(b) = Cardinality(S)
<1> DEFINE D == DOMAIN b
           P == [l \in D |-> {j \in S : part[j] = l}]
           U == UNION {{l} \X (1 .. b[l]) : l \in D}
           f == [l \in D |-> CHOOSE g : g \in Bijection(1 .. b[l], P[l])]
           h == [u \in U |-> f[u[1]][u[2]]]
<1>1. ASSUME NEW l \in D
      PROVE  /\ b[l] = Cardinality(P[l]) /\ P[l] \in SUBSET S
             /\ f[l] \in Bijection(1 .. b[l], P[l])
  <2>1. b[l] = Cardinality(P[l]) /\ P[l] \in SUBSET S /\ P[l] \in SUBSET JobIds
    OBVIOUS
  <2>2. IsFiniteSet(P[l])
    BY <2>1, JobsFinite
  <2>3. ExistsBijection(1 .. b[l], P[l])
    BY <2>1, <2>2, FS_CardinalityType
  <2>4. \E g : g \in Bijection(1 .. b[l], P[l])
    BY <2>3 DEF ExistsBijection
  <2> QED
    BY <2>1, <2>4
<1>2. /\ \A u \in U : u[1] \in D /\ u[2] \in 1 .. b[u[1]] /\ u = <<u[1], u[2]>>
      /\ \A l \in D : \A i \in 1 .. b[l] : <<l, i>> \in U
  OBVIOUS
<1>3. \A l \in D : \A j \in P[l] : j \in S /\ part[j] = l
  OBVIOUS
<1>4. \A j \in S : part[j] \in D /\ j \in P[part[j]]
  OBVIOUS
<1>5. DOMAIN h = U /\ \A u \in U : h[u] = f[u[1]][u[2]]
  OBVIOUS
<1>6. SumOf(b) = Cardinality(U)
  BY DEF SumOf
<1>0. h \in [U -> S] <=> \A u \in U : f[u[1]][u[2]] \in S
  OBVIOUS
<1> HIDE DEF D, P, U, f, h
<1>7. ASSUME NEW l \in D
      PROVE  /\ f[l] \in [1 .. b[l] -> P[l]]
             /\ \A i, k \in 1 .. b[l] : f[l][i] = f[l][k] => i = k
             /\ \A j \in P[l] : \E i \in 1 .. b[l] : f[l][i] = j
  <2> DEFINE A == 1 .. b[l]
             F == f[l]
             Q == P[l]
  <2>1. F \in Bijection(A, Q)
    BY <1>1
  <2> HIDE DEF A, F, Q
  <2>2. F \in [A -> Q] /\ (\A i, k \in A : F[i] = F[k] => i = k) /\ \A j \in Q : \E i \in A : F[i] = j
    BY ONLY <2>1, Fun_BijectionProperties
  <2> QED
    BY <2>2 DEF A, F, Q
<1>8. ASSUME NEW u \in U
      PROVE  h[u] \in S /\ part[h[u]] = u[1] /\ f[u[1]][u[2]] \in S
  <2>1. u[1] \in D /\ u[2] \in 1 .. b[u[1]]
    BY <1>2
  <2>2. f[u[1]][u[2]] \in P[u[1]]
    BY <1>7, <2>1
  <2> QED
    BY <1>3, <1>5, <2>1, <2>2
<1>9. h \in [U -> S]
  BY <1>0, <1>8
<1>10. ASSUME NEW u \in U, NEW w \in U, h[u] = h[w] PROVE u = w
  <2>1. u[1] = w[1]
    BY <1>8, <1>10
  <2>2. f[u[1]][u[2]] = f[u[1]][w[2]]
    BY <1>5, <1>10, <2>1
  <2>3. u[2] = w[2]
    BY <1>2, <1>7, <2>1, <2>2
  <2> QED
    BY <1>2, <2>1, <2>3
<1>11. ASSUME NEW j \in S PROVE \E u \in U : h[u] = j
  <2>1. part[j] \in D /\ j \in P[part[j]]
    BY <1>4
  <2>2. PICK i \in 1 .. b[part[j]] : f[part[j]][i] = j
    BY <1>7, <2>1
  <2>3. <<part[j], i>> \in U
    BY <1>2, <2>1
  <2> QED
    BY <1>5, <2>2, <2>3
<1>12. h \in Bijection(U, S)
  BY <1>9, <1>10, <1>11, Fun_IsBij
<1>13. ExistsBijection(S, U)
  BY <1>12, Fun_ExistsBijSymmetric DEF ExistsBijection
<1> QED
  BY <1>6, <1>13, JobsFinite, FS_Bijection

(* A breakdown adds up to the rows it was made of, except for the rows of  *)
(* a group whose label another group took.                                 *)
LEMMA BreakdownAddsUp ==
    ASSUME NEW S \in SUBSET JobIds, NEW col, NEW name, NEW last, name # Null
    PROVE  /\ SumOf(Breakdown(S, col, name, last)) <= Cardinality(S)
           /\ (\A j \in S : col[j] # name) => SumOf(Breakdown(S, col, name, last)) = Cardinality(S)
<1> DEFINE values  == {col[j] : j \in S}
           collide == {Null, name} \subseteq values
           kept    == IF last THEN name ELSE Null
           lost    == IF last THEN Null ELSE name
           T   == IF collide THEN {j \in S : col[j] # lost} ELSE S
           lab == [j \in S |-> IF col[j] = Null THEN name ELSE col[j]]
           B   == Breakdown(S, col, name, last)
<1>1. T \in SUBSET S /\ T \in SUBSET JobIds
  OBVIOUS
<1>2. DOMAIN B = {lab[j] : j \in S}
  BY DEF Breakdown
<1>3. \A j \in T : lab[j] \in DOMAIN B
  BY <1>1, <1>2
<1>4. ASSUME NEW l \in DOMAIN B PROVE B[l] = Cardinality({j \in T : lab[j] = l})
  <2>1. CASE l = name /\ collide
    <3>1. B[l] = Cardinality({j \in S : col[j] = kept})
      BY <1>2, <2>1 DEF Breakdown
    <3>2. {j \in S : col[j] = kept} = {j \in T : lab[j] = l}
      BY <2>1
    <3> QED
      BY <3>1, <3>2
  <2>2. CASE ~(l = name /\ collide)
    <3> DEFINE x == CHOOSE y \in values : (IF y = Null THEN name ELSE y) = l
    <3>1. B[l] = Cardinality({j \in S : col[j] = x})
      BY <1>2, <2>2 DEF Breakdown
    <3>2. \E y \in values : (IF y = Null THEN name ELSE y) = l
      BY <1>2
    <3>3. x \in values /\ (IF x = Null THEN name ELSE x) = l
      BY <3>2
    <3> HIDE DEF x
    <3>4. {j \in S : col[j] = x} = {j \in T : lab[j] = l}
      <4>1. ASSUME NEW j \in S, col[j] = x PROVE j \in T /\ lab[j] = l
        BY <2>2, <3>3, <4>1
      <4>2. ASSUME NEW j \in T, lab[j] = l PROVE j \in S /\ col[j] = x
        BY <2>2, <3>3, <4>2
      <4> QED
        BY <4>1, <4>2
    <3> QED
      BY <3>1, <3>4
  <2> QED
    BY <2>1, <2>2
<1>5. (\A j \in S : col[j] # name) => T = S
  OBVIOUS
<1>6. SumOf(B) = Cardinality(T)
  <2> HIDE DEF B, T, lab
  <2> QED
    BY <1>1, <1>3, <1>4, PartsAddUp
<1> HIDE DEF T
<1> QED
  BY <1>1, <1>5, <1>6, Smaller

(* Jobs that were sent and jobs that failed are different jobs. *)
LEMMA SentOrFailed ==
    ASSUME NEW v, NEW S \in SUBSET JobIds
    PROVE  /\ Cardinality(With(v, S, "sent")) + Cardinality(With(v, S, "failed")) <= Cardinality(S)
           /\ Cardinality(With(v, S, "failed")) <= Cardinality(S)
<1> DEFINE A == With(v, S, "sent")
           B == With(v, S, "failed")
<1>1. A \in SUBSET S /\ B \in SUBSET S /\ A \cap B = {} /\ A \cup B \in SUBSET S
  BY DEF With
<1> HIDE DEF A, B
<1>2. IsFiniteSet(A) /\ IsFiniteSet(B) /\ Cardinality(A) \in Nat /\ Cardinality(B) \in Nat
  BY <1>1, JobsFinite
<1>3. Cardinality(A \cup B) = Cardinality(A) + Cardinality(B)
  <2>1. Cardinality(A \cup B) = Cardinality(A) + Cardinality(B) - Cardinality(A \cap B)
    BY <1>2, FS_Union
  <2>2. Cardinality(A \cap B) = 0
    BY <1>1, FS_EmptySet
  <2> QED
    BY <1>2, <2>1, <2>2
<1>4. Cardinality(A \cup B) <= Cardinality(S) /\ Cardinality(B) <= Cardinality(S)
  BY <1>1, Smaller
<1> QED
  BY <1>3, <1>4 DEF A, B

(* There are no more users than jobs, nor more returning ones than users.  *)
LEMMA UsersFew ==
    ASSUME NEW v, NEW S \in SUBSET JobIds
    PROVE  /\ Cardinality(UsersOf(S) \cap Returning(v)) <= Cardinality(UsersOf(S))
           /\ Cardinality(UsersOf(S)) <= Cardinality(S)
<1> DEFINE f == [j \in S |-> Owner[j]]
           U == UsersOf(S)
<1>1. f \in [S -> U] /\ \A u \in U : \E j \in S : f[j] = u
  BY DEF UsersOf
<1> HIDE DEF f, U
<1>2. f \in Surjection(S, U) /\ IsFiniteSet(S)
  BY <1>1, Fun_IsSurj, JobsFinite
<1>3. IsFiniteSet(U) /\ Cardinality(U) <= Cardinality(S)
  BY <1>2, FS_Surjection
<1>4. Cardinality(U \cap Returning(v)) <= Cardinality(U)
  BY <1>3, FS_Intersection
<1> QED
  BY <1>3, <1>4 DEF U

(* So do the groups of a table of tallies, and the jobs of one status in it. *)
LEMMA TalliesAddUp ==
    ASSUME NEW S \in SUBSET JobIds, NEW v, NEW col
    PROVE  LET b == Tallies(v, S, col) IN
           /\ Total(b) = Cardinality(S)
           /\ Sent(b) = Cardinality(With(v, S, "sent"))
           /\ \A l \in DOMAIN b : b[l].sent + b[l].failed <= b[l].total
<1> DEFINE b == Tallies(v, S, col)
           D == {col[j] : j \in S}
           t == [l \in DOMAIN b |-> b[l].total]
           s == [l \in DOMAIN b |-> b[l].sent]
           sent == With(v, S, "sent")
<1>1. ASSUME NEW l \in D
      PROVE  /\ t[l] = Cardinality({j \in S : col[j] = l})
             /\ s[l] = Cardinality(With(v, {j \in S : col[j] = l}, "sent"))
  BY DEF Tally, Tallies
<1>2. \A l \in D : With(v, {j \in S : col[j] = l}, "sent") = {j \in sent : col[j] = l}
  BY DEF With
<1>3. /\ sent \in SUBSET S /\ sent \in SUBSET JobIds
      /\ DOMAIN t = D /\ DOMAIN s = D /\ \A j \in S : col[j] \in D
  BY DEF With, Tallies
<1>4. Total(b) = SumOf(t) /\ Sent(b) = SumOf(s)
  BY DEF Total, Sent
<1>5. ASSUME NEW l \in DOMAIN b PROVE b[l].sent + b[l].failed <= b[l].total
  <2> DEFINE G == {j \in S : col[j] = l}
  <2>1. G \in SUBSET JobIds /\ b[l] = Tally(v, G)
    BY DEF Tallies
  <2> HIDE DEF G
  <2> QED
    BY <2>1, SentOrFailed DEF Tally
<1> HIDE DEF D, t, s, sent
<1>6. SumOf(t) = Cardinality(S)
  BY <1>1, <1>3, PartsAddUp
<1>7. SumOf(s) = Cardinality(sent)
  <2>1. \A l \in D : s[l] = Cardinality({j \in sent : col[j] = l})
    BY <1>1, <1>2
  <2> QED
    BY <2>1, <1>3, PartsAddUp
<1> QED
  BY <1>4, <1>5, <1>6, <1>7 DEF sent

-----------------------------------------------------------------------------
(* The reports. *)

LEMMA RowsAreJobs ==
    ASSUME NEW v, NEW R
    PROVE  /\ Rows(v) \in SUBSET JobIds /\ InRange(v, R) \in SUBSET Rows(v)
           /\ InRange(v, R) \in SUBSET JobIds
  BY DEF Rows, InRange

(* No job is told to be without a status, or under a status that is none.  *)
LEMMA StatusTold ==
    ASSUME NEW v, v.status \in [JobIds -> Statuses \cup {"none"}],
           NEW S \in SUBSET Rows(v), NEW last
    PROVE  SumOf(Breakdown(S, v.status, "unknown", last)) = Cardinality(S)
<1>1. S \in SUBSET JobIds /\ \A j \in S : v.status[j] # "unknown"
  BY StatusAssumption DEF Rows
<1>2. "unknown" # Null
  BY NullAssumption
<1> QED
  BY <1>1, <1>2, BreakdownAddsUp

LEMMA SummaryFits ==
    ASSUME NEW v, v.status \in [JobIds -> Statuses \cup {"none"}], NEW a
    PROVE  SummaryAgrees(Summary(v, a))
<1> DEFINE S == {j \in Rows(v) : Updated(v, j) \in a.range}
           F == Summary(v, a)
<1>1. S \in SUBSET Rows(v) /\ S \in SUBSET JobIds
  BY DEF Rows
<1>2. /\ F[1].total = Cardinality(S) /\ F[1].failed = Cardinality(With(v, S, "failed"))
      /\ F[1].status = Breakdown(S, v.status, "unknown", a.last)
  BY DEF Summary
<1> HIDE DEF S, F
<1>3. SumOf(F[1].status) = Cardinality(S)
  BY <1>1, <1>2, StatusTold
<1>4. Cardinality(With(v, S, "failed")) <= Cardinality(S)
  BY <1>1, SentOrFailed
<1> QED
  BY <1>2, <1>3, <1>4 DEF SummaryAgrees, F

LEMMA CityFits ==
    ASSUME NEW v, NEW S \in SUBSET JobIds, NEW last
    PROVE  /\ SumOf(Breakdown(S, v.city, "unknown", last)) <= Cardinality(S)
           /\ CityTold(v) => SumOf(Breakdown(S, v.city, "unknown", last)) = Cardinality(S)
<1>1. CityTold(v) => \A j \in S : v.city[j] # "unknown"
  BY DEF CityTold
<1>2. "unknown" # Null
  BY NullAssumption
<1> QED
  BY <1>1, <1>2, BreakdownAddsUp

LEMMA StatsFit ==
    ASSUME NEW v, v.status \in [JobIds -> Statuses \cup {"none"}], NEW a
    PROVE  StatsAgree(Stats(v, a), v)
<1> DEFINE S == InRange(v, a.range)
           F == Stats(v, a)
<1>1. S \in SUBSET Rows(v) /\ S \in SUBSET JobIds
  BY RowsAreJobs
<1>2. /\ F[1] = Cardinality(S) /\ F[2] = Cardinality(UsersOf(S))
      /\ F[3] = Cardinality(UsersOf(S) \cap Returning(v))
      /\ F[4] = Breakdown(S, v.status, "unknown", a.last)
      /\ F[5] = Breakdown(S, v.city, "unknown", a.last)
  BY DEF Stats
<1> HIDE DEF S, F
<1>3. SumOf(F[4]) = F[1]
  <2>1. SumOf(Breakdown(S, v.status, "unknown", a.last)) = Cardinality(S)
    BY <1>1, StatusTold
  <2> QED
    BY <1>2, <2>1
<1>4. SumOf(F[5]) <= F[1] /\ (CityTold(v) => SumOf(F[5]) = F[1])
  BY <1>1, <1>2, CityFits
<1>5. F[3] <= F[2] /\ F[2] <= F[1]
  BY <1>1, <1>2, UsersFew
<1> QED
  BY <1>3, <1>4, <1>5 DEF StatsAgree, F

LEMMA TrafficFits ==
    ASSUME NEW v, NEW a
    PROVE  TrafficAgrees(Traffic(v, a))
<1> DEFINE S == InRange(v, a.range)
           F == Traffic(v, a)
           rows == Tallies(v, S, Source)
<1>1. S \in SUBSET JobIds
  BY RowsAreJobs
<1>2. /\ F[1].detail = rows /\ F[1].simple = Breakdown(S, Source, "direct", a.last)
      /\ F[2] = Breakdown(S, Source, "unknown", a.last)
  BY DEF Traffic
<1>3. /\ Total(rows) = Cardinality(S)
      /\ \A s \in DOMAIN rows : rows[s].sent + rows[s].failed <= rows[s].total
  <2> HIDE DEF S
  <2> QED
    BY <1>1, TalliesAddUp
<1> HIDE DEF S, F, rows
<1>4. "unknown" # Null /\ "direct" # Null
  BY NullAssumption
<1>5. /\ SumOf(F[1].simple) <= Cardinality(S) /\ SumOf(F[2]) <= Cardinality(S)
      /\ (\A j \in S : Source[j] # "unknown") => SumOf(F[2]) = Cardinality(S)
  BY <1>1, <1>2, <1>4, BreakdownAddsUp
<1>6. SourceTold => \A j \in S : Source[j] # "unknown"
  BY <1>1 DEF SourceTold
<1> QED
  BY <1>2, <1>3, <1>5, <1>6 DEF TrafficAgrees, F

LEMMA TrendFits ==
    ASSUME NEW v, NEW a
    PROVE  TrendAgrees(Trend(v, a))
<1> DEFINE S == InRange(v, a.range)
           F == Trend(v, a)
           on(d) == {j \in S : Born[j] = d}
<1>1. S \in SUBSET JobIds
  BY RowsAreJobs
<1>2. /\ DOMAIN F[2] = DOMAIN F[1]
      /\ \A d \in DOMAIN F[1] : /\ F[1][d].entries = Cardinality(on(d))
                               /\ F[1][d].users = Cardinality(UsersOf(on(d)))
                               /\ F[2][d] = Cardinality(UsersOf(on(d)) \cap Returning(v))
  BY DEF Trend
<1> HIDE DEF S, F
<1>3. ASSUME NEW d \in DOMAIN F[1]
      PROVE  F[2][d] <= F[1][d].users /\ F[1][d].users <= F[1][d].entries
  <2>1. on(d) \in SUBSET JobIds
    BY <1>1
  <2> HIDE DEF on
  <2> QED
    BY <1>2, <2>1, UsersFew
<1> HIDE DEF on
<1> QED
  BY <1>2, <1>3 DEF TrendAgrees, F

LEMMA CsvFits ==
    ASSUME NEW v, v.status \in [JobIds -> Statuses \cup {"none"}], NEW a
    PROVE  CsvAgrees(Csv(v, a), v)
<1> DEFINE S == InRange(v, a.range)
           F == Csv(v, a)
           days == Tallies(v, S, Born)
<1>1. S \in SUBSET Rows(v) /\ S \in SUBSET JobIds
  BY RowsAreJobs
<1>2. /\ F[1] = Cardinality(S) /\ F[2] = Cardinality(With(v, S, "sent"))
      /\ F[3] = Cardinality(With(v, S, "failed")) /\ F[4] = days
      /\ F[5] = Breakdown(S, v.status, "unknown", a.last)
      /\ F[6] = Breakdown(S, v.city, "unknown", a.last)
  BY DEF Csv
<1>3. Total(days) = Cardinality(S) /\ Sent(days) = Cardinality(With(v, S, "sent"))
  <2> HIDE DEF S
  <2> QED
    BY <1>1, TalliesAddUp
<1> HIDE DEF S, F, days
<1> QED
  BY <1>1, <1>2, <1>3, StatusTold, CityFits, SentOrFailed DEF CsvAgrees, F

-----------------------------------------------------------------------------
(* From the snapshot to the reply. *)

LEMMA AnswersGiven ==
    ASSUME NEW v, NEW a, a.kind \in Reports
    PROVE  /\ Len(Answers(v, a)) \in Nat \ {0}
           /\ Answers(v, a) \in Seq({Answers(v, a)[n] : n \in 1 .. Len(Answers(v, a))})
<1>1. CASE a.kind = "summary"
  BY <1>1 DEF Answers, Summary
<1>2. CASE a.kind = "stats"
  BY <1>2 DEF Answers, Stats
<1>3. CASE a.kind = "traffic"
  BY <1>3 DEF Answers, Traffic
<1>4. CASE a.kind = "trend"
  <2>1. \E f, g : Trend(v, a) = <<f, g>>
    BY Zenon DEF Trend
  <2> QED
    BY <1>4, <2>1 DEF Answers
<1>5. CASE a.kind = "csv"
  BY <1>5 DEF Answers, Csv
<1> QED
  BY <1>1, <1>2, <1>3, <1>4, <1>5 DEF Reports

AnswerInv == ReportTyped /\ AnsweredFromSnap

LEMMA OpenReportAnswers ==
    ASSUME WalkTyped, AnswerInv, NEW k \in Reports, NEW R \in Ranges, OpenReport(k, R)
    PROVE  AnswerInv'
<1>1. PICK b \in BOOLEAN :
        report' = [NoReport EXCEPT !.asked = [kind |-> k, range |-> R, last |-> b]]
  BY DEF OpenReport
<1>2. pc' = "query" /\ snap' = Now
  BY DEF OpenReport
<1>3. report' = [asked |-> [kind |-> k, range |-> R, last |-> b], figures |-> <<>>]
  BY <1>1 DEF NoReport
<1>4. ReportTyped'
  BY <1>2, <1>3 DEF ReportTyped, WalkTyped, Now
<1>5. Len(Answers(snap', report'.asked)) \in Nat \ {0}
  BY <1>4, AnswersGiven DEF ReportTyped
<1>6. 0 \in 0 .. Len(Answers(snap', report'.asked)) - 1
  BY <1>5
<1>7. report'.figures = [n \in 1 .. 0 |-> Answers(snap', report'.asked)[n]]
  BY <1>3
<1> QED
  BY <1>2, <1>4, <1>6, <1>7 DEF AnswerInv, AnsweredFromSnap

LEMMA AskNextAnswers ==
    ASSUME AnswerInv, AskNext
    PROVE  AnswerInv'
<1> DEFINE answers == Answers(snap, report.asked)
           V == {answers[n] : n \in 1 .. Len(answers)}
           F == report.figures
           n == Len(F) + 1
<1>1. /\ pc = "query" /\ snap' = snap /\ report' = [report EXCEPT !.figures = Append(F, answers[n])]
      /\ pc' = IF n = Len(answers) THEN "reply" ELSE "query"
  BY DEF AskNext, View
<1>2. Len(answers) \in Nat
  BY AnswersGiven DEF AnswerInv, ReportTyped
<1>3. PICK k \in 0 .. Len(answers) - 1 : F = [i \in 1 .. k |-> answers[i]]
  BY <1>1 DEF AnswerInv, AnsweredFromSnap
<1>4. ReportTyped' /\ report'.asked = report.asked /\ report'.figures = Append(F, answers[n])
  BY <1>1 DEF AnswerInv, ReportTyped
<1>5. Answers(snap', report'.asked) = answers
  BY <1>1, <1>4
<1> HIDE DEF answers
<1>6. F \in Seq(V) /\ n = k + 1 /\ answers[n] \in V /\ n \in 1 .. Len(answers)
  BY <1>2, <1>3
<1>7. Append(F, answers[n]) = [i \in 1 .. n |-> answers[i]]
  <2> DEFINE x == answers[n]
  <2> HIDE DEF V, x
  <2>1. x \in V /\ F \in Seq(V) /\ Len(F) = k
    BY <1>3, <1>6 DEF x
  <2>2. Append(F, x) = [i \in 1 .. k + 1 |-> IF i \in 1 .. k THEN F[i] ELSE x]
    BY <2>1
  <2> QED
    BY <1>3, <1>6, <2>2 DEF x
<1>8. n \in IF pc' = "reply" THEN {Len(answers)} ELSE 0 .. Len(answers) - 1
  BY <1>1, <1>2, <1>6
<1> QED
  BY <1>4, <1>5, <1>7, <1>8 DEF AnswerInv, AnsweredFromSnap

LEMMA ElsewhereAnswers ==
    ASSUME WalkTyped, AnswerInv,
           \/ \E g \in Groups : ListJobs(g)
           \/ FetchPage \/ TurnPage \/ Leave
    PROVE  AnswerInv'
<1>1. pc' \notin {"query", "reply"}
  BY DEF ListJobs, Count, FetchPage, TurnPage, Leave
<1>2. snap' \in {Now, NoSnap} /\ report' \in {report, NoReport}
  BY DEF ListJobs, Count, FetchPage, TurnPage, Leave
<1>3. ReportTyped'
  BY <1>2 DEF AnswerInv, ReportTyped, WalkTyped, Now, NoSnap, NoReport, Reports
<1> QED
  BY <1>1, <1>3 DEF AnswerInv, AnsweredFromSnap

LEMMA AnswerStep == WalkTyped /\ AnswerInv /\ [Next]_vars => AnswerInv'
<1> SUFFICES ASSUME WalkTyped, AnswerInv, [Next]_vars PROVE AnswerInv'
  OBVIOUS
<1>1. ASSUME NEW k \in Reports, NEW R \in Ranges, OpenReport(k, R) PROVE AnswerInv'
  BY <1>1, OpenReportAnswers
<1>2. CASE AskNext
  BY <1>2, AskNextAnswers
<1>3. CASE \/ \E g \in Groups : ListJobs(g)
           \/ FetchPage \/ TurnPage \/ Leave
  BY <1>3, ElsewhereAnswers
<1>4. CASE UNCHANGED <<pc, snap, report>>
  BY <1>4 DEF AnswerInv, ReportTyped, AnsweredFromSnap
<1>5. ASSUME NEW j \in JobIds, Submit(j) \/ MoveJob(j) \/ UpdateFields(j)
      PROVE  UNCHANGED <<pc, snap, report>>
  BY <1>5 DEF Submit, MoveJob, UpdateFields, Write
<1> QED
  BY <1>1, <1>2, <1>3, <1>4, <1>5 DEF Next, vars

(* The figures of every reply fit together, whatever is in the table.      *)
THEOREM SpecFiguresAgree == Spec => []FiguresAgree
<1>1. Init => AnswerInv
  BY StatusAssumption DEF Init, AnswerInv, ReportTyped, AnsweredFromSnap, NoSnap, NoReport, Reports
<1>2. AnswerInv => FiguresAgree
  <2> SUFFICES ASSUME AnswerInv, pc = "reply" PROVE FiguresAgree
    BY DEF FiguresAgree
  <2> DEFINE a == report.asked
             answers == Answers(snap, a)
  <2>1. report.figures = [n \in 1 .. Len(answers) |-> answers[n]]
    BY DEF AnswerInv, AnsweredFromSnap
  <2>2. a.kind \in Reports /\ snap.status \in [JobIds -> Statuses \cup {"none"}]
    BY DEF AnswerInv, ReportTyped
  <2>3. answers \in Seq({answers[n] : n \in 1 .. Len(answers)})
    BY <2>2, AnswersGiven
  <2>4. report.figures = answers
    <3> HIDE DEF answers
    <3> QED
      BY <2>1, <2>3
  <2>5. CASE a.kind = "summary"
    BY <2>2, <2>4, <2>5, SummaryFits DEF FiguresAgree, Answers
  <2>6. CASE a.kind = "stats"
    BY <2>2, <2>4, <2>6, StatsFit DEF FiguresAgree, Answers
  <2>7. CASE a.kind = "traffic"
    BY <2>2, <2>4, <2>7, TrafficFits DEF FiguresAgree, Answers
  <2>8. CASE a.kind = "trend"
    BY <2>2, <2>4, <2>8, TrendFits DEF FiguresAgree, Answers
  <2>9. CASE a.kind = "csv"
    BY <2>2, <2>4, <2>9, CsvFits DEF FiguresAgree, Answers
  <2> QED
    BY <2>2, <2>5, <2>6, <2>7, <2>8, <2>9 DEF Reports
<1> QED
  BY <1>1, <1>2, AnswerStep, SpecWalkInv, PTL DEF Spec
=============================================================================
