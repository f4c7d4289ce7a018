------------------------ MODULE SettingsCacheProofs -------------------------
(***************************************************************************)
(* For any number of processes, threads, keys and updates and any times:   *)
(* how stale a cached settings copy can be, which patches partial updates  *)
(* lose, and from when an update is served by the process that made it.    *)
(***************************************************************************)
EXTENDS SettingsCache, TLAPS

LEMMA InitCacheInv == Init => CacheInv
<1> SUFFICES ASSUME Init PROVE CacheInv
  OBVIOUS
<1>1. Nothing \in Values /\ Blank \in Locals /\ Empty \in Caches
  BY ValueAssumption DEF Nothing, Values, Blank, Locals, Empty, Caches
<1>2. TypeOK
  BY <1>1 DEF Init, TypeOK, Steps
<1>3. WorkIsShort /\ BornInWork /\ StampFits
  BY DEF Init, WorkIsShort, BornInWork, StampFits, Empty
<1> QED
  BY <1>2, <1>3 DEF CacheInv

-----------------------------------------------------------------------------
(* Types. *)

(* A record of a thread or a process stays one when a field is set. *)
LEMMA JobTyped ==
    ASSUME TypeOK, NEW t \in Threads
    PROVE  /\ Read(t) => job' \in [Threads -> Locals]
           /\ Finish(t) => job' \in [Threads -> Locals] /\ pc' \in [Threads -> Steps]
           /\ \A s \in Steps : Goto(t, s) => pc' \in [Threads -> Steps]
           /\ StoreData(t) => cache' \in [Procs -> Caches] /\ crossed' \subseteq Procs
           /\ \A r \in Locals : Begin(t, r) => job' \in [Threads -> Locals]
           /\ Blank \in Locals
<1>1. Read(t) => job' \in [Threads -> Locals]
  <2>1. [job[t] EXCEPT !.value = row, !.rev = rev, !.born = now] \in Locals
    BY DEF TypeOK, Locals
  <2> QED
    BY <2>1 DEF TypeOK, Read
<1>2. Blank \in Locals
  BY ValueAssumption DEF Blank, Locals, Nothing, Values
<1>3. Finish(t) => job' \in [Threads -> Locals] /\ pc' \in [Threads -> Steps]
  BY <1>2 DEF TypeOK, Finish, Goto, Steps
<1>4. \A s \in Steps : Goto(t, s) => pc' \in [Threads -> Steps]
  BY DEF TypeOK, Goto
<1>5. StoreData(t) => cache' \in [Procs -> Caches] /\ crossed' \subseteq Procs
  <2>1. [filled |-> TRUE, value |-> job[t].value, rev |-> job[t].rev,
         born |-> job[t].born, ts |-> cache[home[t]].ts] \in Caches
    BY DEF TypeOK, Caches, Locals
  <2> QED
    BY <2>1 DEF TypeOK, StoreData
<1>6. \A r \in Locals : Begin(t, r) => job' \in [Threads -> Locals]
  <2> SUFFICES ASSUME NEW r \in Locals, Begin(t, r) PROVE job' \in [Threads -> Locals]
    OBVIOUS
  <2>1. [r EXCEPT !.alone = Mates(t) = {}] \in Locals
    <3>1. (Mates(t) = {}) \in BOOLEAN
      OBVIOUS
    <3> QED
      BY <3>1 DEF Locals
  <2>2. \A u \in Threads : [job[u] EXCEPT !.alone = FALSE] \in Locals /\ job[u] \in Locals
    BY DEF TypeOK, Locals
  <2> QED
    BY <2>1, <2>2 DEF Begin
<1> QED
  BY <1>1, <1>2, <1>3, <1>4, <1>5, <1>6

(* What a request that begins changes in what the threads hold. *)
Begins(t, s, value, behind, u) ==
    /\ pc'[u] = (IF u = t THEN s ELSE pc[u])
    /\ job'[u].at = (IF u = t THEN now ELSE job[u].at)
    /\ job'[u].value = (IF u = t THEN value ELSE job[u].value)
    /\ job'[u].rev = (IF u = t THEN 0 ELSE job[u].rev)
    /\ job'[u].born = (IF u = t THEN 0 ELSE job[u].born)
    /\ job'[u].behind = (IF u = t THEN behind ELSE job[u].behind)
    /\ job'[u].alone <=> IF u = t THEN Mates(t) = {} ELSE u \notin Mates(t) /\ job[u].alone

LEMMA BeginFields ==
    ASSUME TypeOK, NEW t \in Threads, NEW s, Goto(t, s), NEW r \in Locals, Begin(t, r),
           r.at = now /\ r.rev = 0 /\ r.born = 0
    PROVE  \A u \in Threads : Begins(t, s, r.value, r.behind, u)
<1> SUFFICES ASSUME NEW u \in Threads PROVE Begins(t, s, r.value, r.behind, u)
  OBVIOUS
<1> USE DEF TypeOK, Locals, Goto, Begin, Begins
<1>1. CASE u = t
  BY <1>1
<1>2. CASE u # t /\ u \in Mates(t)
  BY <1>2
<1>3. CASE u # t /\ u \notin Mates(t)
  BY <1>3
<1> QED
  BY <1>1, <1>2, <1>3

LEMMA Begun ==
    ASSUME TypeOK, NEW t \in Threads
    PROVE  /\ GetStart(t) => \A u \in Threads : Begins(t, "load", Nothing, {}, u)
           /\ \A k \in Keys, v \in Vals :
                 UpdRead(t, k, v) => \A u \in Threads : Begins(t, "commit", row, lost, u)
<1>1. ASSUME GetStart(t) PROVE \A u \in Threads : Begins(t, "load", Nothing, {}, u)
  <2> DEFINE r == [Blank EXCEPT !.at = now]
  <2>1. r.at = now /\ r.rev = 0 /\ r.born = 0 /\ r.value = Nothing /\ r.behind = {}
    BY DEF Blank
  <2>2. r \in Locals
    BY JobTyped DEF TypeOK, Locals
  <2>3. Begin(t, r) /\ Goto(t, "load")
    BY <1>1 DEF GetStart
  <2> HIDE DEF r
  <2> QED
    BY <2>1, <2>2, <2>3, BeginFields
<1>2. ASSUME NEW k \in Keys, NEW v \in Vals, UpdRead(t, k, v) PROVE \A u \in Threads : Begins(t, "commit", row, lost, u)
  <2> DEFINE r == [Blank EXCEPT !.at = now, !.key = k, !.patch = v, !.behind = lost, !.value = row]
  <2>1. r.at = now /\ r.rev = 0 /\ r.born = 0 /\ r.value = row /\ r.behind = lost
    BY DEF Blank
  <2>2. r \in Locals
    BY JobTyped DEF TypeOK, Locals
  <2>3. Begin(t, r) /\ Goto(t, "commit")
    BY <1>2 DEF UpdRead
  <2> HIDE DEF r
  <2> QED
    BY <2>1, <2>2, <2>3, BeginFields
<1> QED
  BY <1>1, <1>2

(* An update at its commit has a key to patch. *)
LEMMA StepKeyed ==
    ASSUME TypeOK, Next
    PROVE  \A u \in Threads : pc'[u] = "commit" => job'[u].key \in Keys
<1> USE DEF TypeOK, Locals, Goto, rowVars, histVars
<1>1. CASE Tick
  BY <1>1 DEF Tick
<1>2. ASSUME NEW t \in Threads, Get(t)
      PROVE  \A u \in Threads : pc'[u] = "commit" => job'[u].key \in Keys
  <2>1. CASE GetStart(t)
    BY <2>1 DEF GetStart, Begin
  <2>2. CASE GetLoad(t)
    BY <2>2 DEF GetLoad, Read
  <2>3. CASE GetFails(t) \/ GetStoreTs(t)
    BY <2>3 DEF GetFails, GetStoreTs, Finish, Blank
  <2>4. CASE GetStoreData(t)
    BY <2>4 DEF GetStoreData
  <2> QED
    BY <1>2, <2>1, <2>2, <2>3, <2>4 DEF Get
<1>3. ASSUME NEW t \in Threads, Update(t)
      PROVE  \A u \in Threads : pc'[u] = "commit" => job'[u].key \in Keys
  <2>1. ASSUME NEW k \in Keys, NEW v \in Vals, UpdRead(t, k, v)
        PROVE  \A u \in Threads : pc'[u] = "commit" => job'[u].key \in Keys
    BY <2>1 DEF UpdRead, Begin, Blank
  <2>2. CASE UpdCommit(t)
    BY <2>2 DEF UpdCommit
  <2>3. CASE UpdReload(t) \/ UpdFails(t) \/ UpdStoreData(t) \/ UpdStoreTs(t)
    BY <2>3 DEF UpdReload, UpdFails, UpdStoreData, UpdStoreTs, Read, Finish
  <2> QED
    BY <1>3, <2>1, <2>2, <2>3 DEF Update
<1>4. ASSUME NEW p \in Procs, Restart(p)
      PROVE  \A u \in Threads : pc'[u] = "commit" => job'[u].key \in Keys
  BY <1>4 DEF Restart
<1> QED
  BY <1>1, <1>2, <1>3, <1>4 DEF Next, Step

LEMMA StepTyped ==
    ASSUME TypeOK, Next
    PROVE  TypeOK'
<1>0. home' = home /\ \A s \in {"idle", "load", "commit", "reload", "storeData", "storeTs",
                                "updData", "updTs"} : s \in Steps
  BY DEF Next, Steps
<1> USE <1>0, StepKeyed, TimeAssumption DEF rowVars, histVars
<1>1. CASE Tick
  BY <1>1 DEF Tick, TypeOK
<1>2. ASSUME NEW t \in Threads, Get(t) PROVE TypeOK'
  <2>1. CASE GetStart(t)
    <3>1. pc' \in [Threads -> Steps] /\ job' \in [Threads -> Locals]
      <4>1. [Blank EXCEPT !.at = now] \in Locals
        BY JobTyped DEF TypeOK, Locals
      <4> QED
        BY <2>1, <4>1, JobTyped DEF GetStart
    <3> QED
      BY <2>1, <3>1 DEF GetStart, TypeOK
  <2>2. CASE GetLoad(t)
    BY <2>2, JobTyped DEF GetLoad, TypeOK
  <2>3. CASE GetFails(t)
    BY <2>3, JobTyped DEF GetFails, TypeOK
  <2>4. CASE GetStoreData(t)
    BY <2>4, JobTyped DEF GetStoreData, TypeOK
  <2>5. CASE GetStoreTs(t)
    <3>1. cache' \in [Procs -> Caches]
      BY <2>5 DEF GetStoreTs, TypeOK, Caches, Locals
    <3> QED
      BY <2>5, <3>1, JobTyped DEF GetStoreTs, TypeOK
  <2> QED
    BY <1>2, <2>1, <2>2, <2>3, <2>4, <2>5 DEF Get
<1>3. ASSUME NEW t \in Threads, Update(t) PROVE TypeOK'
  <2>1. ASSUME NEW k \in Keys, NEW v \in Vals, UpdRead(t, k, v) PROVE TypeOK'
    <3>1. pc' \in [Threads -> Steps] /\ job' \in [Threads -> Locals]
      <4>1. [Blank EXCEPT !.at = now, !.key = k, !.patch = v, !.behind = lost, !.value = row] \in Locals
        BY JobTyped DEF TypeOK, Locals
      <4> QED
        BY <2>1, <4>1, JobTyped DEF UpdRead
    <3>2. crossed' \subseteq Procs
      BY <2>1 DEF UpdRead, TypeOK
    <3> QED
      BY <2>1, <3>1, <3>2 DEF UpdRead, TypeOK
  <2>2. CASE UpdCommit(t)
    <3>1. row' \in Values /\ lastSet' \in Values /\ rev' \in Nat
      <4>1. /\ job[t].value \in Values /\ job[t].patch \in Vals
            /\ row \in Values /\ lastSet \in Values /\ rev \in Nat /\ job[t].key \in Keys
        BY <2>2 DEF UpdCommit, TypeOK, Locals
      <4>2. \A f \in Values, k \in Keys, v \in Vals : [f EXCEPT ![k] = v] \in Values
        BY DEF Values
      <4>3. /\ row' = row \/ row' = [job[t].value EXCEPT ![job[t].key] = job[t].patch]
            /\ lastSet' = [lastSet EXCEPT ![job[t].key] = job[t].patch]
            /\ rev' \in {rev, rev + 1}
        BY <2>2 DEF UpdCommit, NewRow
      <4>4. lastSet' \in Values
        BY <4>1, <4>2, <4>3
      <4>5. row' \in Values
        BY <4>1, <4>2, <4>3
      <4>6. rev' \in Nat
        BY <4>1, <4>3
      <4> QED
        BY <4>4, <4>5, <4>6
    <3>2. job' \in [Threads -> Locals] /\ lost' \subseteq Keys
      <4>1. job[t].key \in Keys /\ lost \subseteq Keys
        BY <2>2 DEF UpdCommit, TypeOK
      <4>2. \A u \in Threads : job[u] \in Locals /\ job[u].behind \subseteq Keys
        BY DEF TypeOK, Locals
      <4>3. \A l \in Locals, B \in SUBSET Keys : [l EXCEPT !.behind = B] \in Locals
        BY DEF Locals
      <4>4. job' = [u \in Threads |-> [job[u] EXCEPT !.behind =
                       IF u = t \/ pc[u] # "commit" THEN {}
                       ELSE IF NewPatch(t) THEN job[u].behind \cup {job[t].key}
                       ELSE job[u].behind]]
        BY <2>2, <4>2 DEF UpdCommit, Locals
      <4>5. lost' \subseteq Keys
        BY <2>2, <4>1, <4>2 DEF UpdCommit
      <4> HIDE DEF NewPatch
      <4> QED
        BY <4>1, <4>2, <4>3, <4>4, <4>5
    <3> QED
      BY <2>2, <3>1, <3>2, JobTyped DEF UpdCommit, TypeOK
  <2>3. CASE UpdReload(t)
    BY <2>3, JobTyped DEF UpdReload, TypeOK
  <2>4. CASE UpdFails(t)
    BY <2>4, JobTyped DEF UpdFails, TypeOK
  <2>5. CASE UpdStoreData(t)
    BY <2>5, JobTyped DEF UpdStoreData, TypeOK
  <2>6. CASE UpdStoreTs(t)
    <3>1. cache' \in [Procs -> Caches] /\ acked' \in [Procs -> Nat]
      BY <2>6 DEF UpdStoreTs, TypeOK, Caches, Locals
    <3> QED
      BY <2>6, <3>1, JobTyped DEF UpdStoreTs, TypeOK
  <2> QED
    BY <1>3, <2>1, <2>2, <2>3, <2>4, <2>5, <2>6 DEF Update
<1>4. ASSUME NEW p \in Procs, Restart(p) PROVE TypeOK'
  <2>1. Blank \in Locals /\ Empty \in Caches
    BY ValueAssumption DEF Blank, Locals, Nothing, Values, Empty, Caches
  <2> QED
    BY <1>4, <2>1 DEF Restart, TypeOK
<1> QED
  BY <1>1, <1>2, <1>3, <1>4 DEF Next, Step

-----------------------------------------------------------------------------
(* Times. *)

(* Times hold as they did when requests only begin, commit or stay.        *)
LEMMA TimesKept ==
    ASSUME WorkIsShort, BornInWork, StampFits, now \in Nat, Slow \in Nat,
           UNCHANGED <<home, now, cache>>,
           \A u \in Threads :
              \/ /\ pc'[u] = pc[u]
                 /\ job'[u].at = job[u].at /\ job'[u].born = job[u].born
              \/ /\ pc'[u] \in {"load", "commit", "reload"}
                 /\ job'[u].at = now \/ (pc[u] # "idle" /\ job'[u].at = job[u].at)
    PROVE  WorkIsShort' /\ BornInWork' /\ StampFits'
BY DEF WorkIsShort, BornInWork, StampFits, Cached

LEMMA StepTimes ==
    ASSUME CacheInv, TypeOK', Next
    PROVE  WorkIsShort' /\ BornInWork' /\ StampFits'
<1>0. home' = home
  BY DEF Next
<1> USE <1>0, TimeAssumption
    DEF CacheInv, WorkIsShort, BornInWork, StampFits, TypeOK, Locals, Caches, Cached,
        rowVars, histVars, Goto
<1>1. CASE Tick
  BY <1>1 DEF Tick
<1>2. ASSUME NEW t \in Threads, Get(t) PROVE WorkIsShort' /\ BornInWork' /\ StampFits'
  <2>1. CASE GetStart(t)
    <3> HIDE DEF CacheInv, TypeOK, WorkIsShort, BornInWork, StampFits, Locals, Caches
    <3>1. \A u \in Threads : Begins(t, "load", Nothing, {}, u)
      BY <2>1, Begun DEF CacheInv
    <3>2. UNCHANGED <<now, cache>>
      BY <2>1 DEF GetStart
    <3>3. \A u \in Threads : \/ /\ pc'[u] = pc[u]
                                /\ job'[u].at = job[u].at /\ job'[u].born = job[u].born
                             \/ pc'[u] = "load" /\ job'[u].at = now
      BY <3>1 DEF Begins
    <3> QED
      BY <3>2, <3>3, TimesKept DEF CacheInv, TypeOK
  <2>2. CASE GetLoad(t)
    BY <2>2 DEF GetLoad, Read
  <2>3. CASE GetFails(t)
    BY <2>3 DEF GetFails, Finish
  <2>4. CASE GetStoreData(t)
    <3>1. /\ cache' = [cache EXCEPT ![home[t]] = cache'[home[t]]]
          /\ cache'[home[t]].filled /\ cache'[home[t]].born = job[t].born
          /\ cache'[home[t]].ts = cache[home[t]].ts
      BY <2>4 DEF GetStoreData, StoreData
    <3>2. /\ job[t].at <= job[t].born /\ now <= job[t].at + Slow
          /\ job[t].at \in Nat /\ job[t].born \in Nat
      BY <2>4 DEF GetStoreData
    <3>3. /\ now <= job[t].born + Slow
          /\ \A u \in Threads : pc[u] # "idle" => job[u].at <= now /\ job[u].at \in Nat
      BY <3>2
    <3>4. WorkIsShort' /\ BornInWork'
      BY <2>4 DEF GetStoreData
    <3>5. \A u \in Threads : pc'[u] \in {"storeTs", "updTs"} =>
             Cached(u)'.filled /\ job'[u].at <= Cached(u)'.born + Slow
      <4> SUFFICES ASSUME NEW u \in Threads, pc'[u] \in {"storeTs", "updTs"}
                   PROVE  Cached(u)'.filled /\ job'[u].at <= Cached(u)'.born + Slow
        OBVIOUS
      <4>1. CASE home[u] = home[t]
        <5>1. job'[u].at <= now /\ job' = job /\ job[u].at \in Nat
          BY <3>3, <2>4 DEF GetStoreData
        <5>2. Cached(u)'.filled /\ Cached(u)'.born = job[t].born
          BY <3>1, <4>1
        <5> QED
          BY <3>2, <3>3, <5>1, <5>2
      <4>2. CASE home[u] # home[t]
        BY <3>1, <4>2, <2>4 DEF GetStoreData
      <4> QED
        BY <4>1, <4>2
    <3>6. \A p \in Procs : /\ cache'[p].ts <= now
                           /\ (cache'[p].filled => cache'[p].ts <= cache'[p].born + 2 * Slow)
      <4> SUFFICES ASSUME NEW p \in Procs
                   PROVE  /\ cache'[p].ts <= now
                          /\ (cache'[p].filled => cache'[p].ts <= cache'[p].born + 2 * Slow)
        OBVIOUS
      <4>1. /\ cache[p].ts <= now /\ cache[p].ts \in Nat /\ now \in Nat /\ Slow \in Nat
            /\ cache[p].filled => cache[p].ts <= cache[p].born + 2 * Slow
        BY TimeAssumption
      <4>2. CASE p = home[t]
        <5>1. cache'[p].ts = cache[p].ts /\ cache'[p].born = job[t].born
          BY <3>1, <4>2
        <5> HIDE DEF CacheInv, TypeOK, WorkIsShort, BornInWork, StampFits, Locals, Caches
        <5> QED
          BY <5>1, <4>1, <3>2, <3>3
      <4>3. CASE p # home[t]
        <5>1. cache'[p] = cache[p]
          BY <3>1, <4>3
        <5> QED
          BY <5>1, <4>1
      <4> QED
        BY <4>2, <4>3
    <3>7. now' = now
      BY <2>4 DEF GetStoreData
    <3>8. StampFits'
      <4> HIDE DEF CacheInv, TypeOK, WorkIsShort, BornInWork, Locals, Caches
      <4> QED
        BY <3>5, <3>6, <3>7
    <3> QED
      BY <3>4, <3>8
  <2>5. CASE GetStoreTs(t)
    BY <2>5 DEF GetStoreTs, Finish
  <2> QED
    BY <1>2, <2>1, <2>2, <2>3, <2>4, <2>5 DEF Get
<1>3. ASSUME NEW t \in Threads, Update(t) PROVE WorkIsShort' /\ BornInWork' /\ StampFits'
  <2>1. ASSUME NEW k \in Keys, NEW v \in Vals, UpdRead(t, k, v) PROVE WorkIsShort' /\ BornInWork' /\ StampFits'
    <3> HIDE DEF CacheInv, TypeOK, WorkIsShort, BornInWork, StampFits, Locals, Caches
    <3>1. \A u \in Threads : Begins(t, "commit", row, lost, u)
      BY <2>1, Begun DEF CacheInv
    <3>2. UNCHANGED <<now, cache>>
      BY <2>1 DEF UpdRead
    <3>3. \A u \in Threads : \/ /\ pc'[u] = pc[u]
                                /\ job'[u].at = job[u].at /\ job'[u].born = job[u].born
                             \/ pc'[u] = "commit" /\ job'[u].at = now
      BY <3>1 DEF Begins
    <3> QED
      BY <3>2, <3>3, TimesKept DEF CacheInv, TypeOK
  <2>2. CASE UpdCommit(t)
    <3>1. \A u \in Threads : job'[u].at = job[u].at /\ job'[u].born = job[u].born
      BY <2>2 DEF UpdCommit
    <3>2. \A u \in Threads : IF u = t THEN pc[u] = "commit" /\ pc'[u] = "reload"
                                      ELSE pc'[u] = pc[u]
      BY <2>2 DEF UpdCommit
    <3>3. UNCHANGED <<now, cache>>
      BY <2>2 DEF UpdCommit
    <3> HIDE DEF CacheInv, TypeOK, WorkIsShort, BornInWork, StampFits, Locals, Caches
    <3> QED
      BY <3>1, <3>2, <3>3, TimesKept DEF CacheInv, TypeOK
  <2>3. CASE UpdReload(t)
    BY <2>3 DEF UpdReload, Read
  <2>4. CASE UpdFails(t)
    BY <2>4 DEF UpdFails, Finish
  <2>5. CASE UpdStoreData(t)
    <3>1. /\ cache' = [cache EXCEPT ![home[t]] = cache'[home[t]]]
          /\ cache'[home[t]].filled /\ cache'[home[t]].born = job[t].born
          /\ cache'[home[t]].ts = cache[home[t]].ts
      BY <2>5 DEF UpdStoreData, StoreData
    <3>2. /\ job[t].at <= job[t].born /\ now <= job[t].at + Slow
          /\ job[t].at \in Nat /\ job[t].born \in Nat
      BY <2>5 DEF UpdStoreData
    <3>3. /\ now <= job[t].born + Slow
          /\ \A u \in Threads : pc[u] # "idle" => job[u].at <= now /\ job[u].at \in Nat
      BY <3>2
    <3>4. WorkIsShort' /\ BornInWork'
      BY <2>5 DEF UpdStoreData
    <3>5. \A u \in Threads : pc'[u] \in {"storeTs", "updTs"} =>
             Cached(u)'.filled /\ job'[u].at <= Cached(u)'.born + Slow
      <4> SUFFICES ASSUME NEW u \in Threads, pc'[u] \in {"storeTs", "updTs"}
                   PROVE  Cached(u)'.filled /\ job'[u].at <= Cached(u)'.born + Slow
        OBVIOUS
      <4>1. CASE home[u] = home[t]
        <5>1. job'[u].at <= now /\ job' = job /\ job[u].at \in Nat
          BY <3>3, <2>5 DEF UpdStoreData
        <5>2. Cached(u)'.filled /\ Cached(u)'.born = job[t].born
          BY <3>1, <4>1
        <5> QED
          BY <3>2, <3>3, <5>1, <5>2
      <4>2. CASE home[u] # home[t]
        BY <3>1, <4>2, <2>5 DEF UpdStoreData
      <4> QED
        BY <4>1, <4>2
    <3>6. \A p \in Procs : /\ cache'[p].ts <= now
                           /\ (cache'[p].filled => cache'[p].ts <= cache'[p].born + 2 * Slow)
      <4> SUFFICES ASSUME NEW p \in Procs
                   PROVE  /\ cache'[p].ts <= now
                          /\ (cache'[p].filled => cache'[p].ts <= cache'[p].born + 2 * Slow)
        OBVIOUS
      <4>1. /\ cache[p].ts <= now /\ cache[p].ts \in Nat /\ now \in Nat /\ Slow \in Nat
            /\ cache[p].filled => cache[p].ts <= cache[p].born + 2 * Slow
        BY TimeAssumption
      <4>2. CASE p = home[t]
        <5>1. cache'[p].ts = cache[p].ts /\ cache'[p].born = job[t].born
          BY <3>1, <4>2
        <5> HIDE DEF CacheInv, TypeOK, WorkIsShort, BornInWork, StampFits, Locals, Caches
        <5> QED
          BY <5>1, <4>1, <3>2, <3>3
      <4>3. CASE p # home[t]
        <5>1. cache'[p] = cache[p]
          BY <3>1, <4>3
        <5> QED
          BY <5>1, <4>1
      <4> QED
        BY <4>2, <4>3
    <3>7. now' = now
      BY <2>5 DEF UpdStoreData
    <3>8. StampFits'
      <4> HIDE DEF CacheInv, TypeOK, WorkIsShort, BornInWork, Locals, Caches
      <4> QED
        BY <3>5, <3>6, <3>7
    <3> QED
      BY <3>4, <3>8
  <2>6. CASE UpdStoreTs(t)
    BY <2>6 DEF UpdStoreTs, Finish
  <2> QED
    BY <1>3, <2>1, <2>2, <2>3, <2>4, <2>5, <2>6 DEF Update
<1>4. ASSUME NEW p \in Procs, Restart(p) PROVE WorkIsShort' /\ BornInWork' /\ StampFits'
  BY <1>4 DEF Restart, Empty
<1> QED
  BY <1>1, <1>2, <1>3, <1>4 DEF Next, Step

LEMMA StutterCacheInv == CacheInv /\ UNCHANGED vars => CacheInv'
  BY DEF vars, rowVars, histVars, CacheInv, TypeOK, WorkIsShort, BornInWork, StampFits, Cached

(* The inductive invariant: short work, and stamps near their copies. *)
THEOREM SpecCacheInv == Spec => []CacheInv
<1>1. CacheInv /\ [Next]_vars => CacheInv'
  BY StepTyped, StepTimes, StutterCacheInv DEF CacheInv
<1> QED
  BY InitCacheInv, <1>1, PTL DEF Spec

(* No process serves settings older than CACHE_TTL and twice the time of a *)
(* request (settings_service.py 71-90, 93-110). *)
THEOREM SpecStalenessBounded == Spec => []StalenessBounded
<1>1. CacheInv => StalenessBounded
  BY TimeAssumption DEF CacheInv, TypeOK, Caches, StampFits, StalenessBounded, Fresh
<1> QED
  BY SpecCacheInv, <1>1, PTL

-----------------------------------------------------------------------------
(* Partial updates. *)

(* An update at its commit holds the last patch of every key it is not     *)
(* behind on.                                                              *)
PatchInv ==
    /\ PatchKeepsOthers
    /\ \A t \in Threads : pc[t] = "commit" =>
          \A k \in Keys \ job[t].behind : job[t].value[k] = lastSet[k]

LEMMA StepPatchInv ==
    ASSUME TypeOK, PatchInv, [Next]_vars
    PROVE  PatchInv'
<1> USE DEF PatchInv, PatchKeepsOthers, TypeOK, Locals, Values, rowVars, histVars, Goto
<1>1. CASE Tick
  BY <1>1 DEF Tick
<1>2. ASSUME NEW t \in Threads, Get(t) PROVE PatchInv'
  <2>1. CASE GetStart(t)
    <3> HIDE DEF TypeOK, Locals, Values
    <3>1. \A u \in Threads : Begins(t, "load", Nothing, {}, u)
      BY <2>1, Begun
    <3>2. UNCHANGED <<row, lastSet, lost>>
      BY <2>1 DEF GetStart
    <3>3. \A u \in Threads :
             pc'[u] = "commit" => /\ pc[u] = "commit" /\ job'[u].value = job[u].value
                                  /\ job'[u].behind = job[u].behind
      BY <3>1 DEF Begins
    <3> QED
      BY <3>2, <3>3
  <2>2. CASE GetLoad(t)
    BY <2>2 DEF GetLoad, Read
  <2>3. CASE GetFails(t) \/ GetStoreTs(t)
    <3>1. \A u \in Threads : /\ pc'[u] = "commit" => u # t /\ pc[u] = "commit"
                             /\ job'[u] = (IF u = t THEN Blank ELSE job[u])
      BY <2>3 DEF GetFails, GetStoreTs, Finish
    <3> QED
      BY <2>3, <3>1 DEF GetFails, GetStoreTs
  <2>4. CASE GetStoreData(t)
    BY <2>4 DEF GetStoreData
  <2> QED
    BY <1>2, <2>1, <2>2, <2>3, <2>4 DEF Get
<1>3. ASSUME NEW t \in Threads, Update(t) PROVE PatchInv'
  <2>1. ASSUME NEW k \in Keys, NEW v \in Vals, UpdRead(t, k, v) PROVE PatchInv'
    <3> HIDE DEF TypeOK, Locals, Values
    <3>1. \A u \in Threads : Begins(t, "commit", row, lost, u)
      BY <2>1, Begun
    <3>2. UNCHANGED <<row, lastSet, lost>>
      BY <2>1 DEF UpdRead
    <3>3. \A u \in Threads :
             pc'[u] = "commit" => \/ /\ pc[u] = "commit" /\ job'[u].value = job[u].value
                                     /\ job'[u].behind = job[u].behind
                                  \/ job'[u].value = row /\ job'[u].behind = lost
      BY <3>1 DEF Begins
    <3> QED
      BY <3>2, <3>3
  <2>2. CASE UpdCommit(t)
    <3> DEFINE q == job[t].key
               v == job[t].patch
    <3>1. /\ pc[t] = "commit" /\ q \in Keys
          /\ \A k \in Keys : NewRow(t)[k] = (IF k = q THEN v ELSE job[t].value[k])
          /\ \A k \in Keys : lastSet'[k] = (IF k = q THEN v ELSE lastSet[k])
      BY <2>2 DEF UpdCommit, NewRow
    (* A patch of no news says what the last patch of its key says.        *)
    <3>2. ~NewPatch(t) => lastSet[q] = v
      BY <3>1 DEF NewPatch, Moves
    <3>3. \A k \in Keys \ lost' : row'[k] = lastSet'[k]
      <4>1. CASE Moves(t)
        <5>1. row' = NewRow(t) /\ lost' = job[t].behind \ {q}
          BY <2>2, <4>1 DEF UpdCommit
        <5> QED
          BY <3>1, <5>1
      <4>2. CASE ~Moves(t) /\ NewPatch(t)
        <5>1. row' = row /\ lost' = lost \cup {q}
          BY <2>2, <4>2 DEF UpdCommit
        <5> QED
          BY <3>1, <5>1
      <4>3. CASE ~NewPatch(t)
        <5>1. row' = row /\ lost' = lost
          BY <2>2, <4>3 DEF UpdCommit, NewPatch
        <5> QED
          BY <3>1, <3>2, <4>3, <5>1
      <4> QED
        BY <4>1, <4>2, <4>3
    <3>4. ASSUME NEW u \in Threads, pc'[u] = "commit", NEW k \in Keys \ job'[u].behind
          PROVE  job'[u].value[k] = lastSet'[k]
      <4>1. /\ job'[u].value = job[u].value /\ pc[u] = "commit"
            /\ job'[u].behind = IF NewPatch(t) THEN job[u].behind \cup {q} ELSE job[u].behind
        BY <2>2, <3>4 DEF UpdCommit
      <4>2. job[u].value[k] = lastSet[k]
        BY <3>4, <4>1
      <4>3. k = q => ~NewPatch(t)
        BY <3>4, <4>1
      <4> QED
        BY <3>1, <3>2, <4>1, <4>2, <4>3
    <3> QED
      BY <3>3, <3>4
  <2>3. CASE UpdReload(t)
    BY <2>3 DEF UpdReload, Read
  <2>4. CASE UpdFails(t) \/ UpdStoreTs(t)
    <3>1. \A u \in Threads : /\ pc'[u] = "commit" => u # t /\ pc[u] = "commit"
                             /\ job'[u] = (IF u = t THEN Blank ELSE job[u])
      BY <2>4 DEF UpdFails, UpdStoreTs, Finish
    <3> QED
      BY <2>4, <3>1 DEF UpdFails, UpdStoreTs
  <2>5. CASE UpdStoreData(t)
    BY <2>5 DEF UpdStoreData
  <2> QED
    BY <1>3, <2>1, <2>2, <2>3, <2>4, <2>5 DEF Update
<1>4. ASSUME NEW p \in Procs, Restart(p) PROVE PatchInv'
  BY <1>4 DEF Restart
<1>5. CASE UNCHANGED vars
  BY <1>5 DEF vars
<1> QED
  BY <1>1, <1>2, <1>3, <1>4, <1>5 DEF Next, Step

(* A key keeps its last patch unless two updates overlap on it: one read   *)
(* the row before that patch was committed and wrote it back after, or the *)
(* patch itself said what its update had read and wrote nothing            *)
(* (settings_service.py 93-106). *)
THEOREM SpecPatchKeepsOthers == Spec => []PatchKeepsOthers
<1>1. Init => PatchInv
  BY DEF Init, PatchInv, PatchKeepsOthers, Blank, Nothing
<1>2. PatchInv => PatchKeepsOthers
  BY DEF PatchInv
<1>3. CacheInv => TypeOK
  BY DEF CacheInv
<1>4. TypeOK /\ PatchInv /\ [Next]_vars => PatchInv'
  BY StepPatchInv
<1> QED
  BY SpecCacheInv, <1>1, <1>2, <1>3, <1>4, PTL DEF Spec

-----------------------------------------------------------------------------
(* The process that answered an update. *)

(* In a process that is not crossed an update is at work alone, what the   *)
(* threads carry is no older than what was promised, and before its answer *)
(* the cache holds the update's copy.  A thread that is alone has loaded   *)
(* no less than was promised either, in a crossed process too.             *)
OwnInv ==
    /\ \A t \in Threads : job[t].rev <= rev
    /\ \A p \in Procs : acked[p] <= rev
    /\ OwnUpdateServed
    /\ \A t \in Threads : home[t] \notin crossed =>
          /\ pc[t] \in {"storeData", "updData", "updTs"} => job[t].rev >= acked[home[t]]
          /\ pc[t] = "updTs" => Cached(t).filled /\ Cached(t).rev = job[t].rev
          /\ \A u \in Threads : home[u] = home[t] /\ u # t /\ Writing(t) => pc[u] = "idle"
    /\ \A t \in Threads : job[t].alone =>
          /\ pc[t] # "idle"
          /\ \A u \in Threads : home[u] = home[t] /\ u # t => pc[u] = "idle"
          /\ pc[t] \in {"storeData", "updData"} => job[t].rev >= acked[home[t]]

(* A copy that is stored alone is as new as what was promised. *)
LEMMA StoreOwnInv ==
    ASSUME TypeOK, OwnInv, home' = home, NEW t \in Threads, pc[t] \in {"storeData", "updData"},
           StoreData(t), NEW s \in Steps \ {"idle", "storeData", "updData"}, Goto(t, s),
           pc[t] = "storeData" => s # "updTs",
           pc[t] = "storeData" => ~(s \in {"commit", "reload"}),
           UNCHANGED <<rowVars, job, acked>>
    PROVE  OwnInv'
<1> USE DEF TypeOK, OwnInv, OwnUpdateServed, Locals, Caches, Cached, Writing, Goto, rowVars, Steps
<1>1. /\ \A p \in Procs \ {home[t]} : cache'[p] = cache[p]
      /\ cache'[home[t]].filled /\ cache'[home[t]].rev = job[t].rev
      /\ crossed' = IF job[t].alone THEN crossed \ {home[t]} ELSE crossed
  BY DEF StoreData
<1>2. /\ \A u \in Threads \ {t} : pc'[u] = pc[u]
      /\ pc'[t] = s /\ UNCHANGED <<row, rev, job, acked, home>>
  OBVIOUS
(* A copy stored is no older than what was promised: by a thread alone, or *)
(* in a process that is not crossed.                                       *)
<1>3. job[t].alone \/ home[t] \notin crossed => job[t].rev >= acked[home[t]]
  OBVIOUS
<1>4. OwnUpdateServed'
  BY <1>1, <1>2, <1>3
<1>5. ASSUME NEW u \in Threads, home[u] \notin crossed'
      PROVE  /\ pc'[u] \in {"storeData", "updData", "updTs"} => job[u].rev >= acked[home[u]]
             /\ pc'[u] = "updTs" => Cached(u)'.filled /\ Cached(u)'.rev = job[u].rev
             /\ \A w \in Threads : home[w] = home[u] /\ w # u /\ Writing(u)' => pc'[w] = "idle"
  <2>1. CASE home[u] # home[t]
    BY <1>1, <1>2, <1>5, <2>1
  <2>2. CASE home[u] = home[t] /\ job[t].alone
    BY <1>1, <1>2, <1>3, <2>2
  <2>3. CASE home[u] = home[t] /\ ~job[t].alone
    <3>1. home[t] \notin crossed
      BY <1>1, <1>5, <2>3
    <3>2. CASE u = t
      BY <1>1, <1>2, <1>3, <3>1, <3>2
    <3>3. CASE u # t
      <4>1. ~Writing(u) /\ pc'[u] = pc[u]
        BY <1>2, <2>3, <3>1, <3>3
      <4> QED
        BY <3>1, <4>1, <2>3
    <3> QED
      BY <3>2, <3>3
  <2> QED
    BY <2>1, <2>2, <2>3
<1>6. \A u \in Threads : job[u].alone =>
         /\ pc'[u] # "idle"
         /\ \A w \in Threads : home[w] = home[u] /\ w # u => pc'[w] = "idle"
         /\ pc'[u] \in {"storeData", "updData"} => job[u].rev >= acked[home[u]]
  BY <1>2
<1>7. (\A u \in Threads : job[u].rev <= rev) /\ (\A p \in Procs : acked[p] <= rev)
  OBVIOUS
<1> HIDE DEF TypeOK, OwnUpdateServed, Locals, Caches, Writing, Cached
<1> QED
  BY <1>2, <1>4, <1>5, <1>6, <1>7 DEF Cached

LEMMA StepOwnInv ==
    ASSUME TypeOK, OwnInv, Next
    PROVE  OwnInv'
<1>0. home' = home
  BY DEF Next
<1> USE <1>0 DEF TypeOK, OwnInv, OwnUpdateServed, Locals, Caches, Cached, Writing, Goto,
                 rowVars, histVars
<1>1. CASE Tick
  BY <1>1 DEF Tick
<1>2. ASSUME NEW t \in Threads, Get(t) PROVE OwnInv'
  <2>1. CASE GetStart(t)
    <3>1. \A u \in Threads : Begins(t, "load", Nothing, {}, u)
      BY <2>1, Begun
    <3>2. /\ UNCHANGED <<rev, acked, cache>> /\ pc[t] = "idle"
          /\ crossed \subseteq crossed'
          /\ home[t] \notin crossed' => \A u \in Mates(t) : ~Writing(u)
      BY <2>1 DEF GetStart
    <3>3. rev \in Nat
      OBVIOUS
    <3> HIDE DEF TypeOK, Locals, Caches
    <3>4. \A u \in Threads : u # t =>
             /\ pc'[u] = pc[u] /\ job'[u].rev = job[u].rev
             /\ job'[u].alone => job[u].alone /\ u \notin Mates(t)
      BY <3>1 DEF Begins
    <3>5. pc'[t] = "load" /\ job'[t].rev = 0 /\ (job'[t].alone => Mates(t) = {})
      BY <3>1 DEF Begins
    <3> QED
      BY <3>2, <3>3, <3>4, <3>5 DEF Mates
  <2>2. CASE GetLoad(t)
    BY <2>2 DEF GetLoad, Read
  <2>3. CASE GetFails(t)
    BY <2>3 DEF GetFails, Finish, Blank
  <2>4. CASE GetStoreData(t)
    BY <2>4, StoreOwnInv DEF GetStoreData, Steps
  <2>5. CASE GetStoreTs(t)
    BY <2>5 DEF GetStoreTs, Finish, Blank
  <2> QED
    BY <1>2, <2>1, <2>2, <2>3, <2>4, <2>5 DEF Get
<1>3. ASSUME NEW t \in Threads, Update(t) PROVE OwnInv'
  <2>1. ASSUME NEW k \in Keys, NEW v \in Vals, UpdRead(t, k, v) PROVE OwnInv'
    <3>1. \A u \in Threads : Begins(t, "commit", row, lost, u)
      BY <2>1, Begun
    <3>2. /\ UNCHANGED <<rev, acked, cache>> /\ pc[t] = "idle"
          /\ crossed \subseteq crossed'
          /\ home[t] \notin crossed' => Mates(t) = {}
      BY <2>1 DEF UpdRead
    <3>3. rev \in Nat
      OBVIOUS
    <3> HIDE DEF TypeOK, Locals, Caches
    <3>4. \A u \in Threads : u # t =>
             /\ pc'[u] = pc[u] /\ job'[u].rev = job[u].rev
             /\ job'[u].alone => job[u].alone /\ u \notin Mates(t)
      BY <3>1 DEF Begins
    <3>5. pc'[t] = "commit" /\ job'[t].rev = 0 /\ (job'[t].alone => Mates(t) = {})
      BY <3>1 DEF Begins
    <3> QED
      BY <3>2, <3>3, <3>4, <3>5 DEF Mates
  <2>2. CASE UpdCommit(t)
    <3>1. /\ rev \in Nat /\ rev' \in {rev, rev + 1}
          /\ UNCHANGED <<cache, acked, crossed>>
          /\ pc[t] = "commit" /\ pc' = [pc EXCEPT ![t] = "reload"]
          /\ \A u \in Threads : job'[u].rev = job[u].rev /\ job'[u].alone = job[u].alone
      BY <2>2 DEF UpdCommit
    <3> QED
      BY <3>1
  <2>3. CASE UpdReload(t)
    BY <2>3 DEF UpdReload, Read
  <2>4. CASE UpdFails(t)
    BY <2>4 DEF UpdFails, Finish, Blank
  <2>5. CASE UpdStoreData(t)
    BY <2>5, StoreOwnInv DEF UpdStoreData, Steps
  <2>6. CASE UpdStoreTs(t)
    BY <2>6 DEF UpdStoreTs, Finish, Blank
  <2> QED
    BY <1>3, <2>1, <2>2, <2>3, <2>4, <2>5, <2>6 DEF Update
<1>4. ASSUME NEW p \in Procs, Restart(p) PROVE OwnInv'
  BY <1>4 DEF Restart, Empty, Blank
<1> QED
  BY <1>1, <1>2, <1>3, <1>4 DEF Next, Step

(* After an update is answered its process serves it or something newer,   *)
(* unless another request overlapped it there and no request has refreshed *)
(* the copy alone since (settings_service.py 78-84, 104-109). *)
THEOREM SpecOwnUpdateServed == Spec => []OwnUpdateServed
<1>1. Init => OwnInv
  BY DEF Init, OwnInv, OwnUpdateServed, Blank, Empty, Writing
<1>2. TypeOK /\ OwnInv /\ [Next]_vars => OwnInv'
  <2>1. TypeOK /\ OwnInv /\ UNCHANGED vars => OwnInv'
    BY DEF OwnInv, OwnUpdateServed, vars, rowVars, histVars, Cached, Writing
  <2> QED
    BY <2>1, StepOwnInv
<1>3. CacheInv => TypeOK
  BY DEF CacheInv
<1>4. OwnInv => OwnUpdateServed
  BY DEF OwnInv
<1> QED
  BY SpecCacheInv, <1>1, <1>2, <1>3, <1>4, PTL DEF Spec
=============================================================================
