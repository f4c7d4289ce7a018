---------------------------- MODULE SettingsCache ---------------------------
(***************************************************************************)
(* The runtime settings (src/app/services/settings_service.py): one JSON   *)
(* row in app_settings, and in every API process a cache that requests     *)
(* read instead of the row.                                                *)
(*                                                                         *)
(* Threads of one process share its cache without a lock: they interleave  *)
(* between the load and the two stores `_cache["data"]', `_cache["ts"]'.   *)
(* Times are ticks; a request is at work on the settings for at most Slow  *)
(* ticks, the bound on what a database round trip takes.                   *)
(***************************************************************************)
EXTENDS Naturals

CONSTANTS
    Keys, NoKey,  \* settings an admin can patch
    Vals, Default,\* their values; the one each is seeded with
    Procs,        \* API processes
    Threads,      \* their threads
    Ttl,          \* CACHE_TTL
    Slow,         \* how long a request may be at work
    MaxTime,      \* bound: ticks
    MaxUpdates    \* bound: writes of the row

ASSUME ValueAssumption == Default \in Vals
ASSUME TimeAssumption == Ttl \in Nat /\ Slow \in Nat /\ MaxTime \in Nat /\ MaxUpdates \in Nat

VARIABLES
    home,         \* the process a thread belongs to, never changed
    now,
    row, rev,     \* app_settings: the value of each key; how often it was written
    cache,        \* per process: the copy and when it was stored, or not filled
    pc, job,      \* per thread: next step, local copies
    lastSet,      \* history: per key what the last committed patch of it says
    acked,        \* history: per process the rev an update of it has promised
    crossed,      \* history: processes in which an update overlapped something
                  \* and no request has refreshed the cache alone since
    lost          \* history: keys whose last patch an overlap may have lost

rowVars  == <<row, rev>>
histVars == <<lastSet, acked, crossed, lost>>
vars == <<home, now, rowVars, cache, pc, job, histVars>>

Steps  == {"idle", "load", "commit", "reload", "storeData", "storeTs", "updData", "updTs"}
Values == [Keys -> Vals]

(* What a thread holds: when it began, what it read and when, its patch;   *)
(* and as history, the keys of which it may not hold the last patch and    *)
(* whether no other thread of its process was at work since it began.      *)
Locals == [at : Nat, value : Values, rev : Nat, born : Nat, key : Keys \cup {NoKey},
           patch : Vals, behind : SUBSET Keys, alone : BOOLEAN]
Caches == [filled : BOOLEAN, value : Values, rev : Nat, born : Nat, ts : Nat]

Writing(t)  == pc[t] \in {"commit", "reload", "updData", "updTs"}
Mates(t)    == {u \in Threads \ {t} : home[u] = home[t] /\ pc[u] # "idle"}
Cached(t)   == cache[home[t]]
Goto(t, s)  == pc' = [pc EXCEPT ![t] = s]

(* The test on the hot path.  A hit changes nothing. *)
Fresh(p) == cache[p].filled /\ now < cache[p].ts + Ttl

Read(t) == job' = [job EXCEPT ![t] = [@ EXCEPT !.value = row, !.rev = rev, !.born = now]]

Nothing   == [k \in Keys |-> Default]
Blank     == [at |-> 0, value |-> Nothing, rev |-> 0, born |-> 0, key |-> NoKey,
              patch |-> Default, behind |-> {}, alone |-> FALSE]
Finish(t) == Goto(t, "idle") /\ job' = [job EXCEPT ![t] = Blank]

(* A request begins with what r says, and its mates are alone no longer. *)
Begin(t, r) ==
    job' = [u \in Threads |->
               IF u = t THEN [r EXCEPT !.alone = Mates(t) = {}]
               ELSE IF u \in Mates(t) THEN [job[u] EXCEPT !.alone = FALSE] ELSE job[u]]

-----------------------------------------------------------------------------
(* get_settings on a miss. *)

(* The time is taken before the load. *)
GetStart(t) ==
    /\ pc[t] = "idle" /\ ~Fresh(home[t])
    /\ Goto(t, "load")
    /\ Begin(t, [Blank EXCEPT !.at = now])
    /\ crossed' = IF \E u \in Mates(t) : Writing(u) THEN crossed \cup {home[t]} ELSE crossed
    /\ UNCHANGED <<now, rowVars, cache, lastSet, acked, lost>>

GetLoad(t) ==
    /\ pc[t] = "load"
    /\ Read(t)
    /\ Goto(t, "storeData")
    /\ UNCHANGED <<now, rowVars, cache, histVars>>

(* Mutant of GetFails: a failed refresh is not tried again for a while. *)
GetFailsQuietly(t) ==
    /\ pc[t] = "load"
    /\ Finish(t)
    /\ cache' = [cache EXCEPT ![home[t]].ts = job[t].at]
    /\ UNCHANGED <<now, rowVars, histVars>>

(* The database is away: the old copy, or the defaults, are served once.   *)
GetFails(t) ==
    /\ pc[t] = "load"
    /\ Finish(t)
    /\ UNCHANGED <<now, rowVars, cache, histVars>>

StoreData(t) ==
    /\ cache' = [cache EXCEPT ![home[t]] =
                    [filled |-> TRUE, value |-> job[t].value, rev |-> job[t].rev,
                     born |-> job[t].born, ts |-> @.ts]]
    /\ crossed' = IF job[t].alone THEN crossed \ {home[t]} ELSE crossed

GetStoreData(t) ==
    /\ pc[t] = "storeData"
    /\ StoreData(t)
    /\ Goto(t, "storeTs")
    /\ UNCHANGED <<now, rowVars, job, lastSet, acked, lost>>

GetStoreTs(t) ==
    /\ pc[t] = "storeTs"
    /\ cache' = [cache EXCEPT ![home[t]].ts = job[t].at]
    /\ Finish(t)
    /\ UNCHANGED <<now, rowVars, histVars>>

-----------------------------------------------------------------------------
(* update_settings with a patch of one key. *)

(* Mutant of UpdRead: the patch is applied to the cached copy. *)
UpdReadCache(t, k, v) ==
    /\ pc[t] = "idle" /\ rev < MaxUpdates
    /\ Goto(t, "commit")
    /\ Begin(t, [Blank EXCEPT !.at = now, !.key = k, !.patch = v, !.behind = lost,
                              !.value = IF Cached(t).filled THEN Cached(t).value ELSE row])
    /\ crossed' = IF Mates(t) # {} THEN crossed \cup {home[t]} ELSE crossed
    /\ UNCHANGED <<now, rowVars, cache, lastSet, acked, lost>>

(* The row is read without a lock. *)
UpdRead(t, k, v) ==
    /\ pc[t] = "idle" /\ rev < MaxUpdates
    /\ Goto(t, "commit")
    /\ Begin(t, [Blank EXCEPT !.at = now, !.key = k, !.patch = v, !.behind = lost,
                              !.value = row])
    /\ crossed' = IF Mates(t) # {} THEN crossed \cup {home[t]} ELSE crossed
    /\ UNCHANGED <<now, rowVars, cache, lastSet, acked, lost>>

NewRow(t) == [job[t].value EXCEPT ![job[t].key] = job[t].patch]

(* The patch moves its key away from what the row read says. *)
Moves(t) == NewRow(t) # job[t].value

(* The patch differs from, or may differ from, the last patch of its key. *)
NewPatch(t) == Moves(t) \/ job[t].key \in job[t].behind

(* The whole JSON column is written back, unless it equals what was read:  *)
(* then the ORM has no change of it to write, whatever it holds by now.    *)
UpdCommit(t) ==
    /\ pc[t] = "commit" /\ rev < MaxUpdates
    /\ IF Moves(t)
       THEN row' = NewRow(t) /\ rev' = rev + 1 /\ lost' = job[t].behind \ {job[t].key}
       ELSE /\ UNCHANGED rowVars
            /\ lost' = IF NewPatch(t) THEN lost \cup {job[t].key} ELSE lost
    /\ lastSet' = [lastSet EXCEPT ![job[t].key] = job[t].patch]
    /\ job' = [u \in Threads |-> [job[u] EXCEPT !.behind =
                  IF u = t \/ pc[u] # "commit" THEN {}
                  ELSE IF NewPatch(t) THEN @ \cup {job[t].key} ELSE @]]
    /\ Goto(t, "reload")
    /\ UNCHANGED <<now, cache, acked, crossed>>

UpdReload(t) ==
    /\ pc[t] = "reload"
    /\ Read(t)
    /\ Goto(t, "updData")
    /\ UNCHANGED <<now, rowVars, cache, histVars>>

(* The database fails before the commit, or between it and the reload: the *)
(* request raises, the cache is as it was. *)
UpdFails(t) ==
    /\ pc[t] \in {"commit", "reload"}
    /\ Finish(t)
    /\ UNCHANGED <<now, rowVars, cache, histVars>>

(* Mutant of UpdStoreData: the copy is left for the next refresh. *)
UpdKeepsData(t) ==
    /\ pc[t] = "updData"
    /\ Goto(t, "updTs")
    /\ UNCHANGED <<now, rowVars, cache, job, histVars>>

UpdStoreData(t) ==
    /\ pc[t] = "updData"
    /\ StoreData(t)
    /\ Goto(t, "updTs")
    /\ UNCHANGED <<now, rowVars, job, lastSet, acked, lost>>

(* Stamped with the time of the store; the answer goes out. *)
UpdStoreTs(t) ==
    /\ pc[t] = "updTs"
    /\ cache' = [cache EXCEPT ![home[t]].ts = now]
    /\ acked' = [acked EXCEPT ![home[t]] = job[t].rev]
    /\ Finish(t)
    /\ UNCHANGED <<now, rowVars, lastSet, crossed, lost>>

-----------------------------------------------------------------------------
(* A request that has begun gets on with it within Slow ticks. *)
Tick ==
    /\ now < MaxTime
    /\ \A t \in Threads : pc[t] # "idle" => now < job[t].at + Slow
    /\ now' = now + 1
    /\ UNCHANGED <<rowVars, cache, pc, job, histVars>>

Empty   == [filled |-> FALSE, value |-> Nothing, rev |-> 0, born |-> 0, ts |-> 0]

(* A process is restarted: its cache and its requests are gone. *)
Restart(p) ==
    /\ cache' = [cache EXCEPT ![p] = Empty]
    /\ pc' = [t \in Threads |-> IF home[t] = p THEN "idle" ELSE pc[t]]
    /\ job' = [t \in Threads |-> IF home[t] = p THEN Blank ELSE job[t]]
    /\ crossed' = crossed \ {p}
    /\ UNCHANGED <<now, rowVars, lastSet, acked, lost>>

(* The row is seeded before requests are served. *)
Init ==
    /\ home \in [Threads -> Procs]
    /\ now = 0 /\ row = Nothing /\ rev = 0
    /\ cache = [p \in Procs |-> Empty]
    /\ pc = [t \in Threads |-> "idle"]
    /\ job = [t \in Threads |-> Blank]
    /\ lastSet = Nothing /\ acked = [p \in Procs |-> 0] /\ crossed = {} /\ lost = {}

Get(t)    == GetStart(t) \/ GetLoad(t) \/ GetFails(t) \/ GetStoreData(t) \/ GetStoreTs(t)
Update(t) == \/ \E k \in Keys, v \in Vals : UpdRead(t, k, v)
             \/ UpdCommit(t) \/ UpdReload(t) \/ UpdFails(t) \/ UpdStoreData(t) \/ UpdStoreTs(t)

Step == Tick \/ (\E t \in Threads : Get(t) \/ Update(t)) \/ (\E p \in Procs : Restart(p))

Next == Step /\ UNCHANGED home

Spec == Init /\ [][Next]_vars

-----------------------------------------------------------------------------
(* Properties. *)

TypeOK ==
    /\ home \in [Threads -> Procs]
    /\ now \in Nat /\ row \in Values /\ rev \in Nat
    /\ cache \in [Procs -> Caches]
    /\ pc \in [Threads -> Steps] /\ job \in [Threads -> Locals]
    /\ lastSet \in Values /\ acked \in [Procs -> Nat] /\ crossed \subseteq Procs
    /\ lost \subseteq Keys /\ \A t \in Threads : pc[t] = "commit" => job[t].key \in Keys

(* "Other workers converge within CACHE_TTL": what a process serves from   *)
(* its cache was the row at most CACHE_TTL ago, plus twice the time a      *)
(* request may be at work, however the threads of the process overtake     *)
(* each other between load and store.                                      *)
StalenessBounded ==
    \A p \in Procs : Fresh(p) => now < cache[p].born + Ttl + 2 * Slow

(* Why: nobody is at work for longer than Slow, and a stamp is never more  *)
(* than twice that ahead of the copy it is put on.                         *)
WorkIsShort == \A t \in Threads : pc[t] # "idle" => job[t].at <= now /\ now <= job[t].at + Slow
BornInWork  == \A t \in Threads : pc[t] \in {"storeData", "updData"} => job[t].at <= job[t].born
StampFits   ==
    /\ \A t \in Threads : pc[t] \in {"storeTs", "updTs"} =>
          Cached(t).filled /\ job[t].at <= Cached(t).born + Slow
    /\ \A p \in Procs : cache[p].ts <= now
    /\ \A p \in Procs : cache[p].filled => cache[p].ts <= cache[p].born + 2 * Slow

CacheInv == TypeOK /\ WorkIsShort /\ BornInWork /\ StampFits

(* "is refreshed immediately on the worker that performs an admin update": *)
(* once an update is answered its process never serves an older row.  Only *)
(* an update that overlaps other work on the settings in its process can   *)
(* break that, and only until a request there has refreshed the cache with *)
(* nobody beside it, or the process restarts.                              *)
OwnUpdateServed ==
    \A p \in Procs \ crossed : cache[p].filled => cache[p].rev >= acked[p]

(* A partial update leaves the other keys as the last patch of each made   *)
(* them.  A patch can be lost only where two updates overlap: one read the *)
(* row before the other's patch was committed and commits after it, writes *)
(* the whole row over the other's key, or writes nothing because its patch *)
(* says what it read.  A later patch that moves the key mends it, and so   *)
(* does any write of an update that holds the patch still.                 *)
PatchKeepsOthers == \A k \in Keys \ lost : row[k] = lastSet[k]
=============================================================================
