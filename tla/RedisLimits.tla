----------------------------- MODULE RedisLimits ----------------------------
(***************************************************************************)
(* The counters in Redis (src/app/core/redis.py) that limit callers and    *)
(* the use of the Groq API keys.  Both charge a counter with INCR and      *)
(* EXPIRE in one MULTI, so every charge starts the window anew.            *)
(*   - RateLimiter charges, then compares: callers of submit, verify-otp   *)
(*     and resend-otp, by number and action.                               *)
(*   - GroqKeyManager.get_available_key looks, then charges; other API     *)
(*     processes run in between.                                           *)
(*                                                                         *)
(* What counts is how much was granted in any window: `log' keeps, per     *)
(* counter, the grants younger than a window.  When Redis is away both     *)
(* grant without a charge; a charge whose answer is late is sent again by  *)
(* the client (retry_on_timeout).                                          *)
(***************************************************************************)
EXTENDS Integers, FiniteSets

CONSTANTS
    Callers,      \* the counters of RateLimiter
    NumKeys,      \* Groq API keys
    Apis,         \* API processes; each serves one queue_photo at a time
    Max,          \* max_requests
    Rpm,          \* RPM_LIMIT_PER_KEY
    Window,       \* window_seconds, WINDOW_SECONDS
    MaxCharges,   \* bound: charges of a counter before it expires
    MaxFaults     \* bound: faults in a behaviour

Groq     == 0 .. NumKeys - 1
Counters == Callers \cup Groq

ASSUME LimitAssumption == Max \in Nat /\ Rpm \in Nat \ {0} /\ Window \in Nat \ {0}
                          /\ MaxCharges \in Nat /\ MaxFaults \in Nat
ASSUME KeyAssumption   == NumKeys \in Nat \ {0} /\ Callers \cap Groq = {}
ASSUME ApiAssumption   == IsFiniteSet(Apis) /\ Apis # {}

VARIABLES
    count, ttl,     \* per counter: its value, the time it has left (0: no such key)
    turn,           \* groq:round_robin_counter modulo NumKeys
    pc, key, left,  \* per process: next step, the key it looks at, how many it may look at
    given,          \* history: grants of a counter since it was last absent
    log,            \* history: per counter the grants younger than a window
    open,           \* history: grants without a charge
    faults

redisVars == <<count, ttl, turn>>
apiVars   == <<pc, key, left>>
histVars  == <<given, log, open>>
vars == <<redisVars, apiVars, histVars, faults>>

Fault == faults < MaxFaults /\ faults' = faults + 1

-----------------------------------------------------------------------------
(* Mutant of Charged: only the first charge sets the expiry. *)
ChargedOnce(c) ==
    /\ count[c] < MaxCharges
    /\ count' = [count EXCEPT ![c] = @ + 1]
    /\ ttl' = [ttl EXCEPT ![c] = IF count[c] = 0 THEN Window ELSE @]

(* MULTI, INCR, EXPIRE, EXEC *)
Charged(c) ==
    /\ count[c] < MaxCharges
    /\ count' = [count EXCEPT ![c] = @ + 1]
    /\ ttl' = [ttl EXCEPT ![c] = Window]

Logged(c, n) == log' = [log EXCEPT ![c] = @ \cup {[n |-> n, age |-> 0]}]

Grant(c) == /\ given' = [given EXCEPT ![c] = @ + 1]
            /\ Logged(c, given[c] + 1)
            /\ UNCHANGED open

(* A grant without a charge; these are numbered 0, -1, -2, ... *)
GrantOpenly(c) == /\ Fault
                  /\ Logged(c, -open)
                  /\ open' = open + 1
                  /\ UNCHANGED <<given, redisVars>>

-----------------------------------------------------------------------------
(* RateLimiter.check_rate_limit. *)

(* Mutant of Request: compares with the value before the charge. *)
RequestOffByOne(c) ==
    /\ Charged(c)
    /\ IF count[c] <= Max THEN Grant(c) ELSE UNCHANGED histVars
    /\ UNCHANGED <<turn, apiVars, faults>>

(* A refused request is charged as well. *)
Request(c) ==
    /\ Charged(c)
    /\ IF count[c] + 1 <= Max THEN Grant(c) ELSE UNCHANGED histVars
    /\ UNCHANGED <<turn, apiVars, faults>>

(* Redis is away: allowed. *)
RequestFailsOpen(c) == GrantOpenly(c) /\ UNCHANGED apiVars

(* The charge was executed, but the answer is late: it is sent again. *)
ChargeRepeated(c) ==
    /\ c \in Callers \/ \E p \in Apis : pc[p] = "charge" /\ key[p] = c
    /\ Charged(c) /\ Fault
    /\ UNCHANGED <<turn, apiVars, histVars>>

-----------------------------------------------------------------------------
(* GroqKeyManager.get_available_key, called by queue_photo. *)

Goto(p, s) == pc' = [pc EXCEPT ![p] = s]

(* INCR of the round robin counter: where the search starts. *)
AskKey(p) ==
    /\ pc[p] = "idle"
    /\ Goto(p, "look")
    /\ key' = [key EXCEPT ![p] = turn] /\ left' = [left EXCEPT ![p] = NumKeys - 1]
    /\ turn' = (turn + 1) % NumKeys
    /\ UNCHANGED <<count, ttl, histVars, faults>>

(* Mutant of KeyHasRoom: a key at its limit is taken. *)
KeyHasRoomOffByOne(c) == count[c] <= Rpm
KeyHasRoom(c) == count[c] < Rpm

(* GET of the key's counter; the next key when it is used up; None (the    *)
(* photo is queued) when all are. *)
Look(p) ==
    /\ pc[p] = "look"
    /\ \/ KeyHasRoom(key[p]) /\ Goto(p, "charge") /\ UNCHANGED <<key, left>>
       \/ /\ ~KeyHasRoom(key[p]) /\ left[p] > 0
          /\ key' = [key EXCEPT ![p] = (@ + 1) % NumKeys]
          /\ left' = [left EXCEPT ![p] = @ - 1]
          /\ UNCHANGED pc
       \/ ~KeyHasRoom(key[p]) /\ left[p] = 0 /\ Goto(p, "idle") /\ UNCHANGED <<key, left>>
    /\ UNCHANGED <<redisVars, histVars, faults>>

Charge(p) ==
    /\ pc[p] = "charge"
    /\ Charged(key[p]) /\ Grant(key[p])
    /\ Goto(p, "idle")
    /\ UNCHANGED <<turn, key, left, faults>>

(* Redis fails: the first key, uncharged. *)
KeyFallback(p) ==
    /\ pc[p] # "idle"
    /\ GrantOpenly(0)
    /\ Goto(p, "idle")
    /\ UNCHANGED <<key, left>>

Crash(p) ==
    /\ pc[p] # "idle"
    /\ Goto(p, "idle")
    /\ UNCHANGED <<redisVars, key, left, histVars, faults>>

-----------------------------------------------------------------------------
(* A second passes: counters expire, grants age. *)
Older(S) == {[n |-> g.n, age |-> g.age + 1] : g \in {h \in S : h.age + 1 < Window}}

Tick ==
    /\ ttl' = [c \in Counters |-> IF ttl[c] = 0 THEN 0 ELSE ttl[c] - 1]
    /\ count' = [c \in Counters |-> IF ttl'[c] = 0 THEN 0 ELSE count[c]]
    /\ given' = [c \in Counters |-> IF ttl'[c] = 0 THEN 0 ELSE given[c]]
    /\ log' = [c \in Counters |-> Older(log[c])]
    /\ UNCHANGED <<turn, apiVars, open, faults>>

(* The round robin counter expires after an hour without a request. *)
TurnExpires ==
    /\ turn # 0
    /\ turn' = 0
    /\ UNCHANGED <<count, ttl, apiVars, histVars, faults>>

Init ==
    /\ count = [c \in Counters |-> 0] /\ ttl = [c \in Counters |-> 0] /\ turn = 0
    /\ pc = [p \in Apis |-> "idle"] /\ key = [p \in Apis |-> 0] /\ left = [p \in Apis |-> 0]
    /\ given = [c \in Counters |-> 0] /\ log = [c \in Counters |-> {}] /\ open = 0
    /\ faults = 0

Limiter(c) == Request(c) \/ RequestFailsOpen(c)
Manager(p) == AskKey(p) \/ Look(p) \/ Charge(p) \/ KeyFallback(p) \/ Crash(p)

Next ==
    \/ \E c \in Callers : Limiter(c)
    \/ \E p \in Apis : Manager(p)
    \/ \E c \in Counters : ChargeRepeated(c)
    \/ Tick \/ TurnExpires

Spec == Init /\ [][Next]_vars

-----------------------------------------------------------------------------
(* Properties. *)

Steps  == {"idle", "look", "charge"}
Grants == [n : Int, age : 0 .. Window - 1]

TypeOK ==
    /\ count \in [Counters -> Nat] /\ ttl \in [Counters -> 0 .. Window] /\ turn \in Groq
    /\ pc \in [Apis -> Steps] /\ key \in [Apis -> Groq] /\ left \in [Apis -> Nat]
    /\ given \in [Counters -> Nat] /\ log \in [Counters -> SUBSET Grants]
    /\ open \in Nat /\ faults \in Nat

Unpaid(c) == {g \in log[c] : g.n <= 0}

(* A caller gets at most max_requests through in any window of that        *)
(* length, wherever it begins, except what passed in that very window      *)
(* while Redis was away: no earlier fault counts.                          *)
CallerLimited == \A c \in Callers : Cardinality(log[c]) <= Max + Cardinality(Unpaid(c))

(* A Groq key is handed out at most RPM_LIMIT_PER_KEY times in any minute, *)
(* and once more for every other process that looked before the last       *)
(* charge; except, again, what passed uncharged in that minute.            *)
KeyLimit   == Rpm + Cardinality(Apis) - 1
KeyLimited == \A c \in Groq : Cardinality(log[c]) <= KeyLimit + Cardinality(Unpaid(c))

(* Why: an absent counter has nothing in the window, the grants in it are  *)
(* numbered, and the processes about to charge have their place.           *)
Charging(c) == {p \in Apis : pc[p] = "charge" /\ key[p] = c}

CountsAgree ==
    \A c \in Counters : /\ given[c] <= count[c]
                        /\ (ttl[c] = 0 <=> count[c] = 0)
LogNumbered ==
    \A c \in Counters : \A g \in log[c] :
        /\ -open < g.n /\ g.n <= given[c]
        /\ g.n > 0 => g.age + ttl[c] >= Window
        /\ \A h \in log[c] : h.n = g.n => h = g
CallerRoom == \A c \in Callers : given[c] <= Max
KeyRoom    == \A c \in Groq : given[c] + Cardinality(Charging(c)) <= KeyLimit

LimitsInv == TypeOK /\ CountsAgree /\ LogNumbered /\ CallerRoom /\ KeyRoom
=============================================================================
