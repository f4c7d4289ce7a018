------------------------- MODULE RedisLimitsProofs --------------------------
(***************************************************************************)
(* For any number of callers, keys and API processes and any limits: what  *)
(* the Redis counters let through in a window.                             *)
(***************************************************************************)
EXTENDS RedisLimits, TLAPS, FiniteSetTheorems, FunctionTheorems

(* The key after the one looked at, and a new record of the log. *)
LEMMA NextKey == \A k \in Groq : (k + 1) % NumKeys \in Groq
  BY KeyAssumption DEF Groq

LEMMA FirstKey == 0 \in Groq /\ NumKeys - 1 \in Nat /\ Groq \subseteq Counters
  BY KeyAssumption DEF Groq, Counters

LEMMA NewGrant == \A n \in Int : [n |-> n, age |-> 0] \in Grants
  BY LimitAssumption DEF Grants

-----------------------------------------------------------------------------
(* Types. *)

LEMMA LoggedTyped ==
    ASSUME TypeOK, NEW c \in Counters, NEW n \in Int, Logged(c, n)
    PROVE  log' \in [Counters -> SUBSET Grants]
<1>1. log[c] \cup {[n |-> n, age |-> 0]} \in SUBSET Grants
  BY NewGrant DEF TypeOK
<1> QED
  BY <1>1 DEF TypeOK, Logged

LEMMA ChargedTyped ==
    ASSUME TypeOK, NEW c \in Counters, Charged(c)
    PROVE  count' \in [Counters -> Nat] /\ ttl' \in [Counters -> 0 .. Window]
  BY LimitAssumption DEF TypeOK, Charged

LEMMA GrantTyped ==
    ASSUME TypeOK, NEW c \in Counters
    PROVE  /\ Grant(c) => given' \in [Counters -> Nat] /\ log' \in [Counters -> SUBSET Grants]
                          /\ open' \in Nat
           /\ GrantOpenly(c) => given' \in [Counters -> Nat] /\ open' \in Nat /\ faults' \in Nat
                                /\ log' \in [Counters -> SUBSET Grants]
<1>1. given[c] + 1 \in Int /\ -open \in Int
  BY DEF TypeOK
<1>2. Grant(c) => log' \in [Counters -> SUBSET Grants]
  BY <1>1, LoggedTyped DEF Grant
<1>3. GrantOpenly(c) => log' \in [Counters -> SUBSET Grants]
  BY <1>1, LoggedTyped DEF GrantOpenly
<1>4. Grant(c) => given' \in [Counters -> Nat] /\ open' \in Nat
  BY DEF Grant, TypeOK
<1>5. GrantOpenly(c) => given' \in [Counters -> Nat] /\ open' \in Nat /\ faults' \in Nat
  BY DEF GrantOpenly, TypeOK, Fault
<1> QED
  BY <1>2, <1>3, <1>4, <1>5

LEMMA OlderTyped == \A S \in SUBSET Grants : Older(S) \in SUBSET Grants
<1> SUFFICES ASSUME NEW S \in SUBSET Grants, NEW g \in S, g.age + 1 < Window
             PROVE  [n |-> g.n, age |-> g.age + 1] \in Grants
  BY DEF Older
<1> QED
  BY LimitAssumption DEF Grants

LEMMA StepTyped ==
    ASSUME TypeOK, [Next]_vars
    PROVE  TypeOK'
<1> USE FirstKey DEF redisVars, apiVars, histVars
<1>0. "idle" \in Steps /\ "look" \in Steps /\ "charge" \in Steps
  BY DEF Steps
<1>1. ASSUME NEW c \in Callers, Limiter(c) PROVE TypeOK'
  <2>1. c \in Counters
    BY DEF Counters
  <2>2. CASE Request(c)
    <3>1. count' \in [Counters -> Nat] /\ ttl' \in [Counters -> 0 .. Window]
      BY <2>1, <2>2, ChargedTyped DEF Request
    <3>2. /\ given' \in [Counters -> Nat] /\ log' \in [Counters -> SUBSET Grants]
          /\ open' \in Nat
      <4>1. Grant(c) \/ UNCHANGED histVars
        BY <2>2 DEF Request
      <4> QED
        BY <2>1, <4>1, GrantTyped DEF TypeOK
    <3> QED
      BY <2>2, <3>1, <3>2 DEF Request, TypeOK
  <2>3. CASE RequestFailsOpen(c)
    BY <2>1, <2>3, GrantTyped DEF RequestFailsOpen, GrantOpenly, TypeOK
  <2> QED
    BY <1>1, <2>2, <2>3 DEF Limiter
<1>2. ASSUME NEW p \in Apis, Manager(p) PROVE TypeOK'
  <2>1. CASE AskKey(p)
    BY <1>0, <2>1, NextKey DEF AskKey, Goto, TypeOK
  <2>2. CASE Look(p)
    <3>1. (key[p] + 1) % NumKeys \in Groq
      BY NextKey DEF TypeOK
    <3>2. key' \in [Apis -> Groq]
      BY <2>2, <3>1 DEF Look, TypeOK
    <3>3. left' \in [Apis -> Nat] /\ pc' \in [Apis -> Steps]
      BY <1>0, <2>2 DEF Look, Goto, TypeOK
    <3> QED
      BY <2>2, <3>2, <3>3 DEF Look, TypeOK
  <2>3. CASE Charge(p)
    <3>1. key[p] \in Counters
      BY DEF TypeOK
    <3>2. count' \in [Counters -> Nat] /\ ttl' \in [Counters -> 0 .. Window]
      BY <2>3, <3>1, ChargedTyped DEF Charge
    <3>3. given' \in [Counters -> Nat] /\ log' \in [Counters -> SUBSET Grants]
          /\ open' \in Nat
      BY <2>3, <3>1, GrantTyped DEF Charge
    <3> QED
      BY <1>0, <2>3, <3>2, <3>3 DEF Charge, Goto, TypeOK
  <2>4. CASE KeyFallback(p)
    <3>1. GrantOpenly(0)
      BY <2>4 DEF KeyFallback
    <3>2. /\ given' \in [Counters -> Nat] /\ log' \in [Counters -> SUBSET Grants]
          /\ open' \in Nat /\ faults' \in Nat
      BY <3>1, GrantTyped
    <3> QED
      BY <1>0, <2>4, <3>1, <3>2 DEF KeyFallback, GrantOpenly, Goto, TypeOK
  <2>5. CASE Crash(p)
    BY <1>0, <2>5 DEF Crash, Goto, TypeOK
  <2> QED
    BY <1>2, <2>1, <2>2, <2>3, <2>4, <2>5 DEF Manager
<1>3. ASSUME NEW c \in Counters, ChargeRepeated(c) PROVE TypeOK'
  BY <1>3, ChargedTyped DEF ChargeRepeated, Fault, TypeOK
<1>4. CASE Tick
  <2>1. ttl' \in [Counters -> 0 .. Window]
    BY <1>4, LimitAssumption DEF Tick, TypeOK
  <2>2. count' \in [Counters -> Nat] /\ given' \in [Counters -> Nat]
    BY <1>4 DEF Tick, TypeOK
  <2>3. log' \in [Counters -> SUBSET Grants]
    BY <1>4, OlderTyped DEF Tick, TypeOK
  <2> QED
    BY <1>4, <2>1, <2>2, <2>3 DEF Tick, TypeOK
<1>5. CASE TurnExpires
  BY <1>5 DEF TurnExpires, TypeOK
<1>6. CASE UNCHANGED vars
  BY <1>6 DEF vars, TypeOK
<1> QED
  BY <1>1, <1>2, <1>3, <1>4, <1>5, <1>6 DEF Next

-----------------------------------------------------------------------------
(* Counters and their numbered grants. *)

CountInv == TypeOK /\ CountsAgree /\ LogNumbered

(* A charge, with or without a grant, keeps both. *)
LEMMA ChargeKeeps ==
    ASSUME CountInv, TypeOK', NEW c \in Counters, Charged(c), Grant(c) \/ UNCHANGED histVars
    PROVE  CountsAgree' /\ LogNumbered'
<1> USE LimitAssumption DEF CountInv, TypeOK, Charged, histVars
<1>1. CountsAgree'
  BY DEF CountsAgree, Grant
<1>2. CASE UNCHANGED histVars
  <2>1. \A d \in Counters : ttl'[d] >= ttl[d]
    OBVIOUS
  <2>2. \A d \in Counters : \A g \in log[d] : g.age \in Nat
    BY DEF Grants
  <2> QED
    BY <1>1, <1>2, <2>1, <2>2 DEF LogNumbered
<1>3. CASE Grant(c)
  <2>1. SUFFICES ASSUME NEW d \in Counters, NEW g \in log'[d], NEW h \in log'[d]
                 PROVE  /\ -open' < g.n /\ g.n <= given'[d]
                        /\ g.n > 0 => g.age + ttl'[d] >= Window
                        /\ h.n = g.n => h = g
    BY <1>1 DEF LogNumbered
  <2>2. /\ given' = [given EXCEPT ![c] = @ + 1] /\ open' = open
        /\ log' = [log EXCEPT ![c] = @ \cup {[n |-> given[c] + 1, age |-> 0]}]
        /\ ttl' = [ttl EXCEPT ![c] = Window]
    BY <1>3 DEF Grant, Logged
  <2>3. \A e \in log[d] : /\ -open < e.n /\ e.n <= given[d] /\ e.n \in Int /\ e.age \in Nat
                          /\ e.n > 0 => e.age + ttl[d] >= Window
                          /\ \A f \in log[d] : f.n = e.n => f = e
    BY DEF LogNumbered, Grants
  <2>4. CASE d # c
    BY <2>2, <2>3, <2>4
  <2>5. CASE d = c
    <3> DEFINE new == [n |-> given[c] + 1, age |-> 0]
    <3>1. log'[d] = log[d] \cup {new} /\ given'[d] = given[d] + 1 /\ ttl'[d] = Window
      BY <2>2, <2>5
    <3>2. \A e \in log[d] : e.n # new.n
      BY <2>3, <2>5
    <3>3. new.n = given[d] + 1 /\ new.age = 0
      BY <2>5
    <3>4. given[d] \in Nat /\ open \in Nat /\ ttl[d] \in 0 .. Window
      OBVIOUS
    <3> HIDE DEF new
    <3>5. CASE g = new
      BY <2>2, <3>1, <3>2, <3>3, <3>4, <3>5
    <3>6. CASE g \in log[d]
      BY <2>2, <2>3, <3>1, <3>2, <3>3, <3>4, <3>6
    <3> QED
      BY <3>1, <3>5, <3>6
  <2> QED
    BY <2>4, <2>5
<1> QED
  BY <1>2, <1>3

(* So does a grant without a charge. *)
LEMMA OpenKeeps ==
    ASSUME CountInv, TypeOK', NEW c \in Counters, GrantOpenly(c)
    PROVE  CountsAgree' /\ LogNumbered'
<1> USE LimitAssumption DEF CountInv, TypeOK, redisVars
<1>1. /\ given' = given /\ open' = open + 1 /\ ttl' = ttl /\ count' = count
      /\ log' = [log EXCEPT ![c] = @ \cup {[n |-> -open, age |-> 0]}]
  BY DEF GrantOpenly, Logged
<1>2. CountsAgree'
  BY <1>1 DEF CountsAgree
<1>3. SUFFICES ASSUME NEW d \in Counters, NEW g \in log'[d], NEW h \in log'[d]
               PROVE  /\ -open' < g.n /\ g.n <= given'[d]
                      /\ g.n > 0 => g.age + ttl'[d] >= Window
                      /\ h.n = g.n => h = g
  BY <1>2 DEF LogNumbered
<1>4. \A e \in log[d] : /\ -open < e.n /\ e.n <= given[d] /\ e.n \in Int /\ e.age \in Nat
                        /\ e.n > 0 => e.age + ttl[d] >= Window
                        /\ \A f \in log[d] : f.n = e.n => f = e
  BY DEF LogNumbered, Grants
<1> DEFINE new == [n |-> -open, age |-> 0]
<1>5. log'[d] \subseteq log[d] \cup {new}
  BY <1>1
<1>6. \A e \in log[d] : e.n # new.n
  BY <1>4
<1>7. new.n = -open /\ new.age = 0 /\ open \in Nat /\ given[d] \in Nat /\ ttl[d] \in 0 .. Window
  OBVIOUS
<1> HIDE DEF new
<1>8. CASE g = new
  BY <1>1, <1>5, <1>6, <1>7, <1>8
<1>9. CASE g \in log[d]
  BY <1>1, <1>4, <1>5, <1>6, <1>7, <1>9
<1> QED
  BY <1>5, <1>8, <1>9

(* And a second that passes. *)
LEMMA TickKeeps ==
    ASSUME CountInv, TypeOK', Tick
    PROVE  CountsAgree' /\ LogNumbered'
<1> USE LimitAssumption DEF CountInv, TypeOK
<1>1. CountsAgree'
  BY DEF CountsAgree, Tick
<1>2. SUFFICES ASSUME NEW d \in Counters, NEW g \in log'[d], NEW h \in log'[d]
               PROVE  /\ -open' < g.n /\ g.n <= given'[d]
                      /\ g.n > 0 => g.age + ttl'[d] >= Window
                      /\ h.n = g.n => h = g
  BY <1>1 DEF LogNumbered
<1>3. log'[d] = {[n |-> e.n, age |-> e.age + 1] : e \in {f \in log[d] : f.age + 1 < Window}}
  BY DEF Tick, Older
<1>4. PICK e \in log[d] : e.age + 1 < Window /\ g = [n |-> e.n, age |-> e.age + 1]
  BY <1>3
<1>5. PICK f \in log[d] : h = [n |-> f.n, age |-> f.age + 1]
  BY <1>3
<1>6. /\ -open < e.n /\ e.n <= given[d] /\ e.n \in Int /\ e.age \in Nat
      /\ e.n > 0 => e.age + ttl[d] >= Window
      /\ f.n = e.n => f = e
  BY DEF LogNumbered, Grants
<1>7. h.n = g.n => h = g
  BY <1>4, <1>5, <1>6
<1>8. ttl'[d] = (IF ttl[d] = 0 THEN 0 ELSE ttl[d] - 1) /\ ttl[d] \in 0 .. Window
      /\ given'[d] = (IF ttl'[d] = 0 THEN 0 ELSE given[d]) /\ open' = open
  BY DEF Tick, histVars
<1>9. e.n > 0 => ttl'[d] # 0 /\ g.age + ttl'[d] >= Window
  BY <1>4, <1>6, <1>8
<1> QED
  BY <1>4, <1>6, <1>7, <1>8, <1>9

LEMMA StepCountInv ==
    ASSUME CountInv, [Next]_vars
    PROVE  CountInv'
<1>0. TypeOK'
  BY StepTyped DEF CountInv
<1>q. ASSUME UNCHANGED <<count, ttl, histVars>> PROVE CountsAgree' /\ LogNumbered'
  BY <1>q DEF CountInv, CountsAgree, LogNumbered, histVars
<1>1. ASSUME NEW c \in Callers, Limiter(c) PROVE CountsAgree' /\ LogNumbered'
  <2>1. c \in Counters
    BY DEF Counters
  <2>2. CASE Request(c)
    BY <1>0, <2>1, <2>2, ChargeKeeps DEF Request
  <2>3. CASE RequestFailsOpen(c)
    BY <1>0, <2>1, <2>3, OpenKeeps DEF RequestFailsOpen
  <2> QED
    BY <1>1, <2>2, <2>3 DEF Limiter
<1>2. ASSUME NEW p \in Apis, Manager(p) PROVE CountsAgree' /\ LogNumbered'
  <2>1. CASE Charge(p)
    <3>1. key[p] \in Counters
      BY FirstKey DEF CountInv, TypeOK
    <3> QED
      BY <1>0, <2>1, <3>1, ChargeKeeps DEF Charge
  <2>2. CASE KeyFallback(p)
    BY <1>0, <2>2, FirstKey, OpenKeeps DEF KeyFallback
  <2>3. CASE AskKey(p) \/ Look(p) \/ Crash(p)
    BY <1>q, <2>3 DEF AskKey, Look, Crash, redisVars
  <2> QED
    BY <1>2, <2>1, <2>2, <2>3 DEF Manager
<1>3. ASSUME NEW c \in Counters, ChargeRepeated(c) PROVE CountsAgree' /\ LogNumbered'
  BY <1>0, <1>3, ChargeKeeps DEF ChargeRepeated
<1>4. CASE Tick
  BY <1>0, <1>4, TickKeeps DEF CountInv
<1>5. CASE TurnExpires \/ UNCHANGED vars
  BY <1>0, <1>q, <1>5 DEF TurnExpires, vars, redisVars, CountInv
<1> QED
  BY <1>0, <1>1, <1>2, <1>3, <1>4, <1>5 DEF Next, CountInv

-----------------------------------------------------------------------------
(* Room. *)

LEMMA StepCallerRoom ==
    ASSUME CountInv, CallerRoom, [Next]_vars
    PROVE  CallerRoom'
<1> USE DEF CountInv, TypeOK, CallerRoom, redisVars, histVars
<1>0. Callers \subseteq Counters
  BY DEF Counters
<1>1. ASSUME NEW c \in Callers, Limiter(c) PROVE CallerRoom'
  <2>1. CASE Request(c)
    BY <1>0, <2>1, LimitAssumption DEF Request, Charged, Grant, CountsAgree
  <2>2. CASE RequestFailsOpen(c)
    BY <2>2 DEF RequestFailsOpen, GrantOpenly
  <2> QED
    BY <1>1, <2>1, <2>2 DEF Limiter
<1>2. ASSUME NEW p \in Apis, Manager(p) PROVE CallerRoom'
  <2>1. CASE Charge(p)
    <3>1. key[p] \in Groq /\ given' = [given EXCEPT ![key[p]] = @ + 1]
      BY <2>1 DEF Charge, Grant
    <3> QED
      BY <1>0, <3>1, KeyAssumption
  <2>2. CASE AskKey(p) \/ Look(p) \/ KeyFallback(p) \/ Crash(p)
    BY <2>2 DEF AskKey, Look, KeyFallback, Crash, GrantOpenly
  <2> QED
    BY <1>2, <2>1, <2>2 DEF Manager
<1>3. CASE Tick
  BY <1>0, <1>3, LimitAssumption DEF Tick
<1>4. CASE TurnExpires \/ UNCHANGED vars \/ \E c \in Counters : ChargeRepeated(c)
  BY <1>4 DEF TurnExpires, vars, ChargeRepeated
<1> QED
  BY <1>1, <1>2, <1>3, <1>4 DEF Next

(* The processes about to charge a key are finitely many. *)
LEMMA ChargingCounts ==
    ASSUME NEW A, NEW B, A \subseteq Apis, B \subseteq Apis
    PROVE  /\ IsFiniteSet(A) /\ Cardinality(A) \in Nat /\ Cardinality(Apis) \in Nat \ {0}
           /\ Cardinality(A) <= Cardinality(Apis)
           /\ A \subseteq B => Cardinality(A) <= Cardinality(B)
           /\ \A p \in Apis : p \notin A => /\ Cardinality(A \cup {p}) = Cardinality(A) + 1
                                            /\ Cardinality(A) <= Cardinality(Apis) - 1
           /\ \A p \in A : Cardinality(A \ {p}) = Cardinality(A) - 1
<1>1. IsFiniteSet(Apis) /\ IsFiniteSet(A) /\ IsFiniteSet(B)
  BY ApiAssumption, FS_Subset
<1>2. Cardinality(A) \in Nat /\ Cardinality(Apis) \in Nat
  BY <1>1, FS_CardinalityType
<1>3. Cardinality(Apis) # 0
  BY <1>1, ApiAssumption, FS_EmptySet
<1>4. Cardinality(A) <= Cardinality(Apis)
  BY <1>1, FS_Subset
<1>5. A \subseteq B => Cardinality(A) <= Cardinality(B)
  BY <1>1, FS_Subset
<1>6. ASSUME NEW p \in Apis, p \notin A
      PROVE  /\ Cardinality(A \cup {p}) = Cardinality(A) + 1
             /\ Cardinality(A) <= Cardinality(Apis) - 1
  <2>1. Cardinality(A \cup {p}) = Cardinality(A) + 1
    BY <1>1, <1>6, FS_AddElement
  <2>2. Cardinality(A \cup {p}) <= Cardinality(Apis)
    BY <1>1, FS_Subset
  <2> QED
    BY <1>2, <2>1, <2>2
<1>7. ASSUME NEW p \in A PROVE Cardinality(A \ {p}) = Cardinality(A) - 1
  BY <1>1, FS_RemoveElement
<1> QED
  BY <1>1, <1>2, <1>3, <1>4, <1>5, <1>6, <1>7

(* Nothing that gives no key and lets nobody go on to charge takes room. *)
LEMMA RoomShrinks ==
    ASSUME CountInv, TypeOK', KeyRoom,
           \A c \in Groq : given'[c] <= given[c] /\ Charging(c)' \subseteq Charging(c)
    PROVE  KeyRoom'
<1> SUFFICES ASSUME NEW c \in Groq
             PROVE  given'[c] + Cardinality(Charging(c)') <= KeyLimit
  BY DEF KeyRoom, KeyLimit
<1>1. Charging(c) \subseteq Apis /\ Charging(c)' \subseteq Apis
  BY DEF Charging
<1>2. /\ Cardinality(Charging(c)) \in Nat /\ Cardinality(Charging(c)') \in Nat
      /\ Cardinality(Charging(c)') <= Cardinality(Charging(c)) /\ Cardinality(Apis) \in Nat
  BY <1>1, ChargingCounts
<1>3. given[c] \in Nat /\ given'[c] \in Nat
  BY FirstKey DEF CountInv, TypeOK
<1>4. given[c] + Cardinality(Charging(c)) <= KeyLimit
  BY DEF KeyRoom
<1> QED
  BY <1>2, <1>3, <1>4, LimitAssumption DEF KeyLimit

LEMMA StepKeyRoom ==
    ASSUME CountInv, KeyRoom, [Next]_vars
    PROVE  KeyRoom'
<1>0. TypeOK' /\ Callers \cap Groq = {} /\ Groq \subseteq Counters
  BY StepTyped, KeyAssumption, FirstKey DEF CountInv
<1>q. ASSUME UNCHANGED <<given, pc, key>> PROVE KeyRoom'
  BY <1>q DEF KeyRoom, Charging
<1>1. ASSUME NEW c \in Callers, Limiter(c) PROVE KeyRoom'
  <2>1. \A k \in Groq : given'[k] = given[k]
    BY <1>0, <1>1 DEF Limiter, Request, RequestFailsOpen, Grant, GrantOpenly, histVars, CountInv,
       TypeOK
  <2>2. pc' = pc /\ key' = key
    BY <1>1 DEF Limiter, Request, RequestFailsOpen, apiVars
  <2> QED
    BY <1>0, <2>1, <2>2, RoomShrinks DEF Charging, CountInv, TypeOK
<1>2. ASSUME NEW p \in Apis, Manager(p) PROVE KeyRoom'
  <2>1. CASE AskKey(p) \/ KeyFallback(p) \/ Crash(p)
    <3>1. \A k \in Groq : given'[k] = given[k] /\ Charging(k)' \subseteq Charging(k)
      BY <2>1 DEF AskKey, KeyFallback, Crash, GrantOpenly, histVars, Goto, Charging, CountInv,
         TypeOK
    <3> QED
      BY <1>0, <3>1, RoomShrinks DEF CountInv, TypeOK
  <2>2. CASE Look(p) /\ ~KeyHasRoom(key[p])
    <3>1. \A k \in Groq : given'[k] = given[k] /\ Charging(k)' \subseteq Charging(k)
      BY <2>2 DEF Look, Goto, histVars, Charging, CountInv, TypeOK
    <3> QED
      BY <1>0, <3>1, RoomShrinks DEF CountInv, TypeOK
  <2>3. CASE Look(p) /\ KeyHasRoom(key[p])
    <3>1. given' = given /\ pc' = [pc EXCEPT ![p] = "charge"] /\ key' = key /\ pc[p] = "look"
      BY <2>3 DEF Look, Goto, histVars
    <3> SUFFICES ASSUME NEW k \in Groq
                 PROVE  given[k] + Cardinality(Charging(k)') <= KeyLimit
      BY <3>1 DEF KeyRoom, KeyLimit
    <3>2. Charging(k) \subseteq Apis /\ p \notin Charging(k)
      BY <3>1 DEF Charging
    <3>3. CASE key[p] # k
      <4>1. Charging(k)' = Charging(k)
        BY <3>1, <3>3 DEF Charging, CountInv, TypeOK
      <4> QED
        BY <4>1 DEF KeyRoom
    <3>4. CASE key[p] = k
      <4>1. Charging(k)' = Charging(k) \cup {p}
        BY <3>1, <3>4 DEF Charging, CountInv, TypeOK
      <4>2. /\ Cardinality(Charging(k)') = Cardinality(Charging(k)) + 1
            /\ Cardinality(Charging(k)) <= Cardinality(Apis) - 1
            /\ Cardinality(Charging(k)) \in Nat /\ Cardinality(Apis) \in Nat
        BY <3>2, <4>1, ChargingCounts
      <4>3. given[k] <= count[k] /\ count[k] < Rpm /\ given[k] \in Nat /\ count[k] \in Nat
        BY <1>0, <2>3, <3>4 DEF KeyHasRoom, CountInv, CountsAgree, TypeOK
      <4> QED
        BY <4>2, <4>3, LimitAssumption DEF KeyLimit
    <3> QED
      BY <3>3, <3>4
  <2>4. CASE Charge(p)
    <3>1. /\ given' = [given EXCEPT ![key[p]] = @ + 1] /\ key' = key
          /\ pc' = [pc EXCEPT ![p] = "idle"] /\ pc[p] = "charge"
      BY <2>4 DEF Charge, Grant, Goto
    <3> SUFFICES ASSUME NEW k \in Groq
                 PROVE  given'[k] + Cardinality(Charging(k)') <= KeyLimit
      BY DEF KeyRoom, KeyLimit
    <3>2. Charging(k) \subseteq Apis
      BY DEF Charging
    <3>3. given[k] + Cardinality(Charging(k)) <= KeyLimit
      BY DEF KeyRoom
    <3>4. CASE key[p] # k
      <4>1. Charging(k)' = Charging(k) /\ given'[k] = given[k]
        BY <1>0, <3>1, <3>4 DEF Charging, CountInv, TypeOK
      <4> QED
        BY <3>3, <4>1
    <3>5. CASE key[p] = k
      <4>1. Charging(k)' = Charging(k) \ {p} /\ p \in Charging(k)
            /\ given'[k] = given[k] + 1
        BY <1>0, <3>1, <3>5 DEF Charging, CountInv, TypeOK
      <4>2. Cardinality(Charging(k)') = Cardinality(Charging(k)) - 1
            /\ Cardinality(Charging(k)) \in Nat /\ given[k] \in Nat
        BY <1>0, <3>2, <4>1, ChargingCounts DEF CountInv, TypeOK
      <4> QED
        BY <3>3, <4>1, <4>2
    <3> QED
      BY <3>4, <3>5
  <2> QED
    BY <1>2, <2>1, <2>2, <2>3, <2>4 DEF Manager
<1>3. CASE Tick
  <2>1. \A k \in Groq : given'[k] <= given[k] /\ Charging(k)' \subseteq Charging(k)
    BY <1>0, <1>3 DEF Tick, apiVars, Charging, CountInv, TypeOK
  <2> QED
    BY <1>0, <2>1, RoomShrinks
<1>4. CASE TurnExpires \/ UNCHANGED vars \/ \E c \in Counters : ChargeRepeated(c)
  BY <1>q, <1>4 DEF TurnExpires, vars, ChargeRepeated, apiVars, histVars
<1> QED
  BY <1>1, <1>2, <1>3, <1>4 DEF Next

-----------------------------------------------------------------------------
LEMMA InitLimitsInv == Init => LimitsInv
<1> SUFFICES ASSUME Init PROVE LimitsInv
  OBVIOUS
<1>1. TypeOK /\ CountsAgree /\ LogNumbered /\ CallerRoom
  BY FirstKey, LimitAssumption
  DEF Init, TypeOK, CountsAgree, LogNumbered, CallerRoom, Steps, Counters
<1>2. KeyRoom
  <2>1. \A c \in Groq : Charging(c) = {} /\ given[c] = 0
    BY FirstKey DEF Init, Charging
  <2>2. Cardinality({}) = 0 /\ Cardinality(Apis) \in Nat \ {0}
    BY FS_EmptySet, ChargingCounts
  <2> QED
    BY <2>1, <2>2, LimitAssumption DEF KeyRoom, KeyLimit
<1> QED
  BY <1>1, <1>2 DEF LimitsInv

(* The inductive invariant: counters cover their grants, room is reserved. *)
THEOREM SpecLimitsInv == Spec => []LimitsInv
<1>1. LimitsInv /\ [Next]_vars => LimitsInv'
  BY StepCountInv, StepCallerRoom, StepKeyRoom DEF LimitsInv, CountInv
<1> QED
  BY InitLimitsInv, <1>1, PTL DEF Spec

(* The grants in a window: those paid for, of which there are no more than *)
(* numbers, and the others. *)
LEMMA NumberedBounded ==
    ASSUME CountInv, NEW c \in Counters, NEW n \in Nat, given[c] <= n
    PROVE  Cardinality(log[c]) <= n + Cardinality(Unpaid(c))
<1> DEFINE Paid == log[c] \ Unpaid(c)
           f(S) == [g \in S |-> g.n]
<1>1. open \in Nat /\ given[c] \in Nat /\ log[c] \subseteq Grants
  BY DEF CountInv, TypeOK
<1>2. \A g \in log[c] : -open < g.n /\ g.n <= given[c] /\ g.n \in Int
  BY <1>1 DEF CountInv, LogNumbered, Grants
<1>3. \A g, h \in log[c] : h.n = g.n => h = g
  BY DEF CountInv, LogNumbered
<1>4. IsFiniteSet(Paid) /\ Cardinality(Paid) <= n
  <2>1. \A g \in Paid : g.n \in 1 .. n
    BY <1>1, <1>2 DEF Unpaid
  <2>2. f(Paid) \in Injection(Paid, 1 .. n)
    <3>1. f(Paid) \in [Paid -> 1 .. n]
      BY <2>1
    <3>2. \A g, h \in Paid : f(Paid)[g] = f(Paid)[h] => g = h
      BY <1>3
    <3> HIDE DEF f, Paid
    <3> QED
      BY <3>1, <3>2, Fun_IsInj
  <2>3. IsFiniteSet(1 .. n) /\ Cardinality(1 .. n) = n
    BY FS_Interval
  <2> HIDE DEF f, Paid
  <2> QED
    BY <2>2, <2>3, FS_Injection
<1>5. IsFiniteSet(Unpaid(c))
  <2> DEFINE numbers == (1 - open) .. 0
  <2>1. \A g \in Unpaid(c) : g.n \in numbers
    BY <1>1, <1>2 DEF Unpaid
  <2>2. f(Unpaid(c)) \in Injection(Unpaid(c), numbers)
    <3>1. f(Unpaid(c)) \in [Unpaid(c) -> numbers]
      BY <2>1
    <3>2. \A g, h \in Unpaid(c) : f(Unpaid(c))[g] = f(Unpaid(c))[h] => g = h
      BY <1>3 DEF Unpaid
    <3> HIDE DEF f, numbers
    <3> QED
      BY <3>1, <3>2, Fun_IsInj
  <2>3. IsFiniteSet(numbers)
    BY <1>1, FS_Interval
  <2> HIDE DEF f, numbers
  <2> QED
    BY <2>2, <2>3, FS_Injection
<1>6. log[c] = Paid \cup Unpaid(c) /\ Paid \cap Unpaid(c) = {}
  BY DEF Unpaid
<1> HIDE DEF Paid
<1>7. Cardinality(log[c]) = Cardinality(Paid) + Cardinality(Unpaid(c))
  <2>1. Cardinality(log[c]) = Cardinality(Paid) + Cardinality(Unpaid(c)) - Cardinality({})
    BY <1>4, <1>5, <1>6, FS_Union
  <2>2. Cardinality({}) = 0 /\ Cardinality(Paid) \in Nat /\ Cardinality(Unpaid(c)) \in Nat
    BY <1>4, <1>5, FS_EmptySet, FS_CardinalityType
  <2> QED
    BY <2>1, <2>2
<1> QED
  BY <1>4, <1>5, <1>7, FS_CardinalityType

(* A caller gets at most max_requests through in any window (redis.py      *)
(* 146-173). *)
THEOREM SpecCallerLimited == Spec => []CallerLimited
<1>1. LimitsInv => CallerLimited
  BY NumberedBounded, LimitAssumption
  DEF LimitsInv, CountInv, CallerLimited, CallerRoom, Counters
<1> QED
  BY SpecLimitsInv, <1>1, PTL

(* A Groq key is used at most RPM_LIMIT_PER_KEY times in a minute, plus    *)
(* once for every other API process (redis.py 269-303). *)
THEOREM SpecKeyLimited == Spec => []KeyLimited
<1>1. ASSUME LimitsInv PROVE KeyLimited
  <2> SUFFICES ASSUME NEW c \in Groq PROVE Cardinality(log[c]) <= KeyLimit + Cardinality(Unpaid(c))
    BY DEF KeyLimited
  <2>1. Charging(c) \subseteq Apis
    BY DEF Charging
  <2>2. Cardinality(Charging(c)) \in Nat /\ Cardinality(Apis) \in Nat \ {0}
    BY <2>1, ChargingCounts
  <2>3. given[c] \in Nat /\ c \in Counters
    BY <1>1, FirstKey DEF LimitsInv, TypeOK
  <2>4. given[c] <= KeyLimit /\ KeyLimit \in Nat
    BY <1>1, <2>2, <2>3, LimitAssumption DEF LimitsInv, KeyRoom, KeyLimit
  <2> QED
    BY <1>1, <2>3, <2>4, NumberedBounded DEF LimitsInv, CountInv
<1> QED
  BY SpecLimitsInv, <1>1, PTL
=============================================================================
