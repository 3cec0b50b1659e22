--------------------------- MODULE GatewayProofs ---------------------------
(***************************************************************************)
(* Theorems about Gateway for any number of requests, providers, models    *)
(* and keys, any aliases and any interleaving: its type invariant, and the *)
(* safety properties of failover.  The invariant they need is the          *)
(* conjunction of TypeOK, Pools (what the key pool holds) and a per-request *)
(* part, Local(r), that ties a request's place in the code to what it has  *)
(* read, tried and answered so far.                                        *)
(*                                                                         *)
(* From that invariant: a failure of a chat request is logged as one,      *)
(* undisturbed retries go down the alias's targets, and round robin        *)
(* spreads concurrent requests evenly over the targets of an alias.  The   *)
(* requests that took a turn can be numbered in the order of their         *)
(* selections; the rest is counting.                                       *)
(***************************************************************************)
EXTENDS Gateway, WellFoundedInduction, FiniteSetTheorems, FunctionTheorems, TLAPS

----------------------------------------------------------------------------
(* The operators the model is built from. *)

LEMMA LeastIndex ==
  ASSUME NEW S, S \subseteq Nat, S # {}
  PROVE  \E i \in S : \A j \in S : i <= j
<1>1. PICK i \in S : \A j \in S : <<j, i>> \notin OpToRel(<, Nat)
  BY WFMin, NatLessThanWellFounded, Zenon
<1>2. \A j \in S : ~(j < i)
  BY <1>1, Zenon DEF OpToRel
<1> QED
  BY <1>2

(* Get hands out no key, or a key of the provider that is not cooling. *)
LEMMA GetReady ==
  ASSUME PoolTypeOK, NEW p \in Provider, Get(p) # NoKey
  PROVE  \E i \in DOMAIN pool[p] : pool[p][i] = [key |-> Get(p), cooling |-> FALSE]
<1>1. pool[p] \in Seq(KeyState)
  BY DEF PoolTypeOK
<1>2. Ready(p) \subseteq Nat /\ Ready(p) # {}
  BY <1>1 DEF Get, Ready
<1>3. PICK i \in Ready(p) : \A j \in Ready(p) : i <= j
  BY <1>2, LeastIndex, Zenon
<1>4. PICK k \in Ready(p) : Get(p) = pool[p][k].key
  BY <1>2, <1>3, Zenon DEF Get
<1>5. k \in DOMAIN pool[p] /\ ~pool[p][k].cooling
  BY <1>1, <1>4 DEF Ready
<1>6. pool[p][k] \in KeyState
  BY <1>1, <1>5
<1> QED
  BY <1>4, <1>5, <1>6 DEF KeyState

LEMMA GetType ==
  ASSUME PoolTypeOK, NEW p \in Provider
  PROVE  Get(p) \in Key \cup {NoKey}
<1>1. CASE Get(p) = NoKey
  BY <1>1
<1>2. CASE Get(p) # NoKey
  <2>1. PICK i \in DOMAIN pool[p] : pool[p][i] = [key |-> Get(p), cooling |-> FALSE]
    BY <1>2, GetReady, Zenon
  <2>2. pool[p][i] \in KeyState
    BY DEF PoolTypeOK
  <2> QED
    BY <2>1, <2>2 DEF KeyState
<1> QED
  BY <1>1, <1>2

(* Marking a key in a key list keeps its length and every key's identity. *)
LEMMA WithCoolingSeq ==
  ASSUME NEW s \in Seq(KeyState), NEW k \in Key, NEW c \in BOOLEAN
  PROVE  /\ WithCooling(s, k, c) \in Seq(KeyState)
         /\ DOMAIN WithCooling(s, k, c) = DOMAIN s
         /\ \A i \in DOMAIN s :
              /\ WithCooling(s, k, c)[i].key = s[i].key
              /\ s[i].key = k => WithCooling(s, k, c)[i].cooling = c
              /\ s[i].key # k => WithCooling(s, k, c)[i] = s[i]
<1> DEFINE w == WithCooling(s, k, c)
<1>1. DOMAIN s = 1 .. Len(s) /\ Len(s) \in Nat /\ \A i \in DOMAIN s : s[i] \in KeyState
  OBVIOUS
<1>2. w = [i \in 1 .. Len(s) |-> IF s[i].key = k THEN [key |-> k, cooling |-> c] ELSE s[i]]
  BY <1>1, Zenon DEF WithCooling
<1>3. \A i \in 1 .. Len(s) : w[i] \in KeyState
  BY <1>1, <1>2 DEF KeyState
<1>4. w \in Seq(KeyState)
  BY <1>1, <1>2, <1>3
<1> QED
  BY <1>1, <1>2, <1>4

LEMMA FreshSeq ==
  ASSUME NEW keys \in Seq(Key)
  PROVE  /\ Fresh(keys) \in Seq(KeyState)
         /\ DOMAIN Fresh(keys) = DOMAIN keys
         /\ \A i \in DOMAIN keys : Fresh(keys)[i].key = keys[i]
<1>1. DOMAIN keys = 1 .. Len(keys) /\ Len(keys) \in Nat /\ \A i \in DOMAIN keys : keys[i] \in Key
  OBVIOUS
<1>2. Fresh(keys) = [i \in 1 .. Len(keys) |-> [key |-> keys[i], cooling |-> FALSE]]
  BY <1>1, Zenon DEF Fresh
<1>3. \A i \in 1 .. Len(keys) : Fresh(keys)[i] \in KeyState
  BY <1>1, <1>2 DEF KeyState
<1> QED
  BY <1>1, <1>2, <1>3

(* Every result an attempt can have has the type of a result. *)
LEMMA ResultsType ==
  ASSUME NEW kind \in Kinds, NEW c \in BOOLEAN, NEW a \in Results(kind, c)
  PROVE  a \in Result
<1>1. \A x \in NoAnswer(c) : x \in Result
  <2>1. res(0, 504, TRUE, FALSE) \in Result /\ res(0, 0, TRUE, FALSE) \in Result
    BY DEF Result, res
  <2> QED
    BY <2>1, Zenon DEF NoAnswer
<1>2. \A x \in BadRequest(kind) : x \in Result
  <2>1. res(0, 400, FALSE, FALSE) \in Result
    BY DEF Result, res
  <2> QED
    BY <2>1, Zenon DEF BadRequest
<1>3. ASSUME NEW s \in Statuses
      PROVE  \A x \in {Received(kind, s)} \cup Cut(kind, s) \cup Untranslatable(kind, s) :
               x \in Result
  <2>1. s \in Nat
    <3>1. Statuses \subseteq 100 .. 999
      BY GatewayAssumption, Zenon
    <3> QED
      BY <3>1
  <2>2. Received(kind, s) \in Result
    <3>1. res(s, 200, FALSE, TRUE) \in Result /\ res(s, s, FALSE, FALSE) \in Result
      BY <2>1 DEF Result, res
    <3> QED
      BY <3>1 DEF Received
  <2>3. \A x \in Cut(kind, s) : x \in Result
    <3>1. res(s, 502, TRUE, TRUE) \in Result /\ res(s, s, TRUE, FALSE) \in Result
      BY <2>1 DEF Result, res
    <3> QED
      BY <3>1, Zenon DEF Cut
  <2>4. \A x \in Untranslatable(kind, s) : x \in Result
    <3>1. res(s, 0, TRUE, FALSE) \in Result
      BY <2>1 DEF Result, res
    <3> QED
      BY <3>1, Zenon DEF Untranslatable
  <2> QED
    BY <2>2, <2>3, <2>4
<1>4. CASE a \in NoAnswer(c)
  BY <1>1, <1>4
<1>5. CASE a \in BadRequest(kind)
  BY <1>2, <1>5
<1>6. CASE a \notin NoAnswer(c) /\ a \notin BadRequest(kind)
  <2>1. PICK s \in Statuses :
          a \in {Received(kind, s)} \cup Cut(kind, s) \cup Untranslatable(kind, s)
    BY <1>6, Zenon DEF Results
  <2> QED
    BY <2>1, <1>3, Zenon
<1> QED
  BY <1>4, <1>5, <1>6

(* What ShouldFailover decides is what the properties call a failed attempt. *)
LEMMA FailoverMeansFailed ==
  ASSUME NEW a \in Result
  PROVE  FailedOver(a) <=> ~a.wrote /\ ShouldFailover(a)
BY DEF FailedOver, ShouldFailover, ClassOf, StatusClass, Result

----------------------------------------------------------------------------
(* The inductive invariant. *)

(* The pool holds the keys of each provider, and no others. *)
Pools ==
  \A p \in Provider : \A j \in DOMAIN pool[p] : pool[p][j].key \in Range(FirstKeys[p])

(* A key that was rate limited or failed, with no cooldown ended and no reload
   since, is cooling down wherever the pool has it. *)
Cooled ==
  \A r \in Req : \A i \in 1 .. Len(tries[r]) :
    ShouldCooldown(tries[r][i].result) /\ tries[r][i].ended = used.release =>
      \A p \in Provider : \A j \in DOMAIN pool[p] :
        pool[p][j].key = tries[r][i].key => pool[p][j].cooling

Resolving ==
  {"idle", "alias", "targets", "stale", "select", "lookup", "lookupTargets", "direct"}

(* Where a request is determines what it holds. *)
Place(r) ==
  /\ reply[r] = NoReply <=> pc[r] # "done"
  /\ pc[r] = "direct" => call[r].directive \in Target
  /\ pc[r] \in Resolving => tries[r] = << >>
  /\ pc[r] \in {"idle", "direct"} => snap[r] = NoAlias
  /\ pc[r] \in {"targets", "stale", "select", "lookupTargets", "next", "pick"} =>
       snap[r] # NoAlias
  /\ pc[r] \in {"lookup", "lookupTargets", "send"} =>
       /\ at[r].target \in Target
       /\ at[r].key \in Range(FirstKeys[at[r].target[1]])
  /\ pc[r] \in {"next", "pick"} => tries[r] # << >>
  /\ pc[r] = "send" /\ snap[r] = NoAlias => tries[r] = << >>

(* Failover remembers every target it sent to, and the next one is new. *)
Covered(r) ==
  /\ snap[r] # NoAlias /\ pc[r] \in {"send", "next", "pick"} =>
       \A i \in 1 .. Len(tries[r]) : tries[r][i].target \in tried[r]
  /\ snap[r] # NoAlias /\ pc[r] = "send" => at[r].target \in tried[r]
  /\ pc[r] = "send" =>
       \A i \in 1 .. Len(tries[r]) : tries[r][i].target # at[r].target

Once(r) ==
  \A i, j \in 1 .. Len(tries[r]) : tries[r][i].target = tries[r][j].target => i = j

Final(r) ==
  \A i \in 1 .. Len(tries[r]) :
    i < Len(tries[r]) \/ reply[r] = NoReply => FailedOver(tries[r][i].result)

Rests(r) ==
  \A i, j \in 1 .. Len(tries[r]) :
    /\ i < j
    /\ tries[r][i].key = tries[r][j].key
    /\ ShouldCooldown(tries[r][i].result)
    => tries[r][i].ended < tries[r][j].since

(* The releases counted so far bound those an attempt has seen, and a key
   about to be used had no failed attempt since the last of them. *)
Era(r) ==
  /\ at[r].era <= used.release
  /\ \A i \in 1 .. Len(tries[r]) : tries[r][i].ended <= used.release
  /\ pc[r] = "send" =>
       \A i \in 1 .. Len(tries[r]) :
         ShouldCooldown(tries[r][i].result) /\ tries[r][i].key = at[r].key =>
           tries[r][i].ended < at[r].era

Local(r) == Place(r) /\ Covered(r) /\ Once(r) /\ Final(r) /\ Rests(r) /\ Era(r)

Inv == TypeOK /\ Pools /\ Cooled /\ \A r \in Req : Local(r)

LEMMA InitInv == Init => Inv
<1> SUFFICES ASSUME Init PROVE Inv
  OBVIOUS
<1>1. \A p \in Provider : FirstKeys[p] \in Seq(Key)
  BY GatewayAssumption
<1>2. PoolTypeOK
  BY <1>1, FreshSeq DEF Init, PoolTypeOK
<1>3. CacheTypeOK
  <2>1. NoCache
    BY DEF Init
  <2>2. entries \in [Provider -> CacheEntry \cup {Absent}]
    BY <2>1 DEF NoCache
  <2>3. soft \in [Provider -> (SUBSET Model) \cup {Absent}]
    BY <2>1 DEF NoCache
  <2> QED
    BY <2>2, <2>3 DEF CacheTypeOK
<1>4. TypeOK
  BY <1>2, <1>3, GatewayAssumption DEF Init, TypeOK, NoUse, PcSet
<1>5. Pools
  BY <1>1, FreshSeq DEF Init, Pools, Range
<1>6. Cooled
  BY DEF Init, Cooled
<1>7. ASSUME NEW r \in Req PROVE Local(r)
  BY <1>4 DEF Init, Local, Place, Covered, Once, Final, Rests, Era, TypeOK, NoUse
<1> QED
  BY <1>4, <1>5, <1>6, <1>7 DEF Inv

(* A request nothing was done to keeps its part of the invariant. *)
LEMMA Frame ==
  ASSUME TypeOK, NEW q \in Req, Local(q),
         UNCHANGED <<pc[q], call[q], snap[q], at[q], tried[q], tries[q], reply[q]>>,
         used'.release \in Nat, used.release <= used'.release
  PROVE  Local(q)'
<1>1. used.release \in Nat /\ at[q].era \in Nat
  BY DEF TypeOK
<1>2. \A i \in 1 .. Len(tries[q]) : tries[q][i].ended \in Nat
  <2>1. tries[q] \in Seq(AttemptRec)
    BY DEF TypeOK
  <2>2. \A i \in 1 .. Len(tries[q]) : tries[q][i] \in AttemptRec
    BY <2>1
  <2> QED
    BY <2>2 DEF AttemptRec
<1>3. Place(q)' /\ Covered(q)' /\ Once(q)' /\ Final(q)' /\ Rests(q)'
  BY DEF Local, Place, Covered, Once, Final, Rests
<1>4. Era(q)'
  BY <1>1, <1>2 DEF Local, Era
<1> QED
  BY <1>3, <1>4 DEF Local

(* A step of request r that leaves the pool, the releases and the attempts
   alone only has to keep its own part. *)
LEMMA Quiet ==
  ASSUME Inv, NEW r \in Req, UNCHANGED <<pool, used, tries>>, TypeOK', Local(r)',
         \A q \in Req \ {r} :
           UNCHANGED <<pc[q], call[q], snap[q], at[q], tried[q], reply[q]>>
  PROVE  Inv'
<1>1. used'.release \in Nat /\ used.release <= used'.release
  BY DEF Inv, TypeOK
<1>2. ASSUME NEW q \in Req, q # r
      PROVE  Local(q)'
  <2>1. TypeOK /\ Local(q)
    BY DEF Inv
  <2>2. UNCHANGED <<pc[q], call[q], snap[q], at[q], tried[q], tries[q], reply[q]>>
    BY <1>2
  <2> QED
    BY <1>1, <2>1, <2>2, Frame
<1>3. Pools' /\ Cooled'
  BY DEF Inv, Pools, Cooled
<1> QED
  BY <1>2, <1>3 DEF Inv

(* Before the first attempt the rest follows from where the request is. *)
LEMMA NoAttemptYet ==
  ASSUME NEW r \in Req, tries'[r] = << >>, Place(r)', at'[r].era <= used'.release,
         pc'[r] = "send" /\ snap'[r] # NoAlias => at'[r].target \in tried'[r]
  PROVE  Local(r)'
BY DEF Local, Covered, Once, Final, Rests, Era

(* Choosing a provider answers the request or fixes a key of that provider. *)
Settled(r, t, label) ==
  \/ /\ pc' = [pc EXCEPT ![r] = "done"]
     /\ at' = at
     /\ \E status \in Nat : reply' = [reply EXCEPT ![r] = status]
  \/ /\ pc' = [pc EXCEPT ![r] = label]
     /\ reply' = reply
     /\ \E k \in Range(FirstKeys[t[1]]) :
          /\ k \in Key
          /\ at' = [at EXCEPT ![r] = [target |-> t, key |-> k, era |-> used.release]]

LEMMA ChosenSettles ==
  ASSUME TypeOK, Pools, NEW r \in Req, NEW t \in Target, NEW label \in PcSet, Chosen(r, t, label)
  PROVE  Settled(r, t, label)
<1>1. t[1] \in Provider
  BY DEF Target
<1>2. CASE Get(t[1]) = NoKey \/ (call[r].kind = "embed" /\ t[1] \notin Embedders)
  <2>1. (Answer(r, 503) \/ Answer(r, 400)) /\ at' = at
    BY <1>2 DEF Chosen
  <2> QED
    BY <2>1 DEF Answer, Goto, Settled
<1>3. CASE Get(t[1]) # NoKey /\ ~(call[r].kind = "embed" /\ t[1] \notin Embedders)
  <2>1. Get(t[1]) \in Key
    BY <1>1, <1>3, GetType DEF TypeOK
  <2>2. Get(t[1]) \in Range(FirstKeys[t[1]])
    <3>1. PICK i \in DOMAIN pool[t[1]] :
            pool[t[1]][i] = [key |-> Get(t[1]), cooling |-> FALSE]
      BY <1>1, <1>3, GetReady DEF TypeOK
    <3>2. pool[t[1]][i].key = Get(t[1])
      BY <3>1
    <3> QED
      BY <1>1, <3>2 DEF Pools
  <2>3. /\ pc' = [pc EXCEPT ![r] = label]
        /\ reply' = reply
        /\ at' = [at EXCEPT ![r] = [target |-> t, key |-> Get(t[1]), era |-> used.release]]
    BY <1>3 DEF Chosen, Goto
  <2> QED
    BY <2>1, <2>2, <2>3 DEF Settled
<1> QED
  BY <1>2, <1>3

LEMMA SettledTypes ==
  ASSUME TypeOK, NEW r \in Req, NEW t \in Target, NEW label \in PcSet, Settled(r, t, label)
  PROVE  /\ pc' \in [Req -> PcSet]
         /\ at' \in [Req -> [target : Target \cup {ViaAlias}, key : Key \cup {NoKey}, era : Nat]]
         /\ reply' \in [Req -> Nat \cup {NoReply}]
         /\ \A q \in Req \ {r} : UNCHANGED <<pc[q], at[q], reply[q]>>
<1>1. used.release \in Nat /\ "done" \in PcSet
  BY DEF TypeOK, PcSet
<1>2. /\ pc \in [Req -> PcSet]
      /\ at \in [Req -> [target : Target \cup {ViaAlias}, key : Key \cup {NoKey}, era : Nat]]
      /\ reply \in [Req -> Nat \cup {NoReply}]
  BY DEF TypeOK
<1>3. CASE /\ pc' = [pc EXCEPT ![r] = "done"]
           /\ at' = at
           /\ \E status \in Nat : reply' = [reply EXCEPT ![r] = status]
  BY <1>1, <1>2, <1>3
<1>4. CASE /\ pc' = [pc EXCEPT ![r] = label]
           /\ reply' = reply
           /\ \E k \in Range(FirstKeys[t[1]]) :
                /\ k \in Key
                /\ at' = [at EXCEPT ![r] = [target |-> t, key |-> k, era |-> used.release]]
  <2>1. PICK k \in Key : at' = [at EXCEPT ![r] = [target |-> t, key |-> k, era |-> used.release]]
    BY <1>4
  <2>2. [target |-> t, key |-> k, era |-> used.release]
          \in [target : Target \cup {ViaAlias}, key : Key \cup {NoKey}, era : Nat]
    BY <1>1
  <2>3. at' \in [Req -> [target : Target \cup {ViaAlias}, key : Key \cup {NoKey}, era : Nat]]
    BY <1>2, <2>1, <2>2, Zenon
  <2> QED
    BY <1>2, <1>4, <2>1, <2>3
<1> QED
  BY <1>3, <1>4 DEF Settled

----------------------------------------------------------------------------
(* The invariant is kept by each step that resolves a request. *)

LEMMA TypesOf ==
  ASSUME Inv, NEW r \in Req
  PROVE  /\ pc[r] \in PcSet /\ call[r] \in Call /\ gone[r] \in BOOLEAN
         /\ tries[r] \in Seq(AttemptRec)
         /\ at[r].era \in Nat /\ at[r].era <= used.release /\ used.release \in Nat
         /\ Place(r)
BY DEF Inv, TypeOK, Local, Era

LEMMA ArriveInv ==
  ASSUME Inv, NEW r \in Req, Arrive(r)
  PROVE  Inv'
<1>1. TypeOK'
  BY DEF Inv, TypeOK, PoolTypeOK, CacheTypeOK, Arrive, Goto, PcSet, poolVars, cacheVars, dbVars, ownVars
<1>2. call[r].directive \in Target \cup {ViaAlias}
  BY TypesOf, GatewayAssumption
<1>3. Place(r)'
  BY <1>2, TypesOf DEF Inv, TypeOK, Arrive, Goto, Place, Resolving, ownVars
<1>4. Local(r)'
  BY <1>3, TypesOf, NoAttemptYet DEF Inv, TypeOK, Arrive, Goto, ownVars, Place, Resolving
<1>5. \A q \in Req \ {r} :
        UNCHANGED <<pc[q], call[q], snap[q], at[q], tried[q], reply[q]>>
  BY DEF Inv, TypeOK, Arrive, Goto, ownVars
<1> QED
  BY <1>1, <1>4, <1>5, Quiet DEF Arrive, poolVars, ownVars

LEMMA ResolveDirectInv ==
  ASSUME Inv, NEW r \in Req, ResolveDirect(r)
  PROVE  Inv'
<1> DEFINE t == call[r].directive
<1>1. /\ t \in Target
      /\ tries[r] = << >>
      /\ snap[r] = NoAlias
      /\ pc[r] = "direct"
  BY TypesOf DEF ResolveDirect, Place, Resolving
<1>2. Settled(r, t, "send") /\ "send" \in PcSet
  <2>1. CASE t[1] \in enabled
    <3>1. Chosen(r, t, "send") /\ "send" \in PcSet
      BY <2>1 DEF ResolveDirect, PcSet
    <3> QED
      BY <1>1, <3>1, ChosenSettles DEF Inv
  <2>2. CASE t[1] \notin enabled
    BY <2>2 DEF ResolveDirect, Answer, Goto, Settled, PcSet
  <2> QED
    BY <2>1, <2>2
<1> HIDE DEF t
<1>3. UNCHANGED <<pool, entries, soft, alias, enabled, rr, call, gone, snap, staleSet,
                  tried, tries, used>>
  BY DEF ResolveDirect, poolVars, cacheVars, dbVars
<1>4. TypeOK'
  BY <1>1, <1>2, <1>3, SettledTypes DEF Inv, TypeOK, PoolTypeOK, CacheTypeOK
<1>5. Place(r)' /\ at'[r].era <= used'.release
  BY <1>1, <1>2, <1>3, TypesOf, GatewayAssumption DEF Settled, Inv, TypeOK, Place, Resolving
<1>6. Local(r)'
  BY <1>1, <1>3, <1>5, NoAttemptYet
<1>7. \A q \in Req \ {r} :
        UNCHANGED <<pc[q], call[q], snap[q], at[q], tried[q], reply[q]>>
  BY <1>1, <1>2, <1>3, SettledTypes DEF Inv
<1> QED
  BY <1>3, <1>4, <1>6, <1>7, Quiet

LEMMA CurrentAlias ==
  ASSUME TypeOK
  PROVE  /\ alias # NoAlias => alias \in AliasType
         /\ CurrentTargets \in Seq(Target)
         /\ StaleNow \subseteq Target
<1>1. alias # NoAlias => alias \in AliasType
  BY GatewayAssumption DEF TypeOK
<1>2. CurrentTargets \in Seq(Target)
  BY <1>1 DEF CurrentTargets, AliasType
<1>3. CASE alias = NoAlias
  BY <1>1, <1>2, <1>3 DEF StaleNow
<1>4. CASE alias # NoAlias
  <2>1. alias.targets \in Seq(Target)
    BY <1>1, <1>4 DEF AliasType
  <2>2. Range(alias.targets) \subseteq Target
    BY <2>1 DEF Range
  <2> QED
    BY <1>1, <1>2, <1>4, <2>2 DEF StaleNow
<1> QED
  BY <1>3, <1>4

(* Reading an alias or its targets stores a well-typed copy. *)
LEMMA SnapType ==
  ASSUME TypeOK, NEW r \in Req,
         \/ alias # NoAlias /\ snap' = [snap EXCEPT ![r] = alias]
         \/ snap' = [snap EXCEPT ![r] = alias]
         \/ snap[r] # NoAlias /\ snap' = [snap EXCEPT ![r].targets = CurrentTargets]
  PROVE  /\ snap' \in [Req -> AliasType \cup {NoAlias}]
         /\ snap[r] # NoAlias /\ snap' = [snap EXCEPT ![r].targets = CurrentTargets] =>
              snap'[r] # NoAlias
<1>1. snap \in [Req -> AliasType \cup {NoAlias}]
  BY DEF TypeOK
<1>2. alias \in AliasType \cup {NoAlias}
  BY CurrentAlias
<1>3. CASE snap[r] # NoAlias /\ snap' = [snap EXCEPT ![r].targets = CurrentTargets]
  <2>1. snap[r] \in AliasType
    BY <1>1, <1>3
  <2>2. [snap[r] EXCEPT !.targets = CurrentTargets] \in AliasType
    BY <2>1, CurrentAlias DEF AliasType
  <2>3. NoAlias \notin AliasType
    BY GatewayAssumption
  <2> QED
    BY <1>1, <1>3, <2>2, <2>3
<1> QED
  BY <1>1, <1>2, <1>3

LEMMA ReadAliasInv ==
  ASSUME Inv, NEW r \in Req, ReadAlias(r)
  PROVE  Inv'
<1>1. /\ UNCHANGED <<pool, entries, soft, alias, enabled, rr, call, gone, staleSet, at,
                     tried, tries, used>>
      /\ tries[r] = << >>
      /\ \/ /\ pc' = [pc EXCEPT ![r] = "done"]
            /\ reply' = [reply EXCEPT ![r] = 404]
            /\ snap' = snap
         \/ /\ alias # NoAlias
            /\ pc' = [pc EXCEPT ![r] = "targets"]
            /\ reply' = reply
            /\ snap' = [snap EXCEPT ![r] = alias]
  BY TypesOf DEF ReadAlias, Answer, Goto, poolVars, cacheVars, dbVars, Place, Resolving
<1>2. TypeOK'
  <2>1. CASE /\ pc' = [pc EXCEPT ![r] = "done"]
             /\ reply' = [reply EXCEPT ![r] = 404]
             /\ snap' = snap
    BY <1>1, <2>1 DEF Inv, TypeOK, PoolTypeOK, CacheTypeOK, PcSet
  <2>2. CASE /\ pc' = [pc EXCEPT ![r] = "targets"]
             /\ reply' = reply
             /\ snap' = [snap EXCEPT ![r] = alias]
    <3>1. snap' \in [Req -> AliasType \cup {NoAlias}]
      BY <2>2, SnapType DEF Inv
    <3> QED
      BY <1>1, <2>2, <3>1 DEF Inv, TypeOK, PoolTypeOK, CacheTypeOK, PcSet
  <2> QED
    BY <1>1, <2>1, <2>2
<1>4. Place(r)'
  <2>1. pc'[r] = "done" <=> reply'[r] # NoReply
    BY <1>1, TypesOf, GatewayAssumption DEF Inv, TypeOK, Place, ReadAlias
  <2>2. pc'[r] = "targets" => snap'[r] # NoAlias
    BY <1>1 DEF Inv, TypeOK
  <2>3. pc'[r] \in {"done", "targets"}
    BY <1>1 DEF Inv, TypeOK
  <2> QED
    BY <1>1, <2>1, <2>2, <2>3 DEF Place, Resolving
<1>5. Local(r)'
  BY <1>1, <1>4, TypesOf, NoAttemptYet DEF Inv, TypeOK
<1>6. \A q \in Req \ {r} :
        UNCHANGED <<pc[q], call[q], snap[q], at[q], tried[q], reply[q]>>
  BY <1>1 DEF Inv, TypeOK
<1> QED
  BY <1>1, <1>2, <1>5, <1>6, Quiet

LEMMA ReadTargetsInv ==
  ASSUME Inv, NEW r \in Req, ReadTargets(r)
  PROVE  Inv'
<1>1. /\ UNCHANGED <<pool, entries, soft, alias, enabled, rr, call, gone, staleSet, at,
                     tried, tries, reply, used>>
      /\ tries[r] = << >>
      /\ snap[r] # NoAlias
      /\ pc[r] = "targets"
      /\ pc' = [pc EXCEPT ![r] = "stale"]
      /\ snap' = [snap EXCEPT ![r].targets = CurrentTargets]
  BY TypesOf DEF ReadTargets, Goto, poolVars, cacheVars, dbVars, Place, Resolving
<1>2. snap' \in [Req -> AliasType \cup {NoAlias}] /\ snap'[r] # NoAlias
  BY <1>1, SnapType DEF Inv
<1>3. TypeOK'
  BY <1>1, <1>2 DEF Inv, TypeOK, PoolTypeOK, CacheTypeOK, PcSet
<1>4. Place(r)'
  BY <1>1, <1>2, TypesOf DEF Inv, TypeOK, Place, Resolving
<1>5. Local(r)'
  BY <1>1, <1>4, TypesOf, NoAttemptYet DEF Inv, TypeOK
<1>6. \A q \in Req \ {r} :
        UNCHANGED <<pc[q], call[q], snap[q], at[q], tried[q], reply[q]>>
  BY <1>1 DEF Inv, TypeOK
<1> QED
  BY <1>1, <1>3, <1>5, <1>6, Quiet

LEMMA ReadStaleInv ==
  ASSUME Inv, NEW r \in Req, ReadStale(r)
  PROVE  Inv'
<1>1. /\ UNCHANGED <<pool, entries, soft, alias, enabled, rr, call, gone, snap, at,
                     tried, tries, reply, used>>
      /\ tries[r] = << >>
      /\ pc[r] = "stale"
      /\ pc' = [pc EXCEPT ![r] = "select"]
      /\ staleSet' = [staleSet EXCEPT ![r] = StaleNow]
  BY TypesOf DEF ReadStale, Goto, poolVars, cacheVars, dbVars, Place, Resolving
<1>2. TypeOK'
  BY <1>1, CurrentAlias DEF Inv, TypeOK, PoolTypeOK, CacheTypeOK, PcSet
<1>3. Place(r)'
  BY <1>1, TypesOf DEF Inv, TypeOK, Place, Resolving
<1>4. Local(r)'
  BY <1>1, <1>3, TypesOf, NoAttemptYet DEF Inv, TypeOK
<1>5. \A q \in Req \ {r} :
        UNCHANGED <<pc[q], call[q], snap[q], at[q], tried[q], reply[q]>>
  BY <1>1 DEF Inv, TypeOK
<1> QED
  BY <1>1, <1>2, <1>4, <1>5, Quiet

LEMMA SelectTargetInv ==
  ASSUME Inv, NEW r \in Req, SelectTarget(r)
  PROVE  Inv'
<1>1. /\ UNCHANGED <<pool, entries, soft, alias, enabled, call, gone, snap, staleSet,
                     tried, tries, used>>
      /\ tries[r] = << >>
      /\ pc[r] = "select"
      /\ snap[r] \in AliasType
  BY TypesOf DEF SelectTarget, poolVars, cacheVars, dbVars, Place, Resolving, Inv, TypeOK
<1>2. rr' \in Nat
  BY DEF SelectTarget, Rotate, Inv, TypeOK
<1>3. CASE Active(r) = {}
  <2>1. /\ pc' = [pc EXCEPT ![r] = "done"]
        /\ reply' = [reply EXCEPT ![r] = 503]
        /\ at' = at
    BY <1>3 DEF SelectTarget, Answer, Goto
  <2>2. TypeOK'
    <3>1. pc' \in [Req -> PcSet] /\ reply' \in [Req -> Nat \cup {NoReply}]
      BY <2>1 DEF Inv, TypeOK, PcSet
    <3> QED
      BY <1>1, <1>2, <2>1, <3>1 DEF Inv, TypeOK, PoolTypeOK, CacheTypeOK
  <2>3. Place(r)'
    BY <1>1, <2>1, TypesOf, GatewayAssumption DEF Inv, TypeOK, Place, Resolving
  <2>4. Local(r)'
    BY <1>1, <2>1, <2>3, TypesOf, NoAttemptYet DEF Inv, TypeOK
  <2>5. \A q \in Req \ {r} :
          UNCHANGED <<pc[q], call[q], snap[q], at[q], tried[q], reply[q]>>
    BY <1>1, <2>1 DEF Inv, TypeOK
  <2> QED
    BY <1>1, <2>2, <2>4, <2>5, Quiet
<1>4. CASE Active(r) # {}
  <2>1. PICK i \in Selectable(r) : Chosen(r, snap[r].targets[i], "lookup")
    BY <1>4 DEF SelectTarget
  <2>2. PICK t \in Target : t = snap[r].targets[i]
    BY <1>1, <2>1 DEF Selectable, Active, AliasType
  <2>3. Settled(r, t, "lookup") /\ "lookup" \in PcSet
    <3>1. "lookup" \in PcSet
      BY DEF PcSet
    <3> QED
      BY <2>1, <2>2, <3>1, ChosenSettles DEF Inv
  <2>4. TypeOK'
    BY <1>1, <1>2, <2>3, SettledTypes DEF Inv, TypeOK, PoolTypeOK, CacheTypeOK
  <2>5. Place(r)' /\ at'[r].era <= used'.release
    BY <1>1, <2>3, TypesOf, GatewayAssumption DEF Settled, Inv, TypeOK, Place, Resolving
  <2>6. pc'[r] # "send"
    BY <2>3, TypesOf DEF Settled, Inv, TypeOK
  <2>7. Local(r)'
    BY <1>1, <2>5, <2>6, NoAttemptYet
  <2>8. \A q \in Req \ {r} :
          UNCHANGED <<pc[q], call[q], snap[q], at[q], tried[q], reply[q]>>
    BY <1>1, <2>3, SettledTypes DEF Inv
  <2> QED
    BY <1>1, <2>4, <2>7, <2>8, Quiet
<1> QED
  BY <1>3, <1>4

LEMMA LookupAliasInv ==
  ASSUME Inv, NEW r \in Req, LookupAlias(r)
  PROVE  Inv'
<1>1. /\ UNCHANGED <<pool, entries, soft, alias, enabled, rr, call, gone, staleSet, at,
                     tried, tries, reply, used>>
      /\ tries[r] = << >>
      /\ pc[r] = "lookup"
      /\ pc' = [pc EXCEPT ![r] = IF alias = NoAlias THEN "send" ELSE "lookupTargets"]
      /\ snap' = [snap EXCEPT ![r] = alias]
  BY TypesOf DEF LookupAlias, Goto, poolVars, cacheVars, dbVars, Place, Resolving
<1>2. snap' \in [Req -> AliasType \cup {NoAlias}]
  BY <1>1, SnapType DEF Inv
<1>3. TypeOK'
  BY <1>1, <1>2 DEF Inv, TypeOK, PoolTypeOK, CacheTypeOK, PcSet
<1>4. Place(r)'
  BY <1>1, TypesOf DEF Inv, TypeOK, Place, Resolving
<1>5. Local(r)'
  BY <1>1, <1>4, TypesOf, NoAttemptYet DEF Inv, TypeOK
<1>6. \A q \in Req \ {r} :
        UNCHANGED <<pc[q], call[q], snap[q], at[q], tried[q], reply[q]>>
  BY <1>1 DEF Inv, TypeOK
<1> QED
  BY <1>1, <1>3, <1>5, <1>6, Quiet

LEMMA LookupTargetsInv ==
  ASSUME Inv, NEW r \in Req, LookupTargets(r)
  PROVE  Inv'
<1>1. /\ UNCHANGED <<pool, entries, soft, alias, enabled, rr, call, gone, staleSet, at,
                     tries, reply, used>>
      /\ tries[r] = << >>
      /\ snap[r] # NoAlias
      /\ at[r].target \in Target
      /\ pc[r] = "lookupTargets"
      /\ pc' = [pc EXCEPT ![r] = "send"]
      /\ tried' = [tried EXCEPT ![r] = {at[r].target}]
      /\ snap' = [snap EXCEPT ![r].targets = CurrentTargets]
  BY TypesOf DEF LookupTargets, Goto, poolVars, cacheVars, dbVars, Place, Resolving
<1>2. snap' \in [Req -> AliasType \cup {NoAlias}] /\ snap'[r] # NoAlias
  BY <1>1, SnapType DEF Inv
<1>3. TypeOK'
  BY <1>1, <1>2 DEF Inv, TypeOK, PoolTypeOK, CacheTypeOK, PcSet
<1>4. Place(r)'
  BY <1>1, <1>2, TypesOf DEF Inv, TypeOK, Place, Resolving
<1>5. Local(r)'
  BY <1>1, <1>4, TypesOf, NoAttemptYet DEF Inv, TypeOK
<1>6. \A q \in Req \ {r} :
        UNCHANGED <<pc[q], call[q], snap[q], at[q], tried[q], reply[q]>>
  BY <1>1 DEF Inv, TypeOK
<1> QED
  BY <1>1, <1>3, <1>5, <1>6, Quiet

----------------------------------------------------------------------------
(* The invariant is kept by attempts and failover. *)

(* Starting or ending a cooldown changes only the entries of that key. *)
Marked(p, k, c) ==
  \A q \in Provider :
    /\ DOMAIN pool'[q] = DOMAIN pool[q]
    /\ \A j \in DOMAIN pool[q] :
         /\ pool'[q][j].key = pool[q][j].key
         /\ IF q = p /\ pool[q][j].key = k
            THEN pool'[q][j].cooling = c
            ELSE pool'[q][j] = pool[q][j]

LEMMA PoolMarked ==
  ASSUME PoolTypeOK, NEW p \in Provider, NEW k \in Key, NEW c \in BOOLEAN,
         pool' = [pool EXCEPT ![p] = WithCooling(pool[p], k, c)]
  PROVE  PoolTypeOK' /\ Marked(p, k, c)
<1>1. pool[p] \in Seq(KeyState)
  BY DEF PoolTypeOK
<1>2. /\ WithCooling(pool[p], k, c) \in Seq(KeyState)
      /\ DOMAIN WithCooling(pool[p], k, c) = DOMAIN pool[p]
      /\ \A i \in DOMAIN pool[p] :
           /\ WithCooling(pool[p], k, c)[i].key = pool[p][i].key
           /\ pool[p][i].key = k => WithCooling(pool[p], k, c)[i].cooling = c
           /\ pool[p][i].key # k => WithCooling(pool[p], k, c)[i] = pool[p][i]
  BY <1>1, WithCoolingSeq
<1>3. PoolTypeOK'
  BY <1>2 DEF PoolTypeOK
<1>4. pool'[p] = WithCooling(pool[p], k, c) /\ \A q \in Provider \ {p} : pool'[q] = pool[q]
  BY DEF PoolTypeOK
<1> QED
  BY <1>2, <1>3, <1>4 DEF Marked

(* A cooldown that starts keeps what is known about the others. *)
LEMMA CooldownStarts ==
  ASSUME TypeOK, Pools, Cooled, NEW p \in Provider, NEW k \in Range(FirstKeys[p]),
         MarkCooldown(p, k)
  PROVE  /\ PoolTypeOK' /\ Pools'
         /\ \A q \in Provider : \A j \in DOMAIN pool'[q] :
              /\ j \in DOMAIN pool[q]
              /\ pool'[q][j].key = pool[q][j].key
              /\ pool[q][j].cooling => pool'[q][j].cooling
              /\ pool'[q][j].key = k => pool'[q][j].cooling
<1>1. k \in Key
  BY GatewayAssumption DEF Range
<1>2. PoolTypeOK' /\ Marked(p, k, TRUE)
  <2>1. /\ PoolTypeOK
        /\ pool' = [pool EXCEPT ![p] = WithCooling(pool[p], k, TRUE)]
        /\ TRUE \in BOOLEAN
    BY DEF TypeOK, MarkCooldown
  <2> QED
    BY <1>1, <2>1, PoolMarked, Zenon
<1>3. \A q \in Provider : \A j \in DOMAIN pool[q] : pool[q][j].key = k => q = p
  BY GatewayAssumption DEF Pools
<1> QED
  BY <1>2, <1>3 DEF Pools, Marked

LEMMA UpstreamEffect ==
  ASSUME Inv, NEW r \in Req, Upstream(r)
  PROVE  \E a \in Result :
           /\ tries' = [tries EXCEPT ![r] = Append(@, Attempt(r, a))]
           /\ IF ShouldCooldown(a) THEN MarkCooldown(at[r].target[1], at[r].key) ELSE pool' = pool
           /\ \/ /\ pc' = [pc EXCEPT ![r] = "done"]
                 /\ \E status \in Nat : reply' = [reply EXCEPT ![r] = status]
                 /\ UNCHANGED cacheVars
                 /\ snap[r] # NoAlias => ~FailedOver(a)
              \/ /\ snap[r] # NoAlias
                 /\ FailedOver(a)
                 /\ pc' = [pc EXCEPT ![r] = "next"]
                 /\ reply' = reply
                 /\ MarkRuntimeStale(at[r].target[1], at[r].target[2]) \/ UNCHANGED cacheVars
<1>1. call[r].kind \in Kinds /\ gone[r] \in BOOLEAN
  BY TypesOf, GatewayAssumption
<1>2. PICK a \in Results(call[r].kind, gone[r]) :
        /\ tries' = [tries EXCEPT ![r] = Append(@, Attempt(r, a))]
        /\ IF ShouldCooldown(a) THEN MarkCooldown(at[r].target[1], at[r].key) ELSE UNCHANGED pool
        /\ IF snap[r] = NoAlias
           THEN Answer(r, SingleReply(a)) /\ UNCHANGED cacheVars
           ELSE IF LastAttempt(a)
           THEN Answer(r, FinalReply(call[r].kind, a)) /\ UNCHANGED cacheVars
           ELSE /\ Goto(r, "next")
                /\ UNCHANGED reply
                /\ IF ShouldSoftStale(a)
                   THEN MarkRuntimeStale(at[r].target[1], at[r].target[2])
                   ELSE UNCHANGED cacheVars
  BY Zenon DEF Upstream
<1>3. a \in Result
  BY <1>1, ResultsType
<1>4. SingleReply(a) \in Nat /\ FinalReply(call[r].kind, a) \in Nat
  BY <1>3 DEF SingleReply, FinalReply, Result
<1>5. FailedOver(a) <=> ~a.wrote /\ ShouldFailover(a)
  BY <1>3, FailoverMeansFailed
<1> QED
  BY <1>2, <1>3, <1>4, <1>5 DEF Answer, Goto, LastAttempt

LEMMA UpstreamInv ==
  ASSUME Inv, NEW r \in Req, Upstream(r)
  PROVE  Inv'
<1>1. /\ UNCHANGED <<alias, enabled, rr, call, gone, snap, staleSet, at, tried, used>>
      /\ pc[r] = "send"
  BY DEF Upstream, dbVars
<1>2. PICK a \in Result :
        /\ tries' = [tries EXCEPT ![r] = Append(@, Attempt(r, a))]
        /\ IF ShouldCooldown(a) THEN MarkCooldown(at[r].target[1], at[r].key) ELSE pool' = pool
        /\ \/ /\ pc' = [pc EXCEPT ![r] = "done"]
              /\ \E status \in Nat : reply' = [reply EXCEPT ![r] = status]
              /\ UNCHANGED cacheVars
              /\ snap[r] # NoAlias => ~FailedOver(a)
           \/ /\ snap[r] # NoAlias
              /\ FailedOver(a)
              /\ pc' = [pc EXCEPT ![r] = "next"]
              /\ reply' = reply
              /\ MarkRuntimeStale(at[r].target[1], at[r].target[2]) \/ UNCHANGED cacheVars
  BY UpstreamEffect
<1> DEFINE att == Attempt(r, a)
           n   == Len(tries[r])
<1>3. /\ at[r].target \in Target
      /\ at[r].target[1] \in Provider
      /\ at[r].target[2] \in Model
      /\ at[r].key \in Range(FirstKeys[at[r].target[1]])
      /\ at[r].key \in Key
      /\ reply[r] = NoReply
  <2>1. /\ at[r].target \in Target
        /\ at[r].key \in Range(FirstKeys[at[r].target[1]])
        /\ reply[r] = NoReply
    BY <1>1, TypesOf DEF Place
  <2>2. at[r].target[1] \in Provider /\ at[r].target[2] \in Model
    BY <2>1 DEF Target
  <2> QED
    BY <2>1, <2>2, GatewayAssumption DEF Range
<1>4. /\ att.target = at[r].target /\ att.key = at[r].key /\ att.since = at[r].era
      /\ att.ended = used.release /\ att.result = a
  BY DEF Attempt
<1>5. att \in AttemptRec
  BY <1>3, TypesOf DEF Attempt, AttemptRec
<1>6. /\ n \in Nat
      /\ tries' \in [Req -> Seq(AttemptRec)]
      /\ tries'[r] = Append(tries[r], att)
      /\ \A q \in Req \ {r} : tries'[q] = tries[q]
  BY <1>2, <1>5 DEF Inv, TypeOK
<1>7. /\ Len(tries'[r]) = n + 1
      /\ tries'[r][n + 1] = att
      /\ \A i \in 1 .. n : tries'[r][i] = tries[r][i]
      /\ tries'[r] # << >>
      /\ \A i \in 1 .. Len(tries'[r]) : i = n + 1 \/ (i \in 1 .. n /\ tries'[r][i] = tries[r][i])
  <2>1. tries[r] \in Seq(AttemptRec)
    BY TypesOf
  <2> HIDE DEF att
  <2> QED
    BY <1>5, <1>6, <2>1
<1> HIDE DEF att
<1>8. /\ pc'[r] \in {"done", "next"}
      /\ pc'[r] = "done" <=> reply'[r] # NoReply
      /\ pc'[r] = "next" => snap[r] # NoAlias /\ FailedOver(a)
  BY <1>2, <1>3, GatewayAssumption DEF Inv, TypeOK
<1>9. /\ PoolTypeOK' /\ Pools'
      /\ \A q \in Provider : \A j \in DOMAIN pool'[q] :
           /\ j \in DOMAIN pool[q]
           /\ pool'[q][j].key = pool[q][j].key
           /\ pool[q][j].cooling => pool'[q][j].cooling
           /\ ShouldCooldown(a) /\ pool'[q][j].key = at[r].key => pool'[q][j].cooling
  <2>1. CASE ShouldCooldown(a)
    BY <1>2, <1>3, <2>1, CooldownStarts DEF Inv
  <2>2. CASE ~ShouldCooldown(a)
    BY <1>2, <2>2 DEF Inv, TypeOK, PoolTypeOK, Pools
  <2> QED
    BY <2>1, <2>2
<1>10. TypeOK'
  <2>1. CacheTypeOK'
    <3>1. CASE UNCHANGED cacheVars
      BY <3>1 DEF Inv, TypeOK, CacheTypeOK, cacheVars
    <3>2. CASE MarkRuntimeStale(at[r].target[1], at[r].target[2])
      <4>1. soft \in [Provider -> (SUBSET Model) \cup {Absent}]
        BY DEF Inv, TypeOK, CacheTypeOK
      <4>2. soft' \in [Provider -> (SUBSET Model) \cup {Absent}]
        BY <1>3, <3>2, <4>1 DEF MarkRuntimeStale
      <4> QED
        BY <3>2, <4>2 DEF Inv, TypeOK, CacheTypeOK, MarkRuntimeStale
    <3> QED
      BY <1>2, <3>1, <3>2
  <2>2. pc' \in [Req -> PcSet] /\ reply' \in [Req -> Nat \cup {NoReply}]
    BY <1>2 DEF Inv, TypeOK, PcSet
  <2> QED
    BY <1>1, <1>6, <1>9, <2>1, <2>2 DEF Inv, TypeOK
<1>11. Local(r)'
  <2>1. Local(r)
    BY DEF Inv
  <2>2. Place(r)'
    BY <1>1, <1>7, <1>8 DEF Place, Resolving
  <2>3. Covered(r)'
    <3>1. snap[r] # NoAlias =>
            /\ at[r].target \in tried[r]
            /\ \A i \in 1 .. n : tries[r][i].target \in tried[r]
      BY <1>1, <2>1 DEF Local, Covered
    <3>2. snap'[r] # NoAlias =>
            \A i \in 1 .. Len(tries'[r]) : tries'[r][i].target \in tried'[r]
      BY <1>1, <1>4, <1>7, <3>1
    <3> QED
      BY <1>8, <3>2 DEF Covered
  <2>4. Once(r)'
    BY <1>1, <1>4, <1>6, <1>7, <2>1 DEF Local, Covered, Once
  <2>5. Final(r)'
    BY <1>3, <1>4, <1>6, <1>7, <1>8, <2>1 DEF Local, Final
  <2>6. Rests(r)'
    <3> SUFFICES ASSUME NEW i \in 1 .. Len(tries'[r]), NEW j \in 1 .. Len(tries'[r]), i < j,
                        tries'[r][i].key = tries'[r][j].key,
                        ShouldCooldown(tries'[r][i].result)
                 PROVE  tries'[r][i].ended < tries'[r][j].since
      BY DEF Rests
    <3>1. i \in 1 .. n /\ tries'[r][i] = tries[r][i]
      BY <1>6, <1>7
    <3>2. CASE j = n + 1
      BY <1>1, <1>4, <1>7, <2>1, <3>1, <3>2 DEF Local, Era
    <3>3. CASE j # n + 1
      BY <1>7, <2>1, <3>1, <3>3 DEF Local, Rests
    <3> QED
      BY <3>2, <3>3
  <2>7. Era(r)'
    BY <1>1, <1>4, <1>6, <1>7, <1>8, <2>1, TypesOf DEF Local, Era
  <2> QED
    BY <2>2, <2>3, <2>4, <2>5, <2>6, <2>7 DEF Local
<1>12. ASSUME NEW q \in Req, q # r
       PROVE  Local(q)'
  <2>1. UNCHANGED <<pc[q], call[q], snap[q], at[q], tried[q], tries[q], reply[q]>>
    BY <1>1, <1>2, <1>6, <1>12 DEF Inv, TypeOK
  <2>2. used'.release \in Nat /\ used.release <= used'.release
    BY <1>1, TypesOf
  <2> QED
    BY <2>1, <2>2, Frame DEF Inv
<1>13. Cooled'
  <2> SUFFICES ASSUME NEW q \in Req, NEW i \in 1 .. Len(tries'[q]),
                      ShouldCooldown(tries'[q][i].result), tries'[q][i].ended = used'.release,
                      NEW p \in Provider, NEW j \in DOMAIN pool'[p],
                      pool'[p][j].key = tries'[q][i].key
               PROVE  pool'[p][j].cooling
    BY DEF Cooled
  <2>1. CASE q = r /\ i = n + 1
    BY <1>4, <1>7, <1>9, <2>1
  <2>2. CASE ~(q = r /\ i = n + 1)
    <3>1. i \in 1 .. Len(tries[q]) /\ tries'[q][i] = tries[q][i]
      BY <1>6, <1>7, <2>2
    <3> QED
      BY <1>1, <1>9, <3>1 DEF Inv, Cooled
  <2> QED
    BY <2>1, <2>2
<1> QED
  BY <1>9, <1>10, <1>11, <1>12, <1>13 DEF Inv

LEMMA NextFailoverStaleInv ==
  ASSUME Inv, NEW r \in Req, NextFailoverStale(r)
  PROVE  Inv'
<1>1. /\ UNCHANGED <<pool, entries, soft, alias, enabled, rr, call, gone, snap, at,
                     tried, tries, reply, used>>
      /\ pc[r] = "next"
      /\ pc' = [pc EXCEPT ![r] = "pick"]
      /\ staleSet' = [staleSet EXCEPT ![r] = StaleNow]
  BY DEF NextFailoverStale, Goto, poolVars, cacheVars, dbVars
<1>2. TypeOK'
  BY <1>1, CurrentAlias DEF Inv, TypeOK, PoolTypeOK, CacheTypeOK, PcSet
<1>3. pc'[r] = "pick"
  BY <1>1 DEF Inv, TypeOK
<1>4. Local(r)'
  <2>1. Local(r)
    BY DEF Inv
  <2>2. Place(r)'
    BY <1>1, <1>3, <2>1 DEF Local, Place, Resolving
  <2>3. Covered(r)' /\ Once(r)' /\ Final(r)' /\ Rests(r)' /\ Era(r)'
    BY <1>1, <1>3, <2>1 DEF Local, Covered, Once, Final, Rests, Era
  <2> QED
    BY <2>2, <2>3 DEF Local
<1>5. \A q \in Req \ {r} :
        UNCHANGED <<pc[q], call[q], snap[q], at[q], tried[q], reply[q]>>
  BY <1>1 DEF Inv, TypeOK
<1> QED
  BY <1>1, <1>2, <1>4, <1>5, Quiet

LEMMA AttemptTypes ==
  ASSUME Inv, NEW r \in Req, NEW i \in 1 .. Len(tries[r])
  PROVE  /\ tries[r][i].ended \in Nat /\ tries[r][i].result \in Result
         /\ tries[r][i].target \in Target
<1>1. tries[r] \in Seq(AttemptRec)
  BY TypesOf
<1>2. tries[r][i] \in AttemptRec
  BY <1>1
<1> QED
  BY <1>2 DEF AttemptRec

LEMMA LastResultType ==
  ASSUME Inv, NEW r \in Req, tries[r] # << >>
  PROVE  LastResult(r) \in Result
<1>1. tries[r] \in Seq(AttemptRec)
  BY TypesOf
<1>2. Len(tries[r]) \in 1 .. Len(tries[r])
  BY <1>1
<1> QED
  BY <1>2, AttemptTypes DEF LastResult

(* The next target is one of the alias's that was not tried. *)
LEMMA NextIsUntried ==
  ASSUME TypeOK, NEW r \in Req, snap[r] # NoAlias, Candidates(r) # {}
  PROVE  NextTarget(r) \in Target \ tried[r]
<1>1. snap[r].targets \in Seq(Target)
  BY DEF TypeOK, AliasType
<1>2. Candidates(r) \subseteq Nat
  BY <1>1 DEF Candidates
<1>3. \E i \in Candidates(r) : \A j \in Candidates(r) : i <= j
  BY <1>2, LeastIndex
<1>4. PICK i \in Candidates(r) : NextTarget(r) = snap[r].targets[i]
  BY <1>3, Zenon DEF NextTarget
<1> QED
  BY <1>1, <1>4 DEF Candidates

LEMMA PickTargetInv ==
  ASSUME Inv, NEW r \in Req, PickTarget(r)
  PROVE  Inv'
<1>1. /\ UNCHANGED <<pool, entries, soft, alias, enabled, rr, call, gone, snap, staleSet,
                     tries, used>>
      /\ pc[r] = "pick"
      /\ snap[r] # NoAlias
      /\ tries[r] # << >>
      /\ Local(r)
  BY TypesOf DEF PickTarget, poolVars, cacheVars, dbVars, Place, Inv
<1>2. CASE Candidates(r) = {}
  <2>1. PICK status \in Nat : /\ reply' = [reply EXCEPT ![r] = status]
                              /\ pc' = [pc EXCEPT ![r] = "done"]
                              /\ UNCHANGED <<tried, at>>
    <3>1. LastResult(r) \in Result
      BY <1>1, LastResultType
    <3>2. FinalReply(call[r].kind, LastResult(r)) \in Nat
      BY <3>1 DEF FinalReply, Result
    <3> QED
      BY <1>2, <3>2 DEF PickTarget, Answer, Goto
  <2>2. TypeOK'
    <3>1. pc' \in [Req -> PcSet] /\ reply' \in [Req -> Nat \cup {NoReply}]
      BY <2>1 DEF Inv, TypeOK, PcSet
    <3> QED
      BY <1>1, <2>1, <3>1 DEF Inv, TypeOK, PoolTypeOK, CacheTypeOK
  <2>3. pc'[r] = "done" /\ reply'[r] # NoReply
    BY <2>1, GatewayAssumption DEF Inv, TypeOK
  <2>4. Place(r)'
    BY <2>3 DEF Place, Resolving
  <2>5. Covered(r)' /\ Once(r)' /\ Final(r)' /\ Rests(r)' /\ Era(r)'
    BY <1>1, <2>1, <2>3, TypesOf DEF Local, Place, Covered, Once, Final, Rests, Era
  <2>6. \A q \in Req \ {r} :
          UNCHANGED <<pc[q], call[q], snap[q], at[q], tried[q], reply[q]>>
    BY <1>1, <2>1 DEF Inv, TypeOK
  <2> QED
    BY <1>1, <2>2, <2>4, <2>5, <2>6, Quiet DEF Local
<1>3. CASE Candidates(r) # {}
  <2>1. PICK t \in Target \ tried[r], usable \in BOOLEAN :
          /\ usable => Get(t[1]) # NoKey
          /\ tried' = [tried EXCEPT ![r] = @ \cup {t}]
          /\ reply' = reply
          /\ IF usable
             THEN /\ at' = [at EXCEPT ![r] =
                              [target |-> t, key |-> Get(t[1]), era |-> used.release]]
                  /\ pc' = [pc EXCEPT ![r] = "send"]
             ELSE /\ pc' = [pc EXCEPT ![r] = "next"]
                  /\ at' = at
    <3>1. NextTarget(r) \in Target \ tried[r]
      BY <1>1, <1>3, NextIsUntried DEF Inv
    <3> DEFINE t == NextTarget(r)
               u == /\ call[r].kind = "embed" => t[1] \in Embedders
                    /\ Get(t[1]) # NoKey
    <3>2. u \in BOOLEAN
      OBVIOUS
    <3>3. /\ u => Get(t[1]) # NoKey
          /\ tried' = [tried EXCEPT ![r] = @ \cup {t}]
          /\ reply' = reply
          /\ IF u
             THEN /\ at' = [at EXCEPT ![r] =
                              [target |-> t, key |-> Get(t[1]), era |-> used.release]]
                  /\ pc' = [pc EXCEPT ![r] = "send"]
             ELSE /\ pc' = [pc EXCEPT ![r] = "next"]
                  /\ at' = at
      BY <1>3, Zenon DEF PickTarget, TriedNow, Goto
    <3> HIDE DEF u, t
    <3> QED
      BY <3>1, <3>2, <3>3, Zenon DEF t
  <2>2. t[1] \in Provider /\ pc'[r] = (IF usable THEN "send" ELSE "next")
    BY <2>1 DEF Target, Inv, TypeOK
  <2>3. usable => Get(t[1]) \in Key /\ Get(t[1]) \in Range(FirstKeys[t[1]])
    <3> SUFFICES ASSUME usable PROVE Get(t[1]) \in Key /\ Get(t[1]) \in Range(FirstKeys[t[1]])
      OBVIOUS
    <3>1. PICK j \in DOMAIN pool[t[1]] : pool[t[1]][j] = [key |-> Get(t[1]), cooling |-> FALSE]
      BY <2>1, <2>2, GetReady DEF Inv, TypeOK
    <3>2. pool[t[1]][j].key = Get(t[1])
      BY <3>1
    <3>3. Get(t[1]) \in Key
      BY <2>1, <2>2, GetType DEF Inv, TypeOK
    <3> QED
      BY <2>2, <3>2, <3>3 DEF Inv, Pools
  <2>4. TypeOK'
    <3>1. pc' \in [Req -> PcSet] /\ tried' \in [Req -> SUBSET Target]
      BY <2>1 DEF Inv, TypeOK, PcSet
    <3>2. at' \in [Req -> [target : Target \cup {ViaAlias}, key : Key \cup {NoKey}, era : Nat]]
      <4>1. at \in [Req -> [target : Target \cup {ViaAlias}, key : Key \cup {NoKey}, era : Nat]]
        BY DEF Inv, TypeOK
      <4>2. usable => [target |-> t, key |-> Get(t[1]), era |-> used.release]
                        \in [target : Target \cup {ViaAlias}, key : Key \cup {NoKey}, era : Nat]
        BY <2>1, <2>3, TypesOf
      <4> QED
        BY <2>1, <4>1, <4>2, Zenon
    <3> QED
      BY <1>1, <2>1, <3>1, <3>2 DEF Inv, TypeOK, PoolTypeOK, CacheTypeOK
  <2>5. /\ tried'[r] = tried[r] \cup {t}
        /\ usable => at'[r].target = t /\ at'[r].key = Get(t[1]) /\ at'[r].era = used.release
        /\ ~usable => at'[r] = at[r]
    BY <2>1 DEF Inv, TypeOK
  <2>6. Place(r)'
    BY <1>1, <2>1, <2>2, <2>3, <2>5 DEF Local, Place, Resolving
  <2>7. Covered(r)'
    <3>1. \A i \in 1 .. Len(tries[r]) : tries[r][i].target \in tried[r]
      BY <1>1 DEF Local, Covered
    <3> QED
      BY <1>1, <2>1, <2>2, <2>5, <3>1 DEF Covered
  <2>8. Once(r)' /\ Final(r)' /\ Rests(r)'
    BY <1>1, <2>1 DEF Local, Once, Final, Rests
  <2>9. Era(r)'
    <3>1. /\ used'.release = used.release
          /\ at'[r].era <= used.release
          /\ \A i \in 1 .. Len(tries[r]) : tries[r][i].ended <= used.release
      BY <1>1, <2>5, TypesOf DEF Local, Era
    <3>2. ASSUME usable, NEW i \in 1 .. Len(tries[r]),
                 ShouldCooldown(tries[r][i].result), tries[r][i].key = Get(t[1])
          PROVE  tries[r][i].ended < used.release
      <4>1. PICK j \in DOMAIN pool[t[1]] : pool[t[1]][j] = [key |-> Get(t[1]), cooling |-> FALSE]
        BY <2>1, <2>2, <3>2, GetReady DEF Inv, TypeOK
      <4>2. pool[t[1]][j].key = Get(t[1]) /\ ~pool[t[1]][j].cooling
        BY <4>1
      <4>3. tries[r][i].ended # used.release
        BY <2>2, <3>2, <4>2 DEF Inv, Cooled
      <4>4. tries[r][i].ended \in Nat /\ used.release \in Nat
        BY <3>2, AttemptTypes, TypesOf
      <4> QED
        BY <3>1, <4>3, <4>4
    <3> QED
      BY <1>1, <2>2, <2>5, <3>1, <3>2 DEF Era
  <2>10. \A q \in Req \ {r} :
           UNCHANGED <<pc[q], call[q], snap[q], at[q], tried[q], reply[q]>>
    BY <1>1, <2>1 DEF Inv, TypeOK
  <2> QED
    BY <1>1, <2>4, <2>6, <2>7, <2>8, <2>9, <2>10, Quiet DEF Local
<1> QED
  BY <1>2, <1>3

----------------------------------------------------------------------------
(* The invariant is kept by what happens around the requests. *)

(* A step of the environment keeps each request's part as long as it leaves
   the requests alone and only adds releases. *)
LEMMA Around ==
  ASSUME Inv, UNCHANGED <<pc, ownVars>>, used'.release \in Nat, used.release <= used'.release
  PROVE  \A r \in Req : Local(r)'
<1> SUFFICES ASSUME NEW r \in Req PROVE Local(r)'
  OBVIOUS
<1>1. UNCHANGED <<pc[r], call[r], snap[r], at[r], tried[r], tries[r], reply[r]>>
  BY DEF ownVars
<1> QED
  BY <1>1, Frame DEF Inv

LEMMA Spent ==
  ASSUME TypeOK, NEW what \in {"admin", "refresh", "release", "cancel"}, NEW bound \in Nat,
         Spend(what, bound)
  PROVE  /\ used' \in [{"admin", "refresh", "release", "cancel"} -> Nat]
         /\ used.release \in Nat
         /\ used'.release = IF what = "release" THEN used.release + 1 ELSE used.release
BY DEF TypeOK, Spend

LEMMA CancelInv ==
  ASSUME Inv, NEW r \in Req, Cancel(r)
  PROVE  Inv'
<1>1. /\ UNCHANGED <<pool, entries, soft, alias, enabled, rr, pc, call, snap, staleSet, at,
                     tried, tries, reply>>
      /\ Spend("cancel", MaxEvents)
      /\ gone' = [gone EXCEPT ![r] = TRUE]
  BY DEF Cancel, poolVars, cacheVars, dbVars
<1>2. /\ used' \in [{"admin", "refresh", "release", "cancel"} -> Nat]
      /\ used.release \in Nat
      /\ used'.release = used.release
  BY <1>1, Spent, GatewayAssumption DEF Inv
<1>3. TypeOK'
  BY <1>1, <1>2 DEF Inv, TypeOK, PoolTypeOK, CacheTypeOK
<1>4. ASSUME NEW q \in Req PROVE Local(q)'
  <2>1. UNCHANGED <<pc[q], call[q], snap[q], at[q], tried[q], tries[q], reply[q]>>
    BY <1>1
  <2> QED
    BY <1>2, <2>1, Frame DEF Inv
<1>5. Pools' /\ Cooled'
  BY <1>1, <1>2 DEF Inv, Pools, Cooled
<1> QED
  BY <1>3, <1>4, <1>5 DEF Inv

(* The admin's changes and a refresh touch neither requests nor the pool. *)
LEMMA ConfigInv ==
  ASSUME Inv,
         \/ \E row \in AliasRow : UpdateAlias(row)
         \/ DeleteAlias
         \/ \E p \in Provider : ToggleProvider(p)
         \/ \E p \in Provider, models \in Offers : RefreshSucceeds(p, models)
  PROVE  Inv'
<1>1. UNCHANGED <<pool, rr, pc, ownVars>>
  BY DEF UpdateAlias, DeleteAlias, ToggleProvider, RefreshSucceeds, poolVars
<1>2. /\ used' \in [{"admin", "refresh", "release", "cancel"} -> Nat]
      /\ used.release \in Nat
      /\ used'.release = used.release
  <2>1. Spend("admin", MaxAdmin) \/ Spend("refresh", MaxRefresh)
    BY DEF UpdateAlias, DeleteAlias, ToggleProvider, RefreshSucceeds
  <2> QED
    BY <2>1, Spent, GatewayAssumption DEF Inv
<1>3. alias' \in AliasRow \cup {NoAlias} /\ enabled' \in SUBSET Provider
  BY DEF UpdateAlias, DeleteAlias, ToggleProvider, RefreshSucceeds, dbVars, Inv, TypeOK
<1>4. CacheTypeOK'
  <2>1. CASE \E p \in Provider, models \in Offers : RefreshSucceeds(p, models)
    <3>1. PICK p \in Provider, models \in Offers : Publish(p, models)
      BY <2>1 DEF RefreshSucceeds
    <3>2. models \in SUBSET Model
      BY GatewayAssumption
    <3>3. entries' \in [Provider -> CacheEntry \cup {Absent}]
      BY <3>1, <3>2 DEF Publish, Inv, TypeOK, CacheTypeOK, CacheEntry
    <3>4. soft' \in [Provider -> (SUBSET Model) \cup {Absent}]
      BY <3>1 DEF Publish, Inv, TypeOK, CacheTypeOK
    <3> QED
      BY <3>3, <3>4 DEF CacheTypeOK
  <2>2. CASE ~\E p \in Provider, models \in Offers : RefreshSucceeds(p, models)
    BY <2>2 DEF UpdateAlias, DeleteAlias, ToggleProvider, cacheVars, Inv, TypeOK, CacheTypeOK
  <2> QED
    BY <2>1, <2>2
<1>5. TypeOK'
  BY <1>1, <1>2, <1>3, <1>4 DEF Inv, TypeOK, PoolTypeOK, ownVars
<1>6. \A r \in Req : Local(r)'
  BY <1>1, <1>2, Around
<1>7. Pools' /\ Cooled'
  BY <1>1, <1>2 DEF Inv, Pools, Cooled, ownVars
<1> QED
  BY <1>5, <1>6, <1>7 DEF Inv

(* After a release no attempt is recent enough to need its cooldown. *)
LEMMA ReleaseInv ==
  ASSUME Inv, Spend("release", MaxRelease), UNCHANGED <<cacheVars, dbVars, rr, pc, ownVars>>,
         PoolTypeOK', Pools'
  PROVE  Inv'
<1>1. /\ used' \in [{"admin", "refresh", "release", "cancel"} -> Nat]
      /\ used.release \in Nat
      /\ used'.release = used.release + 1
  BY Spent, GatewayAssumption DEF Inv
<1>2. TypeOK'
  BY <1>1 DEF Inv, TypeOK, CacheTypeOK, cacheVars, dbVars, ownVars
<1>3. \A r \in Req : Local(r)'
  BY <1>1, Around
<1>4. Cooled'
  <2>1. \A r \in Req : \A i \in 1 .. Len(tries[r]) :
          tries[r][i].ended \in Nat /\ tries[r][i].ended <= used.release
    BY AttemptTypes DEF Inv, Local, Era
  <2>2. \A r \in Req : \A i \in 1 .. Len(tries[r]) : tries[r][i].ended # used'.release
    BY <1>1, <2>1
  <2> QED
    BY <2>2 DEF Cooled, ownVars
<1> QED
  BY <1>2, <1>3, <1>4 DEF Inv

LEMMA KeyRestsInv ==
  ASSUME Inv, NEW p \in Provider, NEW k \in Key, KeyRests(p, k)
  PROVE  Inv'
<1>1. /\ PoolTypeOK
      /\ pool' = [pool EXCEPT ![p] = WithCooling(pool[p], k, FALSE)]
      /\ FALSE \in BOOLEAN
  BY DEF KeyRests, CooldownEnds, Inv, TypeOK
<1>2. PoolTypeOK' /\ Marked(p, k, FALSE)
  BY <1>1, PoolMarked, Zenon
<1>3. Pools'
  BY <1>2 DEF Inv, Pools, Marked
<1> QED
  BY <1>2, <1>3, ReleaseInv DEF KeyRests

LEMMA ReloadPoolInv ==
  ASSUME Inv, ReloadPool
  PROVE  Inv'
<1>1. \A p \in Provider : FirstKeys[p] \in Seq(Key)
  BY GatewayAssumption
<1>2. pool' = [p \in Provider |-> Fresh(FirstKeys[p])]
  BY DEF ReloadPool
<1>3. PoolTypeOK'
  BY <1>1, <1>2, FreshSeq DEF PoolTypeOK
<1>4. Pools'
  BY <1>1, <1>2, FreshSeq DEF Pools, Range
<1> QED
  BY <1>3, <1>4, ReleaseInv DEF ReloadPool

LEMMA NextInv == Inv /\ [Next]_vars => Inv'
<1> SUFFICES ASSUME Inv, [Next]_vars PROVE Inv'
  OBVIOUS
<1>1. ASSUME NEW r \in Req, Handle(r)
      PROVE  Inv'
  BY <1>1, ResolveDirectInv, ReadAliasInv, ReadTargetsInv, ReadStaleInv, SelectTargetInv,
     LookupAliasInv, LookupTargetsInv, UpstreamInv, NextFailoverStaleInv, PickTargetInv
     DEF Handle
<1>2. CASE Environment
  BY <1>2, ArriveInv, CancelInv, ConfigInv, KeyRestsInv, ReloadPoolInv DEF Environment
<1>3. CASE UNCHANGED vars
  <2>1. UNCHANGED <<pc, ownVars, used, pool>>
    BY <1>3 DEF vars, ownVars
  <2>2. \A r \in Req : Local(r)'
    <3>1. used.release \in Nat
      BY DEF Inv, TypeOK
    <3>2. UNCHANGED <<pc, ownVars>> /\ used'.release \in Nat /\ used.release <= used'.release
      BY <2>1, <3>1
    <3> QED
      BY <3>2, Around
  <2>3. TypeOK'
    BY <1>3 DEF vars, Inv, TypeOK, PoolTypeOK, CacheTypeOK
  <2> QED
    BY <2>1, <2>2, <2>3 DEF Inv, Pools, Cooled, ownVars
<1> QED
  BY <1>1, <1>2, <1>3 DEF Next, AllAnswered

----------------------------------------------------------------------------
(* The theorems. *)

THEOREM Invariant == Spec => []Inv
BY InitInv, NextInv, PTL DEF Spec

(* Every variable keeps its type (the state of routing.go, proxy.go,
   keypool.go and discovery.go as the model keeps it). *)
THEOREM TypeCorrect == Spec => []TypeOK
<1>1. Inv => TypeOK
  BY DEF Inv
<1> QED
  BY <1>1, Invariant, PTL

(* No request is ever sent twice to the same target (proxy.go:243-300). *)
THEOREM TargetsAreTriedOnce == Spec => []EachTargetOnce
<1>1. Inv => EachTargetOnce
  BY DEF Inv, Local, Once, EachTargetOnce
<1> QED
  BY <1>1, Invariant, PTL

(* Failover leaves only attempts that failed recoverably and wrote nothing
   (proxy.go:270-279, 329-337). *)
THEOREM FinalAnswersAreFinal == Spec => []NothingAfterFinal
<1>1. Inv => NothingAfterFinal
  BY DEF Inv, Local, Final, NothingAfterFinal
<1> QED
  BY <1>1, Invariant, PTL

(* A key that was rate limited or failed is not used again by the request
   while it cools down (proxy.go:157-159, keypool.go:56-90). *)
THEOREM CooledKeysRest == Spec => []CooledKeyRests
<1>1. Inv => CooledKeyRests
  BY DEF Inv, Local, Rests, CooledKeyRests
<1> QED
  BY <1>1, Invariant, PTL

(* A recoverable failure reaches the client only when no target of the alias
   is left to try (proxy.go:293-298, embeddings.go:118-123): only PickTarget
   answers with one, and only when it has no candidate. *)
THEOREM FailureMeansExhausted == Spec => GivesUpOnlyWhenExhausted
<1> DEFINE GivesUp(r) ==
      /\ reply[r] = NoReply
      /\ reply'[r] # NoReply
      /\ snap[r] # NoAlias
      /\ tries'[r] # << >>
      /\ FailedOver(tries'[r][Len(tries'[r])].result)
    Exhausted(r) ==
      \A t \in Range(snap[r].targets) : t \in tried[r] \cup staleSet[r] \/ t[1] \notin enabled
<1>1. ASSUME Inv, [Next]_vars, NEW r \in Req, GivesUp(r)
      PROVE  Exhausted(r)
  <2>1. ASSUME NEW q \in Req, Upstream(q)
        PROVE  FALSE
    <3>1. PICK a \in Result :
            /\ tries' = [tries EXCEPT ![q] = Append(@, Attempt(q, a))]
            /\ \/ /\ \E status \in Nat : reply' = [reply EXCEPT ![q] = status]
                  /\ snap[q] # NoAlias => ~FailedOver(a)
               \/ reply' = reply
      BY <1>1, <2>1, UpstreamEffect
    <3>2. q = r /\ ~FailedOver(a)
      BY <1>1, <3>1 DEF Inv, TypeOK
    <3>3. tries[r] \in Seq(AttemptRec) /\ tries'[r] = Append(tries[r], Attempt(r, a))
      BY <1>1, <3>1, <3>2 DEF Inv, TypeOK
    <3>4. tries'[r][Len(tries'[r])].result = a
      BY <3>3 DEF Attempt
    <3> QED
      BY <1>1, <3>2, <3>4
  <2>2. ASSUME NEW q \in Req, PickTarget(q)
        PROVE  Exhausted(r)
    <3>1. q = r /\ Candidates(r) = {}
      BY <1>1, <2>2 DEF PickTarget, Answer, Inv, TypeOK
    <3>2. snap[r].targets \in Seq(Target)
      BY <1>1 DEF Inv, TypeOK, AliasType
    <3> QED
      BY <3>1, <3>2 DEF Candidates, Range
  <2>3. ASSUME NEW q \in Req,
               \/ ResolveDirect(q) \/ ReadAlias(q) \/ ReadTargets(q) \/ ReadStale(q)
               \/ SelectTarget(q) \/ LookupAlias(q) \/ LookupTargets(q) \/ NextFailoverStale(q)
        PROVE  FALSE
    <3>1. tries' = tries /\ \A p \in Req \ {q} : reply'[p] = reply[p]
      BY <1>1, <2>3 DEF ResolveDirect, ReadAlias, ReadTargets, ReadStale, SelectTarget, LookupAlias,
         LookupTargets, NextFailoverStale, Chosen, Answer, Inv, TypeOK
    <3>2. q = r
      BY <1>1, <3>1
    <3>3. pc[r] \in Resolving \/ reply' = reply
      BY <2>3, <3>2 DEF ResolveDirect, ReadAlias, ReadTargets, ReadStale, SelectTarget, LookupAlias,
         LookupTargets, NextFailoverStale, Resolving
    <3>4. tries[r] = << >>
      BY <1>1, <3>3, TypesOf DEF Place
    <3> QED
      BY <1>1, <3>1, <3>4
  <2>4. CASE Environment \/ UNCHANGED vars
    BY <1>1, <2>4 DEF Environment, Arrive, Cancel, UpdateAlias, DeleteAlias, ToggleProvider,
       RefreshSucceeds, KeyRests, ReloadPool, ownVars, vars
  <2> QED
    BY <1>1, <2>1, <2>2, <2>3, <2>4 DEF Next, Handle, AllAnswered
<1>2. Inv /\ [Next]_vars => [\A r \in Req : GivesUp(r) => Exhausted(r)]_vars
  BY <1>1
<1> QED
  BY <1>2, Invariant, PTL DEF Spec, GivesUpOnlyWhenExhausted

----------------------------------------------------------------------------
(* Outcomes, and retries down the targets. *)

(* The steps before the first attempt. *)
Resolves(r) ==
  \/ ResolveDirect(r) \/ ReadAlias(r) \/ ReadTargets(r) \/ ReadStale(r)
  \/ SelectTarget(r) \/ LookupAlias(r) \/ LookupTargets(r)

LEMMA HandleIs ==
  ASSUME NEW r \in Req, Handle(r)
  PROVE  Resolves(r) \/ Upstream(r) \/ NextFailoverStale(r) \/ PickTarget(r)
BY DEF Handle, Resolves

LEMMA ResolvesFirst ==
  ASSUME Inv, NEW r \in Req, Resolves(r)
  PROVE  tries[r] = << >> /\ tries' = tries
<1>1. pc[r] \in Resolving /\ tries' = tries
  BY DEF Resolves, ResolveDirect, ReadAlias, ReadTargets, ReadStale, SelectTarget,
     LookupAlias, LookupTargets, Resolving
<1> QED
  BY <1>1, TypesOf DEF Place

(* A step of another request, or around the requests, leaves a request where
   it is, unless it arrives. *)
Untouched(r) ==
  /\ UNCHANGED <<call[r], snap[r], staleSet[r], at[r], tried[r], tries[r], reply[r]>>
  /\ \/ pc'[r] = pc[r]
     \/ pc[r] = "idle" /\ pc'[r] = IF call[r].directive = ViaAlias THEN "alias" ELSE "direct"

LEMMA OthersKeep ==
  ASSUME Inv, [Next]_vars, NEW r \in Req, ~ Handle(r)
  PROVE  Untouched(r)
<1>1. /\ DOMAIN pc = Req /\ DOMAIN snap = Req /\ DOMAIN staleSet = Req
      /\ DOMAIN at = Req /\ DOMAIN tried = Req /\ DOMAIN tries = Req
      /\ DOMAIN reply = Req
  BY DEF Inv, TypeOK
<1>2. ASSUME NEW q \in Req, q # r, Resolves(q)
      PROVE  Untouched(r)
  <2>1. CASE ResolveDirect(q)
    BY <1>1, <1>2, <2>1 DEF ResolveDirect, Chosen, Answer, Goto, Untouched
  <2>2. CASE ReadAlias(q) \/ ReadTargets(q) \/ ReadStale(q)
    BY <1>1, <1>2, <2>2 DEF ReadAlias, ReadTargets, ReadStale, Answer, Goto, Untouched
  <2>3. CASE SelectTarget(q)
    BY <1>1, <1>2, <2>3 DEF SelectTarget, Chosen, Answer, Goto, Untouched
  <2>4. CASE LookupAlias(q) \/ LookupTargets(q)
    BY <1>1, <1>2, <2>4 DEF LookupAlias, LookupTargets, Goto, Untouched
  <2> QED
    BY <1>2, <2>1, <2>2, <2>3, <2>4 DEF Resolves
<1>3. ASSUME NEW q \in Req, q # r, Upstream(q)
      PROVE  Untouched(r)
  <2>1. UNCHANGED <<call, snap, staleSet, at, tried>>
    BY <1>3 DEF Upstream
  <2>2. PICK a \in Result :
          /\ tries' = [tries EXCEPT ![q] = Append(@, Attempt(q, a))]
          /\ \/ /\ pc' = [pc EXCEPT ![q] = "done"]
                /\ \E status \in Nat : reply' = [reply EXCEPT ![q] = status]
             \/ /\ pc' = [pc EXCEPT ![q] = "next"]
                /\ reply' = reply
    BY <1>3, UpstreamEffect
  <2> QED
    BY <1>1, <1>3, <2>1, <2>2 DEF Untouched
<1>4. ASSUME NEW q \in Req, q # r, NextFailoverStale(q)
      PROVE  Untouched(r)
  BY <1>1, <1>4 DEF NextFailoverStale, Goto, Untouched
<1>5. ASSUME NEW q \in Req, q # r, PickTarget(q)
      PROVE  Untouched(r)
  BY <1>1, <1>5 DEF PickTarget, TriedNow, Answer, Goto, Untouched
<1>6. CASE \E q \in Req : Arrive(q)
  BY <1>1, <1>6 DEF Arrive, Goto, ownVars, Untouched
<1>7. CASE \E q \in Req : Cancel(q)
  BY <1>7 DEF Cancel, Untouched
<1>8. CASE UNCHANGED <<pc, ownVars>>
  BY <1>8 DEF ownVars, Untouched
<1>9. CASE /\ Environment
           /\ ~ \E q \in Req : Arrive(q)
           /\ ~ \E q \in Req : Cancel(q)
  BY <1>8, <1>9 DEF Environment, UpdateAlias, DeleteAlias, ToggleProvider,
     RefreshSucceeds, KeyRests, ReloadPool
<1>10. CASE UNCHANGED vars
  BY <1>8, <1>10 DEF vars, ownVars
<1> QED
  BY <1>2, <1>3, <1>4, <1>5, <1>6, <1>7, <1>9, <1>10, HandleIs DEF Next, AllAnswered

----------------------------------------------------------------------------
(* What is answered, and what is logged of it. *)

(* After an attempt, the answer is made of the last result. *)
Replied(r) ==
  pc[r] = "done" /\ tries[r] # << >> =>
    reply[r] = IF snap[r] = NoAlias THEN SingleReply(LastResult(r))
               ELSE FinalReply(call[r].kind, LastResult(r))

LEMMA UpstreamReplies ==
  ASSUME Inv, NEW r \in Req, Upstream(r)
  PROVE  Replied(r)'
<1>1. PICK a \in Results(call[r].kind, gone[r]) :
        /\ tries' = [tries EXCEPT ![r] = Append(@, Attempt(r, a))]
        /\ IF snap[r] = NoAlias THEN Answer(r, SingleReply(a))
           ELSE IF LastAttempt(a)
           THEN Answer(r, FinalReply(call[r].kind, a))
           ELSE Goto(r, "next")
  BY Zenon DEF Upstream
<1>2. UNCHANGED <<snap, call>>
  BY DEF Upstream
<1>3. tries'[r] = Append(tries[r], Attempt(r, a)) /\ tries[r] \in Seq(AttemptRec)
  BY <1>1 DEF Inv, TypeOK
<1>4. LastResult(r)' = a
  <2>1. tries'[r][Len(tries'[r])] = Attempt(r, a)
    BY <1>3
  <2> QED
    BY <2>1 DEF LastResult, Attempt
<1>5. DOMAIN reply = Req /\ DOMAIN pc = Req
  BY DEF Inv, TypeOK
<1>6. pc'[r] = "done" =>
        reply'[r] = IF snap[r] = NoAlias THEN SingleReply(a)
                    ELSE FinalReply(call[r].kind, a)
  BY <1>1, <1>5 DEF Answer, Goto
<1> QED
  BY <1>2, <1>4, <1>6 DEF Replied, SingleReply, FinalReply

LEMMA PickReplies ==
  ASSUME Inv, NEW r \in Req, PickTarget(r)
  PROVE  Replied(r)'
<1>1. UNCHANGED <<snap, call, tries>> /\ snap[r] # NoAlias
  BY TypesOf DEF PickTarget, Place
<1>2. DOMAIN reply = Req /\ DOMAIN pc = Req
  BY DEF Inv, TypeOK
<1>3. pc'[r] = "done" => reply'[r] = FinalReply(call[r].kind, LastResult(r))
  BY <1>2 DEF PickTarget, Answer, Goto
<1>4. LastResult(r)' = LastResult(r)
  BY <1>1 DEF LastResult
<1> QED
  BY <1>1, <1>3, <1>4 DEF Replied, FinalReply

LEMMA RepliedKept ==
  ASSUME Inv, [Next]_vars, NEW r \in Req, Replied(r)
  PROVE  Replied(r)'
<1>1. CASE ~ Handle(r)
  <2>1. Untouched(r)
    BY <1>1, OthersKeep
  <2>2. LastResult(r)' = LastResult(r)
    BY <2>1 DEF Untouched, LastResult
  <2> QED
    BY <2>1, <2>2 DEF Untouched, Replied, SingleReply, FinalReply
<1>2. CASE Resolves(r)
  BY <1>2, ResolvesFirst DEF Replied
<1>3. CASE NextFailoverStale(r)
  BY <1>3 DEF NextFailoverStale, Goto, Replied, Inv, TypeOK
<1> QED
  BY <1>1, <1>2, <1>3, UpstreamReplies, PickReplies, HandleIs

LEMMA LoggedAsFailure ==
  ASSUME Inv, NEW r \in Req, Replied(r), call[r].kind # "embed"
  PROVE  FailureLogged(r)
<1> SUFFICES ASSUME reply[r] \notin {NoReply, 0},
                    \/ reply[r] >= 400
                    \/ tries[r] # << >> /\ LastResult(r).wrote /\ LastResult(r).err
             PROVE  Logged(r) >= 400
  BY DEF FailureLogged
<1>1. CASE tries[r] = << >>
  BY <1>1 DEF Logged
<1>2. CASE tries[r] # << >>
  <2> DEFINE a == LastResult(r)
  <2>1. a \in Result
    BY <1>2, LastResultType
  <2>2. pc[r] = "done"
    BY TypesOf DEF Place
  <2>3. reply[r] = IF snap[r] = NoAlias THEN SingleReply(a)
                   ELSE FinalReply(call[r].kind, a)
    BY <1>2, <2>2 DEF Replied
  <2>4. Logged(r) = IF snap[r] = NoAlias /\ a.err /\ ~a.wrote THEN 502
                    ELSE IF ClassOf(a) # "none" /\ ResultStatus(a) > 0
                    THEN ResultStatus(a) ELSE reply[r]
    BY <1>2 DEF Logged
  <2>5. reply[r] >= 400 \/ (a.wrote /\ a.err)
    BY <1>2
  <2> HIDE DEF a
  <2>6. /\ a.err \in BOOLEAN /\ a.wrote \in BOOLEAN /\ a.status \in Nat
    BY <2>1 DEF Result
  <2>7. CASE a.wrote /\ a.err
    BY <2>4, <2>6, <2>7 DEF ClassOf, ResultStatus
  <2>8. CASE ~a.wrote /\ snap[r] = NoAlias
    BY <2>3, <2>4, <2>5, <2>6, <2>8 DEF SingleReply, ResultStatus
  <2>9. CASE ~a.wrote /\ snap[r] # NoAlias
    BY <2>3, <2>4, <2>5, <2>6, <2>9 DEF FinalReply, ResultStatus
  <2>10. CASE a.wrote /\ ~a.err
    BY <2>3, <2>5, <2>10 DEF SingleReply, FinalReply
  <2> QED
    BY <2>6, <2>7, <2>8, <2>9, <2>10
<1> QED
  BY <1>1, <1>2

(* When the client of a chat request got an error, or its stream was cut, the
   log has an error status too (access_log.go:85-91, outcome.go:160-222). *)
THEOREM FailuresAreLogged == Spec => []ChatFailureLogged
<1> DEFINE AllReplied == \A r \in Req : Replied(r)
<1>1. Init => AllReplied
  BY DEF Init, Replied
<1>2. Inv /\ [Next]_vars /\ AllReplied => AllReplied'
  BY RepliedKept
<1>3. Inv /\ AllReplied => ChatFailureLogged
  BY LoggedAsFailure DEF ChatFailureLogged
<1> HIDE DEF AllReplied
<1> QED
  BY <1>1, <1>2, <1>3, Invariant, PTL DEF Spec

----------------------------------------------------------------------------
(* The order of the retries. *)

(* Nobody edited the configuration and no refresh succeeded, so far. *)
Calm == used.admin = 0 /\ used.refresh = 0

(* Until then all providers are enabled, no provider was ever listed, and
   what a request saw stale still is. *)
Undisturbed ==
  Calm =>
    /\ enabled = Provider
    /\ \A p \in Provider : entries[p] = Absent
    /\ \A r \in Req : staleSet[r] \subseteq StaleNow

LEMMA CalmBefore ==
  ASSUME Inv, [Next]_vars, Calm'
  PROVE  /\ Calm
         /\ UNCHANGED <<alias, enabled>>
         /\ UNCHANGED cacheVars \/ \E t \in Target : MarkRuntimeStale(t[1], t[2])
<1>1. used \in [{"admin", "refresh", "release", "cancel"} -> Nat]
  BY DEF Inv, TypeOK
<1>2. ASSUME NEW q \in Req, Resolves(q) \/ NextFailoverStale(q) \/ PickTarget(q)
      PROVE  UNCHANGED <<alias, enabled, used>> /\ UNCHANGED cacheVars
  BY <1>2 DEF Resolves, ResolveDirect, ReadAlias, ReadTargets, ReadStale, SelectTarget,
     LookupAlias, LookupTargets, NextFailoverStale, PickTarget, dbVars
<1>3. ASSUME NEW q \in Req, Upstream(q)
      PROVE  /\ UNCHANGED <<alias, enabled, used>>
             /\ UNCHANGED cacheVars \/ \E t \in Target : MarkRuntimeStale(t[1], t[2])
  <2>1. UNCHANGED <<alias, enabled, used>> /\ at[q].target \in Target
    BY <1>3, TypesOf DEF Upstream, dbVars, Place
  <2> QED
    BY <1>3, <2>1, UpstreamEffect
<1>4. CASE \E q \in Req : Arrive(q)
  BY <1>4 DEF Arrive, dbVars, Calm
<1>5. CASE \E q \in Req : Cancel(q)
  BY <1>1, <1>5 DEF Cancel, Spend, dbVars, Calm
<1>6. CASE \/ \E row \in AliasRow : UpdateAlias(row)
           \/ DeleteAlias
           \/ \E p \in Provider : ToggleProvider(p)
  <2>1. Spend("admin", MaxAdmin)
    BY <1>6 DEF UpdateAlias, DeleteAlias, ToggleProvider
  <2> QED
    BY <1>1, <2>1 DEF Spend, Calm
<1>7. CASE \E p \in Provider, models \in Offers : RefreshSucceeds(p, models)
  BY <1>1, <1>7 DEF RefreshSucceeds, Spend, Calm
<1>8. CASE ReloadPool \/ \E p \in Provider, k \in Key : KeyRests(p, k)
  BY <1>1, <1>8 DEF ReloadPool, KeyRests, Spend, dbVars, Calm
<1>9. CASE UNCHANGED vars
  BY <1>9 DEF vars, cacheVars, Calm
<1> QED
  BY <1>2, <1>3, <1>4, <1>5, <1>6, <1>7, <1>8, <1>9, HandleIs
     DEF Next, AllAnswered, Environment, Calm

(* Marks only add to what is stale. *)
LEMMA StaleGrows ==
  ASSUME Inv, [Next]_vars, Calm', Undisturbed
  PROVE  StaleNow \subseteq StaleNow'
<1>1. /\ Calm /\ UNCHANGED <<alias, enabled>>
      /\ UNCHANGED cacheVars \/ \E t \in Target : MarkRuntimeStale(t[1], t[2])
  BY CalmBefore
<1>2. CASE UNCHANGED cacheVars
  BY <1>1, <1>2 DEF cacheVars, StaleNow, Stale, Judged, Offered, Discovered
<1>3. CASE \E t \in Target : MarkRuntimeStale(t[1], t[2])
  <2>1. PICK p \in Provider, m \in Model : MarkRuntimeStale(p, m)
    BY <1>3 DEF Target
  <2>2. \A q \in Provider : entries[q] = Absent /\ entries'[q] = Absent
    BY <1>1, <2>1 DEF Undisturbed, MarkRuntimeStale
  <2>3. ASSUME NEW q \in Provider, soft[q] # Absent
        PROVE  soft'[q] # Absent
    <3>1. soft \in [Provider -> (SUBSET Model) \cup {Absent}]
      BY DEF Inv, TypeOK, CacheTypeOK
    <3>2. soft'[q] = soft[q] \/ soft'[q] \in SUBSET Model
      BY <2>1, <2>3, <3>1 DEF MarkRuntimeStale
    <3> QED
      BY <2>3, <3>2, AbsentAssumption
  <2>4. ASSUME NEW t \in Target, Stale(t[1], t[2])
        PROVE  Stale(t[1], t[2])'
    <3>1. t[1] \in Provider
      BY DEF Target
    <3> QED
      BY <2>2, <2>3, <2>4, <3>1 DEF Stale, Judged, Offered, Discovered
  <2>5. alias # NoAlias => Range(alias.targets) \subseteq Target
    <3>1. alias # NoAlias => alias.targets \in Seq(Target)
      BY CurrentAlias DEF Inv, AliasType
    <3> QED
      BY <3>1 DEF Range
  <2> QED
    BY <1>1, <2>4, <2>5 DEF StaleNow
<1> QED
  BY <1>1, <1>2, <1>3

LEMMA UndisturbedKept ==
  ASSUME Inv, [Next]_vars, Undisturbed
  PROVE  Undisturbed'
<1> SUFFICES ASSUME Calm'
             PROVE  /\ enabled' = Provider
                    /\ \A p \in Provider : entries'[p] = Absent
                    /\ \A r \in Req : staleSet'[r] \subseteq StaleNow'
  BY DEF Undisturbed
<1>1. /\ Calm /\ UNCHANGED <<alias, enabled>>
      /\ UNCHANGED cacheVars \/ \E t \in Target : MarkRuntimeStale(t[1], t[2])
  BY CalmBefore
<1>2. entries' = entries
  BY <1>1 DEF cacheVars, MarkRuntimeStale
<1>3. StaleNow \subseteq StaleNow'
  BY StaleGrows
<1>4. ASSUME NEW r \in Req
      PROVE  staleSet'[r] \subseteq StaleNow
  <2>1. staleSet[r] \subseteq StaleNow
    BY <1>1 DEF Undisturbed
  <2>2. CASE ~ Handle(r)
    BY <2>1, <2>2, OthersKeep DEF Untouched
  <2>3. CASE ReadStale(r) \/ NextFailoverStale(r)
    BY <2>3 DEF ReadStale, NextFailoverStale, Inv, TypeOK
  <2>4. CASE Handle(r) /\ ~ReadStale(r) /\ ~NextFailoverStale(r)
    <3>1. staleSet' = staleSet
      BY <2>4 DEF Handle, ResolveDirect, ReadAlias, ReadTargets, SelectTarget,
         LookupAlias, LookupTargets, Upstream, PickTarget
    <3> QED
      BY <2>1, <3>1
  <2> QED
    BY <2>2, <2>3, <2>4
<1> QED
  BY <1>1, <1>2, <1>3, <1>4 DEF Undisturbed

(* t is at position n of the alias, and everything before it was tried or
   seen stale: no retry will go back there. *)
Placed(r, n, t) ==
  /\ snap[r].targets[n] = t
  /\ \A m \in DOMAIN snap[r].targets :
       m < n => snap[r].targets[m] \in tried[r] \cup staleSet[r]

After(r, i, n) ==
  \E m \in DOMAIN snap[r].targets : m < n /\ snap[r].targets[m] = tries[r][i].target

Sequenced(r) ==
  Calm =>
    /\ snap[r] = NoAlias => Len(tries[r]) <= 1
    /\ snap[r] # NoAlias =>
         /\ \A i \in 2 .. Len(tries[r]) :
              \E n \in DOMAIN snap[r].targets : Placed(r, n, tries[r][i].target)
         /\ pc[r] = "send" /\ tries[r] # << >> =>
              \E n \in DOMAIN snap[r].targets :
                /\ Placed(r, n, at[r].target)
                /\ \A i \in 2 .. Len(tries[r]) : After(r, i, n)
         /\ \A i, j \in 2 .. Len(tries[r]) :
              i < j => \E n \in DOMAIN snap[r].targets :
                         snap[r].targets[n] = tries[r][j].target /\ After(r, i, n)

LEMMA ResolvesSequenced ==
  ASSUME Inv, NEW r \in Req, Resolves(r)
  PROVE  Sequenced(r)'
BY ResolvesFirst DEF Sequenced

LEMMA OthersSequenced ==
  ASSUME Inv, [Next]_vars, NEW r \in Req, Sequenced(r), ~ Handle(r)
  PROVE  Sequenced(r)'
<1> SUFFICES ASSUME Calm' PROVE Sequenced(r)'
  BY DEF Sequenced
<1>1. Calm /\ Untouched(r)
  BY CalmBefore, OthersKeep
<1> QED
  BY <1>1 DEF Untouched, Sequenced, Placed, After

(* The next attempt was placed when its target was picked. *)
LEMMA UpstreamSequenced ==
  ASSUME Inv, [Next]_vars, NEW r \in Req, Sequenced(r), Upstream(r)
  PROVE  Sequenced(r)'
<1> SUFFICES ASSUME Calm' PROVE Sequenced(r)'
  BY DEF Sequenced
<1> DEFINE n == Len(tries[r])
<1>1. Calm /\ UNCHANGED <<snap, staleSet, tried, at>> /\ pc[r] = "send"
  BY CalmBefore DEF Upstream
<1>2. PICK a \in Result :
        /\ tries' = [tries EXCEPT ![r] = Append(@, Attempt(r, a))]
        /\ pc' = [pc EXCEPT ![r] = "done"] \/ pc' = [pc EXCEPT ![r] = "next"]
  BY UpstreamEffect
<1>3. pc'[r] # "send"
  BY <1>2 DEF Inv, TypeOK
<1>4. tries[r] \in Seq(AttemptRec) /\ tries'[r] = Append(tries[r], Attempt(r, a))
  BY <1>2 DEF Inv, TypeOK
<1>5. /\ n \in Nat
      /\ Len(tries'[r]) = n + 1
      /\ tries'[r][n + 1].target = at[r].target
      /\ \A i \in 1 .. n : tries'[r][i] = tries[r][i]
      /\ n = 0 <=> tries[r] = << >>
  BY <1>4 DEF Attempt
<1>6. CASE snap[r] = NoAlias
  <2>1. n = 0
    BY <1>1, <1>5, <1>6, TypesOf DEF Place
  <2> QED
    BY <1>1, <1>5, <1>6, <2>1 DEF Sequenced
<1>7. CASE snap[r] # NoAlias
  <2>1. \A i \in 2 .. n : \E k \in DOMAIN snap[r].targets : Placed(r, k, tries[r][i].target)
    BY <1>1, <1>7 DEF Sequenced
  <2>2. n # 0 =>
          \E k \in DOMAIN snap[r].targets :
            Placed(r, k, at[r].target) /\ \A i \in 2 .. n : After(r, i, k)
    BY <1>1, <1>5, <1>7 DEF Sequenced
  <2>3. \A i, j \in 2 .. n :
          i < j => \E k \in DOMAIN snap[r].targets :
                     snap[r].targets[k] = tries[r][j].target /\ After(r, i, k)
    BY <1>1, <1>7 DEF Sequenced
  <2>4. \A i \in 2 .. n : i \in 1 .. n
    OBVIOUS
  <2> HIDE DEF n
  <2>5. ASSUME NEW i \in 2 .. n + 1
        PROVE  \E k \in DOMAIN snap[r].targets : Placed(r, k, tries'[r][i].target)
    <3>1. CASE i = n + 1
      BY <1>5, <2>2, <3>1
    <3>2. CASE i \in 2 .. n
      BY <1>5, <2>1, <2>4, <3>2
    <3> QED
      BY <1>5, <3>1, <3>2
  <2>6. ASSUME NEW i \in 2 .. n, NEW k
        PROVE  After(r, i, k) => After(r, i, k)'
    BY <1>1, <1>5, <2>4 DEF After
  <2>7. ASSUME NEW i \in 2 .. n + 1, NEW j \in 2 .. n + 1, i < j
        PROVE  \E k \in DOMAIN snap[r].targets :
                 snap[r].targets[k] = tries'[r][j].target /\ After(r, i, k)'
    <3>1. i \in 2 .. n /\ n # 0
      BY <1>5, <2>7
    <3>2. CASE j = n + 1
      <4>1. PICK k \in DOMAIN snap[r].targets :
              Placed(r, k, at[r].target) /\ After(r, i, k)
        BY <2>2, <3>1
      <4> QED
        BY <1>5, <2>6, <3>1, <3>2, <4>1 DEF Placed
    <3>3. CASE j \in 2 .. n
      <4>1. PICK k \in DOMAIN snap[r].targets :
              snap[r].targets[k] = tries[r][j].target /\ After(r, i, k)
        BY <2>3, <2>7, <3>1, <3>3
      <4> QED
        BY <1>5, <2>4, <2>6, <3>1, <3>3, <4>1
    <3> QED
      BY <1>5, <3>2, <3>3
  <2>8. \A k, t : Placed(r, k, t) => Placed(r, k, t)'
    BY <1>1 DEF Placed
  <2> QED
    BY <1>1, <1>3, <1>5, <1>7, <2>5, <2>7, <2>8 DEF Sequenced
<1> QED
  BY <1>6, <1>7

(* What was stale stays so: a request that looks again passes over the same
   targets. *)
LEMMA LookSequenced ==
  ASSUME Inv, [Next]_vars, NEW r \in Req, Undisturbed, Sequenced(r), NextFailoverStale(r)
  PROVE  Sequenced(r)'
<1> SUFFICES ASSUME Calm' PROVE Sequenced(r)'
  BY DEF Sequenced
<1>1. /\ Calm /\ UNCHANGED <<snap, tried, at, tries>>
      /\ staleSet'[r] = StaleNow /\ pc'[r] # "send"
  BY CalmBefore DEF NextFailoverStale, Goto, Inv, TypeOK
<1>2. staleSet[r] \subseteq staleSet'[r]
  BY <1>1 DEF Undisturbed
<1>3. \A n, t : Placed(r, n, t) => Placed(r, n, t)'
  BY <1>1, <1>2 DEF Placed
<1>4. \A i, n : After(r, i, n) => After(r, i, n)'
  BY <1>1 DEF After
<1> QED
  BY <1>1, <1>3, <1>4 DEF Sequenced

(* The target picked comes after every retry so far: those were tried, and
   what came before them was tried or seen stale. *)
LEMMA PickSequenced ==
  ASSUME Inv, [Next]_vars, NEW r \in Req, Undisturbed, Sequenced(r), PickTarget(r)
  PROVE  Sequenced(r)'
<1> SUFFICES ASSUME Calm' PROVE Sequenced(r)'
  BY DEF Sequenced
<1>1. /\ Calm /\ UNCHANGED <<snap, staleSet, tries>> /\ snap[r] # NoAlias
      /\ pc[r] = "pick"
  BY CalmBefore, TypesOf DEF PickTarget, Place
<1>2. /\ DOMAIN pc = Req /\ DOMAIN tried = Req /\ DOMAIN at = Req
      /\ tries[r] \in Seq(AttemptRec)
      /\ snap[r].targets \in Seq(Target)
  BY <1>1 DEF Inv, TypeOK, AliasType
<1>3. CASE Candidates(r) = {}
  <2>1. UNCHANGED tried /\ pc'[r] # "send"
    BY <1>2, <1>3 DEF PickTarget, Answer, Goto
  <2> QED
    BY <1>1, <2>1 DEF Sequenced, Placed, After
<1>4. CASE Candidates(r) # {}
  <2>1. PICK k \in Candidates(r) :
          /\ NextTarget(r) = snap[r].targets[k]
          /\ \A j \in Candidates(r) : k <= j
    <3>1. Candidates(r) \subseteq Nat
      BY <1>2 DEF Candidates
    <3>2. \E i \in Candidates(r) : \A j \in Candidates(r) : i <= j
      BY <1>4, <3>1, LeastIndex
    <3> QED
      BY <3>2, Zenon DEF NextTarget
  <2> DEFINE t == snap[r].targets[k]
  <2>2. /\ tried'[r] = tried[r] \cup {t}
        /\ pc'[r] = "send" => at'[r].target = t
    BY <1>2, <1>4, <2>1 DEF PickTarget, TriedNow, Goto
  <2>3. \A n, u : Placed(r, n, u) => Placed(r, n, u)'
    BY <1>1, <2>2 DEF Placed
  <2>4. \A i, n : After(r, i, n) => After(r, i, n)'
    BY <1>1 DEF After
  <2>5. k \in DOMAIN snap[r].targets /\ t \notin tried[r] \cup staleSet[r]
    BY <2>1 DEF Candidates
  <2>6. Placed(r, k, t)'
    <3> SUFFICES ASSUME NEW m \in DOMAIN snap[r].targets, m < k
                 PROVE  snap[r].targets[m] \in tried'[r] \cup staleSet[r]
      BY <1>1 DEF Placed
    <3>1. m \notin Candidates(r)
      BY <1>2, <2>1, <2>5
    <3>2. snap[r].targets[m][1] \in enabled
      BY <1>1, <1>2 DEF Undisturbed, Target
    <3> QED
      BY <2>2, <3>1, <3>2 DEF Candidates
  <2>7. ASSUME NEW i \in 2 .. Len(tries[r])
        PROVE  After(r, i, k)
    <3>1. PICK n \in DOMAIN snap[r].targets : Placed(r, n, tries[r][i].target)
      BY <1>1 DEF Sequenced
    <3>2. tries[r][i].target \in tried[r]
      BY <1>1, <1>2 DEF Inv, Local, Covered
    <3>3. n # k /\ ~(k < n)
      BY <2>5, <3>1, <3>2 DEF Placed
    <3>4. n < k
      BY <1>2, <2>5, <3>3
    <3> QED
      BY <3>1, <3>4 DEF Placed, After
  <2>8. ASSUME NEW i \in 2 .. Len(tries[r])
        PROVE  \E n \in DOMAIN snap[r].targets : Placed(r, n, tries[r][i].target)'
    BY <1>1, <2>3 DEF Sequenced
  <2>9. ASSUME pc'[r] = "send"
        PROVE  /\ Placed(r, k, at[r].target)'
               /\ \A i \in 2 .. Len(tries[r]) : After(r, i, k)'
    <3>1. at'[r].target = t
      BY <2>2, <2>9
    <3>2. Placed(r, k, at[r].target)'
      BY <1>1, <2>6, <3>1 DEF Placed
    <3>3. \A i \in 2 .. Len(tries[r]) : After(r, i, k)'
      BY <2>4, <2>7
    <3> QED
      BY <3>2, <3>3
  <2>10. ASSUME NEW i \in 2 .. Len(tries[r]), NEW j \in 2 .. Len(tries[r]), i < j
         PROVE  \E n \in DOMAIN snap[r].targets :
                  snap[r].targets[n] = tries[r][j].target /\ After(r, i, n)'
    BY <1>1, <2>4, <2>10 DEF Sequenced
  <2> QED
    BY <1>1, <2>5, <2>8, <2>9, <2>10 DEF Sequenced
<1> QED
  BY <1>3, <1>4

(* While nobody edits the configuration and no refresh succeeds, retries go
   down the targets of the alias (docs/decisions.md:67-70, routing.go:62-75),
   for any number of requests that mark each other's targets stale and each
   other's keys as cooling. *)
THEOREM RetriesGoDown == Spec => []RetriesInOrder
<1> DEFINE Order == Undisturbed /\ \A r \in Req : Sequenced(r)
<1>1. Init => Order
  <2> SUFFICES ASSUME Init PROVE Order
    OBVIOUS
  <2>1. Undisturbed
    BY DEF Init, Undisturbed, NoCache
  <2>2. \A r \in Req : Sequenced(r)
    BY DEF Init, Sequenced
  <2> QED
    BY <2>1, <2>2
<1>2. Inv /\ [Next]_vars /\ Order => Order'
  BY UndisturbedKept, ResolvesSequenced, OthersSequenced, UpstreamSequenced,
     LookSequenced, PickSequenced, HandleIs
<1>3. Inv /\ Order => RetriesInOrder
  <2> SUFFICES ASSUME Inv, Order, Calm, NEW r \in Req,
                      NEW i \in 2 .. Len(tries[r]), NEW j \in 2 .. Len(tries[r]), i < j
               PROVE  \E m, n \in DOMAIN snap[r].targets :
                        /\ m < n
                        /\ snap[r].targets[m] = tries[r][i].target
                        /\ snap[r].targets[n] = tries[r][j].target
    BY Zenon DEF RetriesInOrder, Calm
  <2>1. tries[r] \in Seq(AttemptRec)
    BY TypesOf
  <2>2. snap[r] # NoAlias
    BY <2>1 DEF Sequenced
  <2>3. PICK n \in DOMAIN snap[r].targets :
          snap[r].targets[n] = tries[r][j].target /\ After(r, i, n)
    BY <2>2 DEF Sequenced
  <2> QED
    BY <2>3 DEF After
<1> HIDE DEF Order
<1> QED
  BY <1>1, <1>2, <1>3, Invariant, PTL DEF Spec

----------------------------------------------------------------------------
(* Division, and counting turns. *)

LEMMA Division ==
  ASSUME NEW n \in Nat \ {0}, NEW k \in Int
  PROVE  k \div n \in Int /\ k = n * (k \div n) + (k % n)
OBVIOUS

LEMMA Remainder ==
  ASSUME NEW n \in Nat \ {0}, NEW q \in Int, NEW d \in 0 .. n - 1
  PROVE  (n * q + d) % n = d
OBVIOUS

LEMMA OneTurnBack ==
  ASSUME NEW n \in Nat \ {0}, NEW q \in Int
  PROVE  n * (q - 1) = n * q - n
OBVIOUS

(* A position shifted to another turn, in the same round or one round earlier. *)
LEMMA Shift ==
  ASSUME NEW n \in Nat \ {0}, NEW k \in Nat, NEW c \in 0 .. n - 1, k % n = c,
         NEW d \in 0 .. n - 1
  PROVE  /\ k - c >= 0 /\ (k - c + d) % n = d
         /\ k # c => k - n - c >= 0 /\ (k - n - c + d) % n = d
<1> DEFINE q == k \div n
<1>1. q \in Int /\ k = n * q + c
  BY Division
<1> HIDE DEF q
<1>2. k - c >= 0 /\ (k # c => k - n - c >= 0)
  OBVIOUS
<1>3. (n * q + d) % n = d /\ (n * (q - 1) + d) % n = d
  BY <1>1, Remainder
<1>4. /\ k - c + d = n * q + d
      /\ k - n - c + d = n * (q - 1) + d
  <2>1. n * q \in Int
    BY <1>1
  <2> QED
    BY <1>1, <2>1, OneTurnBack
<1> QED
  BY <1>2, <1>3, <1>4

(* The second part of it alone, in the form in which it is used. *)
LEMMA ShiftTurn ==
  ASSUME NEW n \in Nat \ {0}, NEW k \in Nat, NEW c \in 0 .. n - 1, k % n = c,
         NEW d \in 0 .. n - 1, k # c
  PROVE  k - n - c >= 0 /\ (k - n - c + d) % n = d
BY Shift, Zenon

(* The elements of S that f numbers c in their round of n. *)
Turns(S, f, n, c) == {s \in S : f[s] % n = c}

(* Numbered 0 .. R - 1 without gaps, every turn comes equally often, give or
   take one. *)
LEMMA TurnsAreEven ==
  ASSUME NEW S, NEW f, NEW R \in Nat, NEW n \in Nat \ {0},
         \A s \in S : f[s] \in 0 .. R - 1,
         \A s, u \in S : f[s] = f[u] => s = u,
         \A k \in 0 .. R - 1 : \E s \in S : f[s] = k,
         NEW c \in 0 .. n - 1, NEW d \in 0 .. n - 1
  PROVE  Cardinality(Turns(S, f, n, c)) <= Cardinality(Turns(S, f, n, d)) + 1
<1> DEFINE A == Turns(S, f, n, c)
<1> DEFINE B == Turns(S, f, n, d)
<1> DEFINE A0 == {s \in A : f[s] # c}
<1> DEFINE holder == [k \in 0 .. R - 1 |-> CHOOSE s \in S : f[s] = k]
<1>1. \A k \in 0 .. R - 1 : holder[k] \in S /\ f[holder[k]] = k
  OBVIOUS
<1> HIDE DEF holder
<1>2. IsFiniteSet(B)
  <2> DEFINE g == [s \in B |-> f[s]]
  <2>1. g \in Injection(B, 0 .. R - 1)
    BY DEF Turns, Injection, IsInjective
  <2> QED
    BY <2>1, FS_Interval, FS_Injection
<1>3. \A s \in A : s \in S /\ f[s] \in Nat /\ f[s] % n = c /\ f[s] < R
  BY DEF Turns
<1>4. CASE c >= d
  <2> DEFINE g == [s \in A |-> holder[f[s] - c + d]]
  <2>1. ASSUME NEW s \in A
        PROVE  /\ f[s] - c + d \in 0 .. R - 1
               /\ (f[s] - c + d) % n = d
    <3> DEFINE v == f[s]
    <3>1. v \in Nat /\ v % n = c /\ v < R
      BY <1>3
    <3> HIDE DEF v
    <3>2. v - c >= 0 /\ (v - c + d) % n = d
      BY <3>1, Shift, Zenon
    <3>3. v - c + d \in 0 .. R - 1
      BY <1>4, <3>1, <3>2
    <3> QED
      BY <3>2, <3>3 DEF v
  <2>2. \A s \in A : g[s] \in S /\ f[g[s]] = f[s] - c + d
    BY <1>1, <2>1
  <2>3. \A s \in A : g[s] \in B
    BY <2>1, <2>2 DEF Turns
  <2>4. \A s, u \in A : g[s] = g[u] => s = u
    BY <1>3, <2>2
  <2>5. g \in Injection(A, B)
    <3> HIDE DEF A, B
    <3> QED
      BY <2>3, <2>4 DEF Injection, IsInjective
  <2> HIDE DEF A, B, g
  <2>6. Cardinality(A) <= Cardinality(B) /\ Cardinality(A) \in Nat /\ Cardinality(B) \in Nat
    BY <1>2, <2>5, FS_Injection, FS_CardinalityType
  <2> QED
    BY <2>6 DEF A, B
<1>5. CASE c < d
  <2> DEFINE g == [s \in A0 |-> holder[f[s] - n - c + d]]
  <2>1. ASSUME NEW s \in A0
        PROVE  /\ f[s] - n - c + d \in 0 .. R - 1
               /\ (f[s] - n - c + d) % n = d
    <3> DEFINE v == f[s]
    <3>1. v \in Nat /\ v % n = c /\ v < R /\ v # c
      BY <1>3
    <3> HIDE DEF v
    <3>2. v - n - c >= 0 /\ (v - n - c + d) % n = d
      BY <3>1, ShiftTurn, Zenon
    <3>3. v - n - c + d \in 0 .. R - 1
      BY <1>5, <3>1, <3>2
    <3> QED
      BY <3>2, <3>3 DEF v
  <2>2. \A s \in A0 : g[s] \in S /\ f[g[s]] = f[s] - n - c + d
    BY <1>1, <2>1
  <2>3. \A s \in A0 : g[s] \in B
    BY <2>1, <2>2 DEF Turns
  <2>4. ASSUME NEW s \in A0, NEW u \in A0, g[s] = g[u]
        PROVE  s = u
    <3>1. f[s] - n - c + d = f[u] - n - c + d
      BY <2>2, <2>4
    <3>2. s \in S /\ u \in S /\ f[s] \in Nat /\ f[u] \in Nat
      BY <1>3
    <3>3. f[s] = f[u]
      BY <3>1, <3>2
    <3> QED
      BY <3>2, <3>3
  <2>5. g \in Injection(A0, B)
    <3> HIDE DEF A0, B
    <3> QED
      BY <2>3, <2>4 DEF Injection, IsInjective
  <2>6. \A s, u \in A \ A0 : s = u
    BY <1>3
  <2>7. A = A0 \/ \E s : A = A0 \cup {s}
    <3>1. A0 \subseteq A
      OBVIOUS
    <3> HIDE DEF A, A0
    <3>2. CASE \E s : s \in A \ A0
      <4>1. PICK s : s \in A \ A0
        BY <3>2
      <4>2. A = A0 \cup {s}
        BY <2>6, <3>1, <4>1
      <4> QED
        BY <4>2, Zenon
    <3> QED
      BY <3>1, <3>2
  <2> HIDE DEF A, A0, B, g
  <2>8. /\ Cardinality(A0) <= Cardinality(B) /\ IsFiniteSet(A0)
        /\ Cardinality(A0) \in Nat /\ Cardinality(B) \in Nat
    BY <1>2, <2>5, FS_Injection, FS_CardinalityType
  <2>9. Cardinality(A) = Cardinality(A0) \/ Cardinality(A) = Cardinality(A0) + 1
    BY <2>7, <2>8, FS_AddElement
  <2> QED
    BY <2>8, <2>9 DEF A, B
<1> QED
  BY <1>4, <1>5

----------------------------------------------------------------------------
(* The turns the requests took. *)

(* So far nothing changed which targets of the alias can be selected. *)
Still == Calm /\ (\A p \in Provider : soft[p] = Absent) /\ alias.routing = "round_robin"

(* Some request was answered without an attempt: it may have taken a turn. *)
Lost == \E r \in Req : pc[r] = "done" /\ tries[r] = << >>

(* The requests that took a turn, and the target it gave them. *)
Took(r) ==
  /\ call[r].directive = ViaAlias
  /\ pc[r] \in {"lookup", "lookupTargets", "send"} \/ tries[r] # << >>
Given(r) == IF tries[r] = << >> THEN at[r].target ELSE tries[r][1].target
Turned == {r \in Req : Took(r)}

(* turn numbers the requests that took one in the order of their selections:
   each was given the target its turn falls on. *)
Numbers(turn) ==
  /\ \A r \in Turned : turn[r] \in 0 .. rr - 1
  /\ \A r, q \in Turned : turn[r] = turn[q] => r = q
  /\ \A k \in 0 .. rr - 1 : \E r \in Turned : turn[r] = k
  /\ \A r \in Turned : Given(r) = alias.targets[(turn[r] % Len(alias.targets)) + 1]

(* A request that is about to select has the alias as it is. *)
Copied(r) ==
  /\ pc[r] \in {"alias", "targets", "stale", "select"} => call[r].directive = ViaAlias
  /\ pc[r] \in {"targets", "stale", "select"} => snap[r] = alias

InTurn ==
  Still =>
    /\ alias \in AliasRow
    /\ \A r \in Req : Copied(r)
    /\ Lost \/ \E turn : Numbers(turn)

LEMMA StillBefore ==
  ASSUME Inv, [Next]_vars, Still'
  PROVE  Still /\ Calm /\ Calm' /\ UNCHANGED <<alias, enabled, entries, soft>>
<1>1. /\ Calm /\ UNCHANGED <<alias, enabled>>
      /\ UNCHANGED cacheVars \/ \E t \in Target : MarkRuntimeStale(t[1], t[2])
  BY CalmBefore DEF Still
<1>2. ASSUME NEW t \in Target, MarkRuntimeStale(t[1], t[2])
      PROVE  FALSE
  <2>1. t[1] \in Provider /\ t[2] \in Model
    BY DEF Target
  <2>2. soft \in [Provider -> (SUBSET Model) \cup {Absent}]
    BY DEF Inv, TypeOK, CacheTypeOK
  <2>3. soft'[t[1]] \in SUBSET Model
    BY <1>2, <2>1, <2>2 DEF MarkRuntimeStale
  <2> QED
    BY <2>1, <2>3, AbsentAssumption DEF Still
<1> QED
  BY <1>1, <1>2 DEF Still, cacheVars

(* Nothing is stale then: every target can be selected. *)
LEMMA StillActive ==
  ASSUME Inv, Undisturbed, Still, alias \in AliasRow, NEW r \in Req, snap[r] = alias
  PROVE  /\ Active(r) = 1 .. Len(alias.targets)
         /\ Len(alias.targets) \in Nat
         /\ Cardinality(Active(r)) = Len(alias.targets)
         /\ \A i \in Active(r) : Cardinality({j \in Active(r) : j < i}) = i - 1
<1>1. alias.targets \in Seq(Target)
  BY GatewayAssumption DEF AliasType
<1>2. StaleNow = {}
  <2>1. \A t \in Target : ~Stale(t[1], t[2])
    BY DEF Undisturbed, Still, Stale, Judged, Discovered, Target
  <2>2. alias # NoAlias /\ Range(alias.targets) \subseteq Target
    BY <1>1, GatewayAssumption DEF Range
  <2> QED
    BY <2>1, <2>2 DEF StaleNow
<1>3. staleSet[r] = {} /\ enabled = Provider
  BY <1>2 DEF Undisturbed, Still
<1>4. Active(r) = DOMAIN alias.targets
  BY <1>1, <1>3 DEF Active, Target
<1>5. Len(alias.targets) \in Nat /\ DOMAIN alias.targets = 1 .. Len(alias.targets)
  BY <1>1
<1> HIDE DEF Active
<1>6. Cardinality(Active(r)) = Len(alias.targets)
  BY <1>4, <1>5, FS_Interval
<1>7. ASSUME NEW i \in Active(r)
      PROVE  Cardinality({j \in Active(r) : j < i}) = i - 1
  <2>1. {j \in Active(r) : j < i} = 1 .. i - 1
    BY <1>4, <1>5
  <2>2. i \in Nat /\ i >= 1
    BY <1>4, <1>5
  <2>3. Cardinality(1 .. i - 1) = i - 1
    BY <2>2, FS_Interval
  <2> QED
    BY <2>1, <2>3
<1> QED
  BY <1>4, <1>5, <1>6, <1>7

LEMMA SelectsInTurn ==
  ASSUME Inv, Undisturbed, Still, InTurn, NEW r \in Req, SelectTarget(r)
  PROVE  \/ pc'[r] = "done"
         \/ /\ pc'[r] = "lookup"
            /\ rr' = rr + 1
            /\ at'[r].target = alias.targets[(rr % Len(alias.targets)) + 1]
<1>1. /\ pc[r] = "select" /\ snap[r] = alias /\ alias \in AliasRow
      /\ snap[r] \in AliasType /\ snap[r].routing = "round_robin"
  BY GatewayAssumption DEF SelectTarget, InTurn, Copied, Still
<1>2. DOMAIN pc = Req /\ DOMAIN at = Req /\ rr \in Nat
  BY DEF Inv, TypeOK
<1>3. CASE Active(r) = {}
  BY <1>2, <1>3 DEF SelectTarget, Answer, Goto
<1>4. CASE Active(r) # {}
  <2>1. PICK i \in Selectable(r) : Chosen(r, snap[r].targets[i], "lookup")
    BY <1>4 DEF SelectTarget
  <2>2. i \in Active(r) /\ IsNth(r, i, rr % Cardinality(Active(r)))
    BY <1>1, <2>1, Zenon DEF Selectable
  <2>3. i = (rr % Len(alias.targets)) + 1
    <3>1. /\ Active(r) = 1 .. Len(alias.targets)
          /\ Cardinality(Active(r)) = Len(alias.targets)
          /\ Cardinality({j \in Active(r) : j < i}) = i - 1
      BY <1>1, <2>2, StillActive
    <3>2. i - 1 = rr % Len(alias.targets)
      BY <2>2, <3>1 DEF IsNth
    <3>3. i \in Int
      BY <2>2, <3>1
    <3> QED
      BY <3>2, <3>3
  <2>4. \/ pc'[r] = "done"
        \/ pc'[r] = "lookup" /\ at'[r].target = snap[r].targets[i]
    BY <1>2, <2>1 DEF Chosen, Answer, Goto
  <2>5. rr' = rr + 1
    BY <1>1, <1>4 DEF SelectTarget, Rotate
  <2> QED
    BY <1>1, <2>3, <2>4, <2>5
<1> QED
  BY <1>3, <1>4

(* Any other step leaves the turns taken as they are, or loses a request. *)
LEMMA TurnsStay ==
  ASSUME Inv, Inv', [Next]_vars, NEW q \in Req, Copied(q), ~SelectTarget(q), ~Lost'
  PROVE  /\ Took(q)' <=> Took(q)
         /\ Took(q) => Given(q)' = Given(q)
<1>1. /\ DOMAIN pc = Req /\ tries[q] \in Seq(AttemptRec) /\ DOMAIN tries = Req
      /\ Place(q) /\ Place(q)'
      /\ ~(pc'[q] = "done" /\ tries'[q] = << >>)
  BY TypesOf DEF Inv, TypeOK, Local, Lost
<1>2. CASE ~Handle(q)
  <2>1. Untouched(q)
    BY <1>2, OthersKeep
  <2> QED
    BY <1>1, <2>1 DEF Untouched, Took, Given, Place, Resolving
<1>3. CASE ResolveDirect(q)
  <2>1. call[q].directive # ViaAlias /\ call' = call
    BY <1>1, <1>3, GatewayAssumption DEF ResolveDirect, Place
  <2> QED
    BY <2>1 DEF Took
<1>4. CASE ReadAlias(q) \/ ReadTargets(q) \/ ReadStale(q)
  <2>1. /\ pc[q] \in {"alias", "targets", "stale"}
        /\ pc'[q] \in {"done", "targets", "stale", "select"}
        /\ UNCHANGED <<tries, call>>
    BY <1>1, <1>4 DEF ReadAlias, ReadTargets, ReadStale, Answer, Goto
  <2> QED
    BY <1>1, <2>1 DEF Took, Place, Resolving
<1>5. CASE LookupAlias(q) \/ LookupTargets(q)
  <2>1. /\ pc[q] \in {"lookup", "lookupTargets"}
        /\ pc'[q] \in {"lookupTargets", "send"}
        /\ UNCHANGED <<tries, call, at>>
    BY <1>1, <1>5 DEF LookupAlias, LookupTargets, Goto
  <2> QED
    BY <2>1 DEF Took, Given
<1>6. CASE Upstream(q)
  <2>1. PICK a \in Result : tries' = [tries EXCEPT ![q] = Append(@, Attempt(q, a))]
    BY <1>6, UpstreamEffect
  <2>2. pc[q] = "send" /\ call' = call
    BY <1>6 DEF Upstream
  <2>3. /\ tries'[q] # << >>
        /\ tries[q] = << >> => tries'[q][1].target = at[q].target
        /\ tries[q] # << >> => tries'[q][1] = tries[q][1]
    BY <1>1, <2>1 DEF Attempt
  <2> QED
    BY <2>2, <2>3 DEF Took, Given
<1>7. CASE NextFailoverStale(q) \/ PickTarget(q)
  <2>1. UNCHANGED <<tries, call>> /\ tries[q] # << >>
    BY <1>1, <1>7 DEF NextFailoverStale, PickTarget, Place
  <2> QED
    BY <2>1 DEF Took, Given
<1> QED
  BY <1>2, <1>3, <1>4, <1>5, <1>6, <1>7 DEF Handle

LEMMA RrStays ==
  ASSUME Inv, [Next]_vars, \A q \in Req : ~SelectTarget(q)
  PROVE  rr' = rr
<1>1. CASE \E q \in Req : Handle(q)
  <2>1. PICK q \in Req : Handle(q)
    BY <1>1
  <2>2. CASE ResolveDirect(q) \/ ReadAlias(q) \/ ReadTargets(q) \/ ReadStale(q)
    BY <2>2 DEF ResolveDirect, ReadAlias, ReadTargets, ReadStale
  <2>3. CASE LookupAlias(q) \/ LookupTargets(q)
    BY <2>3 DEF LookupAlias, LookupTargets
  <2>4. CASE Upstream(q)
    BY <2>4 DEF Upstream
  <2>5. CASE NextFailoverStale(q) \/ PickTarget(q)
    BY <2>5 DEF NextFailoverStale, PickTarget
  <2> QED
    BY <2>1, <2>2, <2>3, <2>4, <2>5 DEF Handle
<1>2. CASE Environment
  BY <1>2 DEF Environment, Arrive, Cancel, UpdateAlias, DeleteAlias, ToggleProvider,
     RefreshSucceeds, KeyRests, ReloadPool
<1>3. CASE UNCHANGED vars
  BY <1>3 DEF vars
<1> QED
  BY <1>1, <1>2, <1>3 DEF Next, AllAnswered

LEMMA LostStays ==
  ASSUME Inv, [Next]_vars, Lost
  PROVE  Lost'
<1>1. PICK r \in Req : pc[r] = "done" /\ tries[r] = << >>
  BY DEF Lost
<1>2. ~Handle(r)
  BY <1>1 DEF Handle, ResolveDirect, ReadAlias, ReadTargets, ReadStale, SelectTarget,
     LookupAlias, LookupTargets, Upstream, NextFailoverStale, PickTarget
<1> QED
  BY <1>1, <1>2, OthersKeep DEF Untouched, Lost

LEMMA CopiedKept ==
  ASSUME Inv, [Next]_vars, NEW r \in Req, Copied(r), alias' = alias
  PROVE  Copied(r)'
<1>1. /\ DOMAIN pc = Req /\ DOMAIN snap = Req
  BY DEF Inv, TypeOK
<1>2. CASE ~Handle(r)
  <2>1. Untouched(r)
    BY <1>2, OthersKeep
  <2> QED
    BY <2>1 DEF Untouched, Copied
<1>3. CASE ResolveDirect(r)
  <2>1. pc'[r] \in {"send", "done"}
    BY <1>1, <1>3 DEF ResolveDirect, Chosen, Answer, Goto
  <2> QED
    BY <2>1 DEF Copied
<1>4. CASE ReadAlias(r)
  <2>1. /\ pc[r] = "alias" /\ pc'[r] \in {"targets", "done"} /\ call' = call
        /\ pc'[r] = "targets" => snap'[r] = alias
    BY <1>1, <1>4 DEF ReadAlias, Answer, Goto
  <2> QED
    BY <2>1 DEF Copied
<1>5. CASE ReadTargets(r)
  <2>1. /\ pc[r] = "targets" /\ pc'[r] = "stale" /\ call' = call
        /\ snap' = [snap EXCEPT ![r].targets = CurrentTargets]
    BY <1>1, <1>5 DEF ReadTargets, Goto
  <2>2. snap[r] = alias /\ alias # NoAlias /\ snap[r] \in AliasType
    BY <2>1, TypesOf DEF Copied, Place, Inv, TypeOK
  <2>3. snap'[r] = [alias EXCEPT !.targets = alias.targets]
    BY <1>1, <2>1, <2>2 DEF CurrentTargets
  <2>4. snap'[r] = alias
    BY <2>2, <2>3 DEF AliasType
  <2> QED
    BY <2>1, <2>4 DEF Copied
<1>6. CASE ReadStale(r)
  BY <1>1, <1>6 DEF ReadStale, Goto, Copied
<1>7. CASE SelectTarget(r)
  <2>1. pc'[r] \in {"lookup", "done"}
    BY <1>1, <1>7 DEF SelectTarget, Chosen, Answer, Goto
  <2> QED
    BY <2>1 DEF Copied
<1>8. CASE LookupAlias(r) \/ LookupTargets(r)
  <2>1. pc'[r] \in {"lookupTargets", "send"}
    BY <1>1, <1>8 DEF LookupAlias, LookupTargets, Goto
  <2> QED
    BY <2>1 DEF Copied
<1>9. CASE Upstream(r)
  <2>1. pc'[r] \in {"next", "done"}
    BY <1>1, <1>9, UpstreamEffect
  <2> QED
    BY <2>1 DEF Copied
<1>10. CASE NextFailoverStale(r) \/ PickTarget(r)
  <2>1. pc'[r] \in {"next", "pick", "send", "done"}
    BY <1>1, <1>10 DEF NextFailoverStale, PickTarget, Answer, Goto
  <2> QED
    BY <2>1 DEF Copied
<1> QED
  BY <1>2, <1>3, <1>4, <1>5, <1>6, <1>7, <1>8, <1>9, <1>10 DEF Handle

LEMMA OneSelects ==
  ASSUME Inv, [Next]_vars, NEW r \in Req, NEW q \in Req, SelectTarget(r), SelectTarget(q)
  PROVE  r = q
<1>1. pc'[r] \in {"lookup", "done"} /\ pc[q] = "select" /\ pc[r] = "select"
      /\ \E label : pc' = [pc EXCEPT ![q] = label]
  BY DEF SelectTarget, Chosen, Answer, Goto, Inv, TypeOK
<1> QED
  BY <1>1 DEF Inv, TypeOK

LEMMA InTurnKept ==
  ASSUME Inv, Inv', [Next]_vars, Undisturbed, InTurn
  PROVE  InTurn'
<1> SUFFICES ASSUME Still'
             PROVE  /\ alias' \in AliasRow
                    /\ \A r \in Req : Copied(r)'
                    /\ Lost' \/ \E turn : Numbers(turn)'
  BY DEF InTurn
<1>1. Still /\ UNCHANGED <<alias, enabled, entries, soft>>
  BY StillBefore
<1>2. alias \in AliasRow /\ \A r \in Req : Copied(r)
  BY <1>1 DEF InTurn
<1>3. \A r \in Req : Copied(r)'
  BY <1>1, <1>2, CopiedKept
<1>4. ASSUME ~Lost'
      PROVE  \E turn : Numbers(turn)'
  <2>1. PICK turn : Numbers(turn)
    BY <1>1, <1>4, LostStays DEF InTurn
  <2>2. CASE \A q \in Req : ~SelectTarget(q)
    <3>1. rr' = rr
      BY <2>2, RrStays
    <3>2. /\ \A r \in Req : Took(r)' <=> Took(r)
          /\ \A r \in Req : Took(r) => Given(r)' = Given(r)
      BY <1>2, <1>4, <2>2, TurnsStay
    <3>3. Turned' = Turned
      BY <3>2 DEF Turned
    <3>4. \A r \in Turned : Given(r)' = Given(r)
      BY <3>2 DEF Turned
    <3> QED
      BY <1>1, <2>1, <3>1, <3>3, <3>4 DEF Numbers
  <2>3. ASSUME NEW r \in Req, SelectTarget(r)
        PROVE  \E f : Numbers(f)'
    <3>1. pc[r] = "select" /\ tries[r] = << >> /\ tries' = tries /\ call' = call
      BY <2>3, ResolvesFirst DEF SelectTarget, Resolves
    <3>2. /\ pc'[r] = "lookup"
          /\ rr' = rr + 1
          /\ at'[r].target = alias.targets[(rr % Len(alias.targets)) + 1]
      BY <1>1, <1>4, <2>3, <3>1, SelectsInTurn DEF Lost
    <3>3. call[r].directive = ViaAlias
      BY <1>2, <3>1 DEF Copied
    <3>4. /\ \A q \in Req \ {r} : Took(q)' <=> Took(q)
          /\ \A q \in Req \ {r} : Took(q) => Given(q)' = Given(q)
      BY <1>2, <1>4, <2>3, OneSelects, TurnsStay
    <3>5. ~Took(r) /\ Took(r)' /\ Given(r)' = alias.targets[(rr % Len(alias.targets)) + 1]
      BY <3>1, <3>2, <3>3 DEF Took, Given
    <3> DEFINE f == [q \in Req |-> IF q = r THEN rr ELSE turn[q]]
    <3>6. rr \in Nat
      BY DEF Inv, TypeOK
    <3>7. Turned' = Turned \cup {r} /\ r \notin Turned /\ Turned \subseteq Req
      BY <3>4, <3>5 DEF Turned
    <3>8. \A q \in Turned : f[q] = turn[q] /\ f[q] \in 0 .. rr - 1 /\ Given(q)' = Given(q)
      BY <2>1, <3>4, <3>7 DEF Numbers, Turned
    <3>9. f[r] = rr
      OBVIOUS
    <3> HIDE DEF f
    <3>10. \A q \in Turned' : f[q] \in 0 .. rr' - 1
      BY <3>2, <3>6, <3>7, <3>8, <3>9
    <3>11. \A p, q \in Turned' : f[p] = f[q] => p = q
      BY <2>1, <3>6, <3>7, <3>8, <3>9 DEF Numbers
    <3>12. \A k \in 0 .. rr' - 1 : \E q \in Turned' : f[q] = k
      <4> SUFFICES ASSUME NEW k \in 0 .. rr' - 1
                   PROVE  \E q \in Turned' : f[q] = k
        OBVIOUS
      <4>1. CASE k = rr
        BY <3>7, <3>9, <4>1
      <4>2. CASE k \in 0 .. rr - 1
        BY <2>1, <3>7, <3>8, <4>2 DEF Numbers
      <4> QED
        BY <3>2, <3>6, <4>1, <4>2
    <3>13. \A q \in Turned' : Given(q)' = alias.targets[(f[q] % Len(alias.targets)) + 1]
      BY <2>1, <3>5, <3>7, <3>8, <3>9 DEF Numbers
    <3> QED
      BY <1>1, <3>10, <3>11, <3>12, <3>13 DEF Numbers
  <2> QED
    BY <2>2, <2>3
<1> QED
  BY <1>1, <1>2, <1>3, <1>4

LEMMA SpreadsInTurn ==
  ASSUME Inv, InTurn
  PROVE  RoundRobinSpreads
<1> SUFFICES ASSUME Still, \A r \in Req : pc[r] = "done" /\ tries[r] # << >>,
                    NEW t \in Range(alias.targets), NEW u \in Range(alias.targets)
             PROVE  Cardinality(FirstOf(t)) <= Cardinality(FirstOf(u)) + 1
  BY Zenon DEF RoundRobinSpreads, Still, Calm
<1>1. PICK turn : Numbers(turn)
  BY DEF InTurn, Lost
<1>2. alias.targets \in Seq(Target) /\ IsInjective(alias.targets)
  BY GatewayAssumption DEF InTurn, AliasType
<1> DEFINE n == Len(alias.targets)
<1>3. \A r \in Req : Given(r) = tries[r][1].target
  BY DEF Given
<1>4. Turned = {r \in Req : call[r].directive = ViaAlias}
  BY DEF Turned, Took
<1>5. ASSUME NEW c \in 0 .. n - 1
      PROVE  FirstOf(alias.targets[c + 1]) = Turns(Turned, turn, n, c)
  <2>1. FirstOf(alias.targets[c + 1]) = {r \in Turned : Given(r) = alias.targets[c + 1]}
    BY <1>3, <1>4 DEF FirstOf
  <2>2. ASSUME NEW r \in Turned
        PROVE  Given(r) = alias.targets[c + 1] <=> turn[r] % n = c
    <3>1. turn[r] \in 0 .. rr - 1 /\ Given(r) = alias.targets[(turn[r] % n) + 1]
      BY <1>1 DEF Numbers
    <3>2. n \in Nat \ {0} /\ rr \in Nat
      BY <1>2, <1>5 DEF Inv, TypeOK
    <3>3. turn[r] % n \in 0 .. n - 1
      BY <3>1, <3>2
    <3>4. (turn[r] % n) + 1 \in DOMAIN alias.targets /\ c + 1 \in DOMAIN alias.targets
      BY <1>2, <3>2, <3>3
    <3>5. Given(r) = alias.targets[c + 1] => (turn[r] % n) + 1 = c + 1
      BY <1>2, <3>1, <3>4 DEF IsInjective
    <3> QED
      BY <3>1, <3>3, <3>5
  <2> QED
    BY <2>1, <2>2 DEF Turns
<1>6. PICK i \in 1 .. n, j \in 1 .. n : t = alias.targets[i] /\ u = alias.targets[j]
  BY <1>2 DEF Range
<1>7. n \in Nat \ {0} /\ i - 1 \in 0 .. n - 1 /\ j - 1 \in 0 .. n - 1 /\ rr \in Nat
  BY <1>2, <1>6 DEF Inv, TypeOK
<1>8. FirstOf(t) = Turns(Turned, turn, n, i - 1) /\ FirstOf(u) = Turns(Turned, turn, n, j - 1)
  <2>1. FirstOf(alias.targets[(i - 1) + 1]) = Turns(Turned, turn, n, i - 1)
    BY <1>5, <1>7
  <2>2. FirstOf(alias.targets[(j - 1) + 1]) = Turns(Turned, turn, n, j - 1)
    BY <1>5, <1>7
  <2>3. (i - 1) + 1 = i /\ (j - 1) + 1 = j
    OBVIOUS
  <2> QED
    BY <1>6, <2>1, <2>2, <2>3
<1>9. /\ \A r \in Turned : turn[r] \in 0 .. rr - 1
      /\ \A r, q \in Turned : turn[r] = turn[q] => r = q
      /\ \A k \in 0 .. rr - 1 : \E r \in Turned : turn[r] = k
  BY <1>1 DEF Numbers
<1> HIDE DEF n
<1>10. Cardinality(Turns(Turned, turn, n, i - 1)) <= Cardinality(Turns(Turned, turn, n, j - 1)) + 1
  BY <1>7, <1>9, TurnsAreEven
<1> QED
  BY <1>8, <1>10

(* Until a target drops out, any two targets of a round-robin alias were
   selected first equally often, give or take one (routing.go:159-166), for
   any number of concurrent requests. *)
THEOREM RoundRobinIsEven == Spec => []RoundRobinSpreads
<1> DEFINE J == Undisturbed /\ InTurn
<1>1. Init => J
  <2> SUFFICES ASSUME Init PROVE J
    OBVIOUS
  <2>1. Undisturbed
    BY DEF Init, Undisturbed, NoCache
  <2>2. alias \in AliasRow /\ Turned = {} /\ rr = 0
    BY GatewayAssumption DEF Init, Turned, Took
  <2>3. \A r \in Req : Copied(r)
    BY DEF Init, Copied
  <2>4. Numbers(<< >>)
    BY <2>2 DEF Numbers
  <2> QED
    BY <2>1, <2>2, <2>3, <2>4 DEF InTurn
<1>2. Inv /\ Inv' /\ [Next]_vars /\ J => J'
  BY UndisturbedKept, InTurnKept
<1>3. Inv /\ J => RoundRobinSpreads
  BY SpreadsInTurn
<1> HIDE DEF J
<1> QED
  BY <1>1, <1>2, <1>3, Invariant, PTL DEF Spec
=============================================================================
