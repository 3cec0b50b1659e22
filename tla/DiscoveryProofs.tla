-------------------------- MODULE DiscoveryProofs --------------------------
(***************************************************************************)
(* Theorems about Discovery for any number of providers, models, slots and *)
(* refreshes: its type invariant, that no target is judged stale without   *)
(* an answer of its provider, and that a deleted provider is forgotten     *)
(* unless a refresh raced with the deletion.  The invariant they need says *)
(* what the tokens of the semaphore count (Tokens), what a refresh holds   *)
(* (Answers), and carries the last two over the refreshes in flight        *)
(* (Evidence, Gone).                                                       *)
(***************************************************************************)
EXTENDS Discovery, FiniteSetTheorems, TLAPS

(* The refreshes of the round that hold a token. *)
Holding == {p \in Provider : job[p] \notin {"none", "queued"}}

Tokens ==
  /\ IsFiniteSet(Holding) /\ sem = Cardinality(Holding)
  /\ round = "over" => \A p \in Provider : job[p] = "none"

Answers ==
  /\ \A j \in Job : job[j] = "answered" => answer[j] \in SUBSET Model
  /\ \A p \in Provider : about[p] = p

Unjudged(p) == soft[p] = Absent /\ ~Discovered(p)
Evidence == \A p \in Provider : p \notin proven => Unjudged(p)

(* A refresh of a deleted provider that did not race with the deletion has
   only begun. *)
Forgotten(p) ==
  /\ entries[p] = Absent
  /\ \A j \in InFlight(p) : job[j] = "started"
Gone ==
  \A p \in Provider :
    row[p] = "none" /\ p \notin deleting /\ p \notin raced => Forgotten(p)

IInv == TypeOK /\ Tokens /\ Answers /\ Evidence /\ Gone

----------------------------------------------------------------------------
(* The initial states. *)

LEMMA InitHolds == Init => IInv
<1> SUFFICES ASSUME Init
             PROVE  IInv
  OBVIOUS
<1>1. TypeOK
  <2>1. upstream \in [Provider -> SUBSET Model]
    BY DiscoveryAssumption DEF Init
  <2>2. sem \in 0 .. Slots
    BY DiscoveryAssumption DEF Init
  <2>3. CacheTypeOK
    BY DEF Init, NoCache, CacheTypeOK
  <2>4. count \in [{"edits", "asked", "missing", "changes"} -> Nat]
    BY DEF Init
  <2> QED
    BY <2>1, <2>2, <2>3, <2>4 DEF Init, TypeOK, Stages
<1>2. Tokens
  <2>1. Holding = {}
    BY DEF Init, Holding, Job
  <2> QED
    BY <2>1, FS_EmptySet DEF Init, Tokens, Job
<1>3. Answers
  BY DEF Init, Answers, Job
<1>4. Evidence
  BY DEF Init, NoCache, Evidence, Unjudged, Discovered
<1>5. Gone
  BY DEF Init, Gone
<1> QED
  BY <1>1, <1>2, <1>3, <1>4, <1>5 DEF IInv

----------------------------------------------------------------------------
(* The parts of the invariant under what a step leaves alone. *)

LEMMA CountKeepsType ==
  ASSUME TypeOK, NEW what \in {"edits", "asked", "missing", "changes"}, NEW bound,
         Count(what, bound)
  PROVE  count' \in [{"edits", "asked", "missing", "changes"} -> Nat]
BY DEF TypeOK, Count

(* Round, jobs and semaphore are as they were. *)
LEMMA JobsKept ==
  ASSUME IInv, UNCHANGED jobVars
  PROVE  Tokens' /\ Answers'
BY DEF IInv, jobVars, Tokens, Holding, Answers

LEMMA EvidenceKept ==
  ASSUME IInv, UNCHANGED cacheVars, proven \subseteq proven'
  PROVE  Evidence'
BY DEF IInv, cacheVars, Evidence, Unjudged, Discovered

(* A job that moves to its next stage keeps its token. *)
LEMMA MovedKeeps ==
  ASSUME IInv, NEW j \in Job, NEW stage \in Stages \ {"none", "queued"},
         job[j] \notin {"none", "queued"},
         Move(j, stage), UNCHANGED <<round, sem, about>>
  PROVE  Tokens' /\ job' \in [Job -> Stages]
<1>1. job' \in [Job -> Stages]
  BY DEF IInv, TypeOK, Move
<1>2. Holding' = Holding
  BY DEF IInv, TypeOK, Move, Holding, Job
<1>3. \A p \in Provider : job'[p] = "none" <=> job[p] = "none"
  BY DEF IInv, TypeOK, Move, Job
<1> QED
  BY <1>1, <1>2, <1>3 DEF IInv, Tokens

(* One that ends gives it back. *)
LEMMA FinishKeeps ==
  ASSUME IInv, NEW j \in Job, job[j] \notin {"none", "queued"},
         Finish(j), UNCHANGED <<round, about>>
  PROVE  /\ Tokens' /\ Answers'
         /\ job' \in [Job -> Stages]
         /\ answer' \in [Job -> (SUBSET Model) \cup {Nothing}]
         /\ sem' \in 0 .. Slots
<1>1. job' \in [Job -> Stages] /\ answer' \in [Job -> (SUBSET Model) \cup {Nothing}]
  BY DEF IInv, TypeOK, Finish, Stages
<1>2. Answers'
  BY DEF IInv, TypeOK, Answers, Finish
<1>3. round' = "over" => \A p \in Provider : job'[p] = "none"
  BY DEF IInv, TypeOK, Tokens, Finish, Job
<1>4. CASE j \in Provider
  <2>1. Holding' = Holding \ {j} /\ j \in Holding
    BY <1>4 DEF IInv, TypeOK, Finish, Holding, Job
  <2>2. IsFiniteSet(Holding') /\ Cardinality(Holding') = Cardinality(Holding) - 1
    BY <2>1, FS_RemoveElement DEF IInv, Tokens
  <2>3. sem' = sem - 1 /\ sem = Cardinality(Holding)
    BY <1>4 DEF IInv, Tokens, Finish
  <2>4. Cardinality(Holding') \in Nat
    BY <2>2, FS_CardinalityType
  <2> QED
    BY <1>1, <1>2, <1>3, <2>2, <2>3, <2>4, DiscoveryAssumption DEF IInv, TypeOK, Tokens
<1>5. CASE j \notin Provider
  <2>1. Holding' = Holding /\ sem' = sem
    BY <1>5 DEF IInv, TypeOK, Finish, Holding, Job
  <2> QED
    BY <1>1, <1>2, <1>3, <2>1 DEF IInv, TypeOK, Tokens
<1> QED
  BY <1>4, <1>5

----------------------------------------------------------------------------
(* Rounds and refreshes. *)

LEMMA TickKeeps ==
  ASSUME IInv, Tick
  PROVE  IInv'
<1> USE DEF IInv
<1>1. \A p \in Provider : job[p] = "none" /\ job'[p] \in {"none", "queued"}
  BY DEF Tick, Tokens, TypeOK, Job
<1>2. job' \in [Job -> Stages]
  BY DEF Tick, TypeOK, Stages
<1>3. \A j \in Job : job'[j] = job[j] \/ job'[j] = "queued"
  BY DEF Tick, TypeOK
<1>4. TypeOK'
  <2>1. sem' \in 0 .. Slots
    BY DiscoveryAssumption DEF Tick
  <2> QED
    BY <1>2, <2>1 DEF Tick, TypeOK, CacheTypeOK, cacheVars, dbVars
<1>5. Tokens'
  <2>1. Holding' = {}
    BY <1>1 DEF Holding
  <2> QED
    BY <2>1, FS_EmptySet DEF Tokens, Tick
<1>6. Answers'
  BY <1>3 DEF Answers, Tick
<1>7. Evidence'
  BY EvidenceKept DEF Tick
<1>8. Gone'
  BY <1>3 DEF Gone, Forgotten, InFlight, Tick, cacheVars, dbVars
<1> QED
  BY <1>4, <1>5, <1>6, <1>7, <1>8

LEMMA RoundEndsKeeps ==
  ASSUME IInv, RoundEnds
  PROVE  IInv'
<1> USE DEF IInv
<1>1. TypeOK'
  BY DEF RoundEnds, TypeOK, CacheTypeOK, cacheVars, dbVars
<1>2. Tokens' /\ Answers'
  BY DEF RoundEnds, Tokens, Holding, Answers
<1>3. Evidence'
  BY EvidenceKept DEF RoundEnds
<1>4. Gone'
  BY DEF Gone, Forgotten, InFlight, RoundEnds, cacheVars, dbVars
<1> QED
  BY <1>1, <1>2, <1>3, <1>4

LEMMA StartRefreshKeeps ==
  ASSUME IInv, NEW p \in Provider, StartRefresh(p)
  PROVE  IInv'
<1> USE DEF IInv
<1>1. p \in Job /\ job[p] = "queued" /\ sem < Slots /\ sem' = sem + 1
      /\ job' = [job EXCEPT ![p] = "started"]
  BY DEF StartRefresh, Acquire, Job
<1>2. TypeOK'
  <2>1. sem' \in 0 .. Slots /\ job' \in [Job -> Stages]
    BY <1>1, DiscoveryAssumption DEF TypeOK, Stages
  <2> QED
    BY <2>1 DEF StartRefresh, TypeOK, CacheTypeOK, cacheVars, dbVars
<1>3. Tokens'
  <2>1. Holding' = Holding \cup {p} /\ p \notin Holding
    BY <1>1 DEF Holding, TypeOK, Job
  <2>2. IsFiniteSet(Holding') /\ Cardinality(Holding') = Cardinality(Holding) + 1
    BY <2>1, FS_AddElement DEF Tokens
  <2>3. round' = "over" => \A q \in Provider : job'[q] = "none"
    BY <1>1 DEF Tokens, StartRefresh
  <2> QED
    BY <1>1, <2>2, <2>3 DEF Tokens
<1>4. Answers'
  BY <1>1 DEF Answers, StartRefresh, TypeOK
<1>5. Evidence'
  BY EvidenceKept DEF StartRefresh
<1>6. Gone'
  BY <1>1 DEF Gone, Forgotten, InFlight, StartRefresh, TypeOK, cacheVars, dbVars
<1> QED
  BY <1>2, <1>3, <1>4, <1>5, <1>6

LEMMA AdminRefreshKeeps ==
  ASSUME IInv, NEW c \in AdminCall, NEW p \in Provider, AdminRefresh(c, p)
  PROVE  IInv'
<1> USE DEF IInv
<1>1. c \in Job /\ c \notin Provider
  BY DiscoveryAssumption DEF Job
<1>2. job' = [job EXCEPT ![c] = "started"] /\ about' = [about EXCEPT ![c] = p]
  BY DEF AdminRefresh
<1>3. TypeOK'
  <2>1. count' \in [{"edits", "asked", "missing", "changes"} -> Nat]
    BY CountKeepsType DEF AdminRefresh
  <2>2. job' \in [Job -> Stages] /\ about' \in [Job -> Provider]
    BY <1>1, <1>2 DEF TypeOK, Stages
  <2> QED
    BY <2>1, <2>2 DEF AdminRefresh, TypeOK, CacheTypeOK, cacheVars, dbVars
<1>4. Tokens'
  <2>1. \A q \in Provider : job'[q] = job[q]
    BY <1>1, <1>2 DEF TypeOK, Job
  <2>2. Holding' = Holding
    BY <2>1 DEF Holding
  <2> QED
    BY <2>1, <2>2 DEF Tokens, AdminRefresh
<1>5. Answers'
  BY <1>1, <1>2 DEF Answers, AdminRefresh, TypeOK, Job
<1>6. Evidence'
  BY EvidenceKept DEF AdminRefresh
<1>7. Gone'
  BY <1>1, <1>2 DEF Gone, Forgotten, InFlight, AdminRefresh, TypeOK, cacheVars, dbVars
<1> QED
  BY <1>3, <1>4, <1>5, <1>6, <1>7

(* The steps of a refresh that leave the cache alone. *)
LEMMA AskKeeps ==
  ASSUME IInv, NEW j \in Job,
         NotRefreshed(j) \/ AskUpstream(j) \/ NoReadyKey(j) \/ UpstreamAnswers(j)
           \/ UpstreamFails(j)
  PROVE  IInv'
<1> USE DEF IInv
<1>1. /\ UNCHANGED <<cacheVars, dbVars, upstream, round, about, proven, raced, count>>
      /\ job[j] \notin {"none", "queued"}
  BY DEF NotRefreshed, AskUpstream, NoReadyKey, UpstreamAnswers, UpstreamFails
<1>2. Evidence'
  BY <1>1, EvidenceKept
<1>3. CASE NotRefreshed(j)
  <2>1. Finish(j)
    BY <1>3 DEF NotRefreshed
  <2>2. Tokens' /\ Answers' /\ job' \in [Job -> Stages] /\ sem' \in 0 .. Slots
        /\ answer' \in [Job -> (SUBSET Model) \cup {Nothing}]
    BY <1>1, <2>1, FinishKeeps
  <2>3. TypeOK'
    BY <1>1, <2>2 DEF TypeOK, CacheTypeOK, cacheVars, dbVars
  <2>4. Gone'
    BY <1>1, <2>1 DEF Gone, Forgotten, InFlight, Finish, TypeOK, cacheVars, dbVars
  <2> QED
    BY <1>2, <2>2, <2>3, <2>4
<1>4. ASSUME NEW stage \in {"asked", "failed", "answered"}, Move(j, stage), sem' = sem,
             stage = "answered" => answer' = [answer EXCEPT ![j] = upstream[about[j]]],
             stage # "answered" => answer' = answer,
             job[j] = "started" => row[about[j]] = "enabled"
      PROVE  IInv'
  <2>1. stage \in Stages \ {"none", "queued"}
    BY DEF Stages
  <2>2. Tokens' /\ job' \in [Job -> Stages]
    BY <1>1, <1>4, <2>1, MovedKeeps
  <2>3. answer' \in [Job -> (SUBSET Model) \cup {Nothing}]
    BY <1>4 DEF TypeOK
  <2>4. TypeOK'
    BY <1>1, <1>4, <2>2, <2>3 DEF TypeOK, CacheTypeOK, cacheVars, dbVars
  <2>5. Answers'
    BY <1>1, <1>4 DEF Answers, Move, TypeOK
  <2>6. Gone'
    BY <1>1, <1>4 DEF Gone, Forgotten, InFlight, Move, TypeOK, cacheVars, dbVars
  <2> QED
    BY <1>2, <2>2, <2>4, <2>5, <2>6
<1> QED
  BY <1>3, <1>4 DEF AskUpstream, NoReadyKey, UpstreamAnswers, UpstreamFails

(* The steps that write the cache. *)
LEMMA WriteKeeps ==
  ASSUME IInv, NEW j \in Job, KeepModels(j) \/ PublishModels(j)
  PROVE  IInv'
<1> USE DEF IInv
<1> DEFINE p == about[j]
<1>1. /\ job[j] \in {"failed", "answered"} /\ Finish(j)
      /\ UNCHANGED <<dbVars, upstream, round, about, raced, count>>
  BY DEF KeepModels, PublishModels
<1>2. p \in Provider
  BY DEF TypeOK
<1>3. Tokens' /\ Answers' /\ job' \in [Job -> Stages] /\ sem' \in 0 .. Slots
      /\ answer' \in [Job -> (SUBSET Model) \cup {Nothing}]
  BY <1>1, FinishKeeps
<1>4. CacheTypeOK' /\ proven' \in SUBSET Provider /\ proven \subseteq proven'
  <2>1. CASE KeepModels(j)
    <3>1. [models |-> {}, fetched |-> FALSE] \in CacheEntry
      BY DEF CacheEntry
    <3> QED
      BY <1>2, <2>1, <3>1 DEF KeepModels, RecordFailure, TypeOK, CacheTypeOK
  <2>2. CASE PublishModels(j)
    <3>1. answer[j] \in SUBSET Model
      BY <2>2 DEF PublishModels, Answers
    <3>2. [models |-> answer[j], fetched |-> TRUE] \in CacheEntry
      BY <3>1 DEF CacheEntry
    <3> QED
      BY <1>2, <2>2, <3>2 DEF PublishModels, Publish, TypeOK, CacheTypeOK
  <2> QED
    BY <2>1, <2>2
<1>5. TypeOK'
  BY <1>1, <1>3, <1>4 DEF TypeOK, dbVars
<1>6. \A q \in Provider : q # p => entries'[q] = entries[q] /\ soft'[q] = soft[q]
  BY DEF KeepModels, PublishModels, RecordFailure, Publish, TypeOK, CacheTypeOK
<1>7. Evidence'
  <2> SUFFICES ASSUME NEW q \in Provider, q \notin proven'
               PROVE  soft'[q] = Absent /\ ~(Discovered(q))'
    BY DEF Evidence, Unjudged
  <2>1. q \notin proven /\ soft[q] = Absent /\ ~Discovered(q)
    BY <1>4 DEF Evidence, Unjudged
  <2>2. CASE q # p
    BY <1>6, <2>1, <2>2 DEF Discovered
  <2>3. CASE q = p
    <3>1. KeepModels(j) /\ RecordFailure(p)
      BY <1>2, <2>3 DEF KeepModels, PublishModels
    <3>2. soft'[p] = Absent
      BY <2>1, <2>3, <3>1 DEF RecordFailure
    <3>3. entries'[p] = IF entries[p] = Absent THEN [models |-> {}, fetched |-> FALSE]
                        ELSE entries[p]
      BY <1>2, <3>1 DEF RecordFailure, TypeOK, CacheTypeOK
    <3>4. CASE entries[p] = Absent
      <4>1. ~entries'[p].fetched /\ entries'[p].models = {}
        BY <3>3, <3>4
      <4> QED
        BY <2>3, <3>2, <4>1 DEF Discovered
    <3>5. CASE entries[p] # Absent
      BY <2>1, <2>3, <3>2, <3>3, <3>5 DEF Discovered
    <3> QED
      BY <3>4, <3>5
  <2> QED
    BY <2>2, <2>3
<1>8. Gone'
  <2> SUFFICES ASSUME NEW q \in Provider, row[q] = "none", q \notin deleting, q \notin raced
               PROVE  Forgotten(q)'
    BY <1>1 DEF Gone, dbVars
  <2>1. Forgotten(q)
    BY DEF Gone
  <2>2. q # p
    BY <1>1, <2>1 DEF Forgotten, InFlight
  <2> QED
    BY <1>1, <1>6, <2>1, <2>2 DEF Forgotten, InFlight, Finish, TypeOK
<1> QED
  BY <1>3, <1>5, <1>7, <1>8

----------------------------------------------------------------------------
(* The steps around the refreshes. *)

LEMMA MissKeeps ==
  ASSUME IInv, NEW p \in Provider, NEW m \in Model, RequestMisses(p, m)
  PROVE  IInv'
<1> USE DEF IInv
<1>1. /\ entries' = entries
      /\ soft' = [soft EXCEPT ![p] = IF @ = Absent THEN {m} ELSE @ \cup {m}]
      /\ proven' = proven \cup {p}
      /\ UNCHANGED <<dbVars, upstream, jobVars, raced>>
  BY DEF RequestMisses, MarkRuntimeStale
<1>2. TypeOK'
  <2>1. count' \in [{"edits", "asked", "missing", "changes"} -> Nat]
    BY CountKeepsType DEF RequestMisses
  <2>2. soft' \in [Provider -> (SUBSET Model) \cup {Absent}]
    BY <1>1 DEF TypeOK, CacheTypeOK
  <2> QED
    BY <1>1, <2>1, <2>2 DEF TypeOK, CacheTypeOK, dbVars, jobVars
<1>3. Tokens' /\ Answers'
  BY <1>1, JobsKept
<1>4. Evidence'
  BY <1>1 DEF Evidence, Unjudged, Discovered, TypeOK, CacheTypeOK
<1>5. Gone'
  BY <1>1 DEF Gone, Forgotten, InFlight, dbVars, jobVars
<1> QED
  BY <1>2, <1>3, <1>4, <1>5

LEMMA EditKeeps ==
  ASSUME IInv,
         \/ \E p \in Provider, models \in Lists : UpstreamChanges(p, models)
         \/ \E p \in Provider, state \in {"enabled", "disabled"} : SaveProvider(p, state)
         \/ \E p \in Provider : DeleteProvider(p)
  PROVE  IInv'
<1> USE DEF IInv
<1>1. /\ UNCHANGED <<cacheVars, jobVars, proven, raced>>
      /\ count' \in [{"edits", "asked", "missing", "changes"} -> Nat]
  BY CountKeepsType DEF UpstreamChanges, SaveProvider, DeleteProvider
<1>2. /\ row' \in [Provider -> {"none", "disabled", "enabled"}]
      /\ deleting' \in SUBSET Provider
      /\ upstream' \in [Provider -> SUBSET Model]
  BY DiscoveryAssumption DEF UpstreamChanges, SaveProvider, DeleteProvider, TypeOK, dbVars
<1>3. TypeOK'
  BY <1>1, <1>2 DEF TypeOK, CacheTypeOK, cacheVars, jobVars
<1>4. Tokens' /\ Answers' /\ Evidence'
  BY <1>1, JobsKept, EvidenceKept
<1>5. \A p \in Provider :
        row'[p] = "none" /\ p \notin deleting' => row[p] = "none" /\ p \notin deleting
  BY DEF UpstreamChanges, SaveProvider, DeleteProvider, TypeOK, dbVars
<1>6. Gone'
  BY <1>1, <1>5 DEF Gone, Forgotten, InFlight, cacheVars, jobVars
<1> QED
  BY <1>3, <1>4, <1>6

LEMMA DropKeeps ==
  ASSUME IInv, NEW p \in Provider, DropFromCache(p)
  PROVE  IInv'
<1> USE DEF IInv
<1>1. /\ entries' = [entries EXCEPT ![p] = Absent] /\ soft' = soft
      /\ deleting' = deleting \ {p}
      /\ raced' = IF InFlight(p) = {} THEN raced ELSE raced \cup {p}
      /\ UNCHANGED <<row, upstream, jobVars, proven, count>>
  BY DEF DropFromCache, Remove, RemoveEntry
<1>2. TypeOK'
  BY <1>1 DEF TypeOK, CacheTypeOK, jobVars
<1>3. Tokens' /\ Answers'
  BY <1>1, JobsKept
<1>4. Evidence'
  BY <1>1 DEF Evidence, Unjudged, Discovered, TypeOK, CacheTypeOK
<1>5. Gone'
  <2> SUFFICES ASSUME NEW q \in Provider, row'[q] = "none", q \notin deleting', q \notin raced'
               PROVE  Forgotten(q)'
    BY DEF Gone
  <2>1. InFlight(q)' = InFlight(q) /\ job' = job
    BY <1>1 DEF InFlight, jobVars
  <2>2. CASE q = p
    BY <1>1, <2>1, <2>2 DEF Forgotten, TypeOK, CacheTypeOK
  <2>3. CASE q # p
    <3>1. Forgotten(q)
      BY <1>1, <2>3 DEF Gone
    <3> QED
      BY <1>1, <2>1, <2>3, <3>1 DEF Forgotten, TypeOK, CacheTypeOK
  <2> QED
    BY <2>2, <2>3
<1> QED
  BY <1>2, <1>3, <1>4, <1>5

----------------------------------------------------------------------------
(* The theorems. *)

LEMMA NextKeeps == IInv /\ [Next]_vars => IInv'
<1> SUFFICES ASSUME IInv, [Next]_vars
             PROVE  IInv'
  OBVIOUS
<1>1. CASE UNCHANGED vars
  BY <1>1 DEF vars, IInv, TypeOK, CacheTypeOK, Tokens, Holding, Answers, Evidence, Unjudged,
     Discovered, Gone, Forgotten, InFlight
<1>2. CASE \E j \in Job : Refresh(j)
  BY <1>2, AskKeeps, WriteKeeps DEF Refresh
<1> QED
  BY <1>1, <1>2, TickKeeps, RoundEndsKeeps, StartRefreshKeeps, AdminRefreshKeeps, MissKeeps,
     EditKeeps, DropKeeps DEF Next

(* The inductive invariant holds in every reachable state. *)
THEOREM DiscoveryInvariant == Spec => []IInv
BY InitHolds, NextKeeps, PTL DEF Spec

(* Every variable has its type; the semaphore never holds more tokens than
   slots nor fewer than none, on whichever path a refresh ends. *)
THEOREM DiscoveryTypes == Spec => []TypeOK
<1>1. IInv => TypeOK
  BY DEF IInv
<1> QED
  BY <1>1, DiscoveryInvariant, PTL

(* Failed refreshes alone take no target out of rotation (discovery.go:242). *)
THEOREM StalenessHasEvidence == Spec => []StaleNeedsEvidence
<1>1. IInv => StaleNeedsEvidence
  BY DEF IInv, Evidence, Unjudged, StaleNeedsEvidence, Stale, Judged
<1> QED
  BY <1>1, DiscoveryInvariant, PTL

(* A deleted provider is forgotten unless a refresh of it was in flight while
   it was removed from the cache (providers.go:168-186, discovery.go:192). *)
THEOREM DeletedIsForgotten == Spec => []GoneUnlessRaced
<1>1. IInv => GoneUnlessRaced
  BY DEF IInv, Gone, Forgotten, GoneUnlessRaced
<1> QED
  BY <1>1, DiscoveryInvariant, PTL
=============================================================================
