----------------------------- MODULE Discovery -----------------------------
(***************************************************************************)
(* The discovery cache at work (internal/discovery/discovery.go): rounds   *)
(* of refreshes started by a ticker, refreshes the admin asks for, the     *)
(* requests that mark models stale, and the admin who edits and deletes    *)
(* providers (internal/api/admin/providers.go, discovery.go).  A refresh   *)
(* reads the provider, asks the upstream without holding the lock, and     *)
(* only then writes the cache: everything else may happen in between.      *)
(***************************************************************************)
EXTENDS ModelCache

CONSTANTS AdminCall,    \* refreshes the admin can have in flight
          Nothing,      \* no answer in hand
          Slots,        \* refreshes of a round that run at once (4 in the code)
          Lists,        \* the model lists upstreams can have
          MaxEdits,     \* bound: provider edits
          MaxAsked,     \* bound: refreshes asked for by the admin
          MaxMissing,   \* bound: requests answered 404
          MaxChanges    \* bound: changes of an upstream's models

(* The refresh a round runs for p is the job p. *)
Job == Provider \cup AdminCall

ASSUME DiscoveryAssumption ==
  /\ Provider \cap AdminCall = {}
  /\ Lists \subseteq SUBSET Model
  /\ \A models \in Lists : Nothing # models
  /\ Slots \in Nat \ {0}
  /\ {MaxEdits, MaxAsked, MaxMissing, MaxChanges} \subseteq Nat

VARIABLES
  row,        \* SQLite: each provider is "none", "disabled" or "enabled"
  deleting,   \* providers deleted from SQLite, not yet from the cache
  upstream,   \* the models each upstream offers
  round,      \* a round of the ticker is "running", or "over"
  sem,        \* tokens in the semaphore of the current round
  job,        \* each job's stage
  about,      \* the provider it refreshes
  answer,     \* the models the upstream answered with
  proven,     \* history: providers with a successful refresh or a 404
  raced,      \* history: providers removed while a refresh was in flight
  count       \* how much of each bound was used

dbVars == <<row, deleting>>
jobVars == <<round, sem, job, about, answer>>
vars == <<entries, soft, row, deleting, upstream, round, sem, job, about, answer,
          proven, raced, count>>

Stages == {"none", "queued", "started", "asked", "answered", "failed"}

InFlight(p) == {j \in Job : job[j] \notin {"none", "queued"} /\ about[j] = p}

Init ==
  /\ NoCache
  /\ row = [p \in Provider |-> "enabled"]
  /\ deleting = {}
  /\ upstream \in [Provider -> Lists]
  /\ round = "over"
  /\ sem = 0
  /\ job = [j \in Job |-> "none"]
  /\ about \in [Job -> Provider]
  /\ \A p \in Provider : about[p] = p
  /\ \A c, d \in AdminCall : about[c] = about[d]
  /\ answer = [j \in Job |-> Nothing]
  /\ proven = {}
  /\ raced = {}
  /\ count = [edits |-> 0, asked |-> 0, missing |-> 0, changes |-> 0]

Count(what, bound) ==
  /\ count[what] < bound
  /\ count' = [count EXCEPT ![what] = @ + 1]

----------------------------------------------------------------------------
(* Rounds: refreshAll lists the providers, makes a semaphore for this round
   and starts a goroutine for each enabled one; it waits for all of them before
   the next tick is looked at. *)

Tick ==
  /\ round = "over"
  /\ \E p \in Provider : row[p] = "enabled"
  /\ round' = "running"
  /\ sem' = 0
  /\ job' = [j \in Job |-> IF j \in Provider /\ row[j] = "enabled" THEN "queued" ELSE job[j]]
  /\ UNCHANGED <<cacheVars, dbVars, upstream, about, answer, proven, raced, count>>

RoundEnds ==
  /\ round = "running"
  /\ \A p \in Provider : job[p] = "none"
  /\ round' = "over"
  /\ UNCHANGED <<cacheVars, dbVars, upstream, sem, job, about, answer, proven, raced, count>>

AcquireAnyway(p) ==
  /\ job[p] = "queued"
  /\ sem' = sem + 1
Acquire(p) ==
  /\ job[p] = "queued"
  /\ sem < Slots
  /\ sem' = sem + 1

StartRefresh(p) ==
  /\ Acquire(p)
  /\ job' = [job EXCEPT ![p] = "started"]
  /\ UNCHANGED <<cacheVars, dbVars, upstream, round, about, answer, proven, raced, count>>

AdminRefresh(c, p) ==
  /\ job[c] = "none"
  /\ Count("asked", MaxAsked)
  /\ job' = [job EXCEPT ![c] = "started"]
  /\ about' = [about EXCEPT ![c] = p]
  /\ UNCHANGED <<cacheVars, dbVars, upstream, round, sem, answer, proven, raced>>

----------------------------------------------------------------------------
(* One refresh: refreshProvider. *)

Move(j, stage) == job' = [job EXCEPT ![j] = stage]

FinishKeepsSlot(j) ==
  /\ job' = [job EXCEPT ![j] = "none"]
  /\ answer' = [answer EXCEPT ![j] = Nothing]
  /\ sem' = IF j \in Provider /\ answer[j] # Nothing THEN sem - 1 ELSE sem
Finish(j) ==
  /\ job' = [job EXCEPT ![j] = "none"]
  /\ answer' = [answer EXCEPT ![j] = Nothing]
  /\ sem' = IF j \in Provider THEN sem - 1 ELSE sem

(* The provider is gone or disabled: the refresh ends and changes nothing. *)
NotRefreshed(j) ==
  /\ job[j] = "started"
  /\ row[about[j]] # "enabled"
  /\ Finish(j)
  /\ UNCHANGED <<cacheVars, dbVars, upstream, round, about, proven, raced, count>>

(* It is there: with a ready key the upstream is asked; without one the
   refresh has failed. *)
AskUpstream(j) ==
  /\ job[j] = "started"
  /\ row[about[j]] = "enabled"
  /\ Move(j, "asked")
  /\ UNCHANGED <<cacheVars, dbVars, upstream, round, sem, about, answer, proven, raced, count>>

NoReadyKey(j) ==
  /\ job[j] = "started"
  /\ row[about[j]] = "enabled"
  /\ Move(j, "failed")
  /\ UNCHANGED <<cacheVars, dbVars, upstream, round, sem, about, answer, proven, raced, count>>

UpstreamAnswers(j) ==
  /\ job[j] = "asked"
  /\ Move(j, "answered")
  /\ answer' = [answer EXCEPT ![j] = upstream[about[j]]]
  /\ UNCHANGED <<cacheVars, dbVars, upstream, round, sem, about, proven, raced, count>>

(* An error status, an unreadable body, a timeout, the admin's call cancelled. *)
UpstreamFails(j) ==
  /\ job[j] = "asked"
  /\ Move(j, "failed")
  /\ UNCHANGED <<cacheVars, dbVars, upstream, round, sem, about, answer, proven, raced, count>>

KeepModels(j) ==
  /\ job[j] = "failed"
  /\ RecordFailure(about[j])
  /\ Finish(j)
  /\ UNCHANGED <<dbVars, upstream, round, about, proven, raced, count>>

PublishModels(j) ==
  /\ job[j] = "answered"
  /\ Publish(about[j], answer[j])
  /\ Finish(j)
  /\ proven' = proven \cup {about[j]}
  /\ UNCHANGED <<dbVars, upstream, round, about, raced, count>>

Refresh(j) ==
  \/ NotRefreshed(j)
  \/ AskUpstream(j)
  \/ NoReadyKey(j)
  \/ UpstreamAnswers(j)
  \/ UpstreamFails(j)
  \/ KeepModels(j)
  \/ PublishModels(j)

----------------------------------------------------------------------------
(* Around it. *)

RequestMisses(p, m) ==
  /\ Count("missing", MaxMissing)
  /\ MarkRuntimeStale(p, m)
  /\ proven' = proven \cup {p}
  /\ UNCHANGED <<dbVars, upstream, jobVars, raced>>

UpstreamChanges(p, models) ==
  /\ upstream[p] # models
  /\ Count("changes", MaxChanges)
  /\ upstream' = [upstream EXCEPT ![p] = models]
  /\ UNCHANGED <<cacheVars, dbVars, jobVars, proven, raced>>

(* createProvider (the admin may choose the id) and updateProvider. *)
SaveProvider(p, state) ==
  /\ row[p] # state
  /\ Count("edits", MaxEdits)
  /\ row' = [row EXCEPT ![p] = state]
  /\ UNCHANGED <<cacheVars, deleting, upstream, jobVars, proven, raced>>

(* deleteProvider: SQLite first, then the cache; one at a time per provider. *)
DeleteProvider(p) ==
  /\ row[p] # "none"
  /\ p \notin deleting
  /\ Count("edits", MaxEdits)
  /\ row' = [row EXCEPT ![p] = "none"]
  /\ deleting' = deleting \cup {p}
  /\ UNCHANGED <<cacheVars, upstream, jobVars, proven, raced>>

RemoveNothing(p) == UNCHANGED cacheVars
Remove(p) == RemoveEntry(p)

DropFromCache(p) ==
  /\ p \in deleting
  /\ Remove(p)
  /\ deleting' = deleting \ {p}
  /\ raced' = IF InFlight(p) = {} THEN raced ELSE raced \cup {p}
  /\ UNCHANGED <<row, upstream, jobVars, proven, count>>

Next ==
  \/ Tick
  \/ RoundEnds
  \/ \E p \in Provider : StartRefresh(p)
  \/ \E c \in AdminCall, p \in Provider : AdminRefresh(c, p)
  \/ \E j \in Job : Refresh(j)
  \/ \E p \in Provider, m \in Model : RequestMisses(p, m)
  \/ \E p \in Provider, models \in Lists : UpstreamChanges(p, models)
  \/ \E p \in Provider, state \in {"enabled", "disabled"} : SaveProvider(p, state)
  \/ \E p \in Provider : DeleteProvider(p)
  \/ \E p \in Provider : DropFromCache(p)

(* Goroutines that can run do, the ticker ticks, a refresh ends (its client
   has a timeout), and a provider whose refreshes are tried over and over
   does not fail every one of them. *)
Fairness ==
  /\ WF_vars(Tick)
  /\ WF_vars(RoundEnds)
  /\ \A p \in Provider : WF_vars(StartRefresh(p)) /\ WF_vars(DropFromCache(p))
  /\ \A j \in Job : WF_vars(Refresh(j))
  /\ \A p \in Provider : SF_vars(AskUpstream(p)) /\ SF_vars(UpstreamAnswers(p))

(* What a round's end rests on: the goroutines of the round that can run do,
   and a refresh that was begun ends. *)
RoundFairness ==
  /\ WF_vars(RoundEnds)
  /\ \A p \in Provider : WF_vars(StartRefresh(p)) /\ WF_vars(Refresh(p))

Spec == Init /\ [][Next]_vars
RoundSpec == Spec /\ RoundFairness
FairSpec == Spec /\ Fairness

----------------------------------------------------------------------------
(* Properties. *)

TypeOK ==
  /\ CacheTypeOK
  /\ row \in [Provider -> {"none", "disabled", "enabled"}]
  /\ deleting \in SUBSET Provider
  /\ upstream \in [Provider -> SUBSET Model]
  /\ round \in {"running", "over"}
  /\ sem \in 0 .. Slots
  /\ job \in [Job -> Stages]
  /\ about \in [Job -> Provider]
  /\ answer \in [Job -> (SUBSET Model) \cup {Nothing}]
  /\ proven \in SUBSET Provider
  /\ raced \in SUBSET Provider
  /\ count \in [{"edits", "asked", "missing", "changes"} -> Nat]

(* No target is taken out of rotation on a failed refresh alone: something
   the provider answered, a model list or a 404, says that a model is missing
   (discovery.go:242-252; TestStaleRequiresSuccessfulDiscovery). *)
StaleNeedsEvidence ==
  \A p \in Provider : p \notin proven => \A m \in Model : ~Stale(p, m)

(* A deleted provider's models stay listed only when a refresh of it was in
   flight while deleteProvider removed them (providers.go:168-186,
   discovery.go:192-196, 328-335). *)
GoneUnlessRaced ==
  \A p \in Provider :
    row[p] = "none" /\ p \notin deleting /\ InFlight(p) = {} /\ entries[p] # Absent
    => p \in raced

(* Once a provider stays enabled and the disturbances end, its targets are
   stale exactly when its upstream lacks the model: marks of 404s are undone
   and late answers of overlapping refreshes are overtaken
   (discovery.go:88-123, 328-335; docs/decisions.md:104-106, 118-119). *)
SettlesOnUpstream ==
  \A p \in Provider :
    <>[](row[p] = "enabled")
      => <>[](\A m \in Model : Stale(p, m) <=> m \notin upstream[p])

(* Every round ends, whatever fails in it and although its refreshes wait for
   each other's slots, so the next tick is served (discovery.go:100-123). *)
EveryRoundEnds == round = "running" ~> round = "over"

(* What docs/decisions.md:104-105 says of runtime staleness, "se marca
   soft-stale en memoria para ese target": a 404 takes out the model that
   answered it and no other. *)
OnlyTheMissingIsStale ==
  \A p \in Provider : \A m \in Model :
    Stale(p, m) => \/ Discovered(p) /\ m \notin entries[p].models
                   \/ soft[p] # Absent /\ m \in soft[p]
=============================================================================
