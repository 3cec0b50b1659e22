----------------------------- MODULE ModelCache -----------------------------
(***************************************************************************)
(* The state of the discovery cache (Cache in internal/discovery/          *)
(* discovery.go): what each provider was last seen to offer, and the       *)
(* models that answered 404 since (runtime stale).  Each operator is a     *)
(* critical section of the cache's lock and one step of the modules that   *)
(* use it.                                                                 *)
(***************************************************************************)
EXTENDS Ids

ASSUME AbsentAssumption == \A models \in SUBSET Model : models # Absent

VARIABLES entries,    \* provider |-> its entry, or Absent
          soft        \* provider |-> its runtime-stale models, or Absent

cacheVars == <<entries, soft>>

(* fetched stands for a non-zero fetchedAt: some refresh succeeded. *)
CacheEntry == [models : SUBSET Model, fetched : BOOLEAN]

CacheTypeOK ==
  /\ entries \in [Provider -> CacheEntry \cup {Absent}]
  /\ soft \in [Provider -> (SUBSET Model) \cup {Absent}]

NoCache ==
  /\ entries = [p \in Provider |-> Absent]
  /\ soft = [p \in Provider |-> Absent]

(* The provider counts as discovered: a refresh succeeded, or models are
   listed all the same. *)
Discovered(p) ==
  /\ entries[p] # Absent
  /\ entries[p].fetched \/ entries[p].models # {}

(* StaleTargets judges a target only when it knows the provider: from its
   entry or, after injectRuntimeStale, from a runtime-stale map. *)
Judged(p) == Discovered(p) \/ soft[p] # Absent

Offered(p, m) ==
  /\ Discovered(p)
  /\ m \in entries[p].models
  /\ soft[p] # Absent => m \notin soft[p]

Stale(p, m) == Judged(p) /\ ~Offered(p, m)

MarkRuntimeStale(p, m) ==
  /\ soft' = [soft EXCEPT ![p] = IF @ = Absent THEN {m} ELSE @ \cup {m}]
  /\ UNCHANGED entries

(* A successful refresh replaces the entry and empties the runtime-stale
   map; a map once created is never removed. *)
PublishKeepsSoft(p, models) ==
  /\ entries' = [entries EXCEPT ![p] = [models |-> models, fetched |-> TRUE]]
  /\ soft' = soft
Publish(p, models) ==
  /\ entries' = [entries EXCEPT ![p] = [models |-> models, fetched |-> TRUE]]
  /\ soft' = [soft EXCEPT ![p] = IF @ = Absent THEN Absent ELSE {}]

(* A failed refresh keeps what was known and when. *)
FailureDropsModels(p) ==
  /\ entries' = [entries EXCEPT ![p] = [models |-> {}, fetched |-> TRUE]]
  /\ UNCHANGED soft
RecordFailure(p) ==
  /\ entries' = [entries EXCEPT ![p] =
                   IF @ = Absent THEN [models |-> {}, fetched |-> FALSE] ELSE @]
  /\ UNCHANGED soft

RemoveEntry(p) ==
  /\ entries' = [entries EXCEPT ![p] = Absent]
  /\ UNCHANGED soft
=============================================================================
