------------------------------ MODULE Gateway ------------------------------
(***************************************************************************)
(* Requests through the gateway: how a directive is resolved to a provider *)
(* and a key (internal/routing/routing.go), forwarded upstream, retried on *)
(* the next targets of the alias and answered (internal/proxy/proxy.go,    *)
(* embeddings.go), while other requests, the admin, the discovery refresh  *)
(* and the key pool change what it reads.                                  *)
(*                                                                         *)
(* Each request is a process.  A step is one access to shared state        *)
(* (SQLite, the cache lock, the pool lock), or several to different        *)
(* objects that could as well happen together: README.md says which.       *)
(***************************************************************************)
EXTENDS KeyPool, ModelCache, Functions

CONSTANTS Req,          \* concurrent requests
          Call,         \* the requests clients make: [kind, directive]
          ViaAlias,     \* the directive that names the alias
          NoAlias,      \* the alias does not exist
          NoReply,      \* nothing written to the client yet
          AliasRow,     \* the alias definitions the admin saves
          FirstAliases, \* the aliases there may be at the start
          FirstKeys,    \* the keys Load finds for each provider
          Embedders,    \* providers whose protocol supports embeddings
          Statuses,     \* HTTP statuses upstreams answer with
          Faults,       \* what else can go wrong with an attempt
          Offers,       \* the model lists a discovery refresh finds
          MaxAdmin,     \* bound: admin changes
          MaxRefresh,   \* bound: discovery refreshes that succeed
          MaxRelease,   \* bound: cooldowns that end, pool reloads
          MaxEvents     \* bound: all of these together, and cancellations

Kinds == {"chat", "stream", "embed"}
Routings == {"failover", "priority", "round_robin", "random"}

(* An alias as GetAliasByName returns it, its targets in order of position. *)
AliasType == [enabled : BOOLEAN, routing : Routings, targets : Seq(Target)]

(* alias_targets has the primary key (alias, provider, model): no target
   appears twice; a key belongs to one provider (migrations/001_init.sql). *)
ASSUME GatewayAssumption ==
  /\ Call \subseteq [kind : Kinds, directive : Target \cup {ViaAlias}]
  /\ AliasRow \subseteq AliasType
  /\ \A row \in AliasRow : IsInjective(row.targets)
  /\ FirstAliases \subseteq AliasRow
  /\ NoAlias \notin AliasType
  /\ ViaAlias \notin Target
  /\ FirstKeys \in [Provider -> Seq(Key)]
  /\ \A p, q \in Provider : p # q => Range(FirstKeys[p]) \cap Range(FirstKeys[q]) = {}
  /\ Embedders \subseteq Provider
  /\ Statuses \subseteq 100 .. 999
  /\ Faults \subseteq {"network", "request", "body", "translation"}
  /\ NoReply \notin Nat
  /\ Offers \subseteq SUBSET Model
  /\ {MaxAdmin, MaxRefresh, MaxRelease, MaxEvents} \subseteq Nat

VARIABLES
  alias,      \* SQLite: the alias row with its targets, or NoAlias
  enabled,    \* SQLite: the providers that exist and are enabled
  rr,         \* rrPositions of the alias: how often round robin selected
  pc,         \* where each request is
  call,       \* what it asks for
  gone,       \* the client gave up: the request's context is cancelled
  snap,       \* the request's copy of the alias, or NoAlias
  staleSet,   \* the stale targets of the alias, as it last read them
  at,         \* the target and key it is about to use, and since when
  tried,      \* the targets failover has used or passed over
  tries,      \* the upstream attempts made, with their results
  reply,      \* the status written to the client
  used        \* how much of each bound was used

poolVars  == <<pool>>
dbVars    == <<alias, enabled>>
ownVars   == <<call, gone, snap, staleSet, at, tried, tries, reply>>
vars == <<pool, entries, soft, alias, enabled, rr, pc, call, gone, snap,
          staleSet, at, tried, tries, reply, used>>

----------------------------------------------------------------------------
(* Classification of upstream results. *)

StatusClass(s) ==
  CASE s = 429 -> "rate"
    [] s >= 500 -> "down"
    [] s = 404 -> "missing"
    [] s \in {401, 403} -> "auth"
    [] s \in {400, 422} -> "client"
    [] OTHER -> "none"

Classes == {"rate", "down", "missing", "auth", "client", "none"}

(* A result: the status the upstream answered with (0: it did not), the
   status and error of the forwardResult, and whether a stream was begun. *)
Result == [upstream : Nat, status : Nat, err : BOOLEAN, wrote : BOOLEAN]

ClassOf(a) == IF a.err THEN "down" ELSE StatusClass(a.status)

ShouldFailover(a) == ClassOf(a) \notin {"none", "client"}

(* A result the client gets: what a stream wrote cannot be taken back.
   Mutant: a stream that broke off is tried again. *)
LastUnlessFailed(a) == ~ShouldFailover(a)
LastAttempt(a) == a.wrote \/ ~ShouldFailover(a)

(* The cooldown looks at the status alone: a network error has none. *)
ShouldCooldown(a) == StatusClass(a.upstream) \in {"rate", "down"}
ShouldSoftStale(a) == ClassOf(a) = "missing"

res(upstream, status, err, wrote) ==
  [upstream |-> upstream, status |-> status, err |-> err, wrote |-> wrote]

(* No answer: the request's context was cancelled, or the connection or the
   client's own timeout failed. *)
NoAnswer(cancelled) ==
  IF cancelled THEN {res(0, 504, TRUE, FALSE)}
  ELSE IF "network" \in Faults THEN {res(0, 0, TRUE, FALSE)} ELSE {}

(* The body the client sent has no translation to the provider's protocol. *)
BadRequest(kind) ==
  IF kind # "embed" /\ "request" \in Faults THEN {res(0, 400, FALSE, FALSE)} ELSE {}

(* An answer was received in full. *)
Received(kind, s) ==
  IF kind = "stream" /\ s = 200 THEN res(s, 200, FALSE, TRUE) ELSE res(s, s, FALSE, FALSE)

(* Its headers were, but reading the body failed.  The chat path ignores that
   for an error status; a stream has been begun by then. *)
Cut(kind, s) ==
  IF "body" \notin Faults \/ (kind # "embed" /\ s # 200) THEN {}
  ELSE IF kind = "stream" THEN {res(s, 502, TRUE, TRUE)} ELSE {res(s, s, TRUE, FALSE)}

(* The upstream's body cannot be translated back. *)
Untranslatable(kind, s) ==
  IF kind = "chat" /\ s = 200 /\ "translation" \in Faults
  THEN {res(s, 0, TRUE, FALSE)} ELSE {}

(* Every result one attempt can have. *)
Results(kind, cancelled) ==
  NoAnswer(cancelled) \cup BadRequest(kind) \cup
    IF cancelled THEN {}
    ELSE UNION {{Received(kind, s)} \cup Cut(kind, s) \cup Untranslatable(kind, s) :
                  s \in Statuses}

(* What a request with a single attempt answers (direct access, or an alias
   that vanished after it was resolved). *)
SingleReply(a) ==
  IF a.wrote THEN 200 ELSE IF a.err THEN 502 ELSE a.status

(* What failover answers with its last result: chat writes the result's
   status as it is, embeddings turn an error into 502. *)
FinalReply(kind, a) ==
  IF a.wrote THEN 200 ELSE IF kind = "embed" /\ a.err THEN 502 ELSE a.status

(* The status appendAttempt and finalizeStreamOutcome put in the Outcome. *)
ResultStatusAsSent(a) ==
  IF a.wrote THEN 200 ELSE IF a.status # 0 THEN a.status ELSE IF a.err THEN 502 ELSE 0
ResultStatus(a) ==
  IF a.err /\ a.wrote THEN IF a.status >= 400 THEN a.status ELSE 502
  ELSE IF a.status # 0 THEN a.status
  ELSE IF a.err THEN 502 ELSE 0

----------------------------------------------------------------------------
(* The life of a request. *)

PcSet == {"idle", "alias", "targets", "stale", "select", "lookup",
          "lookupTargets", "direct", "send", "next", "pick", "done"}

NoUse == [target |-> ViaAlias, key |-> NoKey, era |-> 0]

Init ==
  /\ pool = [p \in Provider |-> Fresh(FirstKeys[p])]
  /\ NoCache
  /\ alias \in FirstAliases
  /\ enabled = Provider
  /\ rr = 0
  /\ pc = [r \in Req |-> "idle"]
  /\ call \in [Req -> Call]
  /\ gone = [r \in Req |-> FALSE]
  /\ snap = [r \in Req |-> NoAlias]
  /\ staleSet = [r \in Req |-> {}]
  /\ at = [r \in Req |-> NoUse]
  /\ tried = [r \in Req |-> {}]
  /\ tries = [r \in Req |-> << >>]
  /\ reply = [r \in Req |-> NoReply]
  /\ used = [admin |-> 0, refresh |-> 0, release |-> 0, cancel |-> 0]

Goto(r, label) == pc' = [pc EXCEPT ![r] = label]

Answer(r, status) ==
  /\ reply' = [reply EXCEPT ![r] = status]
  /\ Goto(r, "done")

(* The stale targets of the alias: computed from the aliases SQLite holds
   now, not from the request's copy. *)
StaleNow ==
  IF alias = NoAlias THEN {}
  ELSE {t \in Range(alias.targets) : Stale(t[1], t[2])}

Arrive(r) ==
  /\ pc[r] = "idle"
  /\ Goto(r, IF call[r].directive = ViaAlias THEN "alias" ELSE "direct")
  /\ UNCHANGED <<poolVars, cacheVars, dbVars, rr, ownVars, used>>

(* The provider is chosen: an embeddings request is refused when its protocol
   has none; otherwise the key and target to use are fixed. *)
ChosenWithoutKey(r, t, label) ==
  /\ at' = [at EXCEPT ![r] = [target |-> t, key |-> Get(t[1]), era |-> used.release]]
  /\ Goto(r, label)
  /\ UNCHANGED reply
Chosen(r, t, label) ==
  IF Get(t[1]) = NoKey
  THEN Answer(r, 503) /\ UNCHANGED at
  ELSE IF call[r].kind = "embed" /\ t[1] \notin Embedders
  THEN Answer(r, 400) /\ UNCHANGED at
  ELSE /\ at' = [at EXCEPT ![r] = [target |-> t, key |-> Get(t[1]), era |-> used.release]]
       /\ Goto(r, label)
       /\ UNCHANGED reply

ResolveDirect(r) ==
  /\ pc[r] = "direct"
  /\ IF call[r].directive[1] \in enabled
     THEN Chosen(r, call[r].directive, "send")
     ELSE Answer(r, 404) /\ UNCHANGED at
  /\ UNCHANGED <<poolVars, cacheVars, dbVars, rr, call, gone, snap, staleSet,
                 tried, tries, used>>

(* GetAliasByName is two queries: the row, then its targets. *)
ReadAlias(r) ==
  /\ pc[r] = "alias"
  /\ IF alias = NoAlias \/ ~alias.enabled
     THEN Answer(r, 404) /\ UNCHANGED snap
     ELSE /\ snap' = [snap EXCEPT ![r] = alias]
          /\ Goto(r, "targets")
          /\ UNCHANGED reply
  /\ UNCHANGED <<poolVars, cacheVars, dbVars, rr, call, gone, staleSet, at,
                 tried, tries, used>>

CurrentTargets == IF alias = NoAlias THEN << >> ELSE alias.targets

ReadTargets(r) ==
  /\ pc[r] = "targets"
  /\ snap' = [snap EXCEPT ![r].targets = CurrentTargets]
  /\ Goto(r, "stale")
  /\ UNCHANGED <<poolVars, cacheVars, dbVars, rr, call, gone, staleSet, at,
                 tried, tries, reply, used>>

ReadStale(r) ==
  /\ pc[r] = "stale"
  /\ staleSet' = [staleSet EXCEPT ![r] = StaleNow]
  /\ Goto(r, "select")
  /\ UNCHANGED <<poolVars, cacheVars, dbVars, rr, call, gone, snap, at, tried,
                 tries, reply, used>>

(* The positions of the request's alias that can be selected. *)
Active(r) ==
  {i \in DOMAIN snap[r].targets :
     /\ snap[r].targets[i] \notin staleSet[r]
     /\ snap[r].targets[i][1] \in enabled}

(* The n-th of them, counting from 0. *)
IsNth(r, i, n) == Cardinality({j \in Active(r) : j < i}) = n

(* Round robin counts every selection of the alias; the others do not. *)
RotateStuck(r) == rr' = rr
Rotate(r) == rr' = IF snap[r].routing = "round_robin" THEN rr + 1 ELSE rr

Selectable(r) ==
  {i \in Active(r) :
     CASE snap[r].routing = "round_robin" -> IsNth(r, i, rr % Cardinality(Active(r)))
       [] snap[r].routing = "random"      -> TRUE
       [] OTHER                           -> IsNth(r, i, 0)}

SelectTarget(r) ==
  /\ pc[r] = "select"
  /\ IF Active(r) = {}
     THEN Answer(r, 503) /\ UNCHANGED <<at, rr>>
     ELSE /\ \E i \in Selectable(r) : Chosen(r, snap[r].targets[i], "lookup")
          /\ Rotate(r)
  /\ UNCHANGED <<poolVars, cacheVars, dbVars, call, gone, snap, staleSet,
                 tried, tries, used>>

(* The alias is read again by name before the first attempt; failover uses
   this copy.  If it is gone by now, there is a single attempt. *)
LookupAlias(r) ==
  /\ pc[r] = "lookup"
  /\ snap' = [snap EXCEPT ![r] = alias]
  /\ Goto(r, IF alias = NoAlias THEN "send" ELSE "lookupTargets")
  /\ UNCHANGED <<poolVars, cacheVars, dbVars, rr, call, gone, staleSet, at,
                 tried, tries, reply, used>>

LookupTargets(r) ==
  /\ pc[r] = "lookupTargets"
  /\ snap' = [snap EXCEPT ![r].targets = CurrentTargets]
  /\ tried' = [tried EXCEPT ![r] = {at[r].target}]
  /\ Goto(r, "send")
  /\ UNCHANGED <<poolVars, cacheVars, dbVars, rr, call, gone, staleSet, at,
                 tries, reply, used>>

----------------------------------------------------------------------------
(* Attempts and failover. *)

Attempt(r, a) ==
  [target |-> at[r].target, key |-> at[r].key, since |-> at[r].era,
   ended |-> used.release, result |-> a]

LastResult(r) == tries[r][Len(tries[r])].result

(* The upstream answers, or does not.  The cooldown is marked before the body
   is read; a single attempt is answered whatever it is, an attempt of an
   alias when it is final; a model that is missing is marked stale before the
   next target is looked for. *)
Upstream(r) ==
  /\ pc[r] = "send"
  /\ \E a \in Results(call[r].kind, gone[r]) :
       LET p == at[r].target[1]
           m == at[r].target[2]
       IN  /\ tries' = [tries EXCEPT ![r] = Append(@, Attempt(r, a))]
           /\ IF ShouldCooldown(a) THEN MarkCooldown(p, at[r].key) ELSE UNCHANGED pool
           /\ IF snap[r] = NoAlias
              THEN Answer(r, SingleReply(a)) /\ UNCHANGED cacheVars
              ELSE IF LastAttempt(a)
              THEN Answer(r, FinalReply(call[r].kind, a)) /\ UNCHANGED cacheVars
              ELSE /\ Goto(r, "next")
                   /\ UNCHANGED reply
                   /\ IF ShouldSoftStale(a) THEN MarkRuntimeStale(p, m)
                                            ELSE UNCHANGED cacheVars
  /\ UNCHANGED <<dbVars, rr, call, gone, snap, staleSet, at, tried, used>>

(* NextFailoverTarget reads the stale targets first, then the providers. *)
NextFailoverStale(r) ==
  /\ pc[r] = "next"
  /\ staleSet' = [staleSet EXCEPT ![r] = StaleNow]
  /\ Goto(r, "pick")
  /\ UNCHANGED <<poolVars, cacheVars, dbVars, rr, call, gone, snap, at, tried,
                 tries, reply, used>>

CandidatesAfterLast(r) ==
  LET targets == snap[r].targets
      last    == {i \in DOMAIN targets : targets[i] \in tried[r]}
  IN  {i \in DOMAIN targets :
         /\ \A j \in last : j < i
         /\ targets[i] \notin staleSet[r]
         /\ targets[i][1] \in enabled}
CandidatesAgain(r) ==
  {i \in DOMAIN snap[r].targets :
     /\ snap[r].targets[i] # at[r].target
     /\ snap[r].targets[i] \notin staleSet[r]
     /\ snap[r].targets[i][1] \in enabled}
Candidates(r) ==
  {i \in DOMAIN snap[r].targets :
     /\ snap[r].targets[i] \notin tried[r]
     /\ snap[r].targets[i] \notin staleSet[r]
     /\ snap[r].targets[i][1] \in enabled}

NextTargetLast(r) ==
  snap[r].targets[CHOOSE i \in Candidates(r) : \A j \in Candidates(r) : i >= j]
NextTarget(r) ==
  snap[r].targets[CHOOSE i \in Candidates(r) : \A j \in Candidates(r) : i <= j]

TriedWhenUsed(r, t, usable) ==
  tried' = IF usable THEN [tried EXCEPT ![r] = @ \cup {t}] ELSE tried
TriedNow(r, t, usable) == tried' = [tried EXCEPT ![r] = @ \cup {t}]

(* With no target left the last result is the answer.  A target without
   embeddings or without a ready key is passed over. *)
PickTarget(r) ==
  /\ pc[r] = "pick"
  /\ IF Candidates(r) = {}
     THEN /\ Answer(r, FinalReply(call[r].kind, LastResult(r)))
          /\ UNCHANGED <<tried, at>>
     ELSE LET t      == NextTarget(r)
              usable == /\ call[r].kind = "embed" => t[1] \in Embedders
                        /\ Get(t[1]) # NoKey
          IN  /\ TriedNow(r, t, usable)
              /\ UNCHANGED reply
              /\ IF usable
                 THEN /\ at' = [at EXCEPT ![r] =
                                  [target |-> t, key |-> Get(t[1]), era |-> used.release]]
                      /\ Goto(r, "send")
                 ELSE Goto(r, "next") /\ UNCHANGED at
  /\ UNCHANGED <<poolVars, cacheVars, dbVars, rr, call, gone, snap, staleSet,
                 tries, used>>

----------------------------------------------------------------------------
(* What happens around the requests. *)

Events == used.admin + used.refresh + used.release + used.cancel

Spend(what, bound) ==
  /\ used[what] < bound
  /\ Events < MaxEvents
  /\ used' = [used EXCEPT ![what] = @ + 1]

(* The client disconnects or its deadline passes. *)
Cancel(r) ==
  /\ pc[r] \notin {"idle", "done"}
  /\ ~gone[r]
  /\ Spend("cancel", MaxEvents)
  /\ gone' = [gone EXCEPT ![r] = TRUE]
  /\ UNCHANGED <<poolVars, cacheVars, dbVars, rr, pc, call, snap, staleSet, at,
                 tried, tries, reply>>

UpdateAlias(row) ==
  /\ alias # NoAlias
  /\ alias # row
  /\ Spend("admin", MaxAdmin)
  /\ alias' = row
  /\ UNCHANGED <<poolVars, cacheVars, enabled, rr, pc, ownVars>>

DeleteAlias ==
  /\ alias # NoAlias
  /\ Spend("admin", MaxAdmin)
  /\ alias' = NoAlias
  /\ UNCHANGED <<poolVars, cacheVars, enabled, rr, pc, ownVars>>

ToggleProvider(p) ==
  /\ Spend("admin", MaxAdmin)
  /\ enabled' = IF p \in enabled THEN enabled \ {p} ELSE enabled \cup {p}
  /\ UNCHANGED <<poolVars, cacheVars, alias, rr, pc, ownVars>>

(* A discovery refresh of p succeeds and finds these models. *)
RefreshSucceeds(p, models) ==
  /\ Spend("refresh", MaxRefresh)
  /\ Publish(p, models)
  /\ UNCHANGED <<poolVars, dbVars, rr, pc, ownVars>>

KeyRests(p, k) ==
  /\ Spend("release", MaxRelease)
  /\ CooldownEnds(p, k)
  /\ UNCHANGED <<cacheVars, dbVars, rr, pc, ownVars>>

(* The admin changed some key: Load builds every key state anew. *)
ReloadPool ==
  /\ Spend("release", MaxRelease)
  /\ pool' = [p \in Provider |-> Fresh(FirstKeys[p])]
  /\ UNCHANGED <<cacheVars, dbVars, rr, pc, ownVars>>

Handle(r) ==
  \/ ResolveDirect(r)
  \/ ReadAlias(r)
  \/ ReadTargets(r)
  \/ ReadStale(r)
  \/ SelectTarget(r)
  \/ LookupAlias(r)
  \/ LookupTargets(r)
  \/ Upstream(r)
  \/ NextFailoverStale(r)
  \/ PickTarget(r)

Environment ==
  \/ \E r \in Req : Arrive(r)
  \/ \E r \in Req : Cancel(r)
  \/ \E row \in AliasRow : UpdateAlias(row)
  \/ DeleteAlias
  \/ \E p \in Provider : ToggleProvider(p)
  \/ \E p \in Provider, models \in Offers : RefreshSucceeds(p, models)
  \/ \E p \in Provider, k \in Key : KeyRests(p, k)
  \/ ReloadPool

(* Every request was answered: the gateway waits for the next one. *)
AllAnswered == (\A r \in Req : pc[r] = "done") /\ UNCHANGED vars

Next == (\E r \in Req : Handle(r)) \/ Environment \/ AllAnswered

(* A goroutine that can run runs, and an upstream call ends: the client of
   proxy.New has a timeout, body included. *)
Fairness == \A r \in Req : WF_vars(Handle(r))

Spec == Init /\ [][Next]_vars
FairSpec == Spec /\ Fairness

----------------------------------------------------------------------------
(* Properties. *)

AttemptRec ==
  [target : Target, key : Key, since : Nat, ended : Nat, result : Result]

TypeOK ==
  /\ PoolTypeOK
  /\ CacheTypeOK
  /\ alias \in AliasRow \cup {NoAlias}
  /\ enabled \in SUBSET Provider
  /\ rr \in Nat
  /\ pc \in [Req -> PcSet]
  /\ call \in [Req -> Call]
  /\ gone \in [Req -> BOOLEAN]
  /\ snap \in [Req -> AliasType \cup {NoAlias}]
  /\ staleSet \in [Req -> SUBSET Target]
  /\ at \in [Req -> [target : Target \cup {ViaAlias}, key : Key \cup {NoKey}, era : Nat]]
  /\ tried \in [Req -> SUBSET Target]
  /\ tries \in [Req -> Seq(AttemptRec)]
  /\ reply \in [Req -> Nat \cup {NoReply}]
  /\ used \in [{"admin", "refresh", "release", "cancel"} -> Nat]

(* What the access log records of an answered request: the Outcome's status
   when it has an error class, else what was written.  A request that never
   reached an upstream has the status and class of its refusal. *)
Logged(r) ==
  LET a == LastResult(r) IN
  IF tries[r] = << >> THEN reply[r]
  ELSE IF snap[r] = NoAlias /\ a.err /\ ~a.wrote THEN 502
  ELSE IF ClassOf(a) # "none" /\ ResultStatus(a) > 0 THEN ResultStatus(a)
  ELSE reply[r]

(* No request is sent twice to the same target, whatever happens to the alias
   between the first resolution and the failover loop (proxy.go:243-300,
   routing.go:62-75). *)
EachTargetOnce ==
  \A r \in Req : \A i, j \in 1 .. Len(tries[r]) :
    tries[r][i].target = tries[r][j].target => i = j

FailedOver(a) ==
  ~a.wrote /\ (a.err \/ a.status \in {401, 403, 404, 429} \/ a.status >= 500)

(* Failover only leaves an attempt that failed in a recoverable way before a
   byte reached the client: an accepted, refused or streamed answer is the
   last attempt (proxy.go:270-279, 329-337; embeddings.go:109-113). *)
NothingAfterFinal ==
  \A r \in Req : \A i \in 1 .. Len(tries[r]) :
    i < Len(tries[r]) \/ reply[r] = NoReply => FailedOver(tries[r][i].result)

(* A key that answered 429 or 5xx to a request is not used again by it, for
   another target of the same provider, while it cools down: between the two
   attempts some cooldown ended or the pool was reloaded (proxy.go:157-159,
   302-305; keypool.go:56-90). *)
CooledKeyRests ==
  \A r \in Req : \A i, j \in 1 .. Len(tries[r]) :
    /\ i < j
    /\ tries[r][i].key = tries[r][j].key
    /\ ShouldCooldown(tries[r][i].result)
    => tries[r][i].ended < tries[r][j].since

(* While nobody edits the configuration and no refresh succeeds, the retries
   follow the order of the alias's targets, whatever the routing picked first
   and whatever other requests do to keys and stale marks
   (docs/decisions.md:67-70, routing.go:62-75). *)
RetriesInOrder ==
  used.admin = 0 /\ used.refresh = 0 =>
    \A r \in Req : \A i, j \in 2 .. Len(tries[r]) :
      i < j =>
        \E m, n \in DOMAIN snap[r].targets :
          /\ m < n
          /\ snap[r].targets[m] = tries[r][i].target
          /\ snap[r].targets[n] = tries[r][j].target

(* A recoverable failure reaches the client only when every target of the
   alias was tried or cannot be: stale or its provider disabled when the
   request last looked (proxy.go:293-298, embeddings.go:118-123). *)
GivesUpOnlyWhenExhausted ==
  [][\A r \in Req :
       /\ reply[r] = NoReply
       /\ reply'[r] # NoReply
       /\ snap[r] # NoAlias
       /\ tries'[r] # << >>
       /\ FailedOver(tries'[r][Len(tries'[r])].result)
       => \A t \in Range(snap[r].targets) :
            t \in tried[r] \cup staleSet[r] \/ t[1] \notin enabled]_vars

(* A failure is logged as one: when the client of a chat request got an error
   status, or its stream was cut, the log has an error status too, although
   the recorder saw 200 for the cut stream (access_log.go:85-91,
   outcome.go:160-222). *)
FailureLogged(r) ==
  /\ reply[r] \notin {NoReply, 0}
  /\ \/ reply[r] >= 400
     \/ tries[r] # << >> /\ LastResult(r).wrote /\ LastResult(r).err
  => Logged(r) >= 400

ChatFailureLogged ==
  \A r \in Req : call[r].kind # "embed" => FailureLogged(r)

(* What docs/decisions.md:82 says of a failover that runs out of targets:
   "devolver el ultimo error util", the client gets the last error. *)
ExhaustedRepliesError ==
  \A r \in Req :
    /\ reply[r] # NoReply
    /\ snap[r] # NoAlias
    /\ tries[r] # << >>
    /\ FailedOver(LastResult(r))
    => reply[r] \in 400 .. 599

(* Concurrent round-robin selections spread over the alias: until a target
   drops out, any two targets were selected first equally often, give or take
   one (routing.go:159-166). *)
FirstOf(t) ==
  {r \in Req : call[r].directive = ViaAlias /\ tries[r] # << >> /\ tries[r][1].target = t}

RoundRobinSpreads ==
  /\ used.admin = 0 /\ used.refresh = 0
  /\ \A p \in Provider : soft[p] = Absent
  /\ alias.routing = "round_robin"
  /\ \A r \in Req : pc[r] = "done" /\ tries[r] # << >>
  => \A t, u \in Range(alias.targets) :
       Cardinality(FirstOf(t)) <= Cardinality(FirstOf(u)) + 1

(* Every request that arrived is answered (or its connection is dropped). *)
EveryRequestAnswered ==
  \A r \in Req : pc[r] # "idle" ~> reply[r] # NoReply
=============================================================================
