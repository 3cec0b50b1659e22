------------------------------ MODULE KeyAdmin ------------------------------
(***************************************************************************)
(* Key administration: the handlers that create, update and delete API     *)
(* keys in SQLite and then reload the key pool                             *)
(* (internal/api/admin/api_keys.go, internal/store/api_keys.go, Load in    *)
(* internal/keypool/keypool.go), while providers come and go.  Load lists  *)
(* the providers, takes the pool's lock, and reads the keys of each under  *)
(* it; SQLite itself is free to change between any two of these.           *)
(* Cooldowns are left to KeyPool: Load forgets them.                       *)
(***************************************************************************)
EXTENDS Ids, Functions

CONSTANTS Handler,      \* requests to the key API that can be in progress
          NoHandler,    \* nobody
          Value,        \* the secrets
          Priority,     \* priorities a key can have
          MaxWrites,    \* bound: requests that change a key
          MaxEvents     \* bound: providers deleted or created, failed queries, restarts

(* A row of api_keys; "" is not a secret a row can have. *)
Row == [provider : Provider, value : Value, priority : Priority, enabled : BOOLEAN]

(* What the pool holds of a key. *)
Loaded == [key : Key, value : Value]

ASSUME KeyAdminAssumption ==
  /\ NoHandler \notin Handler
  /\ Absent \notin Row
  /\ IsFiniteSet(Key)
  /\ Priority \subseteq Nat
  /\ {MaxWrites, MaxEvents} \subseteq Nat

VARIABLES
  providers,  \* SQLite: the providers that exist
  row,        \* SQLite: the keys
  pool,       \* Pool.keys: << >> for a provider never loaded
  lock,       \* who holds the pool's lock to write, or NoHandler
  pc,         \* where each handler is
  edit,       \* the update it is in: the key, the secret it will write, and
              \* whether that is the one it read
  todo,       \* the providers it still has to load
  got,        \* the keys it read of one of them
  writer,     \* history: whose write of a key is not reloaded yet
  unsure,     \* history: provider and key whose reload failed, or was not tried
  count       \* how much of each bound was used

tableVars == <<providers, row>>
vars == <<providers, row, pool, lock, pc, edit, todo, got, writer, unsure, count>>

Stages == {"idle", "write", "list", "lock", "load", "publish"}

Nothing == [provider |-> Absent, keys |-> << >>]
NoEdit == [key |-> Absent, value |-> Absent, kept |-> FALSE]

----------------------------------------------------------------------------
(* What Load reads: the enabled keys of a provider by priority, then label;
   the order of equal priorities is left open. *)

EnabledKeys(p) == {k \in Key : row[k] # Absent /\ row[k].provider = p /\ row[k].enabled}

AnyOrder(s) == TRUE
ByPriority(s) ==
  \A i, j \in DOMAIN s : i < j => row[s[i].key].priority <= row[s[j].key].priority

Rows(p) == {[key |-> k, value |-> row[k].value] : k \in EnabledKeys(p)}

Listed(p) == {s \in Bijection(1 .. Cardinality(Rows(p)), Rows(p)) : ByPriority(s)}

Init ==
  /\ providers \in SUBSET Provider
  /\ row = [k \in Key |-> Absent]
  /\ pool = [p \in Provider |-> << >>]
  /\ lock = NoHandler
  /\ pc = [h \in Handler |-> "idle"]
  /\ edit = [h \in Handler |-> NoEdit]
  /\ todo = [h \in Handler |-> {}]
  /\ got = [h \in Handler |-> Nothing]
  /\ writer = [k \in Key |-> NoHandler]
  /\ unsure = {}
  /\ count = [writes |-> 0, events |-> 0]

Count(what, bound) ==
  /\ count[what] < bound
  /\ count' = [count EXCEPT ![what] = @ + 1]

Goto(h, stage) == pc' = [pc EXCEPT ![h] = stage]

----------------------------------------------------------------------------
(* The handlers.  Each write is one statement; the reload follows it. *)

Write(h, k, new) ==
  /\ row' = [row EXCEPT ![k] = new]
  /\ writer' = [writer EXCEPT ![k] = h]
  /\ Goto(h, "list")

CreateAPIKey(h, k, new) ==
  /\ pc[h] = "idle"
  /\ row[k] = Absent
  /\ new.provider \in providers
  /\ Count("writes", MaxWrites)
  /\ Write(h, k, new)
  /\ UNCHANGED <<providers, pool, lock, edit, todo, got, unsure>>

DeleteAPIKey(h, k) ==
  /\ pc[h] = "idle"
  /\ row[k] # Absent
  /\ Count("writes", MaxWrites)
  /\ Write(h, k, Absent)
  /\ UNCHANGED <<providers, pool, lock, edit, todo, got, unsure>>

(* updateAPIKey reads the key first: a body without a secret, here Absent,
   keeps the one it read. *)
ReadAPIKey(h, k, value) ==
  /\ pc[h] = "idle"
  /\ row[k] # Absent
  /\ Count("writes", MaxWrites)
  /\ edit' = [edit EXCEPT ![h] =
               [key |-> k,
                value |-> IF value = Absent THEN row[k].value ELSE value,
                kept |-> value = Absent]]
  /\ Goto(h, "write")
  /\ UNCHANGED <<tableVars, pool, lock, todo, got, writer, unsure>>

UpdateAPIKey(h, priority, enabled) ==
  LET k == edit[h].key IN
  /\ pc[h] = "write"
  /\ row[k] # Absent
  /\ Write(h, k, [provider |-> row[k].provider, value |-> edit[h].value,
                  priority |-> priority, enabled |-> enabled])
  /\ edit' = [edit EXCEPT ![h] = NoEdit]
  /\ UNCHANGED <<providers, pool, lock, todo, got, unsure, count>>

(* The key is gone by then: an error, and no reload. *)
UpdateFails(h) ==
  /\ pc[h] = "write"
  /\ row[edit[h].key] = Absent
  /\ edit' = [edit EXCEPT ![h] = NoEdit]
  /\ Goto(h, "idle")
  /\ UNCHANGED <<tableVars, pool, lock, todo, got, writer, unsure, count>>

----------------------------------------------------------------------------
(* Load. *)

ListProviders(h) ==
  /\ pc[h] = "list"
  /\ todo' = [todo EXCEPT ![h] = providers]
  /\ Goto(h, "lock")
  /\ UNCHANGED <<tableVars, pool, lock, edit, got, writer, unsure, count>>

(* The handler answers success all the same: the error is only logged. *)
Finished(h) == [k \in Key |-> IF writer[k] = h THEN NoHandler ELSE writer[k]]

ListFails(h) ==
  /\ pc[h] = "list"
  /\ Count("events", MaxEvents)
  /\ unsure' = unsure \cup (Provider \X {k \in Key : writer[k] = h})
  /\ writer' = Finished(h)
  /\ Goto(h, "idle")
  /\ UNCHANGED <<tableVars, pool, lock, edit, todo, got>>

(* The lock is taken before the keys are read: what a handler publishes is
   never older than what another one published before it. *)
LockAnyway(h) == lock' = h
Lock(h) == lock = NoHandler /\ lock' = h

TakeLock(h) ==
  /\ pc[h] = "lock"
  /\ Lock(h)
  /\ Goto(h, "load")
  /\ UNCHANGED <<tableVars, pool, edit, todo, got, writer, unsure, count>>

ReadKeys(h, p) ==
  /\ pc[h] = "load"
  /\ p \in todo[h]
  /\ \E s \in Listed(p) : got' = [got EXCEPT ![h] = [provider |-> p, keys |-> s]]
  /\ unsure' = {u \in unsure : u[1] # p}
  /\ Goto(h, "publish")
  /\ UNCHANGED <<tableVars, pool, lock, edit, todo, writer, count>>

(* The query of one provider fails: its keys stay as they were. *)
ReadFails(h, p) ==
  /\ pc[h] = "load"
  /\ p \in todo[h]
  /\ Count("events", MaxEvents)
  /\ todo' = [todo EXCEPT ![h] = @ \ {p}]
  /\ unsure' = unsure \cup ({p} \X Key)
  /\ UNCHANGED <<tableVars, pool, lock, pc, edit, got, writer>>

Publish(h) ==
  /\ pc[h] = "publish"
  /\ pool' = [pool EXCEPT ![got[h].provider] = got[h].keys]
  /\ todo' = [todo EXCEPT ![h] = @ \ {got[h].provider}]
  /\ got' = [got EXCEPT ![h] = Nothing]
  /\ Goto(h, "load")
  /\ UNCHANGED <<tableVars, lock, edit, writer, unsure, count>>

Unlock(h) ==
  /\ pc[h] = "load"
  /\ todo[h] = {}
  /\ lock' = NoHandler
  /\ writer' = Finished(h)
  /\ Goto(h, "idle")
  /\ UNCHANGED <<tableVars, pool, edit, todo, got, unsure, count>>

----------------------------------------------------------------------------
(* Around them. *)

(* SQLite deletes the keys of the provider with it; the pool is not reloaded,
   and no later Load touches a provider that is not listed. *)
Alone(p) == row
Cascade(p) == [k \in Key |-> IF row[k] # Absent /\ row[k].provider = p THEN Absent ELSE row[k]]

DeleteProvider(p) ==
  /\ p \in providers
  /\ Count("events", MaxEvents)
  /\ providers' = providers \ {p}
  /\ row' = Cascade(p)
  /\ unsure' = unsure \cup ({p} \X Key)
  /\ UNCHANGED <<pool, lock, pc, edit, todo, got, writer>>

CreateProvider(p) ==
  /\ p \notin providers
  /\ Count("events", MaxEvents)
  /\ providers' = providers \cup {p}
  /\ UNCHANGED <<row, pool, lock, pc, edit, todo, got, writer, unsure>>

(* The process ends wherever its handlers are and starts again: SQLite is
   what it was, the pool is loaded before the server listens. *)
Restart ==
  /\ Count("events", MaxEvents)
  /\ pool' \in [Provider -> UNION {Listed(p) : p \in Provider}]
  /\ \A p \in Provider : pool'[p] \in Listed(p)
  /\ lock' = NoHandler
  /\ pc' = [h \in Handler |-> "idle"]
  /\ edit' = [h \in Handler |-> NoEdit]
  /\ todo' = [h \in Handler |-> {}]
  /\ got' = [h \in Handler |-> Nothing]
  /\ writer' = [k \in Key |-> NoHandler]
  /\ unsure' = {}
  /\ UNCHANGED tableVars

Handle(h) ==
  \/ \E k \in Key, new \in Row : CreateAPIKey(h, k, new)
  \/ \E k \in Key : DeleteAPIKey(h, k)
  \/ \E k \in Key, value \in Value \cup {Absent} : ReadAPIKey(h, k, value)
  \/ \E priority \in Priority, enabled \in BOOLEAN : UpdateAPIKey(h, priority, enabled)
  \/ UpdateFails(h)
  \/ ListProviders(h)
  \/ ListFails(h)
  \/ TakeLock(h)
  \/ \E p \in Provider : ReadKeys(h, p)
  \/ \E p \in Provider : ReadFails(h, p)
  \/ Publish(h)
  \/ Unlock(h)

(* No request: the administrators may be done. *)
AllIdle == (\A h \in Handler : pc[h] = "idle") /\ UNCHANGED vars

Next ==
  \/ \E h \in Handler : Handle(h)
  \/ \E p \in Provider : DeleteProvider(p)
  \/ \E p \in Provider : CreateProvider(p)
  \/ Restart
  \/ AllIdle

Spec == Init /\ [][Next]_vars

----------------------------------------------------------------------------
(* Properties. *)

TypeOK ==
  /\ providers \in SUBSET Provider
  /\ row \in [Key -> [provider : providers, value : Value, priority : Priority,
                       enabled : BOOLEAN] \cup {Absent}]
  /\ pool \in [Provider -> Seq(Loaded)]
  /\ lock \in Handler \cup {NoHandler}
  /\ pc \in [Handler -> Stages]
  /\ edit \in [Handler -> [key : Key \cup {Absent}, value : Value \cup {Absent}, kept : BOOLEAN]]
  /\ todo \in [Handler -> SUBSET Provider]
  /\ got \in [Handler -> [provider : Provider \cup {Absent}, keys : Seq(Loaded)]]
  /\ writer \in [Key -> Handler \cup {NoHandler}]
  /\ unsure \in SUBSET (Provider \X Key)
  /\ count \in [{"writes", "events"} -> Nat]

(* What the pool can hand out of key k for provider p. *)
Served(p, k) == {e \in Range(pool[p]) : e.key = k}
InTable(p, k) ==
  IF k \in EnabledKeys(p) THEN {[key |-> k, value |-> row[k].value]} ELSE {}

(* Once the handler that last wrote a key has answered, requests get exactly
   what it wrote, whatever other handlers are in the middle of: a new value
   at once, and a key that was disabled or deleted never again.  Only a
   failed query, or the deletion of the key's provider, which does not reload
   the pool, leaves the pool behind (api_keys.go:33-40, keypool.go:32-54;
   docs/decisions.md:230-235). *)
AnsweredWritesAreServed ==
  lock = NoHandler =>
    \A p \in Provider, k \in Key :
      writer[k] = NoHandler /\ <<p, k>> \notin unsure => Served(p, k) = InTable(p, k)

(* With no write pending, the keys of a provider are handed out from the one
   with the lowest priority on (store/api_keys.go:38, keypool.go:64-73). *)
ServedByPriority ==
  (\A k \in Key : writer[k] = NoHandler) /\ lock = NoHandler =>
    \A p \in Provider :
      ({p} \X Key) \cap unsure = {} =>
        \A i, j \in DOMAIN pool[p] :
          row[pool[p][i].key].priority < row[pool[p][j].key].priority => i < j

(* An update without a secret leaves the one that is stored as it is
   (api_keys.go:129-131; internal/api/admin/admin_test.go:482).  It does not:
   it writes back the one it read, so a rotation that another administrator
   finished in between is undone. *)
OmittedSecretIsKept ==
  [][\A h \in Handler :
       edit[h].kept /\ pc[h] = "write" /\ pc'[h] = "list" =>
         row'[edit[h].key].value = row[edit[h].key].value]_vars
=============================================================================
