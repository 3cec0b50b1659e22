--------------------------- MODULE KeyAdminProofs ---------------------------
(***************************************************************************)
(* Theorems about KeyAdmin for any number of handlers, providers and keys, *)
(* any failed queries and restarts: its type invariant, that an answered   *)
(* write is served, and that keys are served by priority.                  *)
(*                                                                         *)
(* Between the read of a provider's keys and their publication the pool is *)
(* behind the table, under the lock.  So the invariant speaks of what the  *)
(* pool is about to hold (Coming).  It says that this is the table's       *)
(* content of a key unless the reload of its last writer still has the     *)
(* provider to do (Pending), or is excused (unsure).                       *)
(***************************************************************************)
EXTENDS KeyAdmin, FiniteSetTheorems, TLAPS

(* Under the lock or not. *)
Locks ==
  /\ \A h \in Handler : pc[h] \in {"load", "publish"} <=> lock = h
  /\ \A h \in Handler : pc[h] = "publish" => got[h].provider \in Provider
  /\ \A h \in Handler : pc[h] = "write" => edit[h].key \in Key /\ edit[h].value \in Value

(* Who wrote a key and has not answered is on the way to its reload. *)
Writers ==
  \A k \in Key : writer[k] # NoHandler => pc[writer[k]] \in Stages \ {"idle", "write"}

(* Handler h is about to publish what it read of provider p. *)
Publishing(h, p) == pc[h] = "publish" /\ got[h].provider = p

Coming(p) ==
  IF lock # NoHandler /\ Publishing(lock, p) THEN got[lock].keys ELSE pool[p]

Holds(keys, k) == {e \in Range(keys) : e.key = k}
Settled(p, k) == Holds(Coming(p), k) = InTable(p, k)

(* The reload of handler h still has provider p to read. *)
ToRead(h, p) == p \in todo[h] /\ ~Publishing(h, p)

Pending(p, k) ==
  writer[k] # NoHandler /\ (pc[writer[k]] = "list" \/ ToRead(writer[k], p))

Excused(p, k) == <<p, k>> \in unsure

Known == \A p \in Provider, k \in Key : Excused(p, k) \/ Pending(p, k) \/ Settled(p, k)

(* No reload has a provider to read that does not exist, and none is needed. *)
Unlisted == \A p \in Provider \ providers, k \in Key : Excused(p, k) \/ Settled(p, k)

(* Of two keys that are certain the one with the lower priority comes first. *)
Certain(p, k) == ~Excused(p, k) /\ ~Pending(p, k)
Sorted(p, keys) ==
  \A i, j \in DOMAIN keys :
    Certain(p, keys[i].key) /\ Certain(p, keys[j].key) =>
      (row[keys[i].key].priority < row[keys[j].key].priority => i < j)
Ordered == \A p \in Provider : Sorted(p, Coming(p))

Synced == Known /\ Unlisted /\ Ordered

IInv == TypeOK /\ Locks /\ Writers /\ Synced

----------------------------------------------------------------------------
(* What Load reads of a provider. *)

LEMMA RowsAreLoaded ==
  ASSUME TypeOK, NEW p \in Provider
  PROVE  /\ Rows(p) \subseteq Loaded /\ IsFiniteSet(Rows(p))
         /\ \A k \in Key : {e \in Rows(p) : e.key = k} = InTable(p, k)
         /\ \A e \in Rows(p) : e.key \in Key /\ row[e.key] # Absent /\ row[e.key].provider = p
<1>1. EnabledKeys(p) \subseteq Key
  BY DEF EnabledKeys
<1>2. \A k \in EnabledKeys(p) : row[k].value \in Value
  BY DEF EnabledKeys, TypeOK
<1>3. Rows(p) \subseteq Loaded
  BY <1>1, <1>2 DEF Rows, Loaded
<1>4. IsFiniteSet(Rows(p))
  <2> DEFINE f == [k \in EnabledKeys(p) |-> [key |-> k, value |-> row[k].value]]
  <2>1. IsFiniteSet(EnabledKeys(p))
    BY <1>1, FS_Subset, KeyAdminAssumption
  <2>2. f \in Surjection(EnabledKeys(p), Rows(p))
    BY DEF Surjection, Rows
  <2> HIDE DEF f
  <2> QED
    BY <2>1, <2>2, FS_Surjection
<1>5. \A k \in Key : {e \in Rows(p) : e.key = k} = InTable(p, k)
  BY DEF Rows, InTable
<1>6. \A e \in Rows(p) : e.key \in Key /\ row[e.key] # Absent /\ row[e.key].provider = p
  BY DEF Rows, EnabledKeys
<1> QED
  BY <1>3, <1>4, <1>5, <1>6

LEMMA ListedIsRows ==
  ASSUME TypeOK, NEW p \in Provider, NEW s \in Listed(p)
  PROVE  /\ s \in Seq(Loaded) /\ Range(s) = Rows(p) /\ ByPriority(s)
         /\ DOMAIN s \subseteq Nat
         /\ \A k \in Key : Holds(s, k) = InTable(p, k)
<1> DEFINE n == Cardinality(Rows(p))
<1>1. n \in Nat
  BY RowsAreLoaded, FS_CardinalityType
<1>2. s \in [1 .. n -> Rows(p)] /\ \A e \in Rows(p) : \E i \in 1 .. n : s[i] = e
  BY DEF Listed, Bijection, Surjection
<1> HIDE DEF n
<1>3. s \in Seq(Rows(p))
  BY <1>1, <1>2
<1>4. s \in Seq(Loaded)
  BY <1>3, RowsAreLoaded
<1>5. Range(s) = Rows(p)
  BY <1>2 DEF Range
<1>6. ByPriority(s)
  BY DEF Listed
<1>7. \A k \in Key : Holds(s, k) = InTable(p, k)
  BY <1>5, RowsAreLoaded DEF Holds
<1> QED
  BY <1>1, <1>2, <1>4, <1>5, <1>6, <1>7

(* A list that was just read is sorted. *)
LEMMA ListedIsSorted ==
  ASSUME TypeOK, NEW p \in Provider, NEW s \in Listed(p)
  PROVE  \A i, j \in DOMAIN s : row[s[i].key].priority < row[s[j].key].priority => i < j
<1>1. ByPriority(s) /\ Range(s) = Rows(p) /\ DOMAIN s \subseteq Nat
  BY ListedIsRows
<1>2. \A i \in DOMAIN s : row[s[i].key].priority \in Nat
  <2> TAKE i \in DOMAIN s
  <2>1. s[i] \in Rows(p)
    BY <1>1 DEF Range
  <2>2. s[i].key \in Key /\ row[s[i].key] # Absent
    BY <2>1, RowsAreLoaded
  <2>3. row[s[i].key].priority \in Priority
    BY <2>2 DEF TypeOK
  <2> QED
    BY <2>3, KeyAdminAssumption
<1>3. \A i, j \in DOMAIN s : i < j => row[s[i].key].priority <= row[s[j].key].priority
  BY <1>1 DEF ByPriority
<1> QED
  BY <1>1, <1>2, <1>3

LEMMA ComingIsLoaded ==
  ASSUME TypeOK, NEW p \in Provider
  PROVE  /\ Coming(p) \in Seq(Loaded)
         /\ \A i \in DOMAIN Coming(p) : Coming(p)[i] \in Loaded
<1>1. pool[p] \in Seq(Loaded)
  BY DEF TypeOK
<1>2. lock # NoHandler => got[lock].keys \in Seq(Loaded)
  BY DEF TypeOK
<1>3. Coming(p) \in Seq(Loaded)
  BY <1>1, <1>2 DEF Coming
<1> HIDE DEF Coming
<1> QED
  BY <1>3

----------------------------------------------------------------------------
(* The initial states. *)

LEMMA InitHolds == Init => IInv
<1> SUFFICES ASSUME Init
             PROVE  IInv
  OBVIOUS
<1>1. TypeOK
  BY DEF Init, TypeOK, NoEdit, Nothing, Stages
<1>2. Locks /\ Writers
  BY KeyAdminAssumption DEF Init, Locks, Writers
<1>3. \A p \in Provider : Coming(p) = << >>
  BY DEF Init, Coming
<1>4. \A p \in Provider, k \in Key : Settled(p, k)
  <2> TAKE p \in Provider, k \in Key
  <2>1. Holds(Coming(p), k) = {}
    BY <1>3 DEF Holds, Range
  <2>2. InTable(p, k) = {}
    BY DEF Init, InTable, EnabledKeys
  <2> QED
    BY <2>1, <2>2 DEF Settled
<1>5. Ordered
  BY <1>3 DEF Ordered, Sorted
<1> QED
  BY <1>1, <1>2, <1>4, <1>5 DEF IInv, Synced, Known, Unlisted

----------------------------------------------------------------------------
(* The steps that neither change the table nor what is coming. *)

(* Nobody holds or will hold key k for provider p. *)
Nowhere(p, k) == InTable(p, k) = {} /\ Holds(Coming(p), k) = {}

LEMMA QuietKeeps ==
  ASSUME IInv, row' = row, providers \subseteq providers',
         \A p \in Provider : Coming(p)' = Coming(p),
         unsure \subseteq unsure',
         \A p \in Provider, k \in Key :
           Pending(p, k) => Pending(p, k)' \/ Excused(p, k)' \/ Nowhere(p, k)
  PROVE  Synced'
<1> USE DEF IInv, Synced
<1>1. \A p \in Provider, k \in Key : InTable(p, k)' = InTable(p, k)
  BY DEF InTable, EnabledKeys
<1>2. \A p \in Provider, k \in Key : Settled(p, k)' <=> Settled(p, k)
  BY <1>1 DEF Settled
<1>3. \A p \in Provider, k \in Key : Excused(p, k) => Excused(p, k)'
  BY DEF Excused
<1>4. \A p \in Provider, k \in Key : Nowhere(p, k) => Settled(p, k)
  BY DEF Nowhere, Settled
<1>5. Known'
  BY <1>2, <1>3, <1>4 DEF Known
<1>6. Unlisted'
  BY <1>2, <1>3 DEF Unlisted
<1>7. Ordered'
  <2> SUFFICES ASSUME NEW p \in Provider, NEW i \in DOMAIN Coming(p), NEW j \in DOMAIN Coming(p),
                      Certain(p, Coming(p)[i].key)', Certain(p, Coming(p)[j].key)',
                      row[Coming(p)[i].key].priority < row[Coming(p)[j].key].priority
               PROVE  i < j
    BY DEF Ordered, Sorted
  <2>1. \A n \in DOMAIN Coming(p) : Coming(p)[n].key \in Key
    BY ComingIsLoaded DEF Loaded
  <2>2. \A n \in DOMAIN Coming(p) : ~Nowhere(p, Coming(p)[n].key)
    BY DEF Nowhere, Holds, Range
  <2>3. Certain(p, Coming(p)[i].key) /\ Certain(p, Coming(p)[j].key)
    BY <1>3, <2>1, <2>2 DEF Certain
  <2> QED
    BY <2>3 DEF Ordered, Sorted
<1> QED
  BY <1>5, <1>6, <1>7

(* Where a handler is and how the bounds are used stays of its type. *)
LEMMA GotoKeepsType ==
  ASSUME TypeOK, NEW h \in Handler, NEW stage \in Stages, Goto(h, stage)
  PROVE  pc' \in [Handler -> Stages]
BY DEF TypeOK, Goto

LEMMA CountKeepsType ==
  ASSUME TypeOK, NEW what \in {"writes", "events"}, NEW bound, Count(what, bound)
  PROVE  count' \in [{"writes", "events"} -> Nat]
BY DEF TypeOK, Count

(* A handler that has nothing pending moves without the lock. *)
LEMMA UnlockedMoveKeeps ==
  ASSUME IInv, NEW h \in Handler, pc[h] \in {"idle", "write"},
         NEW stage \in {"idle", "write"}, Goto(h, stage),
         UNCHANGED <<tableVars, pool, lock, todo, got, writer, unsure>>
  PROVE  Writers' /\ Synced'
<1> USE DEF IInv
<1>1. \A g \in Handler : g # h => pc'[g] = pc[g]
  BY DEF Goto, TypeOK
<1>2. \A k \in Key : writer[k] # NoHandler => writer[k] \in Handler /\ writer[k] # h
  BY DEF TypeOK, Writers
<1>3. lock # h
  BY DEF Locks
<1>4. Writers'
  BY <1>1, <1>2 DEF Writers
<1>5. \A p \in Provider : Coming(p)' = Coming(p)
  BY <1>1, <1>3 DEF Coming, Publishing, TypeOK
<1>6. \A p \in Provider, k \in Key : Pending(p, k) => Pending(p, k)'
  BY <1>1, <1>2 DEF Pending, ToRead, Publishing
<1> QED
  BY <1>4, <1>5, <1>6, QuietKeeps DEF tableVars

LEMMA ReadAPIKeyKeeps ==
  ASSUME IInv, NEW h \in Handler, NEW k \in Key, NEW value \in Value \cup {Absent},
         ReadAPIKey(h, k, value)
  PROVE  IInv'
<1> USE DEF IInv
<1>1. row[k].value \in Value
  BY DEF ReadAPIKey, TypeOK
<1>2. edit'[h].key = k /\ edit'[h].value \in Value
      /\ edit' \in [Handler -> [key : Key \cup {Absent}, value : Value \cup {Absent}, kept : BOOLEAN]]
      /\ \A g \in Handler : g # h => edit'[g] = edit[g]
  BY <1>1 DEF ReadAPIKey, TypeOK
<1>3. pc' \in [Handler -> Stages] /\ count' \in [{"writes", "events"} -> Nat]
  BY GotoKeepsType, CountKeepsType DEF ReadAPIKey, Stages
<1>4. TypeOK'
  BY <1>2, <1>3 DEF ReadAPIKey, TypeOK, tableVars
<1>5. Locks'
  BY <1>2 DEF ReadAPIKey, Goto, Locks, TypeOK
<1>6. Writers' /\ Synced'
  BY UnlockedMoveKeeps DEF ReadAPIKey
<1> QED
  BY <1>4, <1>5, <1>6

LEMMA UpdateFailsKeeps ==
  ASSUME IInv, NEW h \in Handler, UpdateFails(h)
  PROVE  IInv'
<1> USE DEF IInv
<1>1. pc' \in [Handler -> Stages]
  BY GotoKeepsType DEF UpdateFails, Stages
<1>2. TypeOK'
  BY <1>1 DEF UpdateFails, TypeOK, tableVars, NoEdit
<1>3. Locks'
  BY DEF UpdateFails, Goto, Locks, TypeOK
<1>4. Writers' /\ Synced'
  BY UnlockedMoveKeeps DEF UpdateFails
<1> QED
  BY <1>2, <1>3, <1>4

----------------------------------------------------------------------------
(* The writes. *)

Rec == [provider : providers, value : Value, priority : Priority, enabled : BOOLEAN]

LEMMA WriteKeeps ==
  ASSUME IInv, NEW h \in Handler, NEW k \in Key, NEW new \in Rec \cup {Absent},
         pc[h] \in {"idle", "write"}, Write(h, k, new),
         UNCHANGED <<providers, pool, lock, todo, got, unsure>>,
         \A g \in Handler : g # h => edit'[g] = edit[g]
  PROVE  /\ row' \in [Key -> Rec \cup {Absent}]
         /\ writer' \in [Key -> Handler \cup {NoHandler}]
         /\ pc' \in [Handler -> Stages]
         /\ Locks' /\ Writers' /\ Synced'
<1> USE DEF IInv
<1>1. /\ row' \in [Key -> Rec \cup {Absent}]
      /\ writer' \in [Key -> Handler \cup {NoHandler}]
      /\ pc' \in [Handler -> Stages]
  BY GotoKeepsType DEF Write, TypeOK, Rec, Stages
<1>2. /\ pc'[h] = "list" /\ \A g \in Handler : g # h => pc'[g] = pc[g]
      /\ writer'[k] = h /\ \A l \in Key : l # k => writer'[l] = writer[l] /\ row'[l] = row[l]
  BY DEF Write, Goto, TypeOK
<1>3. Locks'
  BY <1>2 DEF Locks, TypeOK
<1>4. \A l \in Key : writer[l] # NoHandler => writer[l] \in Handler /\ writer[l] # h
  BY DEF TypeOK, Writers
<1>5. Writers'
  BY <1>2, <1>4 DEF Writers, Stages
<1>6. \A p \in Provider : Coming(p)' = Coming(p)
  <2>1. lock # h
    BY DEF Locks
  <2> QED
    BY <1>2, <2>1 DEF Coming, Publishing, TypeOK
<1>7. \A p \in Provider : Pending(p, k)'
  BY <1>2, KeyAdminAssumption DEF Pending
<1>8. \A p \in Provider, l \in Key : l # k => (Pending(p, l)' <=> Pending(p, l))
  BY <1>2, <1>4 DEF Pending, ToRead, Publishing
<1>9. \A p \in Provider, l \in Key : l # k => InTable(p, l)' = InTable(p, l)
  BY <1>2 DEF InTable, EnabledKeys
<1>10. \A p \in Provider, l \in Key : l # k => (Settled(p, l)' <=> Settled(p, l))
  BY <1>6, <1>9 DEF Settled
<1>11. \A p \in Provider, l \in Key : Excused(p, l)' <=> Excused(p, l)
  BY DEF Excused
<1>12. Known'
  BY <1>7, <1>8, <1>10, <1>11 DEF Known, Synced
<1>13. Unlisted'
  <2> SUFFICES ASSUME NEW p \in Provider \ providers
               PROVE  Excused(p, k) \/ Settled(p, k)'
    BY <1>10, <1>11 DEF Unlisted, Synced
  <2>1. InTable(p, k) = {}
    BY DEF InTable, EnabledKeys, TypeOK
  <2>2. InTable(p, k)' = {}
    BY <1>1 DEF InTable, EnabledKeys, Rec
  <2> QED
    BY <1>6, <2>1, <2>2 DEF Settled, Unlisted, Synced
<1>14. Ordered'
  <2> SUFFICES ASSUME NEW p \in Provider, NEW i \in DOMAIN Coming(p), NEW j \in DOMAIN Coming(p),
                      Certain(p, Coming(p)[i].key)', Certain(p, Coming(p)[j].key)',
                      row'[Coming(p)[i].key].priority < row'[Coming(p)[j].key].priority
               PROVE  i < j
    BY <1>6 DEF Ordered, Sorted
  <2>1. Coming(p)[i].key \in Key \ {k} /\ Coming(p)[j].key \in Key \ {k}
    BY <1>6, <1>7, ComingIsLoaded DEF Loaded, Certain
  <2>2. Certain(p, Coming(p)[i].key) /\ Certain(p, Coming(p)[j].key)
    BY <1>6, <1>8, <1>11, <2>1 DEF Certain
  <2> QED
    BY <1>2, <2>1, <2>2 DEF Ordered, Sorted, Synced
<1> QED
  BY <1>1, <1>3, <1>5, <1>12, <1>13, <1>14 DEF Synced

LEMMA ChangeKeeps ==
  ASSUME IInv, NEW h \in Handler,
         \/ \E k \in Key, new \in Row : CreateAPIKey(h, k, new)
         \/ \E k \in Key : DeleteAPIKey(h, k)
         \/ \E priority \in Priority, enabled \in BOOLEAN : UpdateAPIKey(h, priority, enabled)
  PROVE  IInv'
<1> USE DEF IInv
<1>1. ASSUME NEW k \in Key, NEW new \in Row, CreateAPIKey(h, k, new)
      PROVE  IInv'
  <2>1. new \in Rec
    BY <1>1 DEF CreateAPIKey, Row, Rec
  <2>2. /\ row' \in [Key -> Rec \cup {Absent}] /\ writer' \in [Key -> Handler \cup {NoHandler}]
        /\ pc' \in [Handler -> Stages] /\ Locks' /\ Writers' /\ Synced'
    BY <1>1, <2>1, WriteKeeps DEF CreateAPIKey
  <2>3. count' \in [{"writes", "events"} -> Nat]
    BY <1>1, CountKeepsType DEF CreateAPIKey
  <2> QED
    BY <1>1, <2>2, <2>3 DEF CreateAPIKey, TypeOK, Rec
<1>2. ASSUME NEW k \in Key, DeleteAPIKey(h, k)
      PROVE  IInv'
  <2>1. /\ row' \in [Key -> Rec \cup {Absent}] /\ writer' \in [Key -> Handler \cup {NoHandler}]
        /\ pc' \in [Handler -> Stages] /\ Locks' /\ Writers' /\ Synced'
    BY <1>2, WriteKeeps DEF DeleteAPIKey
  <2>2. count' \in [{"writes", "events"} -> Nat]
    BY <1>2, CountKeepsType DEF DeleteAPIKey
  <2> QED
    BY <1>2, <2>1, <2>2 DEF DeleteAPIKey, TypeOK, Rec
<1>3. ASSUME NEW priority \in Priority, NEW enabled \in BOOLEAN, UpdateAPIKey(h, priority, enabled)
      PROVE  IInv'
  <2> DEFINE k == edit[h].key
             new == [provider |-> row[k].provider, value |-> edit[h].value,
                     priority |-> priority, enabled |-> enabled]
  <2>1. k \in Key /\ edit[h].value \in Value /\ row[k] # Absent /\ pc[h] = "write"
    BY <1>3 DEF UpdateAPIKey, Locks
  <2>2. new \in Rec
    BY <2>1 DEF TypeOK, Rec
  <2>3. Write(h, k, new) /\ UNCHANGED <<providers, pool, lock, todo, got, unsure, count>>
        /\ edit' = [edit EXCEPT ![h] = NoEdit]
    BY <1>3, Zenon DEF UpdateAPIKey
  <2> HIDE DEF k, new
  <2>4. \A g \in Handler : g # h => edit'[g] = edit[g]
    BY <2>3 DEF TypeOK
  <2>5. /\ row' \in [Key -> Rec \cup {Absent}] /\ writer' \in [Key -> Handler \cup {NoHandler}]
        /\ pc' \in [Handler -> Stages] /\ Locks' /\ Writers' /\ Synced'
    BY <2>1, <2>2, <2>3, <2>4, WriteKeeps
  <2> QED
    BY <2>3, <2>5 DEF TypeOK, Rec, NoEdit
<1> QED
  BY <1>1, <1>2, <1>3

----------------------------------------------------------------------------
(* The reload. *)

LEMMA ListProvidersKeeps ==
  ASSUME IInv, NEW h \in Handler, ListProviders(h)
  PROVE  IInv'
<1> USE DEF IInv
<1>1. TypeOK'
  <2>1. pc' \in [Handler -> Stages]
    BY GotoKeepsType DEF ListProviders, Stages
  <2> QED
    BY <2>1 DEF ListProviders, TypeOK, tableVars
<1>2. /\ pc'[h] = "lock" /\ \A g \in Handler : g # h => pc'[g] = pc[g] /\ todo'[g] = todo[g]
      /\ todo'[h] = providers
  BY DEF ListProviders, Goto, TypeOK
<1>3. Locks' /\ Writers'
  BY <1>2 DEF ListProviders, Locks, Writers, Stages, TypeOK
<1>4. \A p \in Provider : Coming(p)' = Coming(p)
  <2>1. lock # h
    BY DEF Locks, ListProviders
  <2> QED
    BY <1>2, <2>1 DEF Coming, Publishing, TypeOK, ListProviders
<1>5. ASSUME NEW p \in Provider, NEW k \in Key, Pending(p, k)
      PROVE  Pending(p, k)' \/ Excused(p, k)' \/ Nowhere(p, k)
  <2>1. CASE writer[k] # h
    BY <1>2, <1>5, <2>1 DEF Pending, ToRead, Publishing, TypeOK, ListProviders
  <2>2. CASE writer[k] = h /\ p \in providers
    BY <1>2, <2>2, KeyAdminAssumption DEF Pending, ToRead, Publishing, ListProviders
  <2>3. CASE p \notin providers
    <3>1. InTable(p, k) = {}
      BY <2>3 DEF InTable, EnabledKeys, TypeOK
    <3> QED
      BY <2>3, <3>1 DEF Synced, Unlisted, Settled, Nowhere, Excused, ListProviders
  <2> QED
    BY <2>1, <2>2, <2>3
<1>6. Synced'
  BY <1>4, <1>5, QuietKeeps DEF ListProviders, tableVars
<1> QED
  BY <1>1, <1>3, <1>6

LEMMA FinishedIs ==
  ASSUME TypeOK, NEW h \in Handler, writer' = Finished(h)
  PROVE  /\ writer' \in [Key -> Handler \cup {NoHandler}]
         /\ \A k \in Key : writer'[k] # NoHandler => writer'[k] = writer[k] /\ writer[k] # h
         /\ \A k \in Key : writer[k] # h => writer'[k] = writer[k]
BY KeyAdminAssumption DEF TypeOK, Finished

LEMMA ListFailsKeeps ==
  ASSUME IInv, NEW h \in Handler, ListFails(h)
  PROVE  IInv'
<1> USE DEF IInv
<1>1. /\ writer' \in [Key -> Handler \cup {NoHandler}]
      /\ \A k \in Key : writer'[k] # NoHandler => writer'[k] = writer[k] /\ writer[k] # h
      /\ \A k \in Key : writer[k] # h => writer'[k] = writer[k]
  BY FinishedIs DEF ListFails
<1>2. TypeOK'
  <2>1. pc' \in [Handler -> Stages] /\ count' \in [{"writes", "events"} -> Nat]
    BY GotoKeepsType, CountKeepsType DEF ListFails, Stages
  <2> QED
    BY <1>1, <2>1 DEF ListFails, TypeOK, tableVars
<1>3. pc'[h] = "idle" /\ \A g \in Handler : g # h => pc'[g] = pc[g]
  BY DEF ListFails, Goto, TypeOK
<1>4. Locks' /\ Writers'
  BY <1>1, <1>3 DEF ListFails, Locks, Writers, TypeOK
<1>5. \A p \in Provider : Coming(p)' = Coming(p)
  <2>1. lock # h
    BY DEF Locks, ListFails
  <2> QED
    BY <1>3, <2>1 DEF Coming, Publishing, TypeOK, ListFails
<1>6. ASSUME NEW p \in Provider, NEW k \in Key, Pending(p, k)
      PROVE  Pending(p, k)' \/ Excused(p, k)'
  <2>1. CASE writer[k] = h
    BY <2>1 DEF Excused, ListFails
  <2>2. CASE writer[k] # h
    BY <1>1, <1>3, <1>6, <2>2 DEF Pending, ToRead, Publishing, TypeOK, ListFails
  <2> QED
    BY <2>1, <2>2
<1>7. Synced'
  BY <1>5, <1>6, QuietKeeps DEF ListFails, tableVars
<1> QED
  BY <1>2, <1>4, <1>7

LEMMA TakeLockKeeps ==
  ASSUME IInv, NEW h \in Handler, TakeLock(h)
  PROVE  IInv'
<1> USE DEF IInv
<1>1. TypeOK'
  <2>1. pc' \in [Handler -> Stages]
    BY GotoKeepsType DEF TakeLock, Stages
  <2> QED
    BY <2>1 DEF TakeLock, Lock, TypeOK, tableVars
<1>2. pc'[h] = "load" /\ \A g \in Handler : g # h => pc'[g] = pc[g]
  BY DEF TakeLock, Goto, TypeOK
<1>3. lock = NoHandler /\ lock' = h /\ h # NoHandler /\ pc[h] = "lock"
  BY KeyAdminAssumption DEF TakeLock, Lock
<1>4. Locks' /\ Writers'
  BY <1>2, <1>3, KeyAdminAssumption DEF TakeLock, Locks, Writers, Stages, TypeOK
<1>5. \A p \in Provider : Coming(p)' = Coming(p)
  BY <1>2, <1>3 DEF Coming, Publishing, TakeLock
<1>6. \A p \in Provider, k \in Key : Pending(p, k) => Pending(p, k)'
  BY <1>2, <1>3 DEF Pending, ToRead, Publishing, TypeOK, TakeLock
<1>7. Synced'
  BY <1>5, <1>6, QuietKeeps DEF TakeLock, tableVars
<1> QED
  BY <1>1, <1>4, <1>7

LEMMA ReadFailsKeeps ==
  ASSUME IInv, NEW h \in Handler, NEW p \in Provider, ReadFails(h, p)
  PROVE  IInv'
<1> USE DEF IInv
<1>1. TypeOK'
  <2>1. count' \in [{"writes", "events"} -> Nat]
    BY CountKeepsType DEF ReadFails
  <2> QED
    BY <2>1 DEF ReadFails, TypeOK, tableVars
<1>2. Locks' /\ Writers'
  BY DEF ReadFails, Locks, Writers
<1>3. \A q \in Provider : Coming(q)' = Coming(q)
  BY DEF Coming, Publishing, ReadFails
<1>4. ASSUME NEW q \in Provider, NEW k \in Key, Pending(q, k)
      PROVE  Pending(q, k)' \/ Excused(q, k)'
  <2>1. CASE q = p
    BY <2>1 DEF Excused, ReadFails
  <2>2. CASE q # p
    BY <1>4, <2>2 DEF Pending, ToRead, Publishing, TypeOK, ReadFails
  <2> QED
    BY <2>1, <2>2
<1>5. Synced'
  BY <1>3, <1>4, QuietKeeps DEF ReadFails, tableVars
<1> QED
  BY <1>1, <1>2, <1>5

LEMMA PublishKeeps ==
  ASSUME IInv, NEW h \in Handler, Publish(h)
  PROVE  IInv'
<1> USE DEF IInv
<1>1. TypeOK'
  <2>1. pc' \in [Handler -> Stages]
    BY GotoKeepsType DEF Publish, Stages
  <2>2. got' \in [Handler -> [provider : Provider \cup {Absent}, keys : Seq(Loaded)]]
    BY DEF Publish, TypeOK, Nothing
  <2>3. got[h].keys \in Seq(Loaded)
    BY DEF TypeOK
  <2> QED
    BY <2>1, <2>2, <2>3 DEF Publish, TypeOK, tableVars
<1>2. /\ pc[h] = "publish" /\ pc'[h] = "load"
      /\ \A g \in Handler : g # h => pc'[g] = pc[g] /\ todo'[g] = todo[g] /\ got'[g] = got[g]
      /\ todo'[h] = todo[h] \ {got[h].provider}
  BY DEF Publish, Goto, TypeOK
<1>3. lock = h /\ lock' = h /\ got[h].provider \in Provider /\ h # NoHandler
  BY <1>2, KeyAdminAssumption DEF Locks, Publish
<1>4. Locks' /\ Writers'
  BY <1>2, <1>3 DEF Publish, Locks, Writers, Stages, TypeOK
<1>5. \A p \in Provider : Coming(p)' = Coming(p)
  BY <1>2, <1>3 DEF Coming, Publishing, TypeOK, Publish
<1>6. \A p \in Provider, k \in Key : Pending(p, k) => Pending(p, k)'
  BY <1>2 DEF Pending, ToRead, Publishing, TypeOK, Publish
<1>7. Synced'
  BY <1>5, <1>6, QuietKeeps DEF Publish, tableVars
<1> QED
  BY <1>1, <1>4, <1>7

LEMMA UnlockKeeps ==
  ASSUME IInv, NEW h \in Handler, Unlock(h)
  PROVE  IInv'
<1> USE DEF IInv
<1>1. /\ writer' \in [Key -> Handler \cup {NoHandler}]
      /\ \A k \in Key : writer'[k] # NoHandler => writer'[k] = writer[k] /\ writer[k] # h
      /\ \A k \in Key : writer[k] # h => writer'[k] = writer[k]
  BY FinishedIs DEF Unlock
<1>2. TypeOK'
  <2>1. pc' \in [Handler -> Stages]
    BY GotoKeepsType DEF Unlock, Stages
  <2> QED
    BY <1>1, <2>1 DEF Unlock, TypeOK, tableVars
<1>3. pc[h] = "load" /\ pc'[h] = "idle" /\ \A g \in Handler : g # h => pc'[g] = pc[g]
  BY DEF Unlock, Goto, TypeOK
<1>4. lock = h /\ lock' = NoHandler
  BY <1>3 DEF Locks, Unlock
<1>5. Locks' /\ Writers'
  <2>1. \A g \in Handler : pc'[g] \notin {"load", "publish"} /\ lock' # g
    BY <1>3, <1>4, KeyAdminAssumption DEF Locks
  <2>2. \A g \in Handler : pc'[g] = "write" => pc[g] = "write"
    BY <1>3
  <2>3. Locks'
    BY <2>1, <2>2 DEF Unlock, Locks
  <2>4. Writers'
    BY <1>1, <1>3, KeyAdminAssumption DEF Writers, TypeOK
  <2> QED
    BY <2>3, <2>4
<1>6. \A p \in Provider : Coming(p)' = Coming(p)
  BY <1>3, <1>4 DEF Coming, Publishing, Unlock
<1>7. ASSUME NEW p \in Provider, NEW k \in Key, Pending(p, k)
      PROVE  Pending(p, k)'
  <2>1. writer[k] # h
    BY <1>3, <1>7 DEF Pending, ToRead, Unlock
  <2> QED
    BY <1>1, <1>3, <1>7, <2>1 DEF Pending, ToRead, Publishing, TypeOK, Unlock
<1>8. Synced'
  BY <1>6, <1>7, QuietKeeps DEF Unlock, tableVars
<1> QED
  BY <1>2, <1>5, <1>8

(* A provider that was read is settled, for every key. *)
LEMMA ReadKeysKeeps ==
  ASSUME IInv, NEW h \in Handler, NEW p \in Provider, ReadKeys(h, p)
  PROVE  IInv'
<1> USE DEF IInv
<1>1. PICK s \in Listed(p) : got' = [got EXCEPT ![h] = [provider |-> p, keys |-> s]]
  BY DEF ReadKeys
<1>2. /\ pc[h] = "load" /\ pc'[h] = "publish"
      /\ \A g \in Handler : g # h => pc'[g] = pc[g] /\ got'[g] = got[g]
      /\ got'[h].provider = p /\ got'[h].keys = s
  BY <1>1 DEF ReadKeys, Goto, TypeOK
<1>3. s \in Seq(Loaded) /\ \A k \in Key : Holds(s, k) = InTable(p, k)
  BY ListedIsRows
<1>4. TypeOK'
  <2>1. pc' \in [Handler -> Stages]
    BY GotoKeepsType DEF ReadKeys, Stages
  <2>2. got' \in [Handler -> [provider : Provider \cup {Absent}, keys : Seq(Loaded)]]
    BY <1>1, <1>3 DEF TypeOK
  <2> QED
    BY <2>1, <2>2 DEF ReadKeys, TypeOK, tableVars
<1>5. lock = h /\ lock' = h /\ h # NoHandler
  BY <1>2, KeyAdminAssumption DEF Locks, ReadKeys
<1>6. Locks' /\ Writers'
  BY <1>2, <1>5 DEF ReadKeys, Locks, Writers, Stages, TypeOK
<1>7. Coming(p)' = s /\ \A q \in Provider : q # p => Coming(q)' = Coming(q)
  BY <1>2, <1>5 DEF Coming, Publishing, ReadKeys
<1>8. \A q \in Provider, k \in Key : InTable(q, k)' = InTable(q, k)
  BY DEF InTable, EnabledKeys, ReadKeys, tableVars
<1>9. \A k \in Key : Settled(p, k)'
  BY <1>3, <1>7, <1>8 DEF Settled
<1>10. \A q \in Provider, k \in Key : q # p => (Settled(q, k)' <=> Settled(q, k))
  BY <1>7, <1>8 DEF Settled
<1>11. \A q \in Provider, k \in Key : q # p => (Excused(q, k)' <=> Excused(q, k))
  BY DEF Excused, ReadKeys
<1>12. \A q \in Provider, k \in Key : q # p => (Pending(q, k)' <=> Pending(q, k))
  BY <1>2 DEF Pending, ToRead, Publishing, TypeOK, ReadKeys
<1>13. Known'
  BY <1>9, <1>10, <1>11, <1>12 DEF Known, Synced
<1>14. Unlisted'
  BY <1>9, <1>10, <1>11 DEF Unlisted, Synced, ReadKeys, tableVars
<1>15. Ordered'
  <2> SUFFICES ASSUME NEW q \in Provider, NEW i \in DOMAIN Coming(q)', NEW j \in DOMAIN Coming(q)',
                      Certain(q, Coming(q)[i].key)', Certain(q, Coming(q)[j].key)',
                      row[Coming(q)'[i].key].priority < row[Coming(q)'[j].key].priority
               PROVE  i < j
    BY DEF Ordered, Sorted, ReadKeys, tableVars
  <2>1. CASE q = p
    BY <1>7, <2>1, ListedIsSorted
  <2>2. CASE q # p
    <3>1. Coming(q)' = Coming(q)
      BY <1>7, <2>2
    <3>2. Coming(q)[i].key \in Key /\ Coming(q)[j].key \in Key
      BY <3>1, ComingIsLoaded DEF Loaded
    <3>3. Certain(q, Coming(q)[i].key) /\ Certain(q, Coming(q)[j].key)
      BY <1>11, <1>12, <2>2, <3>1, <3>2 DEF Certain
    <3> QED
      BY <3>1, <3>3 DEF Ordered, Sorted, Synced
  <2> QED
    BY <2>1, <2>2
<1> QED
  BY <1>4, <1>6, <1>13, <1>14, <1>15 DEF Synced

----------------------------------------------------------------------------
(* The events around them. *)

LEMMA CreateProviderKeeps ==
  ASSUME IInv, NEW p \in Provider, CreateProvider(p)
  PROVE  IInv'
<1> USE DEF IInv
<1>1. TypeOK'
  <2>1. count' \in [{"writes", "events"} -> Nat]
    BY CountKeepsType DEF CreateProvider
  <2>2. row' \in [Key -> [provider : providers', value : Value, priority : Priority,
                           enabled : BOOLEAN] \cup {Absent}]
    BY DEF CreateProvider, TypeOK
  <2> QED
    BY <2>1, <2>2 DEF CreateProvider, TypeOK
<1>2. Locks' /\ Writers'
  BY DEF CreateProvider, Locks, Writers
<1>3. \A q \in Provider : Coming(q)' = Coming(q)
  BY DEF Coming, Publishing, CreateProvider
<1>4. \A q \in Provider, k \in Key : Pending(q, k) => Pending(q, k)'
  BY DEF Pending, ToRead, Publishing, CreateProvider
<1>5. Synced'
  BY <1>3, <1>4, QuietKeeps DEF CreateProvider
<1> QED
  BY <1>1, <1>2, <1>5

LEMMA DeleteProviderKeeps ==
  ASSUME IInv, NEW q \in Provider, DeleteProvider(q)
  PROVE  IInv'
<1> USE DEF IInv
<1>1. \A k \in Key : row'[k] = IF row[k] # Absent /\ row[k].provider = q THEN Absent ELSE row[k]
  BY DEF DeleteProvider, Cascade
<1>2. TypeOK'
  <2>1. count' \in [{"writes", "events"} -> Nat]
    BY CountKeepsType DEF DeleteProvider
  <2>2. row' \in [Key -> [provider : providers', value : Value, priority : Priority,
                           enabled : BOOLEAN] \cup {Absent}]
    BY DEF DeleteProvider, Cascade, TypeOK
  <2> QED
    BY <2>1, <2>2 DEF DeleteProvider, TypeOK
<1>3. Locks' /\ Writers'
  BY DEF DeleteProvider, Locks, Writers
<1>4. \A p \in Provider : Coming(p)' = Coming(p)
  BY DEF Coming, Publishing, DeleteProvider
<1>5. \A p \in Provider, k \in Key : Pending(p, k)' <=> Pending(p, k)
  BY DEF Pending, ToRead, Publishing, DeleteProvider
<1>6. \A k \in Key : Excused(q, k)'
  BY DEF Excused, DeleteProvider
<1>7. \A p \in Provider, k \in Key : p # q => (Excused(p, k)' <=> Excused(p, k))
  BY DEF Excused, DeleteProvider
<1>8. \A p \in Provider, k \in Key : p # q => InTable(p, k)' = InTable(p, k)
  BY <1>1, KeyAdminAssumption DEF InTable, EnabledKeys
<1>9. \A p \in Provider, k \in Key : p # q => (Settled(p, k)' <=> Settled(p, k))
  BY <1>4, <1>8 DEF Settled
<1>10. Known'
  BY <1>5, <1>6, <1>7, <1>9 DEF Known, Synced
<1>11. Unlisted'
  BY <1>6, <1>7, <1>9 DEF Unlisted, Synced, DeleteProvider
<1>12. Ordered'
  <2> SUFFICES ASSUME NEW p \in Provider, NEW i \in DOMAIN Coming(p), NEW j \in DOMAIN Coming(p),
                      Certain(p, Coming(p)[i].key)', Certain(p, Coming(p)[j].key)',
                      row'[Coming(p)[i].key].priority < row'[Coming(p)[j].key].priority
               PROVE  i < j
    BY <1>4 DEF Ordered, Sorted
  <2>1. \A n \in DOMAIN Coming(p) : Coming(p)[n].key \in Key
    BY ComingIsLoaded DEF Loaded
  <2>2. p # q
    BY <1>4, <1>6, <2>1 DEF Certain
  <2>3. Certain(p, Coming(p)[i].key) /\ Certain(p, Coming(p)[j].key)
    BY <1>4, <1>5, <1>7, <2>1, <2>2 DEF Certain
  <2>4. ASSUME NEW n \in DOMAIN Coming(p), Certain(p, Coming(p)[n].key)
        PROVE  row'[Coming(p)[n].key] = row[Coming(p)[n].key]
    <3>1. Settled(p, Coming(p)[n].key)
      BY <2>1, <2>4 DEF Certain, Known, Synced
    <3>2. Coming(p)[n] \in Holds(Coming(p), Coming(p)[n].key)
      BY DEF Holds, Range
    <3>3. InTable(p, Coming(p)[n].key) # {}
      BY <3>1, <3>2 DEF Settled
    <3>4. row[Coming(p)[n].key].provider = p
      BY <3>3 DEF InTable, EnabledKeys
    <3> QED
      BY <1>1, <2>1, <2>2, <3>4
  <2> QED
    BY <2>3, <2>4 DEF Ordered, Sorted, Synced
<1> QED
  BY <1>2, <1>3, <1>10, <1>11, <1>12 DEF Synced

LEMMA RestartKeeps ==
  ASSUME IInv, Restart
  PROVE  IInv'
<1> USE DEF IInv
<1>1. \A p \in Provider : /\ pool'[p] \in Listed(p)
                          /\ pool'[p] \in Seq(Loaded)
                          /\ \A k \in Key : Holds(pool'[p], k) = InTable(p, k)
  BY ListedIsRows DEF Restart
<1>2. pool' \in [Provider -> Seq(Loaded)]
  BY <1>1 DEF Restart
<1>3. TypeOK'
  <2>1. count' \in [{"writes", "events"} -> Nat]
    BY CountKeepsType DEF Restart
  <2> QED
    BY <1>2, <2>1 DEF Restart, TypeOK, tableVars, Stages, NoEdit, Nothing
<1>4. Locks' /\ Writers'
  BY KeyAdminAssumption DEF Restart, Locks, Writers
<1>5. \A p \in Provider : Coming(p)' = pool'[p]
  BY DEF Coming, Restart
<1>6. \A p \in Provider, k \in Key : Settled(p, k)'
  <2>1. \A p \in Provider, k \in Key : InTable(p, k)' = InTable(p, k)
    BY DEF InTable, EnabledKeys, Restart, tableVars
  <2> QED
    BY <1>1, <1>5, <2>1 DEF Settled
<1>7. Ordered'
  <2> SUFFICES ASSUME NEW p \in Provider, NEW i \in DOMAIN pool'[p], NEW j \in DOMAIN pool'[p],
                      row[pool'[p][i].key].priority < row[pool'[p][j].key].priority
               PROVE  i < j
    BY <1>5 DEF Ordered, Sorted, Restart, tableVars
  <2> QED
    BY <1>1, ListedIsSorted
<1> QED
  BY <1>3, <1>4, <1>6, <1>7 DEF Synced, Known, Unlisted

LEMMA StutterKeeps ==
  ASSUME IInv, UNCHANGED vars
  PROVE  IInv'
<1> USE DEF IInv
<1>1. TypeOK' /\ Locks' /\ Writers'
  BY DEF vars, TypeOK, Locks, Writers
<1>2. \A p \in Provider : Coming(p)' = Coming(p)
  BY DEF vars, Coming, Publishing
<1>3. \A p \in Provider, k \in Key : Pending(p, k) => Pending(p, k)'
  BY DEF vars, Pending, ToRead, Publishing
<1>4. Synced'
  BY <1>2, <1>3, QuietKeeps DEF vars
<1> QED
  BY <1>1, <1>4

----------------------------------------------------------------------------
(* The theorems. *)

LEMMA NextKeeps == IInv /\ [Next]_vars => IInv'
<1> SUFFICES ASSUME IInv, [Next]_vars
             PROVE  IInv'
  OBVIOUS
<1>1. CASE UNCHANGED vars \/ AllIdle
  BY <1>1, StutterKeeps DEF AllIdle
<1>2. ASSUME NEW h \in Handler, Handle(h)
      PROVE  IInv'
  BY <1>2, ChangeKeeps, ReadAPIKeyKeeps, UpdateFailsKeeps, ListProvidersKeeps, ListFailsKeeps,
     TakeLockKeeps, ReadKeysKeeps, ReadFailsKeeps, PublishKeeps, UnlockKeeps DEF Handle
<1> QED
  BY <1>1, <1>2, DeleteProviderKeeps, CreateProviderKeeps, RestartKeeps DEF Next

(* The inductive invariant holds in every reachable state. *)
THEOREM KeyAdminInvariant == Spec => []IInv
BY InitHolds, NextKeeps, PTL DEF Spec

(* Every variable has its type; a row belongs to a provider that exists. *)
THEOREM KeyAdminTypes == Spec => []TypeOK
<1>1. IInv => TypeOK
  BY DEF IInv
<1> QED
  BY <1>1, KeyAdminInvariant, PTL

(* What an answered handler wrote is what the pool hands out, whichever
   reloads overlap (api_keys.go:33-40, keypool.go:32-54). *)
THEOREM WritesTakeEffect == Spec => []AnsweredWritesAreServed
<1>1. IInv => AnsweredWritesAreServed
  <2> SUFFICES ASSUME IInv, lock = NoHandler, NEW p \in Provider, NEW k \in Key,
                      writer[k] = NoHandler, <<p, k>> \notin unsure
               PROVE  Served(p, k) = InTable(p, k)
    BY DEF AnsweredWritesAreServed
  <2>1. Settled(p, k)
    BY DEF IInv, Synced, Known, Excused, Pending
  <2> QED
    BY <2>1 DEF Settled, Coming, Holds, Served
<1> QED
  BY <1>1, KeyAdminInvariant, PTL

(* With no write pending the keys come in the order of their priorities
   (store/api_keys.go:38, keypool.go:64-73). *)
THEOREM PriorityIsServed == Spec => []ServedByPriority
<1>1. IInv => ServedByPriority
  <2> SUFFICES ASSUME IInv, \A k \in Key : writer[k] = NoHandler, lock = NoHandler,
                      NEW p \in Provider, ({p} \X Key) \cap unsure = {},
                      NEW i \in DOMAIN pool[p], NEW j \in DOMAIN pool[p],
                      row[pool[p][i].key].priority < row[pool[p][j].key].priority
               PROVE  i < j
    BY DEF ServedByPriority
  <2>1. Coming(p) = pool[p]
    BY DEF Coming
  <2>2. pool[p][i].key \in Key /\ pool[p][j].key \in Key
    BY <2>1, ComingIsLoaded DEF IInv, Loaded
  <2>3. \A k \in Key : Certain(p, k)
    BY DEF Certain, Excused, Pending
  <2> QED
    BY <2>1, <2>2, <2>3 DEF IInv, Synced, Ordered, Sorted
<1> QED
  BY <1>1, KeyAdminInvariant, PTL
=============================================================================
