--------------------------- MODULE StorageProofs ---------------------------
(***************************************************************************)
(* Theorems about Storage for any databases an older version left, any     *)
(* number of crashes, concurrent handlers and edits, and any names: its    *)
(* type invariant, that prefixes stay unique and stable, that an upgrade   *)
(* loses nothing, and that sessions outlive the process.  The invariant    *)
(* they need is TypeOK with three parts: what a schema version says of the *)
(* rows (Schema), what the place of the process says of the database       *)
(* (Progress), and where the secret is (Secrets).                          *)
(***************************************************************************)
EXTENDS Storage, WellFoundedInduction, TLAPS

(* Where the process has made sure of the index, and of its secret. *)
Indexing == {"secret", "load", "serving", "draining"}
Signing == {"load", "serving", "draining"}

Schema ==
  /\ schema <= 1 => \A r \in provider : r.slug = NoSlug
  /\ indexed => schema >= 2 /\ SlugsDistinct(provider)

Progress ==
  /\ phase \notin {"down", "migrate"} => schema = LastMigration
  /\ phase # "backfill" => need = {}
  /\ \A r \in need : r.slug = NoSlug
  /\ phase = "backfill" => \A r \in provider : r.slug = NoSlug => r \in need
  /\ phase \in Indexing => indexed /\ \A r \in provider : r.slug # NoSlug

Secrets ==
  /\ phase \in Signing => secret = saved /\ saved # NoSecret
  /\ \A c \in cookie : c.signed = saved
  /\ saved = NoSecret => cookie = {}

IInv == TypeOK /\ Schema /\ Progress /\ Secrets

----------------------------------------------------------------------------
(* The operators the model is built from. *)

LEMMA FirstIsIn ==
  ASSUME NEW S, S \subseteq Nat, S # {}
  PROVE  First(S) \in S
<1>1. PICK i \in S : \A j \in S : <<j, i>> \notin OpToRel(<, Nat)
  BY WFMin, NatLessThanWellFounded, Zenon
<1>2. \A j \in S : ~(j < i)
  BY <1>1, Zenon DEF OpToRel
<1>3. \A j \in S : i <= j
  BY <1>2
<1> QED
  BY <1>3, Zenon DEF First

(* Every slug the search tries is one, and not the empty one. *)
LEMMA CandidateIsSlug ==
  ASSUME NEW base \in Range(Slugify), NEW n \in 1 .. LastNumber
  PROVE  Candidate(base, n) \in Slug /\ Candidate(base, n) # NoSlug
<1>1. base \in Slug
  BY StorageAssumption DEF Range
<1>2. CASE n = 1
  BY <1>1, <1>2, StorageAssumption DEF Candidate
<1>3. CASE n # 1
  <2>1. n \in 2 .. LastNumber
    BY <1>3, StorageAssumption
  <2>2. Numbered[<<base, n>>] \in Slug
    BY <2>1, StorageAssumption
  <2> QED
    BY <1>3, <2>2, StorageAssumption DEF Candidate
<1> QED
  BY <1>2, <1>3

LEMMA SlugifyIsBase ==
  ASSUME NEW t \in Name \cup Typed
  PROVE  Slugify[t] \in Range(Slugify)
BY StorageAssumption DEF Range

(* Storing a row whose name and slug no other row has keeps the names, the
   ids and the slugs apart. *)
LEMMA StoredKeeps ==
  ASSUME NEW row \in Row, provider \subseteq Row, Distinct(provider),
         \A r \in provider : r.name = row.name => r.id = row.id
  PROVE  /\ Stored(row) \subseteq Row
         /\ Distinct(Stored(row))
         /\ SlugsDistinct(provider) /\ ~HeldByOther(row.slug, row.id)
              => SlugsDistinct(Stored(row))
BY DEF Stored, Distinct, SlugsDistinct, HeldByOther

(* Storing a row leaves what belongs to the providers with an owner. *)
LEMMA StoredOwns ==
  ASSUME NEW row, \A c \in child : \E r \in provider : r.id = c.provider
  PROVE  \A c \in child : \E r \in Stored(row) : r.id = c.provider
BY DEF Stored

----------------------------------------------------------------------------
(* The initial states and the steps of the start-up. *)

LEMMA InitHolds == Init => IInv
<1> SUFFICES ASSUME Init
             PROVE  IInv
  OBVIOUS
<1>1. OfFirst \subseteq Row /\ OfLater \subseteq Row
  BY StorageAssumption DEF OfFirst, OfLater, Row
<1>2. provider \subseteq Row /\ Distinct(provider)
  BY <1>1 DEF Init
<1>3. child \subseteq Child /\ \A c \in child : \E r \in provider : r.id = c.provider
  BY <1>2 DEF Init, Child, Row
<1>4. job \in [Handler -> {Idle} \cup Save \cup Signup]
  BY DEF Init
<1>5. TypeOK
  BY <1>2, <1>3, <1>4, StorageAssumption DEF Init, TypeOK, NoSecret, LastMigration, Phases
<1>6. Schema
  <2>1. schema <= 1 => \A r \in provider : r.slug = NoSlug
    BY DEF Init, LeftBehind, OfFirst
  <2> QED
    BY <2>1 DEF Init, LeftBehind, Schema
<1>7. Progress /\ Secrets
  BY DEF Init, Progress, Secrets, Indexing, Signing
<1> QED
  BY <1>5, <1>6, <1>7 DEF IInv

LEMMA ExitKeeps ==
  ASSUME IInv, Exit, stops' \in 0 .. MaxStops
  PROVE  IInv'
<1>1. job' \in [Handler -> {Idle} \cup Save \cup Signup]
  BY DEF Exit
<1>2. TypeOK'
  BY <1>1 DEF IInv, TypeOK, Exit, db, Phases, NoSecret, Row, Distinct
<1>3. Schema' /\ Progress' /\ Secrets'
  BY DEF IInv, Exit, db, Schema, Progress, Secrets, SlugsDistinct, Indexing, Signing
<1> QED
  BY <1>2, <1>3 DEF IInv

(* The steps that only move the process on. *)
LEMMA PassingKeeps ==
  ASSUME IInv, Start \/ AllApplied \/ ListNeedingSlug \/ Listen \/ Shutdown
  PROVE  IInv'
<1>1. TypeOK'
  BY StorageAssumption DEF IInv, TypeOK, Start, AllApplied, ListNeedingSlug, NeedingSlug, Listen, Shutdown,
     db, Phases, Progress
<1>2. Schema'
  BY DEF IInv, Schema, SlugsDistinct, Start, AllApplied, ListNeedingSlug, Listen, Shutdown, db
<1>3. Progress'
  BY DEF IInv, Progress, Start, AllApplied, ListNeedingSlug, NeedingSlug, Listen, Shutdown, db, Indexing
<1>4. Secrets'
  BY DEF IInv, Secrets, Start, AllApplied, ListNeedingSlug, Listen, Shutdown, db, Signing
<1> QED
  BY <1>1, <1>2, <1>3, <1>4 DEF IInv
LEMMA ApplyMigrationKeeps ==
  ASSUME IInv, ApplyMigration
  PROVE  IInv'
<1> USE DEF IInv
<1>1. /\ schema' \in 0 .. LastMigration /\ schema' = schema + 1
      /\ saved' = saved /\ admin' = admin /\ phase' = phase /\ need' = need
      /\ secret' = secret /\ job' = job /\ cookie' = cookie
      /\ stops' = stops /\ edits' = edits
      /\ phase = "migrate" /\ need = {}
  BY DEF ApplyMigration, TypeOK, process, LastMigration, Progress
<1>2. /\ provider' \subseteq Row /\ Distinct(provider')
      /\ child' \subseteq Child /\ \A c \in child' : \E r \in provider' : r.id = c.provider
      /\ indexed' \in BOOLEAN
      /\ schema' <= 1 => \A r \in provider' : r.slug = NoSlug
      /\ ~indexed'
  <2>1. CASE schema = 0 /\ UNCHANGED <<provider, child, indexed>>
    BY <2>1 DEF TypeOK, Schema
  <2>2. CASE schema = 1 /\ AddSlugColumn
    <3>1. provider' \subseteq Row /\ Distinct(provider')
      BY <2>2 DEF AddSlugColumn, TypeOK, Row, Distinct
    <3>2. \A c \in child' : \E r \in provider' : r.id = c.provider
      <4>1. \A r \in provider :
              [r EXCEPT !.slug = NoSlug] \in provider' /\ [r EXCEPT !.slug = NoSlug].id = r.id
        BY <2>2 DEF AddSlugColumn, TypeOK, Row
      <4>2. child' = child /\ \A c \in child : \E r \in provider : r.id = c.provider
        BY <2>2 DEF AddSlugColumn, TypeOK
      <4> HIDE DEF IInv
      <4> QED
        BY <4>1, <4>2
    <3>3. ~indexed'
      BY <2>2 DEF AddSlugColumn, TypeOK, Schema
    <3> QED
      BY <1>1, <2>2, <3>1, <3>2, <3>3 DEF AddSlugColumn, TypeOK
  <2>3. CASE schema = 2 /\ RebuildProviders
    <3>1. child' \subseteq child
      BY <2>3 DEF RebuildProviders, Restored, Cascade, Backup
    <3>2. provider' = provider /\ schema' = 3
      BY <1>1, <2>3 DEF RebuildProviders
    <3>3. provider' \subseteq Row /\ Distinct(provider')
      BY <3>2 DEF TypeOK
    <3>4. child' \subseteq Child /\ \A c \in child' : \E r \in provider' : r.id = c.provider
      BY <3>1, <3>2 DEF TypeOK
    <3>5. indexed' \in BOOLEAN /\ ~indexed'
      BY <2>3, Zenon DEF RebuildProviders
    <3> QED
      BY <3>2, <3>3, <3>4, <3>5
  <2> QED
    BY <2>1, <2>2, <2>3 DEF ApplyMigration, Migration
<1>3. TypeOK'
  BY <1>1, <1>2 DEF TypeOK
<1>4. Schema' /\ Progress' /\ Secrets'
  BY <1>1, <1>2 DEF Schema, Progress, Secrets, Indexing, Signing
<1> QED
  BY <1>3, <1>4

(* A row without a slug gets the first free candidate, which is no slug of
   another row. *)
LEMMA FreeIsFree ==
  ASSUME NEW base \in Range(Slugify), NEW id, FreeNumbers(base, id) # {}
  PROVE  LET s == Candidate(base, First(FreeNumbers(base, id)))
         IN s \in Slug /\ s # NoSlug /\ ~HeldByOther(s, id)
<1>1. First(FreeNumbers(base, id)) \in FreeNumbers(base, id)
  BY FirstIsIn DEF FreeNumbers
<1> QED
  BY <1>1, CandidateIsSlug DEF FreeNumbers

LEMMA BackfillSlugKeeps ==
  ASSUME IInv, BackfillSlug
  PROVE  IInv'
<1> USE DEF IInv
<1>1. PICK r \in need :
        LET base == Slugify[r.name]
            free == FreeNumbers(base, r.id)
            s    == Candidate(base, First(free))
        IN  \/ Exit /\ stops' = stops
            \/ /\ free # {}
               /\ provider' = Stored([r EXCEPT !.slug = s])
               /\ need' = need \ {r}
               /\ UNCHANGED <<schema, child, indexed, saved, admin, phase,
                              secret, job, cookie, stops, edits>>
  BY Zenon DEF BackfillSlug
<1>2. CASE Exit /\ stops' = stops
  BY <1>2, ExitKeeps DEF TypeOK
<1>3. ASSUME NEW s, NEW free,
             free = FreeNumbers(Slugify[r.name], r.id), free # {},
             s = Candidate(Slugify[r.name], First(free)),
             provider' = Stored([r EXCEPT !.slug = s]),
             need' = need \ {r},
             UNCHANGED <<schema, child, indexed, saved, admin, phase,
                         secret, job, cookie, stops, edits>>
      PROVE  IInv'
  <2> DEFINE row == [r EXCEPT !.slug = s]
  <2>1. r \in provider /\ r \in Row
    BY DEF TypeOK
  <2>2. s \in Slug /\ s # NoSlug /\ ~HeldByOther(s, r.id)
    BY <1>3, <2>1, FreeIsFree, SlugifyIsBase DEF Row
  <2>3. row \in Row /\ row.id = r.id /\ row.name = r.name /\ row.slug = s
    BY <2>1, <2>2 DEF Row
  <2>4. \A q \in provider : q.name = row.name => q.id = row.id
    BY <2>1, <2>3 DEF TypeOK, Distinct
  <2> HIDE DEF row
  <2>5. /\ provider' \subseteq Row /\ Distinct(provider')
        /\ SlugsDistinct(provider) => SlugsDistinct(provider')
    BY <1>3, <2>2, <2>3, <2>4, StoredKeeps DEF TypeOK, row
  <2>6. \A c \in child' : \E q \in provider' : q.id = c.provider
    BY <1>3, StoredOwns DEF TypeOK
  <2>7. phase = "backfill" /\ schema = LastMigration
    BY DEF BackfillSlug, Progress
  <2>8. /\ need' \subseteq provider'
        /\ \A q \in provider' : q.slug = NoSlug => q \in need'
    <3>1. provider' = {q \in provider : q.id # row.id} \cup {row}
      BY <1>3 DEF Stored, row
    <3>2. \A q \in need' : q \in provider /\ q.id # r.id
      BY <1>3, <2>1 DEF TypeOK, Distinct
    <3> QED
      BY <1>3, <2>1, <2>2, <2>3, <2>7, <3>1, <3>2 DEF Progress
  <2>9. TypeOK'
    BY <1>3, <2>5, <2>6, <2>8 DEF TypeOK
  <2>10. Schema'
    BY <1>3, <2>5, <2>7 DEF Schema, LastMigration, TypeOK
  <2>11. Progress'
    BY <1>3, <2>7, <2>8 DEF Progress, Indexing
  <2>12. Secrets'
    BY <1>3 DEF Secrets
  <2> QED
    BY <2>9, <2>10, <2>11, <2>12
<1> QED
  BY <1>1, <1>2, <1>3

LEMMA CreateIndexKeeps ==
  ASSUME IInv, CreateIndex
  PROVE  IInv'
<1> USE DEF IInv
<1>1. CASE Exit /\ UNCHANGED stops
  BY <1>1, ExitKeeps DEF TypeOK
<1>2. CASE /\ indexed \/ SlugsDistinct(provider)
           /\ indexed' = IndexMade /\ phase' = "secret"
           /\ UNCHANGED <<schema, provider, child, saved, admin, need, secret,
                          job, cookie, stops, edits>>
  <2>1. SlugsDistinct(provider) /\ schema = LastMigration /\ need = {} /\ phase = "backfill"
    BY <1>2 DEF CreateIndex, Schema, Progress
  <2>2. \A r \in provider : r.slug # NoSlug
    BY <2>1 DEF Progress
  <2>3. TypeOK'
    BY <1>2, <2>1 DEF TypeOK, IndexMade, Phases
  <2>4. Schema' /\ Progress'
    BY <1>2, <2>1, <2>2 DEF Schema, SlugsDistinct, Progress, LastMigration, IndexMade, Indexing
  <2>5. Secrets'
    BY <1>2 DEF Secrets, Signing
  <2> QED
    BY <2>3, <2>4, <2>5
<1> QED
  BY <1>1, <1>2 DEF CreateIndex

(* The secret is made once: while it is not saved there is no cookie. *)
LEMMA EnsureSecretKeeps ==
  ASSUME IInv, EnsureSecret
  PROVE  IInv'
<1> USE DEF IInv
<1>1. /\ saved' \in Nat /\ saved' # NoSecret /\ secret' = saved'
      /\ saved # NoSecret => saved' = saved
  BY DEF EnsureSecret, SecretToUse, NewSecret, NoSecret, TypeOK
<1>2. TypeOK'
  BY <1>1 DEF EnsureSecret, TypeOK, Phases
<1>3. Schema' /\ Progress'
  BY DEF EnsureSecret, Schema, SlugsDistinct, Progress, Indexing
<1>4. Secrets'
  BY <1>1 DEF EnsureSecret, Secrets, Signing
<1> QED
  BY <1>2, <1>3, <1>4

LEMMA EndKeeps ==
  ASSUME IInv, Crash \/ Drained
  PROVE  IInv'
<1>1. stops' \in 0 .. MaxStops
  BY StorageAssumption DEF Crash, Drained, IInv, TypeOK
<1> QED
  BY <1>1, ExitKeeps DEF Crash, Drained
----------------------------------------------------------------------------
(* The handlers.  Jobs is the type of job; a request has taken its place in
   it, moved on in it or left it. *)

Jobs == {Idle} \cup Save \cup Signup

LEMMA JobsKeep ==
  ASSUME IInv, job' \in [Handler -> Jobs], edits' \in 0 .. MaxEdits,
         UNCHANGED <<db, phase, need, secret, cookie, stops>>
  PROVE  IInv'
<1>1. TypeOK'
  BY DEF IInv, TypeOK, db, Jobs
<1>2. Schema' /\ Progress' /\ Secrets'
  BY DEF IInv, Schema, SlugsDistinct, Progress, Secrets, db, Indexing, Signing
<1> QED
  BY <1>1, <1>2 DEF IInv

LEMMA SaveRequestIsSave ==
  ASSUME NEW new \in BOOLEAN, NEW id \in Id, NEW name \in Name,
         NEW text \in Typed \cup {NoSlug}
  PROVE  SaveRequest(new, id, name, text) \in Save
<1> DEFINE t == IF text = NoSlug THEN name ELSE text
<1>1. t \in Name \cup Typed
  OBVIOUS
<1>2. Slugify[t] \in Range(Slugify)
  BY <1>1, SlugifyIsBase
<1>3. 1 \in 1 .. LastNumber
  BY StorageAssumption
<1> HIDE DEF t
<1>4. [step |-> "probe", new |-> new, id |-> id, name |-> name, base |-> Slugify[t], n |-> 1]
        \in Save
  BY <1>2, <1>3 DEF Save
<1> QED
  BY <1>4 DEF SaveRequest, t

LEMMA TakeKeepsJobs ==
  ASSUME TypeOK, NEW h \in Handler, NEW request \in Jobs, Take(h, request)
  PROVE  job' \in [Handler -> Jobs]
BY DEF TypeOK, Take, Jobs

LEMMA LeaveKeepsJobs ==
  ASSUME TypeOK, NEW h \in Handler, Leave(h)
  PROVE  job' \in [Handler -> Jobs]
BY DEF TypeOK, Leave, Jobs

LEMMA RequestKeeps ==
  ASSUME IInv, NEW h \in Handler,
         CreateProvider(h) \/ UpdateProvider(h) \/ CountAdmins(h)
  PROVE  IInv'
<1> USE DEF IInv
<1>1. CASE CreateProvider(h)
  <2>1. PICK name \in Name, text \in Typed \cup {NoSlug} :
          Take(h, SaveRequest(TRUE, First(NewIds), name, text))
    BY <1>1 DEF CreateProvider
  <2>2. First(NewIds) \in Id
    <3>1. NewIds \subseteq Id /\ Id \subseteq Nat
      BY StorageAssumption DEF NewIds, Id
    <3>2. NewIds # {}
      BY <1>1 DEF CreateProvider
    <3> QED
      BY <3>1, <3>2, FirstIsIn, Zenon
  <2>3. job' \in [Handler -> Jobs]
    BY <2>1, <2>2, SaveRequestIsSave, TakeKeepsJobs DEF Jobs
  <2> QED
    BY <1>1, <2>3, JobsKeep, StorageAssumption DEF CreateProvider, TypeOK
<1>2. CASE UpdateProvider(h)
  <2>1. PICK r \in provider, name \in Name, text \in Typed \cup {NoSlug} :
          Take(h, SaveRequest(FALSE, r.id, name, text))
    BY <1>2 DEF UpdateProvider
  <2>2. r.id \in Id
    BY DEF TypeOK, Row
  <2>3. job' \in [Handler -> Jobs]
    BY <2>1, <2>2, SaveRequestIsSave, TakeKeepsJobs DEF Jobs
  <2> QED
    BY <1>2, <2>3, JobsKeep, StorageAssumption DEF UpdateProvider, TypeOK
<1>3. CASE CountAdmins(h)
  <2>1. PICK u \in User : Take(h, [step |-> "bootstrap", user |-> u])
    BY <1>3 DEF CountAdmins
  <2>2. [step |-> "bootstrap", user |-> u] \in Jobs
    BY DEF Jobs, Signup
  <2>3. job' \in [Handler -> Jobs]
    BY <2>1, <2>2, TakeKeepsJobs
  <2> QED
    BY <1>3, <2>3, JobsKeep DEF CountAdmins, TypeOK
<1> QED
  BY <1>1, <1>2, <1>3

(* What a handler that saves a provider works on. *)
LEMMA SavingJob ==
  ASSUME TypeOK, NEW h \in Handler, job[h].step \in {"probe", "write"}
  PROVE  job[h] \in Save
BY DEF TypeOK, Idle, Signup

LEMMA ProbeSlugKeeps ==
  ASSUME IInv, NEW h \in Handler, ProbeSlug(h)
  PROVE  IInv'
<1> USE DEF IInv
<1>1. job[h] \in Save
  BY SavingJob DEF ProbeSlug
<1>2. \/ job' = [job EXCEPT ![h].n = job[h].n + 1] /\ job[h].n < LastNumber
      \/ job' = [job EXCEPT ![h].step = "write"]
      \/ Leave(h)
  BY Zenon DEF ProbeSlug
<1>3. [job[h] EXCEPT !.n = job[h].n + 1] \in Save \/ ~(job[h].n < LastNumber)
  BY <1>1, StorageAssumption DEF Save
<1>4. [job[h] EXCEPT !.step = "write"] \in Save
  BY <1>1 DEF Save
<1>5. job' \in [Handler -> Jobs]
  BY <1>2, <1>3, <1>4, LeaveKeepsJobs DEF TypeOK, Jobs
<1> QED
  BY <1>5, JobsKeep DEF ProbeSlug, TypeOK
(* The statement stores a row no other shares its name or slug with, or
   nothing. *)
LEMMA WriteProviderKeeps ==
  ASSUME IInv, NEW h \in Handler, WriteProvider(h)
  PROVE  IInv'
<1> USE DEF IInv
<1> DEFINE j == job[h]
           s == Candidate(j.base, j.n)
           row == [id |-> j.id, name |-> j.name, slug |-> s]
<1>1. j \in Save
  BY SavingJob DEF WriteProvider
<1>2. s \in Slug /\ s # NoSlug
  BY <1>1, CandidateIsSlug DEF Save
<1>3. row \in Row
  BY <1>1, <1>2 DEF Save, Row
<1>4. job' \in [Handler -> Jobs]
  BY LeaveKeepsJobs DEF WriteProvider
<1>5. phase \in {"serving", "draining"} /\ schema = LastMigration /\ need = {} /\ indexed
  BY DEF WriteProvider, Working, Progress, Indexing
<1>6. UNCHANGED <<schema, child, indexed, saved, admin, phase, need, secret,
                  cookie, stops, edits>>
  BY DEF WriteProvider
<1>7. provider' = provider \/ (provider' = Stored(row) /\ ~Conflicts(j, s))
  BY Zenon DEF WriteProvider
<1> HIDE DEF j, s, row
<1>8. ASSUME provider' = Stored(row), ~Conflicts(j, s)
      PROVE  /\ provider' \subseteq Row /\ Distinct(provider')
             /\ SlugsDistinct(provider')
             /\ \A c \in child : \E r \in provider' : r.id = c.provider
             /\ \A r \in provider' : r.slug # NoSlug
  <2>1. row.id = j.id /\ row.name = j.name /\ row.slug = s
    BY DEF row
  <2>2. \A r \in provider : r.name = row.name => r.id = row.id
    BY <1>8, <2>1 DEF Conflicts
  <2>3. ~HeldByOther(row.slug, row.id)
    BY <1>5, <1>8, <2>1 DEF Conflicts
  <2>4. provider' \subseteq Row /\ Distinct(provider') /\ SlugsDistinct(provider')
    BY <1>3, <1>5, <1>8, <2>2, <2>3, StoredKeeps DEF TypeOK, Schema
  <2>5. \A c \in child : \E r \in provider' : r.id = c.provider
    BY <1>8, StoredOwns DEF TypeOK
  <2>6. \A r \in provider : r.slug # NoSlug
    BY <1>5 DEF Progress, Indexing
  <2>7. \A r \in provider' : r.slug # NoSlug
    BY <1>2, <1>8, <2>1, <2>6 DEF Stored
  <2> QED
    BY <2>4, <2>5, <2>7
<1>9. /\ provider' \subseteq Row /\ Distinct(provider')
      /\ SlugsDistinct(provider')
      /\ \A c \in child : \E r \in provider' : r.id = c.provider
      /\ \A r \in provider' : r.slug # NoSlug
  <2>1. CASE provider' = provider
    BY <1>5, <2>1 DEF TypeOK, Schema, Progress, Indexing
  <2> QED
    BY <1>7, <1>8, <2>1
<1>10. TypeOK'
  BY <1>4, <1>5, <1>6, <1>9 DEF TypeOK, Jobs
<1>11. Schema' /\ Progress' /\ Secrets'
  BY <1>5, <1>6, <1>9 DEF Schema, Progress, Secrets, Indexing, Signing, LastMigration
<1> QED
  BY <1>10, <1>11

LEMMA DeleteProviderKeeps ==
  ASSUME IInv, NEW h \in Handler, DeleteProvider(h)
  PROVE  IInv'
<1> USE DEF IInv
<1>1. PICK r \in provider : provider' = provider \ {r} /\ child' = Cascade({r.id})
  BY DEF DeleteProvider
<1>2. \A c \in child' : \E q \in provider' : q.id = c.provider
  BY <1>1 DEF Cascade, TypeOK
<1>3. edits' \in 0 .. MaxEdits
  BY StorageAssumption DEF DeleteProvider, TypeOK
<1>4. need = {} /\ phase = "serving"
  BY DEF DeleteProvider, Progress
<1>5. TypeOK'
  BY <1>1, <1>2, <1>3, <1>4 DEF DeleteProvider, TypeOK, process, Distinct, Cascade
<1>6. Schema' /\ Progress' /\ Secrets'
  BY <1>1, <1>4 DEF DeleteProvider, process, Schema, SlugsDistinct, Progress, Secrets, Indexing, Signing
<1> QED
  BY <1>5, <1>6

(* Cookies are issued while the process serves, with the saved secret. *)
LEMMA SessionKeeps ==
  ASSUME IInv, Login \/ Logout \/ \E h \in Handler : CreateAdmin(h)
  PROVE  IInv'
<1> USE DEF IInv
<1>1. phase \in Signing /\ secret = saved /\ saved # NoSecret
  BY DEF Login, Logout, CreateAdmin, Working, Secrets, Signing
<1>2. CASE Login
  <2>1. PICK u \in admin : cookie' = cookie \cup {SessionOf(u)}
    BY <1>2 DEF Login
  <2>2. SessionOf(u) \in [user : admin, signed : Nat] /\ SessionOf(u).signed = saved
    BY <1>1 DEF SessionOf, TypeOK
  <2>3. TypeOK'
    BY <1>2, <2>1, <2>2 DEF Login, TypeOK, db, process
  <2> QED
    BY <1>1, <1>2, <2>1, <2>2, <2>3 DEF Login, Schema, SlugsDistinct, Progress, Secrets, db, process
<1>3. CASE Logout
  <2>1. TypeOK'
    BY <1>3 DEF Logout, TypeOK, db, process
  <2> QED
    BY <1>1, <1>3, <2>1 DEF Logout, Schema, SlugsDistinct, Progress, Secrets, db, process
<1>4. ASSUME NEW h \in Handler, CreateAdmin(h)
      PROVE  IInv'
  <2> DEFINE u == job[h].user
  <2>1. u \in User
    BY <1>4 DEF CreateAdmin, TypeOK, Idle, Save, Signup
  <2>2. \/ admin' = admin \cup {u} /\ cookie' = cookie \cup {SessionOf(u)}
        \/ UNCHANGED <<admin, cookie>>
    BY <1>4, Zenon DEF CreateAdmin
  <2>3. SessionOf(u).user = u /\ SessionOf(u).signed = saved
    BY <1>1 DEF SessionOf
  <2>4. SessionOf(u) \in [user : admin \cup {u}, signed : Nat]
    BY <1>1 DEF SessionOf, TypeOK
  <2> HIDE DEF u
  <2>5. admin' \subseteq User /\ cookie' \subseteq [user : admin', signed : Nat]
    BY <2>1, <2>2, <2>4 DEF TypeOK
  <2>6. job' \in [Handler -> Jobs]
    BY <1>4, LeaveKeepsJobs DEF CreateAdmin
  <2>7. TypeOK'
    BY <1>4, <2>5, <2>6 DEF CreateAdmin, TypeOK, Jobs
  <2> QED
    BY <1>1, <1>4, <2>2, <2>3, <2>7 DEF CreateAdmin, Schema, SlugsDistinct, Progress, Secrets
<1> QED
  BY <1>2, <1>3, <1>4

----------------------------------------------------------------------------
(* The theorems. *)

LEMMA NextKeeps == IInv /\ [Next]_vars => IInv'
<1> SUFFICES ASSUME IInv, [Next]_vars
             PROVE  IInv'
  OBVIOUS
<1>1. CASE StartUp
  BY <1>1, PassingKeeps, ApplyMigrationKeeps, BackfillSlugKeeps, CreateIndexKeeps, EnsureSecretKeeps
     DEF StartUp
<1>2. CASE Crash \/ Shutdown \/ Drained
  BY <1>2, EndKeeps, PassingKeeps
<1>3. ASSUME NEW h \in Handler, Handle(h)
      PROVE  IInv'
  BY <1>3, RequestKeeps, ProbeSlugKeeps, WriteProviderKeeps, DeleteProviderKeeps, SessionKeeps DEF Handle
<1>4. CASE Login \/ Logout
  BY <1>4, SessionKeeps
<1>5. CASE UNCHANGED vars
  <2>1. TypeOK'
    BY <1>5 DEF IInv, TypeOK, vars, db, process
  <2> QED
    BY <1>5, <2>1 DEF IInv, Schema, SlugsDistinct, Progress, Secrets, vars, db, process
<1> QED
  BY <1>1, <1>2, <1>3, <1>4, <1>5 DEF Next

(* The inductive invariant holds in every reachable state. *)
THEOREM StorageInvariant == Spec => []IInv
BY InitHolds, NextKeeps, PTL DEF Spec

(* Every variable has its type, and what belongs to a provider has one, in
   every reachable state (the foreign keys of 001_init.sql). *)
THEOREM StorageTypes == Spec => []TypeOK
<1>1. IInv => TypeOK
  BY DEF IInv
<1> QED
  BY <1>1, StorageInvariant, PTL

(* A prefix names one provider whenever the gateway serves (slug.go:69-115):
   the index is there, and it lets no second holder of a slug in. *)
THEOREM PrefixesNameOne == Spec => []PrefixNamesOne
<1>1. IInv => PrefixNamesOne
  BY DEF IInv, Schema, Progress, SlugsDistinct, PrefixNamesOne, Indexing
<1> QED
  BY <1>1, StorageInvariant, PTL

(* No restart logs an administrator out (auth.go:28-45): a process signs with
   the secret that was saved, which changes only while there is no cookie. *)
THEOREM SessionsOutliveProcesses == Spec => []SessionsSurvive
<1>1. IInv => SessionsSurvive
  BY DEF IInv, Secrets, SessionsSurvive, Signing
<1> QED
  BY <1>1, StorageInvariant, PTL

----------------------------------------------------------------------------
(* What the steps may not do. *)

SlugKept ==
  \A r \in provider, s \in provider' :
    r.id = s.id /\ r.slug # NoSlug /\ s.slug # r.slug =>
      \E h \in Handler : job[h].step = "write" /\ job[h].id = r.id

(* A provider that is still there as it was has kept its slug. *)
LEMMA SubsetKeepsSlugs ==
  ASSUME TypeOK, provider' \subseteq provider
  PROVE  SlugKept
BY DEF TypeOK, Distinct, SlugKept

LEMMA MigrationKeepsSlugs ==
  ASSUME IInv, ApplyMigration
  PROVE  SlugKept
<1>1. CASE schema = 1 /\ AddSlugColumn
  BY <1>1 DEF IInv, Schema, SlugKept
<1>2. CASE (schema = 0 /\ UNCHANGED <<provider, child, indexed>>) \/ (schema = 2 /\ RebuildProviders)
  BY <1>2, SubsetKeepsSlugs DEF RebuildProviders, IInv
<1> QED
  BY <1>1, <1>2 DEF ApplyMigration, Migration

LEMMA BackfillKeepsSlugs ==
  ASSUME IInv, BackfillSlug
  PROVE  SlugKept
<1>1. CASE provider' = provider
  BY <1>1, SubsetKeepsSlugs DEF IInv
<1>2. CASE \E r \in need : \E s : provider' = Stored([r EXCEPT !.slug = s])
  <2>1. PICK r \in need : \E s : provider' = Stored([r EXCEPT !.slug = s])
    BY <1>2
  <2>2. PICK s : provider' = Stored([r EXCEPT !.slug = s])
    BY <2>1
  <2>3. r \in provider /\ r \in Row /\ r.slug = NoSlug
    BY DEF IInv, TypeOK, Progress
  <2>4. [r EXCEPT !.slug = s].id = r.id
    BY <2>3 DEF Row
  <2>5. \A q \in provider : q.id = r.id => q.slug = NoSlug
    BY <2>3 DEF IInv, TypeOK, Distinct
  <2>6. \A q \in provider' : q.id = r.id \/ q \in provider
    BY <2>2, <2>4 DEF Stored
  <2> QED
    BY <2>5, <2>6 DEF IInv, TypeOK, Distinct, SlugKept
<1>3. (\E r \in need : \E s : provider' = Stored([r EXCEPT !.slug = s])) \/ provider' = provider
  BY Zenon DEF BackfillSlug, Exit, db
<1> QED
  BY <1>1, <1>2, <1>3

LEMMA WriteKeepsSlugs ==
  ASSUME IInv, NEW h \in Handler, WriteProvider(h)
  PROVE  SlugKept
<1> DEFINE row == [id |-> job[h].id, name |-> job[h].name,
                   slug |-> Candidate(job[h].base, job[h].n)]
<1>1. provider' = provider \/ provider' = Stored(row)
  BY Zenon DEF WriteProvider
<1>2. CASE provider' = provider
  BY <1>2, SubsetKeepsSlugs DEF IInv
<1>3. CASE provider' = Stored(row)
  <2>1. row.id = job[h].id /\ job[h].step = "write"
    BY DEF WriteProvider
  <2>2. \A q \in provider' : q.id = job[h].id \/ q \in provider
    BY <1>3, <2>1 DEF Stored
  <2> QED
    BY <2>1, <2>2 DEF IInv, TypeOK, Distinct, SlugKept
<1> QED
  BY <1>1, <1>2, <1>3

(* A slug changes only by an update of its provider (README.md:99): the
   migrations and the backfill, begun anew after any crash, touch no slug
   that was given. *)
THEOREM SlugsStayAsGiven == Spec => SlugsAreStable
<1>1. IInv /\ [Next]_vars => SlugKept
  <2> SUFFICES ASSUME IInv, [Next]_vars
               PROVE  SlugKept
    OBVIOUS
  <2>1. TypeOK
    BY DEF IInv
  <2>2. CASE StartUp
    <3>1. CASE Start \/ AllApplied \/ ListNeedingSlug \/ CreateIndex \/ EnsureSecret \/ Listen
      <4>1. provider' = provider
        BY <3>1 DEF Start, AllApplied, ListNeedingSlug, CreateIndex, EnsureSecret, Listen, Exit, db
      <4> QED
        BY <2>1, <4>1, SubsetKeepsSlugs
    <3> QED
      BY <2>2, <3>1, MigrationKeepsSlugs, BackfillKeepsSlugs DEF StartUp
  <2>3. CASE Crash \/ Shutdown \/ Drained \/ Login \/ Logout \/ UNCHANGED vars
    <3>1. provider' = provider
      BY <2>3 DEF Crash, Shutdown, Drained, Login, Logout, Exit, vars, db
    <3> QED
      BY <2>1, <3>1, SubsetKeepsSlugs
  <2>4. ASSUME NEW h \in Handler, Handle(h)
        PROVE  SlugKept
    <3>1. CASE WriteProvider(h)
      BY <3>1, WriteKeepsSlugs
    <3>2. CASE ~WriteProvider(h)
      <4>1. provider' \subseteq provider
        BY <2>4, <3>2 DEF Handle, CreateProvider, UpdateProvider, ProbeSlug, DeleteProvider,
           CountAdmins, CreateAdmin, db
      <4> QED
        BY <2>1, <4>1, SubsetKeepsSlugs
    <3> QED
      BY <3>1, <3>2
  <2> QED
    BY <2>2, <2>3, <2>4 DEF Next
<1> QED
  BY <1>1, StorageInvariant, PTL DEF Spec, SlugsAreStable, SlugKept

NothingLost ==
  phase \notin {"serving", "draining"} =>
    /\ {<<r.id, r.name>> : r \in provider'} = {<<r.id, r.name>> : r \in provider}
    /\ child' = child

(* Adding the column and giving one row its slug change no name. *)
LEMMA AddSlugKeepsNames ==
  ASSUME TypeOK, AddSlugColumn
  PROVE  {<<r.id, r.name>> : r \in provider'} = {<<r.id, r.name>> : r \in provider}
<1>1. \A r \in provider : [r EXCEPT !.slug = NoSlug] \in provider'
          /\ [r EXCEPT !.slug = NoSlug].id = r.id /\ [r EXCEPT !.slug = NoSlug].name = r.name
  BY DEF AddSlugColumn, TypeOK, Row
<1>2. \A q \in provider' : \E r \in provider : q.id = r.id /\ q.name = r.name
  BY <1>1 DEF AddSlugColumn
<1> QED
  BY <1>1, <1>2

LEMMA StoredKeepsNames ==
  ASSUME TypeOK, NEW r \in provider, NEW s, provider' = Stored([r EXCEPT !.slug = s])
  PROVE  {<<q.id, q.name>> : q \in provider'} = {<<q.id, q.name>> : q \in provider}
<1> DEFINE row == [r EXCEPT !.slug = s]
<1>1. row.id = r.id /\ row.name = r.name
  BY DEF TypeOK, Row
<1> HIDE DEF row
<1>2. provider' = {q \in provider : q.id # r.id} \cup {row}
  BY <1>1 DEF Stored, row
<1>3. \A q \in provider' : q \in provider \/ q = row
  BY <1>2
<1>4. \A q \in provider : q \in provider' \/ q = r
  BY <1>2 DEF TypeOK, Distinct
<1>5. row \in provider'
  BY <1>2
<1> QED
  BY <1>1, <1>3, <1>4, <1>5

(* Migration 003 puts back what the cascade deletes. *)
LEMMA RebuildKeepsChildren ==
  ASSUME TypeOK, RebuildProviders
  PROVE  child' = child
BY DEF TypeOK, RebuildProviders, Restored, Backup, Cascade, Child, Tables

(* No start, wherever it is interrupted, loses a provider, a name, or what
   belongs to a provider (003_nullable_base_url.sql). *)
THEOREM UpgradesLoseNothing == Spec => UpgradeLosesNothing
<1>1. IInv /\ [Next]_vars => NothingLost
  <2> SUFFICES ASSUME IInv, [Next]_vars, phase \notin {"serving", "draining"}
               PROVE  /\ {<<r.id, r.name>> : r \in provider'} = {<<r.id, r.name>> : r \in provider}
                      /\ child' = child
    BY DEF NothingLost
  <2>1. TypeOK
    BY DEF IInv
  <2>2. CASE ApplyMigration
    <3>1. CASE schema = 1 /\ AddSlugColumn
      BY <2>1, <3>1, AddSlugKeepsNames DEF AddSlugColumn
    <3>2. CASE schema = 2 /\ RebuildProviders
      <4>1. child' = child
        BY <2>1, <3>2, RebuildKeepsChildren
      <4>2. provider' = provider
        BY <3>2 DEF RebuildProviders
      <4> QED
        BY <4>1, <4>2
    <3>3. CASE schema = 0 /\ UNCHANGED <<provider, child, indexed>>
      BY <3>3
    <3> QED
      BY <2>2, <3>1, <3>2, <3>3 DEF ApplyMigration, Migration
  <2>3. CASE BackfillSlug
    <3>1. \/ \E r \in need : \E s : provider' = Stored([r EXCEPT !.slug = s])
          \/ provider' = provider
      BY <2>3, Zenon DEF BackfillSlug, Exit, db
    <3>2. child' = child
      BY <2>3, Zenon DEF BackfillSlug, Exit, db
    <3>3. need \subseteq provider
      BY <2>1 DEF TypeOK
    <3> QED
      BY <2>1, <3>1, <3>2, <3>3, StoredKeepsNames
  <2>4. CASE UNCHANGED <<provider, child>>
    BY <2>4
  <2>5. CASE Start \/ AllApplied \/ ListNeedingSlug \/ CreateIndex \/ EnsureSecret \/ Listen
             \/ Crash \/ Shutdown \/ Drained \/ Login \/ Logout \/ UNCHANGED vars
    BY <2>4, <2>5 DEF Start, AllApplied, ListNeedingSlug, CreateIndex, EnsureSecret, Listen,
       Crash, Shutdown, Drained, Login, Logout, Exit, vars, db
  <2>6. ASSUME NEW h \in Handler, Handle(h)
        PROVE  UNCHANGED <<provider, child>>
    BY <2>6 DEF Handle, CreateProvider, UpdateProvider, ProbeSlug, WriteProvider, DeleteProvider,
       CountAdmins, CreateAdmin, Take, Working, db
  <2> QED
    BY <2>2, <2>3, <2>4, <2>5, <2>6 DEF Next, StartUp
<1> QED
  BY <1>1, StorageInvariant, PTL DEF Spec, UpgradeLosesNothing, NothingLost
=============================================================================
