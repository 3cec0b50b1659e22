------------------------------ MODULE Storage ------------------------------
(***************************************************************************)
(* What the gateway keeps in SQLite across restarts, and the start that    *)
(* brings it up to date: the ordered migrations, the backfill of the       *)
(* provider slugs with their unique index, the secret that signs session   *)
(* cookies (internal/store, internal/api/admin/auth.go, cmd/aigw/main.go). *)
(* The process may die at any step and is started again by its supervisor  *)
(* (docker-compose.yml: restart: unless-stopped); what is in memory is     *)
(* lost, and so is the transaction of a migration that did not commit.     *)
(*                                                                         *)
(* While it serves, admin handlers run concurrently.  Each SQL statement   *)
(* is one step; between two statements of a handler anything can happen.   *)
(* Rows of api_keys and alias_targets are what belongs to a provider;      *)
(* their own handlers are in KeyAdmin and Gateway.                         *)
(***************************************************************************)
EXTENDS Naturals, FiniteSets, Functions

CONSTANTS Handler,     \* concurrent requests to the admin API
          MaxProviders,  \* bound: provider ids
          Name,        \* display names
          Slug,        \* routing prefixes of slug:model
          NoSlug,      \* the empty slug, of a row that has none yet
          Typed,       \* the slugs an operator types into a request
          Slugify,     \* Slugify[text]: the slug store.Slugify makes of it
          Numbered,    \* Numbered[<<base, n>>]: base-n
          Valid,       \* the slugs ValidSlug accepts
          LastNumber,  \* the last suffix tried: 998 in the code
          User,        \* admin user names
          MaxStops,    \* bound: crashes and shutdowns
          MaxEdits     \* bound: requests that edit providers

ASSUME StorageAssumption ==
  /\ NoSlug \notin Slug
  /\ NoSlug \notin Typed /\ Valid \subseteq Slug
  /\ Slugify \in [Name \cup Typed -> Slug]
  /\ LastNumber \in Nat \ {0}
  /\ Numbered \in [Range(Slugify) \X (2 .. LastNumber) -> Slug]
  /\ MaxProviders \in Nat /\ MaxStops \in Nat /\ MaxEdits \in Nat

VARIABLES
  (* in SQLite *)
  schema,     \* how many of the three migrations schema_version lists
  provider,   \* rows of providers
  child,      \* rows of api_keys and alias_targets
  indexed,    \* does idx_providers_slug exist?
  saved,      \* cookie_hmac_secret in settings
  admin,      \* rows of admin_users
  (* in the process *)
  phase,      \* where the process is
  need,       \* the rows without a slug still to be given one
  secret,     \* the secret the handlers sign and verify with
  job,        \* what each handler is doing
  (* in browsers *)
  cookie,     \* session cookies issued: who, and signed with what
  (* of the model *)
  stops, edits

db == <<schema, provider, child, indexed, saved, admin>>
process == <<phase, need, secret, job>>
vars == <<db, process, cookie, stops, edits>>

(* UUIDs of version 7: each is greater than those before it. *)
Id == 1 .. MaxProviders

(* No cookie_hmac_secret in settings, or not read yet. *)
NoSecret == 0

LastMigration == 3
Tables == {"api_keys", "alias_targets"}
Row == [id : Id, name : Name, slug : Slug \cup {NoSlug}]
Child == [table : Tables, provider : Id]

Phases == {"down", "migrate", "list", "backfill", "secret", "load",
           "serving", "draining"}

Idle == [step |-> "idle"]
Save == [step : {"probe", "write"}, new : BOOLEAN, id : Id, name : Name,
         base : Range(Slugify), n : 1 .. LastNumber]
Signup == [step : {"bootstrap"}, user : User]

----------------------------------------------------------------------------
(* uniqueProviderSlug: base, base-2, base-3, ... until one is free. *)

Candidate(base, n) == IF n = 1 THEN base ELSE Numbered[<<base, n>>]

(* Does another provider than id hold slug s?  A creation has no id to leave
   out, but its id is in no row. *)
HeldByOther(s, id) == \E r \in provider : r.slug = s /\ r.id # id

(* Mutant: the first candidate is returned without a look at the table. *)
FreeNumbersUnasked(base, id) == {1}
FreeNumbers(base, id) ==
  {n \in 1 .. LastNumber : ~ HeldByOther(Candidate(base, n), id)}

First(S) == CHOOSE n \in S : \A m \in S : n <= m

----------------------------------------------------------------------------
(* The database a version of the gateway left behind: none; that of the
   first, whose providers had no slug; that of the second or the third. *)

OfFirst == {[id |-> i, name |-> n, slug |-> NoSlug] : i \in Id, n \in Name}
OfLater == {[id |-> i, name |-> n, slug |-> Slugify[n]] : i \in Id, n \in Name}

Distinct(rows) ==
  \A r, s \in rows : r # s => r.id # s.id /\ r.name # s.name

InOrder(rows) == \E n \in 0 .. MaxProviders : {r.id : r \in rows} = 1 .. n

SlugsDistinct(rows) == \A r, s \in rows : r.slug = s.slug => r = s

LeftBehind ==
  \/ schema = 0 /\ provider = {} /\ indexed = FALSE
  \/ schema = 1 /\ provider \in SUBSET OfFirst /\ indexed = FALSE
  \/ schema \in {2, 3} /\ provider \in SUBSET OfLater
     /\ SlugsDistinct(provider) /\ indexed = TRUE

Init ==
  /\ schema \in 0 .. LastMigration /\ indexed \in BOOLEAN
  /\ provider \in SUBSET (OfFirst \cup OfLater)
  /\ Distinct(provider) /\ InOrder(provider) /\ LeftBehind
  /\ child = [table : Tables, provider : {r.id : r \in provider}]
  /\ saved = NoSecret /\ admin = {}
  /\ phase = "down" /\ need = {} /\ secret = NoSecret
  /\ job = [h \in Handler |-> Idle]
  /\ cookie = {} /\ stops = 0 /\ edits = 0

----------------------------------------------------------------------------
(* Start-up: Open, Migrate, EnsureSecret, Load, then the server listens. *)

Start ==
  /\ phase = "down"
  /\ phase' = "migrate"
  /\ UNCHANGED <<db, need, secret, job, cookie, stops, edits>>

(* 002 adds the column with an empty slug in every row. *)
AddSlugColumn ==
  /\ provider' = {[r EXCEPT !.slug = NoSlug] : r \in provider}
  /\ UNCHANGED <<child, indexed>>

(* Mutant: foreign keys are off, as they are in SQLite unless asked for. *)
CascadeOff(ids) == child
(* DELETE FROM providers cascades to what belongs to the rows. *)
Cascade(ids) == {c \in child : c.provider \notin ids}

Backup(table) == {c \in child : c.table = table}

(* Mutant: 003 forgets the rows the cascade takes from alias_targets. *)
RestoredKeysOnly(left) == left \cup Backup("api_keys")
Restored(left) == left \cup Backup("api_keys") \cup Backup("alias_targets")

(* 003 copies the rows to a new table and drops the old one, which deletes
   its rows, so that what belongs to them goes too, and loses its index;
   what belongs to them was backed up and is put back. *)
RebuildProviders ==
  /\ provider' = provider
  /\ child' = Restored(Cascade({r.id : r \in provider}))
  /\ indexed' = FALSE

Migration ==
  \/ schema = 0 /\ UNCHANGED <<provider, child, indexed>>
  \/ schema = 1 /\ AddSlugColumn
  \/ schema = 2 /\ RebuildProviders

(* One transaction applies a migration and records it. *)
ApplyMigration ==
  /\ phase = "migrate" /\ schema < LastMigration
  /\ Migration
  /\ schema' = schema + 1
  /\ UNCHANGED <<saved, admin, process, cookie, stops, edits>>

AllApplied ==
  /\ phase = "migrate" /\ schema = LastMigration
  /\ phase' = "list"
  /\ UNCHANGED <<db, need, secret, job, cookie, stops, edits>>

(* Mutant: every provider gets a slug of its name, whether it has one or not. *)
NeedingSlugAll == provider
NeedingSlug == {r \in provider : r.slug = NoSlug}

ListNeedingSlug ==
  /\ phase = "list"
  /\ phase' = "backfill" /\ need' = NeedingSlug
  /\ UNCHANGED <<db, secret, job, cookie, stops, edits>>

(* The process gives up; its supervisor starts it again. *)
Exit ==
  /\ phase' = "down" /\ need' = {} /\ secret' = NoSecret
  /\ job' = [h \in Handler |-> Idle]
  /\ UNCHANGED <<db, cookie, edits>>

Stored(row) == {r \in provider : r.id # row.id} \cup {row}

BackfillSlug ==
  /\ phase = "backfill"
  /\ \E r \in need :
       LET base == Slugify[r.name]
           free == FreeNumbers(base, r.id)
           s    == Candidate(base, First(free))
       IN  \/ /\ free = {}
              /\ Exit /\ UNCHANGED stops
           \/ /\ free # {} /\ indexed /\ HeldByOther(s, r.id)
              /\ Exit /\ UNCHANGED stops
           \/ /\ free # {} /\ ~ (indexed /\ HeldByOther(s, r.id))
              /\ provider' = Stored([r EXCEPT !.slug = s])
              /\ need' = need \ {r}
              /\ UNCHANGED <<schema, child, indexed, saved, admin, phase,
                             secret, job, cookie, stops, edits>>

(* Mutant: the index is not made again once a migration dropped it. *)
IndexKept == indexed
IndexMade == TRUE

(* CREATE UNIQUE INDEX IF NOT EXISTS fails if two rows share a slug. *)
CreateIndex ==
  /\ phase = "backfill" /\ need = {}
  /\ \/ /\ indexed \/ SlugsDistinct(provider)
        /\ indexed' = IndexMade /\ phase' = "secret"
        /\ UNCHANGED <<schema, provider, child, saved, admin, need, secret,
                       job, cookie, stops, edits>>
     \/ /\ ~ indexed /\ ~ SlugsDistinct(provider)
        /\ Exit /\ UNCHANGED stops

(* 32 random bytes: unlike any secret before, so they are numbered. *)
NewSecret == saved + 1

(* Mutant: a new secret at every start. *)
FreshSecret == NewSecret
SecretToUse == IF saved # NoSecret THEN saved ELSE NewSecret

EnsureSecret ==
  /\ phase = "secret"
  /\ saved' = SecretToUse /\ secret' = SecretToUse
  /\ phase' = "load"
  /\ UNCHANGED <<schema, provider, child, indexed, admin, need, job, cookie,
                 stops, edits>>

Listen ==
  /\ phase = "load"
  /\ phase' = "serving"
  /\ UNCHANGED <<db, need, secret, job, cookie, stops, edits>>

----------------------------------------------------------------------------
(* The end of a process. *)

Crash ==
  /\ phase # "down" /\ stops < MaxStops
  /\ stops' = stops + 1
  /\ Exit

(* SIGTERM: no new requests; those under way have ten seconds. *)
Shutdown ==
  /\ phase = "serving" /\ stops < MaxStops
  /\ stops' = stops + 1 /\ phase' = "draining"
  /\ UNCHANGED <<db, need, secret, job, cookie, edits>>

Drained ==
  /\ phase = "draining"
  /\ Exit /\ UNCHANGED stops

----------------------------------------------------------------------------
(* The admin handlers.  A request is taken only while the process serves;
   it goes on while the process drains. *)

Working == phase \in {"serving", "draining"}

Take(h, request) ==
  /\ phase = "serving" /\ job[h] = Idle
  /\ job' = [job EXCEPT ![h] = request]

Leave(h) == job' = [job EXCEPT ![h] = Idle]

(* Without a slug in the body the name stands in for it. *)
SaveRequest(new, id, name, text) ==
  [step |-> "probe", new |-> new, id |-> id, name |-> name,
   base |-> Slugify[IF text = NoSlug THEN name ELSE text], n |-> 1]

Saving == {h \in Handler : job[h].step \in {"probe", "write"}}

(* newID never gives an id twice; an id of the model comes back once no row
   and no request has it. *)
NewIds == Id \ ({job[h].id : h \in Saving} \cup {r.id : r \in provider})

(* createProvider, up to the search for a slug. *)
CreateProvider(h) ==
  /\ edits < MaxEdits /\ edits' = edits + 1
  /\ NewIds # {}
  /\ \E name \in Name, text \in Typed \cup {NoSlug} :
       Take(h, SaveRequest(TRUE, First(NewIds), name, text))
  /\ UNCHANGED <<db, phase, need, secret, cookie, stops>>

(* updateProvider takes its id from the path. *)
UpdateProvider(h) ==
  /\ edits < MaxEdits /\ edits' = edits + 1
  /\ \E r \in provider, name \in Name, text \in Typed \cup {NoSlug} :
       Take(h, SaveRequest(FALSE, r.id, name, text))
  /\ UNCHANGED <<db, phase, need, secret, cookie, stops>>

(* One query of uniqueProviderSlug, then ValidSlug once one is free. *)
ProbeSlug(h) ==
  /\ Working /\ job[h].step = "probe"
  /\ LET j == job[h]
         s == Candidate(j.base, j.n)
     IN  \/ /\ HeldByOther(s, j.id) /\ j.n < LastNumber
            /\ job' = [job EXCEPT ![h].n = j.n + 1]
         \/ /\ HeldByOther(s, j.id) /\ j.n = LastNumber
            /\ Leave(h)
         \/ /\ ~ HeldByOther(s, j.id) /\ s \in Valid
            /\ job' = [job EXCEPT ![h].step = "write"]
         \/ /\ ~ HeldByOther(s, j.id) /\ s \notin Valid
            /\ Leave(h)
  /\ UNCHANGED <<db, phase, need, secret, cookie, stops, edits>>

(* The unique constraints the statement runs into. *)
Conflicts(j, s) ==
  \/ \E r \in provider : r.name = j.name /\ r.id # j.id
  \/ indexed /\ HeldByOther(s, j.id)

(* The INSERT or UPDATE.  An UPDATE of a deleted row finds nothing. *)
WriteProvider(h) ==
  /\ Working /\ job[h].step = "write"
  /\ LET j == job[h]
         s == Candidate(j.base, j.n)
         r == [id |-> j.id, name |-> j.name, slug |-> s]
         there == \E p \in provider : p.id = j.id
     IN  \/ /\ (j.new \/ there) /\ ~ Conflicts(j, s)
            /\ provider' = Stored(r)
         \/ /\ (j.new \/ there) /\ Conflicts(j, s)
            /\ UNCHANGED provider
         \/ /\ ~ j.new /\ ~ there
            /\ UNCHANGED provider
  /\ Leave(h)
  /\ UNCHANGED <<schema, child, indexed, saved, admin, phase, need, secret,
                 cookie, stops, edits>>

DeleteProvider(h) ==
  /\ phase = "serving" /\ job[h] = Idle
  /\ edits < MaxEdits /\ edits' = edits + 1
  /\ \E r \in provider :
       /\ provider' = provider \ {r}
       /\ child' = Cascade({r.id})
  /\ UNCHANGED <<schema, indexed, saved, admin, process, cookie, stops>>

SessionOf(user) == [user |-> user, signed |-> secret]

(* The first admin: the count, then, after bcrypt, the INSERT. *)
CountAdmins(h) ==
  /\ admin = {}
  /\ \E u \in User : Take(h, [step |-> "bootstrap", user |-> u])
  /\ UNCHANGED <<db, phase, need, secret, cookie, stops, edits>>

CreateAdmin(h) ==
  /\ Working /\ job[h].step = "bootstrap"
  /\ LET u == job[h].user
     IN  \/ /\ u \notin admin
            /\ admin' = admin \cup {u} /\ cookie' = cookie \cup {SessionOf(u)}
         \/ /\ u \in admin
            /\ UNCHANGED <<admin, cookie>>
  /\ Leave(h)
  /\ UNCHANGED <<schema, provider, child, indexed, saved, phase, need, secret,
                 stops, edits>>

Login ==
  /\ phase = "serving"
  /\ \E u \in admin : cookie' = cookie \cup {SessionOf(u)}
  /\ UNCHANGED <<db, process, stops, edits>>

(* The cookie of a browser is cleared; the server keeps nothing of it. *)
Logout ==
  /\ phase = "serving"
  /\ \E c \in cookie : cookie' = cookie \ {c}
  /\ UNCHANGED <<db, process, stops, edits>>

----------------------------------------------------------------------------

StartUp ==
  \/ Start \/ ApplyMigration \/ AllApplied \/ ListNeedingSlug
  \/ BackfillSlug \/ CreateIndex \/ EnsureSecret \/ Listen

Handle(h) ==
  \/ CreateProvider(h) \/ UpdateProvider(h) \/ ProbeSlug(h)
  \/ WriteProvider(h) \/ DeleteProvider(h) \/ CountAdmins(h) \/ CreateAdmin(h)

Next ==
  \/ StartUp
  \/ Crash \/ Shutdown \/ Drained
  \/ \E h \in Handler : Handle(h)
  \/ Login \/ Logout

(* A process that is down is started and goes through its start; one that
   drains ends, at the latest when its ten seconds are over. *)
Fairness == WF_vars(StartUp) /\ WF_vars(Drained)

Spec == Init /\ [][Next]_vars /\ Fairness

----------------------------------------------------------------------------

TypeOK ==
  /\ schema \in 0 .. LastMigration
  /\ provider \subseteq Row /\ Distinct(provider)
  /\ child \subseteq Child /\ \A c \in child : \E r \in provider : r.id = c.provider
  /\ indexed \in BOOLEAN
  /\ saved \in Nat /\ secret \in {saved, NoSecret}
  /\ admin \subseteq User
  /\ phase \in Phases
  /\ need \subseteq provider
  /\ job \in [Handler -> {Idle} \cup Save \cup Signup]
  /\ cookie \subseteq [user : admin, signed : Nat]
  /\ stops \in 0 .. MaxStops /\ edits \in 0 .. MaxEdits

(* While the gateway serves, a prefix slug:model names one provider: every
   row has a slug and no two share it.  Two handlers that both found the
   same slug free are told apart by the index (slug.go:69, providers.go:30),
   which migration 003 drops and every start must make again (slug.go:115). *)
PrefixNamesOne ==
  phase \in {"load", "serving", "draining"} =>
    \A r, s \in provider : r.slug # NoSlug /\ (r.slug = s.slug => r = s)

(* A slug is stable (README.md:99): only an update of that provider changes
   it.  Starts, crashes in a backfill, and the backfill that goes on after
   them leave the slugs that were given alone. *)
SlugsAreStable ==
  [][\A r \in provider, s \in provider' :
       r.id = s.id /\ r.slug # NoSlug /\ s.slug # r.slug =>
         \E h \in Handler : job[h].step = "write" /\ job[h].id = r.id]_vars

(* Upgrading loses nothing: outside of serving, whatever crashes when, the
   providers keep their ids and names and what belongs to them stays, although
   migration 003 deletes it in passing. *)
UpgradeLosesNothing ==
  [][phase \notin {"serving", "draining"} =>
       /\ {<<r.id, r.name>> : r \in provider'} = {<<r.id, r.name>> : r \in provider}
       /\ child' = child]_vars

(* A session outlives the process that issued it: every cookie is signed with
   the secret of the process that will verify it. *)
SessionsSurvive ==
  phase \in {"serving", "draining"} => \A c \in cookie : c.signed = secret

(* Whatever database an older version left, and wherever the process died,
   the gateway serves again once it is left alone. *)
ServesAgain == []<>(phase = "serving")
=============================================================================
