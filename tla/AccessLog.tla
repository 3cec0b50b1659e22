----------------------------- MODULE AccessLog -----------------------------
(***************************************************************************)
(* Requests around the log ring: the gateway key check, the access log     *)
(* middleware, and what List and Stats compute from a snapshot             *)
(* (internal/api/public/auth.go, internal/metrics/access_log.go, logs.go). *)
(* A request is stamped when it begins and appended when it ends, so the   *)
(* ring is in the order of the ends, and its time stamps are not sorted.   *)
(*                                                                         *)
(* The steps of this module are steps of LogRing, whose properties are     *)
(* checked of them.  Time is whole units of the bucket arithmetic.  Token  *)
(* sums, percentiles, the order of a listing, its pages and its filter by  *)
(* a part of the directive are left out.                                   *)
(***************************************************************************)
EXTENDS LogRing, FiniteSets

CONSTANTS Client,       \* concurrent requests
          GatewayKey,   \* ids of gateway keys
          Provider,     \* slugs a request is resolved to
          Unset,        \* "": a field or a filter that is not set
          Unresolved,   \* the row of Stats for entries without a provider
          Ending,       \* how a handler ends: what it wrote, what it reports
          MaxRequests,  \* bound: requests accepted
          MaxTime       \* bound: the clock

StatusClasses == {"ok", "client_err", "server_err"}
Statuses == {x.wrote : x \in Ending} \cup {x.status : x \in Ending} \cup {200}

(* The fields of a RequestLog that List and Stats tell apart.  A request that
   is refused before a target is chosen has no provider. *)
LogEntry ==
  [id : 1 .. MaxRequests, ts : 1 .. MaxTime, key : GatewayKey,
   provider : Provider \cup {Unset}, status : Statuses]

(* wrote: the first status of the response, 0 if nothing was written;
   status: that of the proxy's outcome, 0 if there is none; failed: the
   outcome has an error class. *)
ASSUME AccessLogAssumption ==
  /\ Entry = LogEntry
  /\ MaxRequests \in Nat /\ MaxTime \in Nat \ {0}
  /\ Unresolved \notin Provider
  /\ Unset \notin Provider \cup {Unresolved} \cup GatewayKey \cup StatusClasses
  /\ \A x \in Ending : /\ x.wrote \in Nat /\ x.status \in Nat
                       /\ x.failed \in BOOLEAN
                       /\ x.provider \in Provider \cup {Unset}

VARIABLES now,       \* the clock
          accepted,  \* gateway keys that are in SQLite
          request,   \* what each client's request was stamped with
          begun,     \* requests accepted so far
          appended   \* history: what was appended since the last Clear

ring == <<buf, head, size>>
logVars == <<ring, now, accepted, request, begun, appended>>

Idle == [id |-> 0]

LogInit ==
  /\ Init
  /\ now = 1 /\ accepted = {} /\ begun = 0 /\ appended = << >>
  /\ request = [c \in Client |-> Idle]

----------------------------------------------------------------------------
(* Requests and keys. *)

CreateGatewayKey(k) ==
  /\ k \notin accepted /\ accepted' = accepted \cup {k}
  /\ UNCHANGED <<ring, now, request, begun, appended>>

(* Requests under way go on: the key was checked when they began. *)
DeleteGatewayKey(k) ==
  /\ k \in accepted /\ accepted' = accepted \ {k}
  /\ UNCHANGED <<ring, now, request, begun, appended>>

(* RequireGatewayKey, then the middleware stamps the entry.  A request whose
   key is refused is answered before the middleware and never logged. *)
Arrive(c) ==
  /\ request[c] = Idle /\ begun < MaxRequests
  /\ begun' = begun + 1
  /\ \E k \in accepted :
       request' = [request EXCEPT ![c] = [id |-> begun', ts |-> now, key |-> k]]
  /\ UNCHANGED <<ring, now, accepted, appended>>

(* What the recorder saw; nothing written is an implicit 200. *)
Recorded(x) == IF x.wrote = 0 THEN 200 ELSE x.wrote

(* The outcome's status stands when it reports a failure, or when there is
   one and the handler wrote nothing. *)
LoggedStatus(x) ==
  IF \/ x.failed /\ x.status > 0
     \/ x.status > 0 /\ x.wrote = 0
  THEN x.status
  ELSE Recorded(x)

EntryOf(r, x) ==
  [id |-> r.id, ts |-> r.ts, key |-> r.key, provider |-> x.provider,
   status |-> LoggedStatus(x)]

(* The handler returns and the middleware appends the entry. *)
Finish(c) ==
  /\ request[c] # Idle
  /\ \E x \in Ending :
       /\ AppendEntry(EntryOf(request[c], x))
       /\ appended' = Append(appended, EntryOf(request[c], x))
  /\ request' = [request EXCEPT ![c] = Idle]
  /\ UNCHANGED <<now, accepted, begun>>

(* A panic of the handler leaves the middleware before it appends. *)
Panic(c) ==
  /\ request[c] # Idle
  /\ request' = [request EXCEPT ![c] = Idle]
  /\ UNCHANGED <<ring, now, accepted, begun, appended>>

ClearLog ==
  /\ Clear /\ appended' = << >>
  /\ UNCHANGED <<now, accepted, request, begun>>

Tick ==
  /\ now < MaxTime /\ now' = now + 1
  /\ UNCHANGED <<ring, accepted, request, begun, appended>>

LogNext ==
  \/ \E k \in GatewayKey : CreateGatewayKey(k) \/ DeleteGatewayKey(k)
  \/ \E c \in Client : Arrive(c) \/ Finish(c) \/ Panic(c)
  \/ ClearLog \/ Tick

LogSpec == LogInit /\ [][LogNext]_logVars

----------------------------------------------------------------------------
(* What List and Stats answer. *)

Live == {Snapshot[i] : i \in 1 .. size}

(* The time stamp of the entry appended first, 0 if there is none. *)
OldestTs == IF size = 0 THEN 0 ELSE Snapshot[1].ts

StatusClass(s) ==
  IF s \in 200 .. 399 THEN "ok"
  ELSE IF s \in 400 .. 499 THEN "client_err"
  ELSE "server_err"

(* The flag that older entries than those listed are gone; from = 0 asks for
   no limit and is never flagged. *)
TruncatedByOlder(from) == OldestTs > 0 /\ from > 0 /\ OldestTs < from
Truncated(from) == OldestTs > 0 /\ from > 0 /\ OldestTs > from

Matches(filter, value) == filter = Unset \/ filter = value

(* The entries a ListQuery selects; their number is the total of the reply.
   An unset filter selects everything, so none asks for an unset field. *)
List(q) ==
  {e \in Live : /\ q.from > 0 => e.ts >= q.from
                /\ q.to > 0 => e.ts <= q.to
                /\ Matches(q.key, e.key)
                /\ Matches(q.provider, e.provider)
                /\ Matches(q.class, StatusClass(e.status))}

(* The entries of a window that ends now. *)
InWindowHalfOpen(from, to) == {e \in Live : e.ts > from /\ e.ts <= to}
InWindow(from, to) == {e \in Live : e.ts >= from /\ e.ts <= to}

Bucket(ts, width) == ts - (ts % width)

Tally(entries) ==
  [c \in StatusClasses |->
     Cardinality({e \in entries : StatusClass(e.status) = c})]

(* The provider an entry is counted under. *)
CountedUnder(e) == IF e.provider = Unset THEN Unresolved ELSE e.provider

Stats(from, to, width) ==
  LET es == InWindow(from, to) IN
  [requests    |-> Cardinality(es),
   by_class    |-> Tally(es),
   by_provider |-> [p \in {CountedUnder(e) : e \in es} |->
                      Tally({e \in es : CountedUnder(e) = p})],
   by_key      |-> [k \in {e.key : e \in es} |->
                      Cardinality({e \in es : e.key = k})],
   buckets     |-> [b \in {Bucket(e.ts, width) : e \in es} |->
                      Tally({e \in es : Bucket(e.ts, width) = b})]]

----------------------------------------------------------------------------

(* A listing that is not flagged as truncated lacks an entry only when a
   request that began no later than it, and ended after it was logged, is
   still kept: oldest_ts is that of the entry appended first, which need not
   be the smallest (logs.go:185, 228). *)
UnflaggedGapsAreOverlaps ==
  \A from \in 1 .. MaxTime :
    ~ Truncated(from) =>
      \A i \in 1 .. Len(appended) :
        appended[i].ts >= from /\ appended[i] \notin Live =>
          \E j \in i + 1 .. Len(appended) :
            appended[j] \in Live /\ appended[j].ts <= appended[i].ts

Query(from, to, key, provider, class) ==
  [from |-> from, to |-> to, key |-> key, provider |-> provider, class |-> class]

(* The entries of a window and a class that no provider filter finds. *)
FilteredOut(from, to, class) ==
  List(Query(from, to, Unset, Unset, class))
    \ UNION {List(Query(from, to, Unset, p, class)) : p \in Provider \cup {Unresolved}}

(* The dashboard and the list tell the same story: for the same window, the
   counts of Stats by class, provider and key are the totals of the listings
   filtered by them, and its buckets share out the same entries.  The row
   "(unresolved)" alone has no listing: it counts the entries that no provider
   filter finds, its own name among the filters (logs.go:194-213, 284-337). *)
DashboardMatchesList ==
  \A from \in 1 .. now, width \in 1 .. MaxTime :
    LET s == Stats(from, now, width)
        Total(k, p, c) == Cardinality(List(Query(from, now, k, p, c)))
        InBuckets(c) == Cardinality(
          UNION {{<<b, i>> : i \in 1 .. s.buckets[b][c]} : b \in DOMAIN s.buckets})
    IN  /\ s.requests = Total(Unset, Unset, Unset)
        /\ \A c \in StatusClasses : /\ s.by_class[c] = Total(Unset, Unset, c)
                                    /\ s.by_class[c] = InBuckets(c)
        /\ \A p \in DOMAIN s.by_provider, c \in StatusClasses :
             s.by_provider[p][c] =
               IF p = Unresolved THEN Cardinality(FilteredOut(from, now, c))
               ELSE Total(Unset, p, c)
        /\ \A k \in DOMAIN s.by_key : s.by_key[k] = Total(k, Unset, Unset)
=============================================================================
