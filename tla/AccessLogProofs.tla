-------------------------- MODULE AccessLogProofs --------------------------
(***************************************************************************)
(* The ring of LogRing keeps its invariant and implements RecentLog, for   *)
(* every capacity and every set of entries.  The requests of AccessLog     *)
(* drive the ring as its own steps do, what a listing lacks without saying *)
(* so is explained by an overlap, and the dashboard counts what the        *)
(* listings show: for every number of clients, keys and requests, every    *)
(* clock and every capacity.                                               *)
(***************************************************************************)
EXTENDS AccessLog, FiniteSetTheorems, FunctionTheorems, TLAPS

----------------------------------------------------------------------------
(* The ring alone. *)

(* A position that has run at most one turn past the end of the ring:
   the only reductions modulo Cap that Append and snapshot perform. *)
LEMMA OneTurn ==
  \A x \in 0 .. Cap + Cap - 1 : x % Cap = IF x < Cap THEN x ELSE x - Cap
BY CapAssumption, SMT

(* AppendEntry, with the modulus spelled out. *)
LEMMA NextHead ==
  ASSUME TypeOK
  PROVE  (head + 1) % Cap = IF head + 1 = Cap THEN 0 ELSE head + 1
<1>1. head + 1 \in 0 .. Cap + Cap - 1
  BY CapAssumption DEF TypeOK, Slot
<1>2. (head + 1) % Cap = IF head + 1 < Cap THEN head + 1 ELSE (head + 1) - Cap
  BY <1>1, OneTurn, Zenon
<1> QED
  BY <1>2, CapAssumption DEF TypeOK, Slot

LEMMA InitInv == Init => RingInv
BY CapAssumption, EntryAssumption DEF Init, RingInv, TypeOK, LiveWindow, Empty, Slot

LEMMA AppendInv ==
  ASSUME RingInv, NEW e \in Entry, AppendEntry(e)
  PROVE  RingInv'
<1> USE CapAssumption, EntryAssumption DEF Slot
<1>1. head' = IF head + 1 = Cap THEN 0 ELSE head + 1
  BY NextHead DEF RingInv, AppendEntry
<1>2. TypeOK'
  BY <1>1 DEF RingInv, TypeOK, AppendEntry
<1>3. (size < Cap => head = size)'
  BY <1>1 DEF RingInv, TypeOK, LiveWindow, AppendEntry
<1>4. ASSUME NEW i \in Slot
      PROVE  (buf[i] \in Entry <=> i < size)'
  BY DEF RingInv, TypeOK, LiveWindow, AppendEntry
<1> QED
  BY <1>2, <1>3, <1>4 DEF RingInv, LiveWindow

LEMMA ClearInv ==
  ASSUME RingInv, Clear
  PROVE  RingInv'
BY CapAssumption, EntryAssumption DEF RingInv, TypeOK, LiveWindow, Clear, Empty, Slot

LEMMA NextInv == RingInv /\ [Next]_vars => RingInv'
<1> SUFFICES ASSUME RingInv, [Next]_vars PROVE RingInv'
  OBVIOUS
<1>1. CASE \E e \in Entry : AppendEntry(e)
  BY <1>1, AppendInv
<1>2. CASE Clear
  BY <1>2, ClearInv
<1>3. CASE UNCHANGED vars
  BY <1>3 DEF vars, RingInv, TypeOK, LiveWindow
<1> QED
  BY <1>1, <1>2, <1>3 DEF Next

(* The write position and the fill count never leave the ring and the live
   slots are exactly the ones snapshot reads (logs.go:145-186). *)
THEOREM RingInvariant == Spec => []RingInv
BY InitInv, NextInv, PTL DEF Spec

(* The buffer, the write position and the fill count keep their types: no
   append or snapshot indexes outside the buffer (logs.go:145-186). *)
THEOREM RingTypes == Spec => []TypeOK
<1>1. RingInv => TypeOK
  BY DEF RingInv
<1> QED
  BY RingInvariant, <1>1, PTL

THEOREM RingLiveWindow == Spec => [](TypeOK /\ LiveWindow)
<1>1. RingInv => TypeOK /\ LiveWindow
  BY DEF RingInv
<1> QED
  BY RingInvariant, <1>1, PTL

----------------------------------------------------------------------------
(* Refinement. *)

(* Until the ring is full the oldest entry is in slot 0. *)
LEMMA StartIs ==
  ASSUME RingInv
  PROVE  Start = IF size = Cap THEN head ELSE 0
<1>1. CASE size < Cap
  <2>1. head - size + Cap = Cap
    BY <1>1, CapAssumption DEF RingInv, TypeOK, LiveWindow, Slot
  <2>2. Cap % Cap = 0
    BY OneTurn, CapAssumption
  <2> QED
    BY <1>1, <2>1, <2>2, CapAssumption DEF Start, RingInv, TypeOK
<1>2. CASE size = Cap
  BY <1>2 DEF Start
<1> QED
  BY <1>1, <1>2, CapAssumption DEF RingInv, TypeOK

(* What a snapshot holds, slot by slot. *)
SnapshotLayout ==
  /\ Snapshot \in Seq(Entry)
  /\ Len(Snapshot) = size
  /\ \A i \in 1 .. size :
       Snapshot[i] = buf[IF size < Cap THEN i - 1
                         ELSE IF head + i - 1 < Cap THEN head + i - 1
                              ELSE head + i - 1 - Cap]

LEMMA SnapshotIs == RingInv => SnapshotLayout
<1> SUFFICES ASSUME RingInv PROVE SnapshotLayout
  OBVIOUS
<1> USE CapAssumption DEF Slot
<1>1. Start = IF size = Cap THEN head ELSE 0
  BY StartIs
<1>2. ASSUME NEW i \in 1 .. size
      PROVE  (Start + i - 1) % Cap = IF size < Cap THEN i - 1
                                ELSE IF head + i - 1 < Cap THEN head + i - 1
                                     ELSE head + i - 1 - Cap
  <2> HIDE DEF Start
  <2>1. Start + i - 1 \in 0 .. Cap + Cap - 1
    BY <1>1 DEF RingInv, TypeOK
  <2>2. (Start + i - 1) % Cap = IF Start + i - 1 < Cap THEN Start + i - 1
                                ELSE (Start + i - 1) - Cap
    BY <2>1, OneTurn, Zenon
  <2> QED
    BY <1>1, <2>2 DEF RingInv, TypeOK
<1>3. ASSUME NEW i \in 1 .. size
      PROVE  /\ (Start + i - 1) % Cap \in Slot
             /\ (Start + i - 1) % Cap < size
  BY <1>2 DEF RingInv, TypeOK
<1>4. ASSUME NEW i \in 1 .. size
      PROVE  buf[(Start + i - 1) % Cap] \in Entry
  BY <1>3 DEF RingInv, LiveWindow
<1>5. size \in Nat
  BY DEF RingInv, TypeOK
<1> QED
  BY <1>2, <1>4, <1>5 DEF Snapshot, SnapshotLayout

LEMMA AppendRefines ==
  ASSUME RingInv, NEW e \in Entry, AppendEntry(e)
  PROVE  Abs!Add(e)
<1> USE CapAssumption DEF Slot
<1>1. RingInv'
  BY AppendInv
<1>2. head' = IF head + 1 = Cap THEN 0 ELSE head + 1
  BY NextHead DEF RingInv, AppendEntry
<1>3. SnapshotLayout
  BY SnapshotIs
<1>4. SnapshotLayout'
  BY <1>1, SnapshotIs, PTL
<1> USE <1>3, <1>4 DEF SnapshotLayout
<1>5. CASE size < Cap
  <2>1. size' = size + 1 /\ buf' = [buf EXCEPT ![size] = e] /\ head = size
    BY <1>5 DEF AppendEntry, RingInv, LiveWindow
  <2>2. ASSUME NEW i \in 1 .. size + 1
        PROVE  Snapshot'[i] = Append(Snapshot, e)[i]
    BY <1>2, <1>5, <2>1 DEF RingInv, TypeOK
  <2>3. Snapshot' = Append(Snapshot, e)
    BY <2>1, <2>2 DEF RingInv, TypeOK
  <2> QED
    BY <1>5, <2>3 DEF Abs!Add, Abs!Kept
<1>6. CASE size = Cap
  <2>1. size' = size /\ buf' = [buf EXCEPT ![head] = e]
    BY <1>6 DEF AppendEntry
  <2>2. ASSUME NEW i \in 1 .. size
        PROVE  Snapshot'[i] = Append(Tail(Snapshot), e)[i]
    BY <1>2, <1>6, <2>1 DEF RingInv, TypeOK
  <2>3. Snapshot' = Append(Tail(Snapshot), e)
    BY <1>6, <2>1, <2>2 DEF RingInv, TypeOK
  <2> QED
    BY <1>6, <2>3 DEF Abs!Add, Abs!Kept
<1> QED
  BY <1>5, <1>6 DEF RingInv, TypeOK

(* snapshot (logs.go:169-186) returns the last Cap entries appended since
   the last Clear, oldest first: the ring implements the bounded log. *)
THEOREM RingImplementsRecentLog == Spec => ImplementsRecentLog
<1>1. Init => Abs!Init
  BY DEF Init, Abs!Init, Snapshot
<1>2. RingInv /\ [Next]_vars => [Abs!Next]_Snapshot
  <2> SUFFICES ASSUME RingInv, [Next]_vars PROVE [Abs!Next]_Snapshot
    OBVIOUS
  <2>1. CASE \E e \in Entry : AppendEntry(e)
    BY <2>1, AppendRefines DEF Abs!Next
  <2>2. CASE Clear
    BY <2>2 DEF Clear, Abs!Next, Abs!Clear, Snapshot
  <2>3. CASE UNCHANGED vars
    BY <2>3 DEF vars, Snapshot, Start
  <2> QED
    BY <2>1, <2>2, <2>3 DEF Next
<1> QED
  BY <1>1, <1>2, RingInvariant, PTL DEF Spec, ImplementsRecentLog, Abs!Spec

----------------------------------------------------------------------------
(* The ring driven by the requests. *)

Stamp == [id : 1 .. MaxRequests, ts : 1 .. MaxTime, key : GatewayKey]

Stamped ==
  /\ now \in 1 .. MaxTime
  /\ accepted \subseteq GatewayKey
  /\ begun \in 0 .. MaxRequests
  /\ \A c \in Client : request[c] # Idle => request[c] \in Stamp
  /\ DOMAIN request = Client

(* s is the last Cap elements of h, or all of them. *)
Ends(s, h) ==
  /\ Len(s) = IF Len(h) < Cap THEN Len(h) ELSE Cap
  /\ \A i \in 1 .. Len(s), j \in 1 .. Len(h) :
       j = Len(h) - Len(s) + i => s[i] = h[j]

(* The ring holds the end of the history. *)
Suffix == appended \in Seq(Entry) /\ Ends(Snapshot, appended)

IInv == RingInv /\ Stamped /\ Suffix

----------------------------------------------------------------------------

LEMMA StatusIsOne == \A x \in Ending : LoggedStatus(x) \in Statuses
BY DEF LoggedStatus, Recorded, Statuses

LEMMA EntryIsEntry ==
  ASSUME NEW r \in Stamp, NEW x \in Ending
  PROVE  EntryOf(r, x) \in Entry
<1>1. x.provider \in Provider \cup {Unset}
  BY AccessLogAssumption
<1> HIDE DEF Statuses
<1> QED
  BY <1>1, StatusIsOne, AccessLogAssumption DEF EntryOf, LogEntry, Stamp

(* The last Cap elements of a sequence stay so when both grow by one. *)
LEMMA KeptEnds ==
  ASSUME NEW h \in Seq(Entry), NEW s \in Seq(Entry), NEW e \in Entry, Ends(s, h)
  PROVE  Ends(IF Len(s) < Cap THEN Append(s, e) ELSE Append(Tail(s), e),
              Append(h, e))
<1> DEFINE g == Append(h, e)
<1> DEFINE u == Append(s, e)
<1> DEFINE v == Append(Tail(s), e)
<1>1. Len(h) \in Nat /\ Len(s) \in Nat /\ Cap \in Nat \ {0}
  BY CapAssumption
<1>2. /\ Len(g) = Len(h) + 1
      /\ g[Len(h) + 1] = e
      /\ \A k \in 1 .. Len(h) : g[k] = h[k]
  OBVIOUS
<1>3. /\ Len(u) = Len(s) + 1
      /\ u[Len(s) + 1] = e
      /\ \A k \in 1 .. Len(s) : u[k] = s[k]
  OBVIOUS
<1>4. ASSUME Len(s) = Cap
      PROVE  /\ Len(v) = Cap
             /\ v[Cap] = e
             /\ \A k \in 1 .. Cap - 1 : v[k] = s[k + 1]
  <2>1. /\ Tail(s) \in Seq(Entry) /\ Len(Tail(s)) = Cap - 1
        /\ \A k \in 1 .. Cap - 1 : Tail(s)[k] = s[k + 1]
    BY <1>1, <1>4
  <2>2. /\ Len(v) = Cap
        /\ v[Cap] = e
        /\ \A k \in 1 .. Cap - 1 : v[k] = Tail(s)[k]
    BY <1>1, <2>1
  <2> QED
    BY <2>1, <2>2
<1> HIDE DEF g, u, v
<1>5. CASE Len(s) < Cap
  <2>1. Len(s) = Len(h)
    BY <1>1, <1>5 DEF Ends
  <2>0. Len(u) = Len(h) + 1 /\ Len(g) = Len(h) + 1
    BY <1>2, <1>3, <2>1
  <2>2. ASSUME NEW i \in 1 .. Len(u), NEW j \in 1 .. Len(g), j = Len(g) - Len(u) + i
        PROVE  u[i] = g[j]
    <3>1. i = j
      BY <1>1, <2>0, <2>2
    <3>2. CASE i \in 1 .. Len(h)
      <4>1. i \in 1 .. Len(s) /\ i = Len(h) - Len(s) + i
        BY <1>1, <2>1, <3>2
      <4>2. s[i] = h[i]
        BY <3>2, <4>1 DEF Ends
      <4> QED
        BY <1>2, <1>3, <2>1, <3>1, <3>2, <4>2
    <3>3. CASE i = Len(h) + 1
      BY <1>2, <1>3, <2>1, <3>1, <3>3
    <3> QED
      BY <1>1, <1>3, <2>1, <3>2, <3>3
  <2>3. Len(u) = IF Len(g) < Cap THEN Len(g) ELSE Cap
    BY <1>1, <1>2, <1>3, <1>5, <2>1
  <2>4. Ends(u, g)
    BY <2>2, <2>3 DEF Ends
  <2> QED
    BY <1>5, <2>4 DEF u, g
<1>6. CASE Len(s) = Cap
  <2>1. Len(h) >= Cap
    BY <1>1, <1>6 DEF Ends
  <2>0. Len(v) = Cap /\ Len(g) = Len(h) + 1
    BY <1>2, <1>4, <1>6
  <2>2. ASSUME NEW i \in 1 .. Len(v), NEW j \in 1 .. Len(g), j = Len(g) - Len(v) + i
        PROVE  v[i] = g[j]
    <3>1. j = Len(h) - Cap + (i + 1) /\ i \in 1 .. Cap
      BY <1>1, <2>0, <2>2
    <3>2. CASE i \in 1 .. Cap - 1
      <4>1. i + 1 \in 1 .. Len(s) /\ j \in 1 .. Len(h)
        BY <1>1, <1>6, <2>1, <3>1, <3>2
      <4>2. s[i + 1] = h[j]
        BY <1>6, <3>1, <4>1 DEF Ends
      <4> QED
        BY <1>2, <1>4, <1>6, <3>2, <4>1, <4>2
    <3>3. CASE i = Cap
      <4>1. j = Len(h) + 1
        BY <1>1, <3>1, <3>3
      <4> QED
        BY <1>2, <1>4, <1>6, <3>3, <4>1
    <3> QED
      BY <1>1, <3>1, <3>2, <3>3
  <2>3. Len(v) = IF Len(g) < Cap THEN Len(g) ELSE Cap
    BY <1>1, <1>2, <1>4, <1>6, <2>1
  <2>4. Ends(v, g)
    BY <2>2, <2>3 DEF Ends
  <2> QED
    BY <1>1, <1>6, <2>4 DEF v, g
<1> QED
  BY <1>1, <1>5, <1>6 DEF Ends

(* Appending keeps the last Cap entries of the history in the ring. *)
LEMMA AppendSuffix ==
  ASSUME IInv, NEW e \in Entry, AppendEntry(e), appended' = Append(appended, e)
  PROVE  Suffix'
<1>1. SnapshotLayout /\ Abs!Add(e)
  BY SnapshotIs, AppendRefines DEF IInv
<1>2. Snapshot \in Seq(Entry) /\ appended \in Seq(Entry)
  BY <1>1 DEF SnapshotLayout, IInv, Suffix
<1>3. Snapshot' = IF Len(Snapshot) < Cap THEN Append(Snapshot, e)
                  ELSE Append(Tail(Snapshot), e)
  BY <1>1 DEF Abs!Add, Abs!Kept
<1>4. Ends(Snapshot', Append(appended, e))
  BY <1>2, <1>3, KeptEnds DEF IInv, Suffix
<1>5. Append(appended, e) \in Seq(Entry)
  BY <1>2
<1>6. Ends(Snapshot, appended)'
  BY <1>4 DEF Ends
<1> QED
  BY <1>5, <1>6 DEF Suffix

----------------------------------------------------------------------------

LEMMA LogInitInv == LogInit => IInv
<1> SUFFICES ASSUME LogInit PROVE IInv
  OBVIOUS
<1>1. RingInv
  BY InitInv DEF LogInit
<1>2. Stamped
  BY AccessLogAssumption DEF LogInit, Stamped
<1>3. Suffix
  BY CapAssumption DEF LogInit, Init, Suffix, Ends, Snapshot
<1> QED
  BY <1>1, <1>2, <1>3 DEF IInv

(* A request ends: its entry is one the ring takes. *)
LEMMA FinishAppends ==
  ASSUME IInv, NEW c \in Client, Finish(c)
  PROVE  \E e \in Entry : AppendEntry(e) /\ appended' = Append(appended, e)
<1>1. request[c] \in Stamp
  BY DEF IInv, Stamped, Finish
<1> QED
  BY <1>1, EntryIsEntry DEF Finish

(* To the ring, a step of the requests is an append, a clear or nothing. *)
LEMMA LogStepIsRingStep == IInv /\ [LogNext]_logVars => [Next]_vars
<1> SUFFICES ASSUME IInv, [LogNext]_logVars PROVE [Next]_vars
  OBVIOUS
<1>1. CASE \E c \in Client : Finish(c)
  BY <1>1, FinishAppends DEF Next
<1>2. CASE ClearLog
  BY <1>2 DEF ClearLog, Next
<1>3. CASE UNCHANGED ring
  BY <1>3 DEF ring, vars
<1>4. CASE \E k \in GatewayKey : CreateGatewayKey(k) \/ DeleteGatewayKey(k)
  BY <1>3, <1>4 DEF CreateGatewayKey, DeleteGatewayKey
<1>5. CASE \E c \in Client : Arrive(c) \/ Panic(c)
  BY <1>3, <1>5 DEF Arrive, Panic
<1>6. CASE Tick
  BY <1>3, <1>6 DEF Tick
<1>7. CASE UNCHANGED logVars
  BY <1>3, <1>7 DEF logVars
<1> QED
  BY <1>1, <1>2, <1>4, <1>5, <1>6, <1>7 DEF LogNext

LEMMA StampedKept == IInv /\ [LogNext]_logVars => Stamped'
<1> SUFFICES ASSUME IInv, [LogNext]_logVars PROVE Stamped'
  OBVIOUS
<1> USE AccessLogAssumption DEF IInv, Stamped
<1>1. ASSUME NEW k \in GatewayKey, CreateGatewayKey(k) \/ DeleteGatewayKey(k)
      PROVE  Stamped'
  BY <1>1 DEF CreateGatewayKey, DeleteGatewayKey
<1>2. ASSUME NEW c \in Client, Arrive(c)
      PROVE  Stamped'
  <2>1. begun' \in 1 .. MaxRequests
    BY <1>2 DEF Arrive
  <2>2. PICK k \in accepted :
          request' = [request EXCEPT ![c] = [id |-> begun', ts |-> now, key |-> k]]
    BY <1>2 DEF Arrive
  <2>3. [id |-> begun', ts |-> now, key |-> k] \in Stamp
    BY <2>1 DEF Stamp
  <2> QED
    BY <1>2, <2>1, <2>2, <2>3 DEF Arrive
<1>3. ASSUME NEW c \in Client, Finish(c) \/ Panic(c)
      PROVE  Stamped'
  BY <1>3 DEF Finish, Panic
<1>4. CASE ClearLog
  BY <1>4 DEF ClearLog
<1>5. CASE Tick
  BY <1>5 DEF Tick
<1>6. CASE UNCHANGED logVars
  BY <1>6 DEF logVars
<1> QED
  BY <1>1, <1>2, <1>3, <1>4, <1>5, <1>6 DEF LogNext

LEMMA SuffixKept == IInv /\ [LogNext]_logVars => Suffix'
<1> SUFFICES ASSUME IInv, [LogNext]_logVars PROVE Suffix'
  OBVIOUS
<1>1. CASE \E c \in Client : Finish(c)
  BY <1>1, FinishAppends, AppendSuffix
<1>2. CASE ClearLog
  BY <1>2, CapAssumption DEF ClearLog, Clear, Suffix, Ends, Snapshot
<1>3. CASE UNCHANGED <<ring, appended>>
  <2>1. Snapshot' = Snapshot /\ appended' = appended
    BY <1>3 DEF ring, Snapshot, Start
  <2> QED
    BY <2>1 DEF IInv, Suffix, Ends
<1>4. CASE \E k \in GatewayKey : CreateGatewayKey(k) \/ DeleteGatewayKey(k)
  BY <1>3, <1>4 DEF CreateGatewayKey, DeleteGatewayKey
<1>5. CASE \E c \in Client : Arrive(c) \/ Panic(c)
  BY <1>3, <1>5 DEF Arrive, Panic
<1>6. CASE Tick
  BY <1>3, <1>6 DEF Tick
<1>7. CASE UNCHANGED logVars
  BY <1>3, <1>7 DEF logVars
<1> QED
  BY <1>1, <1>2, <1>4, <1>5, <1>6, <1>7 DEF LogNext

LEMMA LogNextInv == IInv /\ [LogNext]_logVars => IInv'
BY LogStepIsRingStep, NextInv, StampedKept, SuffixKept DEF IInv

(* Types of the ring, the stamps of the requests under way, and the ring as
   the end of what was appended: an inductive invariant. *)
THEOREM AccessLogInvariant == LogSpec => []IInv
BY LogInitInv, LogNextInv, PTL DEF LogSpec

(* The ring behind the requests keeps its types (logs.go:145-186). *)
THEOREM LogTypes == LogSpec => []TypeOK
<1>1. IInv => TypeOK
  BY DEF IInv, RingInv
<1> QED
  BY AccessLogInvariant, <1>1, PTL

(* The ring behind the requests keeps its live window. *)
THEOREM LogLiveWindow == LogSpec => []LiveWindow
<1>1. IInv => LiveWindow
  BY DEF IInv, RingInv
<1> QED
  BY AccessLogInvariant, <1>1, PTL

(* However the requests overlap, panic and are cleared, what List and Stats
   read is the log of the most recent entries. *)
THEOREM LogImplementsRecentLog == LogSpec => ImplementsRecentLog
<1>1. LogInit => Init
  BY DEF LogInit
<1>2. LogSpec => Spec
  BY AccessLogInvariant, LogStepIsRingStep, <1>1, PTL DEF LogSpec, Spec
<1> QED
  BY <1>2, RingImplementsRecentLog

(* An unflagged listing lacks an entry of its window only if a request that
   began no later and ended after it is still kept (logs.go:185, 228): the
   one the flag was computed from. *)
THEOREM GapsAreOverlaps == LogSpec => []UnflaggedGapsAreOverlaps
<1>1. IInv => UnflaggedGapsAreOverlaps
  <2> SUFFICES ASSUME IInv, NEW from \in 1 .. MaxTime, ~ Truncated(from),
                      NEW i \in 1 .. Len(appended),
                      appended[i].ts >= from, appended[i] \notin Live
               PROVE  \E j \in i + 1 .. Len(appended) :
                        appended[j] \in Live /\ appended[j].ts <= appended[i].ts
    BY Zenon DEF UnflaggedGapsAreOverlaps
  <2> DEFINE j == Len(appended) - size + 1
  <2>0. Len(Snapshot) = size /\ Len(appended) \in Nat
    BY SnapshotIs DEF IInv, Suffix, SnapshotLayout
  <2>1. Len(appended) \in Nat /\ size \in 1 .. Len(appended)
    BY <2>0, CapAssumption DEF IInv, Suffix, Ends
  <2>2. ASSUME NEW k \in 1 .. size
        PROVE  Snapshot[k] = appended[Len(appended) - size + k]
    <3>1. Len(appended) - size + k \in 1 .. Len(appended)
      BY <2>1
    <3> QED
      BY <2>0, <3>1 DEF IInv, Suffix, Ends
  <2>3. \A k \in 1 .. size : appended[Len(appended) - size + k] \in Live
    BY <2>2 DEF Live
  <2>4. i < j
    <3> SUFFICES ASSUME i >= j PROVE FALSE
      BY <2>1
    <3>1. i - j + 1 \in 1 .. size
      BY <2>1
    <3>2. Len(appended) - size + (i - j + 1) = i
      BY <2>1
    <3> QED
      BY <2>3, <3>1, <3>2
  <2>5. Snapshot[1] = appended[j] /\ appended[j] \in Live
    BY <2>1, <2>2, <2>3
  <2>6. ASSUME NEW k \in 1 .. Len(appended)
        PROVE  appended[k].ts \in 1 .. MaxTime
    <3>1. appended[k] \in LogEntry
      BY AccessLogAssumption DEF IInv, Suffix
    <3> QED
      BY <3>1 DEF LogEntry
  <2>7. j \in i + 1 .. Len(appended)
    BY <2>1, <2>4
  <2>8. appended[j].ts <= from
    <3>1. OldestTs = appended[j].ts
      BY <2>1, <2>5 DEF OldestTs
    <3> QED
      BY <2>1, <2>6, <3>1, AccessLogAssumption DEF Truncated
  <2>9. appended[j].ts <= appended[i].ts
    BY <2>1, <2>6, <2>8, AccessLogAssumption
  <2> QED
    BY <2>5, <2>7, <2>9
<1> QED
  BY AccessLogInvariant, <1>1, PTL

----------------------------------------------------------------------------
(* What Stats counts. *)

(* Tokens drawn for every value of f, one per element that has it, are as
   many as the elements. *)
Having(f, E, b) == {e \in E : f[e] = b}
Tokens(D, count) == UNION {{<<b, i>> : i \in 1 .. count[b]} : b \in D}

LEMMA SharedOut ==
  ASSUME NEW E, IsFiniteSet(E), NEW D, NEW f, \A e \in E : f[e] \in D,
         NEW count, \A b \in D : count[b] = Cardinality(Having(f, E, b))
  PROVE  Cardinality(Tokens(D, count)) = Cardinality(E)
<1> USE DEF Having, Tokens
<1> DEFINE Of(b) == {e \in E : f[e] = b}
<1> DEFINE U == UNION {{<<b, i>> : i \in 1 .. count[b]} : b \in D}
<1> DEFINE h == [b \in D |-> CHOOSE g : g \in Bijection(1 .. count[b], Of(b))]
<1> DEFINE k == [u \in U |-> h[u[1]][u[2]]]
<1>1. ASSUME NEW b \in D
      PROVE  h[b] \in Bijection(1 .. count[b], Of(b))
  <2>1. IsFiniteSet(Of(b))
    BY FS_Subset
  <2>2. count[b] = Cardinality(Of(b))
    OBVIOUS
  <2>3. ExistsBijection(1 .. count[b], Of(b))
    BY <2>1, <2>2, FS_CardinalityType
  <2>4. \E g : g \in Bijection(1 .. count[b], Of(b))
    BY <2>3 DEF ExistsBijection
  <2> QED
    BY <2>4, Zenon
<1> HIDE DEF h
<1>2. ASSUME NEW b \in D
      PROVE  /\ \A i \in 1 .. count[b] : h[b][i] \in E /\ f[h[b][i]] = b
             /\ \A i, j \in 1 .. count[b] : h[b][i] = h[b][j] => i = j
             /\ \A e \in Of(b) : \E i \in 1 .. count[b] : h[b][i] = e
  <2> HIDE DEF Of
  <2>1. /\ h[b] \in [1 .. count[b] -> Of(b)]
        /\ \A t \in Of(b) : \E i \in 1 .. count[b] : h[b][i] = t
    BY <1>1 DEF Bijection, Surjection
  <2>2. \A i, j \in 1 .. count[b] : h[b][i] = h[b][j] => i = j
    BY <1>1, <2>1 DEF Bijection, Injection, IsInjective
  <2>4. \A i \in 1 .. count[b] : h[b][i] \in Of(b)
    BY <2>1
  <2> QED
    BY <2>1, <2>2, <2>4 DEF Of
<1>3. \A u \in U : u[1] \in D /\ u[2] \in 1 .. count[u[1]] /\ u = <<u[1], u[2]>>
  OBVIOUS
<1>4. k \in [U -> E]
  BY <1>2, <1>3
<1>5. ASSUME NEW u \in U, NEW v \in U, k[u] = k[v]
      PROVE  u = v
  <2>1. h[u[1]][u[2]] = h[v[1]][v[2]]
    BY <1>5
  <2>2. u[1] = v[1]
    BY <1>2, <1>3, <2>1
  <2> QED
    BY <1>2, <1>3, <2>1, <2>2
<1>6. ASSUME NEW e \in E
      PROVE  \E u \in U : k[u] = e
  <2>1. f[e] \in D /\ e \in Of(f[e])
    OBVIOUS
  <2>2. PICK i \in 1 .. count[f[e]] : h[f[e]][i] = e
    BY <1>2, <2>1
  <2>3. <<f[e], i>> \in U
    BY <2>1
  <2>4. k[<<f[e], i>>] = e
    BY <2>2, <2>3
  <2> QED
    BY <2>3, <2>4
<1> HIDE DEF k, U
<1>7. k \in Bijection(U, E)
  BY <1>4, <1>5, <1>6, Fun_IsBij
<1>8. ExistsBijection(E, U)
  BY <1>7, Fun_ExistsBijSymmetric DEF ExistsBijection
<1>9. Cardinality(U) = Cardinality(E)
  BY <1>8, FS_Bijection
<1> QED
  BY <1>9 DEF U

LEMMA LiveIsFinite ==
  ASSUME IInv
  PROVE  /\ IsFiniteSet(Live)
         /\ \A e \in Live : e \in LogEntry
<1>1. Snapshot \in Seq(Entry) /\ Len(Snapshot) = size /\ size \in Nat
  BY SnapshotIs, CapAssumption DEF IInv, RingInv, TypeOK, SnapshotLayout
<1> DEFINE s == [i \in 1 .. size |-> Snapshot[i]]
<1>2. s \in Surjection(1 .. size, Live)
  <2>1. s \in [1 .. size -> Live]
    BY DEF Live
  <2>2. \A e \in Live : \E i \in 1 .. size : s[i] = e
    BY DEF Live
  <2> QED
    BY <2>1, <2>2, Fun_IsSurj
<1>3. IsFiniteSet(1 .. size)
  BY <1>1, FS_Interval
<1>4. IsFiniteSet(Live)
  BY <1>2, <1>3, FS_Surjection
<1>5. \A e \in Live : e \in Entry
  BY <1>1 DEF Live
<1> QED
  BY <1>4, <1>5, AccessLogAssumption

LEMMA ClassIsOne == \A e : StatusClass(e.status) \in StatusClasses
BY DEF StatusClass, StatusClasses

(* The dashboard and the list tell the same story (logs.go:194-213, 284-337):
   the buckets, classes, providers and keys of Stats share out exactly the
   entries the listings select, whatever the width of a bucket. *)
THEOREM DashboardAgrees == LogSpec => []DashboardMatchesList
<1>1. IInv => DashboardMatchesList
  <2> SUFFICES ASSUME IInv, NEW from \in 1 .. now, NEW width \in 1 .. MaxTime
               PROVE  LET s == Stats(from, now, width)
                          Total(k, p, c) == Cardinality(List(Query(from, now, k, p, c)))
                          InBuckets(c) == Cardinality(
                            UNION {{<<b, i>> : i \in 1 .. s.buckets[b][c]} : b \in DOMAIN s.buckets})
                      IN  /\ s.requests = Total(Unset, Unset, Unset)
                          /\ \A c \in StatusClasses : /\ s.by_class[c] = Total(Unset, Unset, c)
                                                      /\ s.by_class[c] = InBuckets(c)
                          /\ \A p \in DOMAIN s.by_provider, c \in StatusClasses :
                               s.by_provider[p][c] =
                                 IF p = Unresolved THEN Cardinality(FilteredOut(from, now, c))
                                 ELSE Total(Unset, p, c)
                          /\ \A k \in DOMAIN s.by_key : s.by_key[k] = Total(k, Unset, Unset)
    BY Zenon DEF DashboardMatchesList
  <2> DEFINE s == Stats(from, now, width)
  <2> DEFINE es == InWindow(from, now)
  <2> DEFINE Sel(k, p, c) == List(Query(from, now, k, p, c))
  <2> DEFINE at == [e \in es |-> Bucket(e.ts, width)]
  <2>0. from > 0 /\ now > 0
    BY DEF IInv, Stamped
  <2>1. IsFiniteSet(es)
    <3>1. es \in SUBSET Live
      BY DEF InWindow
    <3> QED
      BY <3>1, LiveIsFinite, FS_Subset
  <2>2. \A e \in es : e \in Live /\ e \in LogEntry /\ StatusClass(e.status) \in StatusClasses
    BY LiveIsFinite, ClassIsOne DEF InWindow
  <2>3. /\ Unset \notin StatusClasses
        /\ \A e \in es : e.key # Unset
    BY <2>2, AccessLogAssumption DEF LogEntry
  <2>4. \A k, p, c : Sel(k, p, c) =
          {e \in es : Matches(k, e.key) /\ Matches(p, e.provider)
                       /\ Matches(c, StatusClass(e.status))}
    BY <2>0 DEF List, Query, InWindow
  <2>5. s.requests = Cardinality(Sel(Unset, Unset, Unset))
    <3>1. \A v : Matches(Unset, v)
      BY DEF Matches
    <3>2. \A e \in es : /\ Matches(Unset, e.key)
                        /\ Matches(Unset, e.provider)
                        /\ Matches(Unset, StatusClass(e.status))
      BY <3>1
    <3>3. Sel(Unset, Unset, Unset) =
            {e \in es : /\ Matches(Unset, e.key)
                       /\ Matches(Unset, e.provider)
                       /\ Matches(Unset, StatusClass(e.status))}
      BY <2>4, Zenon
    <3> HIDE DEF es, Sel
    <3>4. Sel(Unset, Unset, Unset) = es
      BY <3>2, <3>3, Zenon
    <3> QED
      BY <3>4 DEF Stats, es, Sel
  <2>6. ASSUME NEW c \in StatusClasses
        PROVE  s.by_class[c] = Cardinality(Sel(Unset, Unset, c))
    <3>1. Sel(Unset, Unset, c) = {e \in es : StatusClass(e.status) = c}
      BY <2>3, <2>4 DEF Matches
    <3> QED
      BY <3>1 DEF Stats, Tally
  <2>7. ASSUME NEW c \in StatusClasses
        PROVE  s.by_class[c] = Cardinality(
                 UNION {{<<b, i>> : i \in 1 .. s.buckets[b][c]} : b \in DOMAIN s.buckets})
    <3> DEFINE E == {e \in es : StatusClass(e.status) = c}
    <3> DEFINE D == {Bucket(e.ts, width) : e \in es}
    <3> DEFINE count == [b \in D |-> s.buckets[b][c]]
    <3>1. IsFiniteSet(E)
      <4>1. E \in SUBSET es
        OBVIOUS
      <4> QED
        BY <4>1, <2>1, FS_Subset
    <3>2. DOMAIN s.buckets = D
      BY DEF Stats
    <3>3. \A e \in E : at[e] \in D
      OBVIOUS
    <3>4. ASSUME NEW b \in D
          PROVE  count[b] = Cardinality({e \in E : at[e] = b})
      <4>1. s.buckets[b] = Tally({e \in es : Bucket(e.ts, width) = b})
        BY DEF Stats
      <4>2. s.buckets[b][c] =
              Cardinality({e \in {e \in es : Bucket(e.ts, width) = b} : StatusClass(e.status) = c})
        BY <4>1 DEF Tally
      <4>3. {e \in {e \in es : Bucket(e.ts, width) = b} : StatusClass(e.status) = c}
              = {e \in E : at[e] = b}
        OBVIOUS
      <4> QED
        BY <4>2, <4>3
    <3>5. s.by_class[c] = Cardinality(E)
      BY DEF Stats, Tally
    <3>6. \A b \in D : count[b] = s.buckets[b][c]
      OBVIOUS
    <3> HIDE DEF E, s, es, at, D, count
    <3>7. \A b \in D : count[b] = Cardinality(Having(at, E, b))
      BY <3>4 DEF Having
    <3>8. \A e \in E : at[e] \in D
      BY <3>3
    <3>9. Cardinality(Tokens(D, count)) = Cardinality(E)
      BY <3>1, <3>7, <3>8, SharedOut
    <3>10. \A b \in D : {<<b, i>> : i \in 1 .. count[b]} = {<<b, i>> : i \in 1 .. s.buckets[b][c]}
      BY <3>6, Zenon
    <3>11. {{<<b, i>> : i \in 1 .. count[b]} : b \in D}
             = {{<<b, i>> : i \in 1 .. s.buckets[b][c]} : b \in DOMAIN s.buckets}
      <4> DEFINE T(b) == {<<b, i>> : i \in 1 .. count[b]}
      <4> DEFINE W(b) == {<<b, i>> : i \in 1 .. s.buckets[b][c]}
      <4>1. \A b \in D : T(b) = W(b)
        BY <3>10, Zenon
      <4>2. D = DOMAIN s.buckets
        BY <3>2
      <4> HIDE DEF T, W
      <4>3. {T(b) : b \in D} = {W(b) : b \in DOMAIN s.buckets}
        BY <4>1, <4>2
      <4> QED
        BY <4>3 DEF T, W
    <3> QED
      BY <3>5, <3>9, <3>11, Zenon DEF s, Tokens
  <2>8. ASSUME NEW p \in DOMAIN s.by_provider, NEW c \in StatusClasses
        PROVE  s.by_provider[p][c] =
                 IF p = Unresolved THEN Cardinality(FilteredOut(from, now, c))
                 ELSE Cardinality(Sel(Unset, p, c))
    <3>1. p \in {CountedUnder(e) : e \in es}
      BY DEF Stats
    <3>2. p # Unset /\ c # Unset
      BY <2>3, <3>1, AccessLogAssumption DEF CountedUnder
    <3>3. s.by_provider[p][c] =
            Cardinality({e \in {e \in es : CountedUnder(e) = p} : StatusClass(e.status) = c})
      BY <3>1 DEF Stats, Tally
    <3>4. CASE p = Unresolved
      <4>1. FilteredOut(from, now, c) =
              {e \in es : StatusClass(e.status) = c /\ e.provider \notin Provider \cup {Unresolved}}
        <5>1. FilteredOut(from, now, c) =
                Sel(Unset, Unset, c) \ UNION {Sel(Unset, q, c) : q \in Provider \cup {Unresolved}}
          BY DEF FilteredOut
        <5>2. Sel(Unset, Unset, c) = {e \in es : StatusClass(e.status) = c}
          BY <2>4, <3>2 DEF Matches
        <5>3. \A q \in Provider \cup {Unresolved} :
                Sel(Unset, q, c) = {e \in es : e.provider = q /\ StatusClass(e.status) = c}
          BY <2>4, <3>2, AccessLogAssumption DEF Matches
        <5> HIDE DEF Sel, es
        <5> QED
          BY <5>1, <5>2, <5>3
      <4>2. \A e \in es : CountedUnder(e) = Unresolved <=> e.provider \notin Provider \cup {Unresolved}
        BY <2>2, AccessLogAssumption DEF CountedUnder, LogEntry
      <4> QED
        BY <3>3, <3>4, <4>1, <4>2
    <3>5. CASE p # Unresolved
      <4>1. Sel(Unset, p, c) =
              {e \in {e \in es : CountedUnder(e) = p} : StatusClass(e.status) = c}
        BY <2>4, <3>2, <3>5 DEF Matches, CountedUnder
      <4> QED
        BY <3>3, <3>5, <4>1
    <3> QED
      BY <3>4, <3>5
  <2>9. ASSUME NEW k \in DOMAIN s.by_key
        PROVE  s.by_key[k] = Cardinality(Sel(k, Unset, Unset))
    <3>1. DOMAIN s.by_key = {e.key : e \in es}
      BY DEF Stats
    <3>2. k # Unset
      BY <2>3, <3>1
    <3>3. Sel(k, Unset, Unset) = {e \in es : e.key = k}
      BY <2>4, <3>2 DEF Matches
    <3> QED
      BY <3>1, <3>3 DEF Stats
  <2> QED
    BY <2>5, <2>6, <2>7, <2>8, <2>9, Zenon
<1> QED
  BY AccessLogInvariant, <1>1, PTL
=============================================================================
