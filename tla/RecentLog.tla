----------------------------- MODULE RecentLog -----------------------------
(***************************************************************************)
(* What the request log promises: it is the sequence of the most recent    *)
(* entries, oldest first, never more than Cap of them.  LogRing implements *)
(* it with the circular buffer of internal/metrics/logs.go.                *)
(***************************************************************************)
EXTENDS Naturals, Sequences

CONSTANTS Cap,     \* how many entries are kept
          Entry    \* the log entries

VARIABLE log       \* the entries kept, oldest first

(* Appending drops the oldest entry once Cap are kept. *)
Kept(s, e) == IF Len(s) < Cap THEN Append(s, e) ELSE Append(Tail(s), e)

Init == log = << >>

Add(e) == log' = Kept(log, e)

Clear == log' = << >>

Next == (\E e \in Entry : Add(e)) \/ Clear

Spec == Init /\ [][Next]_log
=============================================================================
