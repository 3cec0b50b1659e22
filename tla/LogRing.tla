------------------------------ MODULE LogRing ------------------------------
(***************************************************************************)
(* The in-memory request log (LogStore in internal/metrics/logs.go): a     *)
(* circular buffer of Cap slots with a write position and a fill count.    *)
(* Append and Clear run under the write lock and snapshot under the read   *)
(* lock, so each is one step.  The lock is not modelled: nothing is done   *)
(* between taking and releasing it that another goroutine could see.       *)
(***************************************************************************)
EXTENDS Integers, Sequences

CONSTANTS Cap,      \* number of slots: NewLogStore replaces Cap <= 0 by 10000
          Entry,    \* the log entries
          NoEntry   \* the zero RequestLog an unused slot holds

ASSUME CapAssumption == Cap \in Nat \ {0}
ASSUME EntryAssumption == NoEntry \notin Entry

VARIABLES buf,      \* the slots
          head,     \* the slot the next entry goes to
          size      \* how many slots hold an entry

vars == <<buf, head, size>>

Slot == 0 .. Cap - 1

Empty == [i \in Slot |-> NoEntry]

(* The slot of the oldest entry. *)
StartMissesWrap == IF size = Cap THEN 0 ELSE (head - size + Cap) % Cap
Start == IF size = Cap THEN head ELSE (head - size + Cap) % Cap

(* What List and Stats read: the live entries, oldest first. *)
Snapshot == [i \in 1 .. size |-> buf[(Start + i - 1) % Cap]]

Init == buf = Empty /\ head = 0 /\ size = 0

AppendPastEnd(e) ==
  /\ buf'  = [buf EXCEPT ![head] = e]
  /\ head' = head + 1
  /\ size' = IF size < Cap THEN size + 1 ELSE size

AppendEntry(e) ==
  /\ buf'  = [buf EXCEPT ![head] = e]
  /\ head' = (head + 1) % Cap
  /\ size' = IF size < Cap THEN size + 1 ELSE size

ClearKeepsSlots == head' = 0 /\ size' = 0 /\ buf' = buf
Clear == head' = 0 /\ size' = 0 /\ buf' = Empty

Next == (\E e \in Entry : AppendEntry(e)) \/ Clear

Spec == Init /\ [][Next]_vars

----------------------------------------------------------------------------

TypeOK ==
  /\ buf  \in [Slot -> Entry \cup {NoEntry}]
  /\ head \in Slot
  /\ size \in 0 .. Cap

(* Exactly the live window of the ring holds entries: until the ring is
   full it starts at slot 0 and ends before head, then it is every slot.
   Append, Clear and snapshot (logs.go:145-186) rely on it without saying. *)
LiveWindow ==
  /\ size < Cap => head = size
  /\ \A i \in Slot : buf[i] \in Entry <=> i < size

RingInv == TypeOK /\ LiveWindow

Abs == INSTANCE RecentLog WITH log <- Snapshot

(* The ring behaves as the log of the most recent Cap entries: a snapshot
   (logs.go:169-186) is what was appended since the last Clear, oldest
   first, cut to the last Cap. *)
ImplementsRecentLog == Abs!Spec
=============================================================================
