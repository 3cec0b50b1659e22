---------------------------- MODULE MCAccessLog ----------------------------
(* Overlapping requests over a ring of two or three slots, so that it wraps,
   is cleared at every write position, and drops entries in an order that is
   not that of their time stamps. *)
EXTENDS AccessLog, TLC

(* An answer, a body refused before a target was chosen, a stream cut after
   its header. *)
MCEnding == {[wrote |-> 200, status |-> 200, failed |-> FALSE, provider |-> "acme"],
             [wrote |-> 400, status |-> 0, failed |-> FALSE, provider |-> Unset],
             [wrote |-> 200, status |-> 502, failed |-> TRUE, provider |-> "acme"]}

Symmetric == Permutations(Client)
=============================================================================
