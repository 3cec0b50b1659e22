---------------------------- MODULE MCDiscovery ----------------------------
(* Small discovery caches for TLC.  Two providers share the one slot of a
   round's semaphore and an admin refresh overlaps the round's; what settles
   is asked of one provider, whose slot is never taken by another. *)
EXTENDS Discovery

CONSTANTS p1, p2, m1, m2, c1

OneProvider == {p1}
TwoProviders == {p1, p2}
TwoModels == {m1, m2}
OneCall == {c1}
OneModel == {m1}
NoneOrOne == {{}, OneModel}
TwoLists == {TwoModels, {m1}}
=============================================================================
