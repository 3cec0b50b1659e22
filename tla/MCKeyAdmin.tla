----------------------------- MODULE MCKeyAdmin -----------------------------
(* Two handlers and two keys over two providers. *)
EXTENDS KeyAdmin, TLC

CONSTANTS p1, p2, k1, k2, v1, v2, h1, h2

TwoProviders == {p1, p2}
TwoKeys == {k1, k2}
TwoValues == {v1, v2}
TwoHandlers == {h1, h2}
Alike == Permutations(TwoHandlers) \cup Permutations(TwoValues)
           \cup Permutations(TwoProviders) \cup Permutations(TwoKeys)
=============================================================================
