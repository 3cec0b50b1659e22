------------------------------ MODULE MCGateway ------------------------------
(***************************************************************************)
(* Small gateways for TLC: two providers with one key each, two models.    *)
(* The alias has three targets, two of them on p1, so that a cooldown of   *)
(* k1 hits a later target and a 404 of one model must not hit the other.   *)
(***************************************************************************)
EXTENDS Gateway, TLC

CONSTANTS p1, p2, m1, m2, k1, k2, r1, r2

TwoProviders == {p1, p2}
TwoModels == {m1, m2}
TwoKeys == {k1, k2}
OneKeyEach == (p1 :> <<k1>>) @@ (p2 :> <<k2>>)
OnlyP1Embeds == {p1}

OneRequest == {r1}
TwoRequests == {r1, r2}
SymmetricRequests == Permutations({r1, r2})

Row(routing, targets) ==
  [enabled |-> TRUE, routing |-> routing, targets |-> targets]

Three == << <<p1, m1>>, <<p1, m2>>, <<p2, m1>> >>
FailoverRow == Row("failover", Three)
RotatingRow == Row("round_robin", Three)

(* Edits: another order without the second target; disabled. *)
Rows == {FailoverRow, RotatingRow, Row("priority", << <<p2, m1>>, <<p1, m1>> >>)}
MoreRows == Rows \cup {[FailoverRow EXCEPT !.enabled = FALSE],
                       Row("random", << <<p2, m2>>, <<p2, m1>> >>)}

OneAlias == {FailoverRow}
TwoAliases == {FailoverRow, RotatingRow}

AliasChats == [kind : {"chat"}, directive : {ViaAlias}]
AllCalls == [kind : Kinds, directive : {ViaAlias, <<p1, m1>>}]

FewStatuses == {200, 404, 429}
AllStatuses == {200, 400, 403, 404, 500}

NetworkFaults == {"network"}
AllFaults == {"network", "request", "body", "translation"}

(* A refresh finds everything, or p2's second model and p1's second gone. *)
TwoOffers == {TwoModels, {m1}}
=============================================================================
