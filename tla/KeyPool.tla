------------------------------ MODULE KeyPool ------------------------------
(***************************************************************************)
(* The pool of upstream API keys (internal/keypool/keypool.go): for each   *)
(* provider its enabled keys in priority order, each ready or cooling      *)
(* down.  Every operation runs under the pool's lock and is one step of    *)
(* the modules that use it.  Time is abstracted: a cooldown simply ends.   *)
(***************************************************************************)
EXTENDS Ids

VARIABLE pool   \* provider |-> its keys; << >> when it was never loaded

KeyState == [key : Key, cooling : BOOLEAN]

PoolTypeOK == pool \in [Provider -> Seq(KeyState)]

(* Positions of the keys that can be handed out. *)
Ready(p) == {i \in 1 .. Len(pool[p]) : ~pool[p][i].cooling}

(* The first key, in priority order, that is not cooling down. *)
Get(p) ==
  IF Ready(p) = {} THEN NoKey
  ELSE pool[p][CHOOSE i \in Ready(p) : \A j \in Ready(p) : i <= j].key

(* A key list with the cooldown of key k started or ended; unchanged when k
   is not in it. *)
WithCooling(states, k, cooling) ==
  [i \in DOMAIN states |->
     IF states[i].key = k THEN [key |-> k, cooling |-> cooling] ELSE states[i]]

NoCooldown(p, k) == pool' = pool
MarkCooldown(p, k) ==
  pool' = [pool EXCEPT ![p] = WithCooling(pool[p], k, TRUE)]

(* The cooldown of a key runs out: no code runs, Get compares with the clock. *)
CooldownEnds(p, k) ==
  /\ \E i \in DOMAIN pool[p] : pool[p][i] = [key |-> k, cooling |-> TRUE]
  /\ pool' = [pool EXCEPT ![p] = WithCooling(pool[p], k, FALSE)]

(* What Load makes of a key list: fresh states, so cooldowns are forgotten. *)
Fresh(keys) == [i \in DOMAIN keys |-> [key |-> keys[i], cooling |-> FALSE]]
=============================================================================
