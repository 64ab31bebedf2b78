----------------------------- MODULE RateLimiter -----------------------------
(***************************************************************************)
(* mantis_server::rate_limit: a bucket of tokens for the whole server and  *)
(* one for each signing key.  Buckets fill as time passes, up to their     *)
(* burst.  A token is Token units, so that what a tick adds is whole.      *)
(***************************************************************************)
EXTENDS Integers

CONSTANTS
  Key,
  Token,                    \* units a write costs
  GlobalBurst, GlobalRate,  \* tokens, and units per tick
  KeyBurst, KeyRate,
  PruneEvery, PruneAfter    \* ticks between prunings, and of disuse

ASSUME RateAssumption ==
  /\ Token \in Nat \ {0}
  /\ GlobalBurst \in Nat /\ KeyBurst \in Nat
  /\ GlobalRate \in Nat /\ KeyRate \in Nat
  /\ PruneEvery \in Nat /\ PruneAfter \in Nat

(* new(120, 20, 30, 10): the server lets one key have half of its burst and a
   quarter of its rate, and forgets a bucket long after it is full again. *)
ASSUME SharesAssumption ==
  /\ KeyBurst < GlobalBurst /\ KeyRate <= GlobalRate
  /\ KeyBurst * Token <= KeyRate * PruneAfter

Units(capacity) == capacity * Token

Bucket(capacity) == [tokens : 0..Units(capacity), updated : Nat]

Full(capacity, now) == [tokens |-> Units(capacity), updated |-> now]

Least(a, b) == IF a < b THEN a ELSE b

(* What take finds in a bucket, and what it leaves. *)
Refilled(b, capacity, rate, now) ==
  Least(b.tokens + (now - b.updated) * rate, Units(capacity))

Pays(b, capacity, rate, now) == Refilled(b, capacity, rate, now) >= Token

Taken(b, capacity, rate, now) ==
  [tokens  |-> IF Pays(b, capacity, rate, now)
                 THEN Refilled(b, capacity, rate, now) - Token
                 ELSE Refilled(b, capacity, rate, now),
   updated |-> now]

(* WriteRateLimiter::new. *)
New(now) == [started |-> now, global |-> Full(GlobalBurst, now), keys |-> [k \in {} |-> Full(0, now)]]

Known(l) == DOMAIN l.keys

KeyBucket(l, k, now) == IF k \in Known(l) THEN l.keys[k] ELSE Full(KeyBurst, now)

KeyPays(l, k, now)  == Pays(KeyBucket(l, k, now), KeyBurst, KeyRate, now)
GlobalPays(l, now)  == Pays(l.global, GlobalBurst, GlobalRate, now)
Allows(l, k, now)   == KeyPays(l, k, now) /\ GlobalPays(l, now)

WithKey(l, k, now) ==
  [l EXCEPT !.keys = [j \in Known(l) \cup {k} |->
     IF j = k THEN Taken(KeyBucket(l, k, now), KeyBurst, KeyRate, now) ELSE l.keys[j]]]

WithGlobal(l, now) == [l EXCEPT !.global = Taken(@, GlobalBurst, GlobalRate, now)]

(* Mutant: the age that counts is the limiter's, not the bucket's. *)
PrunedByStart(l, now) ==
  IF now - l.started < PruneEvery THEN l
  ELSE [l EXCEPT !.started = now, !.keys = [k \in {} |-> Full(0, now)]]

(* prune. *)
Pruned(l, now) ==
  IF now - l.started < PruneEvery THEN l
  ELSE [l EXCEPT !.started = now,
          !.keys = [k \in {j \in Known(l) : now - l.keys[j].updated < PruneAfter} |-> l.keys[k]]]

(* allow_at: the limiter afterwards; the answer is Allows.  A key that is
   refused does not take from the server's bucket, nor the other way round. *)
AfterAllow(l, k, now) ==
  IF ~KeyPays(l, k, now) THEN WithKey(l, k, now)
  ELSE IF ~GlobalPays(l, now) THEN WithGlobal(l, now)
  ELSE Pruned(WithKey(WithGlobal(l, now), k, now), now)

=============================================================================
