----------------------------- MODULE ServerProofs -----------------------------
(***************************************************************************)
(* What is proved of mantis-server's requests, of its write limiter and    *)
(* of the chains its first version accepts, for any keys, projects,        *)
(* clients, commands, workers, queue, bursts and rates.                    *)
(*                                                                         *)
(* Budget: the tokens in a key's bucket, counted up to now, and the writes *)
(* since any earlier one that was allowed, together never exceed a burst   *)
(* and what flowed in since.  A bucket is forgotten only when it is full   *)
(* again, which SharesAssumption is for.  Request numbers are handed on in *)
(* order, so that each is in one place; and while a worker asks the        *)
(* limiter, the project's mutex keeps the chain it compared with.          *)
(*                                                                         *)
(* Chains: a batch is checked link by link against the head and replayed   *)
(* on what the chain replays to.  That the result validates from its       *)
(* genesis is proved by induction over the blocks, with sets of naturals   *)
(* in the place of predicates (Counting); LegacyInv says it of every copy, *)
(* the candidate on its way to the file and what a power loss may leave.   *)
(***************************************************************************)
EXTENDS Server, TLAPS, WellFoundedInduction, SequenceTheorems

(* What a key's bucket would hold now. *)
Level(l, k, now) == Refilled(KeyBucket(l, k, now), KeyBurst, KeyRate, now)

LimiterType(l, now) ==
  /\ l = [started |-> l.started, global |-> l.global, keys |-> l.keys]
  /\ l.started \in Nat /\ l.global \in Bucket(GlobalBurst) /\ l.global.updated <= now
  /\ l.keys \in [Known(l) -> Bucket(KeyBurst)] /\ \A k \in Known(l) : l.keys[k].updated <= now

(* Products of naturals. *)
LEMMA Times ==
  /\ \A a, b \in Nat : a * b \in Nat
  /\ \A a, b, c \in Nat : a <= b => a * c <= b * c
  /\ \A a, b, c \in Int : (a + b) * c = a * c + b * c
  /\ \A a, b \in Int : a * b \in Int /\ a * b = b * a /\ 0 * a = 0 /\ 1 * a = a
OBVIOUS

LEMMA BurstsArePositive == /\ \A c \in Nat : Units(c) \in Nat
                           /\ KeyBurst \in Nat /\ GlobalBurst \in Nat
BY Times, RateAssumption DEF Units

(* A bucket that is refilled, and perhaps paid from, is a bucket. *)
LEMMA BucketKept ==
  ASSUME NEW capacity \in Nat, NEW rate \in Nat, NEW now \in Nat,
         NEW b \in Bucket(capacity), b.updated <= now
  PROVE  /\ Refilled(b, capacity, rate, now) \in 0..Units(capacity)
         /\ Taken(b, capacity, rate, now) \in Bucket(capacity)
         /\ Taken(b, capacity, rate, now).updated = now
         /\ Refilled(Taken(b, capacity, rate, now), capacity, rate, now)
              = IF Pays(b, capacity, rate, now) THEN Refilled(b, capacity, rate, now) - Token
                                                ELSE Refilled(b, capacity, rate, now)
<1> DEFINE r == Refilled(b, capacity, rate, now)
           t == Taken(b, capacity, rate, now)
<1>1. Units(capacity) \in Nat
  BY BurstsArePositive
<1>2. b.tokens \in 0..Units(capacity) /\ b.updated \in Nat
  BY DEF Bucket
<1>3. (now - b.updated) * rate \in Nat
  BY <1>2, Times
<1>4. r \in 0..Units(capacity)
  BY <1>1, <1>2, <1>3 DEF Refilled, Least
<1> HIDE DEF r
<1>5. t = [tokens |-> IF r >= Token THEN r - Token ELSE r, updated |-> now]
  BY DEF Taken, Pays, r
<1>6. t.tokens \in 0..Units(capacity) /\ t.updated = now /\ t \in Bucket(capacity)
  BY <1>1, <1>4, <1>5, RateAssumption DEF Bucket
<1>7. Refilled(t, capacity, rate, now) = t.tokens
  BY <1>1, <1>6, Times DEF Refilled, Least
<1>8. Pays(b, capacity, rate, now) <=> r >= Token
  BY DEF Pays, r
<1> QED BY <1>4, <1>5, <1>6, <1>7, <1>8 DEF r

(* A tick adds at most what a tick is worth. *)
LEMMA LevelLater ==
  ASSUME NEW now \in Nat, NEW l, LimiterType(l, now), NEW k
  PROVE  Level(l, k, now + 1) <= Level(l, k, now) + KeyRate
<1>1. Units(KeyBurst) \in Nat /\ KeyRate \in Nat
  BY BurstsArePositive, RateAssumption
<1>2. CASE k \in Known(l)
  <2> DEFINE b == l.keys[k]
  <2>1. b.tokens \in Nat /\ b.updated \in Nat /\ b.updated <= now
    BY <1>2 DEF LimiterType, Bucket
  <2>2. KeyBucket(l, k, now) = b /\ KeyBucket(l, k, now + 1) = b
    BY <1>2 DEF KeyBucket
  <2> HIDE DEF b
  <2>3. now + 1 - b.updated = (now - b.updated) + 1
    BY <2>1
  <2>4. (now + 1 - b.updated) * KeyRate = (now - b.updated) * KeyRate + KeyRate
    BY <1>1, <2>1, <2>3, Times
  <2>5. (now - b.updated) * KeyRate \in Nat
    BY <1>1, <2>1, Times
  <2> QED BY <1>1, <2>1, <2>2, <2>4, <2>5 DEF Level, Refilled, Least
<1>3. CASE k \notin Known(l)
  <2>1. ASSUME NEW t \in Nat PROVE Level(l, k, t) = Units(KeyBurst)
    BY <1>1, <1>3, Times DEF Level, Refilled, Least, KeyBucket, Full
  <2>2. now + 1 \in Nat
    OBVIOUS
  <2> QED BY <1>1, <2>1, <2>2
<1> QED BY <1>2, <1>3

LEMMA LevelType ==
  ASSUME NEW now \in Nat, NEW l, LimiterType(l, now), NEW k
  PROVE  /\ Level(l, k, now) \in 0..Units(KeyBurst)
         /\ KeyBucket(l, k, now) \in Bucket(KeyBurst) /\ KeyBucket(l, k, now).updated <= now
<1>1. Full(KeyBurst, now) \in Bucket(KeyBurst) /\ Full(KeyBurst, now).updated = now
  BY BurstsArePositive DEF Full, Bucket
<1>2. KeyBucket(l, k, now) \in Bucket(KeyBurst) /\ KeyBucket(l, k, now).updated <= now
  BY <1>1 DEF KeyBucket, LimiterType
<1>3. Level(l, k, now) \in 0..Units(KeyBurst)
  BY <1>2, BucketKept, RateAssumption DEF Level
<1> QED BY <1>2, <1>3

(* Taking from one key's bucket leaves the other levels. *)
LEMMA WithKeyKept ==
  ASSUME NEW now \in Nat, NEW l, LimiterType(l, now), NEW k
  PROVE  /\ LimiterType(WithKey(l, k, now), now)
         /\ \A j : j # k => Level(WithKey(l, k, now), j, now) = Level(l, j, now)
         /\ Level(WithKey(l, k, now), k, now) =
              IF KeyPays(l, k, now) THEN Level(l, k, now) - Token ELSE Level(l, k, now)
<1> DEFINE b == KeyBucket(l, k, now)
           t == Taken(b, KeyBurst, KeyRate, now)
           m == WithKey(l, k, now)
<1>1. b \in Bucket(KeyBurst) /\ b.updated <= now
  BY LevelType
<1>2. /\ t \in Bucket(KeyBurst) /\ t.updated = now
      /\ Refilled(t, KeyBurst, KeyRate, now) =
           IF Pays(b, KeyBurst, KeyRate, now) THEN Refilled(b, KeyBurst, KeyRate, now) - Token
                                              ELSE Refilled(b, KeyBurst, KeyRate, now)
  BY <1>1, BucketKept, RateAssumption
<1>3. /\ m = [started |-> l.started, global |-> l.global, keys |-> m.keys]
      /\ m.keys = [j \in Known(l) \cup {k} |-> IF j = k THEN t ELSE l.keys[j]]
  BY DEF WithKey, LimiterType
<1>4. Known(m) = Known(l) \cup {k}
  BY <1>3 DEF Known
<1> HIDE DEF m, t
<1>5. LimiterType(m, now)
  <2>1. \A j \in Known(m) : m.keys[j] \in Bucket(KeyBurst) /\ m.keys[j].updated <= now
    BY <1>2, <1>3, <1>4 DEF LimiterType
  <2>2. m.keys \in [Known(m) -> Bucket(KeyBurst)]
    BY <1>3, <1>4, <2>1
  <2>3. m.started = l.started /\ m.global = l.global
    BY <1>3
  <2>4. m = [started |-> m.started, global |-> m.global, keys |-> m.keys]
    BY <1>3, <2>3
  <2>5. m.started \in Nat /\ m.global \in Bucket(GlobalBurst) /\ m.global.updated <= now
    BY <2>3 DEF LimiterType
  <2> QED BY <2>1, <2>2, <2>4, <2>5 DEF LimiterType
<1>6. ASSUME NEW j, j # k PROVE Level(m, j, now) = Level(l, j, now)
  BY <1>3, <1>4, <1>6 DEF Level, KeyBucket
<1>7. Level(m, k, now) = Refilled(t, KeyBurst, KeyRate, now)
  BY <1>3, <1>4 DEF Level, KeyBucket
<1> QED BY <1>2, <1>5, <1>6, <1>7 DEF Level, KeyPays, m

(* The server's bucket is none of the keys'. *)
LEMMA WithGlobalKept ==
  ASSUME NEW now \in Nat, NEW l, LimiterType(l, now)
  PROVE  /\ LimiterType(WithGlobal(l, now), now)
         /\ \A j : KeyBucket(WithGlobal(l, now), j, now) = KeyBucket(l, j, now)
<1> DEFINE m == WithGlobal(l, now)
           t == Taken(l.global, GlobalBurst, GlobalRate, now)
<1>1. /\ m = [started |-> l.started, global |-> t, keys |-> l.keys]
  BY DEF WithGlobal, LimiterType
<1>2. t \in Bucket(GlobalBurst) /\ t.updated = now
  BY BucketKept, RateAssumption DEF LimiterType
<1> HIDE DEF m, t
<1>3. Known(m) = Known(l) /\ m.keys = l.keys
  BY <1>1 DEF Known
<1> QED BY <1>1, <1>2, <1>3 DEF LimiterType, KeyBucket, m

(* A bucket that is forgotten was full again. *)
LEMMA PrunedKept ==
  ASSUME NEW now \in Nat, NEW l, LimiterType(l, now)
  PROVE  /\ LimiterType(Pruned(l, now), now)
         /\ \A j : Level(Pruned(l, now), j, now) = Level(l, j, now)
<1> DEFINE m == Pruned(l, now)
           kept == {j \in Known(l) : now - l.keys[j].updated < PruneAfter}
<1>1. CASE now - l.started < PruneEvery
  BY <1>1 DEF Pruned
<1>2. CASE ~(now - l.started < PruneEvery)
  <2>1. /\ m = [started |-> now, global |-> l.global, keys |-> m.keys]
        /\ m.keys = [k \in kept |-> l.keys[k]]
    BY <1>2 DEF Pruned, LimiterType
  <2>2. Known(m) = kept
    BY <2>1 DEF Known
  <2> HIDE DEF m
  <2>3. LimiterType(m, now)
    BY <2>1, <2>2 DEF LimiterType
  <2>4. ASSUME NEW j PROVE Level(m, j, now) = Level(l, j, now)
    <3>1. CASE j \in Known(l) \ kept
      <4> DEFINE b == l.keys[j]
      <4>1. b.tokens \in Nat /\ b.updated \in Nat /\ now - b.updated >= PruneAfter
        BY <3>1, RateAssumption DEF LimiterType, Bucket
      <4>2. KeyBucket(l, j, now) = b /\ KeyBucket(m, j, now) = Full(KeyBurst, now)
        BY <2>2, <3>1 DEF KeyBucket
      <4> HIDE DEF b
      <4>3. PruneAfter * KeyRate <= (now - b.updated) * KeyRate
        BY <4>1, Times, RateAssumption
      <4>4. /\ (now - b.updated) * KeyRate \in Nat /\ Units(KeyBurst) \in Nat
            /\ Units(KeyBurst) <= (now - b.updated) * KeyRate
        BY <4>1, <4>3, Times, RateAssumption, SharesAssumption, BurstsArePositive DEF Units
      <4>5. Level(l, j, now) = Units(KeyBurst)
        BY <4>1, <4>2, <4>4 DEF Level, Refilled, Least
      <4>6. Level(m, j, now) = Units(KeyBurst)
        BY <4>2, <4>4, Times, RateAssumption DEF Level, Refilled, Least, Full
      <4> QED BY <4>5, <4>6
    <3>2. CASE j \notin Known(l) \ kept
      BY <2>1, <2>2, <3>2 DEF Level, KeyBucket
    <3> QED BY <3>1, <3>2
  <2> QED BY <2>3, <2>4 DEF m
<1> QED BY <1>1, <1>2

(* allow_at: a key that may write pays one token, and nobody else does. *)
LEMMA AfterAllowKept ==
  ASSUME NEW now \in Nat, NEW l, LimiterType(l, now), NEW k
  PROVE  /\ LimiterType(AfterAllow(l, k, now), now)
         /\ \A j : j # k => Level(AfterAllow(l, k, now), j, now) = Level(l, j, now)
         /\ Level(AfterAllow(l, k, now), k, now) =
              IF Allows(l, k, now) THEN Level(l, k, now) - Token ELSE Level(l, k, now)
         /\ Allows(l, k, now) => Level(l, k, now) >= Token
<1> DEFINE g == WithGlobal(l, now)
           w == WithKey(g, k, now)
<1>1. LimiterType(g, now) /\ \A j : KeyBucket(g, j, now) = KeyBucket(l, j, now)
  BY WithGlobalKept
<1>2. \A j : Level(g, j, now) = Level(l, j, now) /\ (KeyPays(g, j, now) <=> KeyPays(l, j, now))
  BY <1>1 DEF Level, KeyPays
<1>3. KeyPays(l, k, now) => Level(l, k, now) >= Token
  BY DEF KeyPays, Pays, Level
<1>4. CASE ~KeyPays(l, k, now)
  BY <1>4, WithKeyKept DEF AfterAllow, Allows
<1>5. CASE KeyPays(l, k, now) /\ ~GlobalPays(l, now)
  BY <1>1, <1>2, <1>5 DEF AfterAllow, Allows
<1>6. CASE KeyPays(l, k, now) /\ GlobalPays(l, now)
  <2>1. AfterAllow(l, k, now) = Pruned(w, now) /\ Allows(l, k, now)
    BY <1>6 DEF AfterAllow, Allows
  <2> HIDE DEF g
  <2>2. /\ LimiterType(w, now)
        /\ \A j : j # k => Level(w, j, now) = Level(g, j, now)
        /\ Level(w, k, now) = Level(g, k, now) - Token
    BY <1>1, <1>2, <1>6, WithKeyKept
  <2> HIDE DEF w
  <2>3. LimiterType(Pruned(w, now), now) /\ \A j : Level(Pruned(w, now), j, now) = Level(w, j, now)
    BY <2>2, PrunedKept
  <2> QED BY <1>2, <1>3, <1>6, <2>1, <2>2, <2>3
<1> QED BY <1>4, <1>5, <1>6

-----------------------------------------------------------------------------

Stage == {"idle", "reading", "looking", "calling", "limiting"}

Block == [author : Key, by : Nat]

Message ==
  [kind : {"read", "push", "raw"}, project : Project, base : Seq(Block), batch : Seq(Key),
   genuine : BOOLEAN]

RegistryTypeOK ==
  /\ chains \in [Project -> Seq(Block)] /\ clock \in Nat
  /\ requests \in Seq(Message) /\ backlog \in Seq(Nat) /\ queue \in Seq(Nat)
  /\ workers \in [Worker -> Stage] /\ job \in [Worker -> Nat]
  /\ declared \in [Worker -> Seq(Block)] /\ unpaid \in [Worker -> SUBSET Key]
  /\ allowed \in [Key -> Seq(Nat)]

(* The requests that workers have taken. *)
Begun == Len(requests) - Len(backlog) - Len(queue)

(* The queue and the backlog hold those not yet taken, in the order they came;
   a worker has its own, which nobody answered. *)
NumbersInv ==
  /\ Begun \in Nat
  /\ \A i \in 1..Len(queue) : queue[i] = Begun + i
  /\ \A i \in 1..Len(backlog) : backlog[i] = Begun + Len(queue) + i
  /\ answered \subseteq 1..Begun
  /\ \A w \in Worker : workers[w] = "idle" => job[w] = 0
  /\ \A w \in Worker : workers[w] # "idle" => job[w] \in 1..Begun /\ job[w] \notin answered
  /\ \A w, v \in Worker : w # v /\ workers[w] # "idle" => job[w] # job[v]

(* The project's mutex: while a worker asks the limiter, the chain is the one
   its push was made on, and no other worker is at the same project. *)
MutexInv ==
  /\ \A w \in Worker : workers[w] = "limiting" =>
       Request(job[w]).base = chains[Request(job[w]).project]
  /\ \A w, v \in Worker : w # v /\ workers[w] = "limiting" /\ workers[v] = "limiting" =>
       Request(job[w]).project # Request(job[v]).project

(* The limiter let a key write at times; what is left in its bucket now and the
   writes since the i-th are within a burst and what flowed in since. *)
Spent(times, i, now, level) ==
  /\ times[i] <= now
  /\ (Len(times) - i + 1) * Token + level <= Units(KeyBurst) + KeyRate * (now - times[i])

Accounts(times, now, level) ==
  /\ \A i \in DOMAIN times : Spent(times, i, now, level)
  /\ \A i, j \in DOMAIN times : i <= j => WithinShare(times, i, j)

BudgetInv ==
  /\ LimiterType(limiter, clock)
  /\ \A k \in Key : Accounts(allowed[k], clock, Level(limiter, k, clock))

RegistryInv == RegistryTypeOK /\ NumbersInv /\ MutexInv /\ BudgetInv

-----------------------------------------------------------------------------

LEMMA RegistryInitInv == RegistryInit => RegistryInv
<1> SUFFICES ASSUME RegistryInit PROVE RegistryInv
  OBVIOUS
<1>1. RegistryTypeOK
  BY DEF RegistryInit, RegistryTypeOK, Stage
<1>2. NumbersInv
  BY DEF RegistryInit, NumbersInv, Begun
<1>3. MutexInv
  BY DEF RegistryInit, MutexInv
<1>4. LimiterType(limiter, clock)
  <2>1. /\ limiter = [started |-> 0, global |-> Full(GlobalBurst, 0), keys |-> [k \in {} |-> Full(0, 0)]]
        /\ clock = 0
    BY DEF RegistryInit, New
  <2>2. Full(GlobalBurst, 0) \in Bucket(GlobalBurst) /\ Full(GlobalBurst, 0).updated = 0
    BY BurstsArePositive DEF Full, Bucket
  <2>3. Known(limiter) = {}
    BY <2>1 DEF Known
  <2> QED BY <2>1, <2>2, <2>3 DEF LimiterType
<1>5. BudgetInv
  BY <1>4 DEF RegistryInit, BudgetInv, Accounts
<1> QED BY <1>1, <1>2, <1>3, <1>5 DEF RegistryInv

(* When time passes, a bucket gets at most what flowed in. *)
LEMMA AccountsLater ==
  ASSUME NEW times \in Seq(Nat), NEW now \in Nat,
         NEW level \in 0..Units(KeyBurst), NEW then \in 0..Units(KeyBurst),
         then <= level + KeyRate, Accounts(times, now, level)
  PROVE  Accounts(times, now + 1, then)
<1> SUFFICES ASSUME NEW i \in DOMAIN times PROVE Spent(times, i, now + 1, then)
  BY DEF Accounts
<1> DEFINE n == (Len(times) - i + 1) * Token
           a == times[i]
<1>1. a \in Nat /\ a <= now /\ n + level <= Units(KeyBurst) + KeyRate * (now - a)
  BY DEF Accounts, Spent
<1>2. KeyRate \in Nat /\ Units(KeyBurst) \in Nat /\ Len(times) - i + 1 \in Int
  BY BurstsArePositive, RateAssumption
<1>3. n \in Int
  BY <1>2, Times, RateAssumption
<1>4. Spent(times, i, now + 1, then) <=>
        a <= now + 1 /\ n + then <= Units(KeyBurst) + KeyRate * (now + 1 - a)
  BY DEF Spent
<1> HIDE DEF n, a
<1>5. KeyRate * (now + 1 - a) = KeyRate * (now - a) + KeyRate /\ KeyRate * (now - a) \in Int
  BY <1>1, <1>2, Times
<1> QED BY <1>1, <1>2, <1>3, <1>4, <1>5

(* A write that is allowed costs a token that was there. *)
LEMMA AccountsPaid ==
  ASSUME NEW times \in Seq(Nat), NEW now \in Nat, NEW level \in 0..Units(KeyBurst),
         level >= Token, Accounts(times, now, level)
  PROVE  Accounts(Append(times, now), now, level - Token)
<1> DEFINE new == Append(times, now)
           n == Len(times)
           spent(i) == (n - i + 1) * Token
           inflow(i) == KeyRate * (now - times[i])
<1>1. /\ n \in Nat /\ DOMAIN times = 1..n /\ Len(new) = n + 1 /\ DOMAIN new = 1..n + 1
      /\ \A i \in 1..n : new[i] = times[i]
      /\ new[n + 1] = now
  OBVIOUS
<1>2. Units(KeyBurst) \in Nat /\ KeyRate \in Nat /\ Token \in Nat
  BY BurstsArePositive, RateAssumption
<1>3. ASSUME NEW i \in 1..n
      PROVE  /\ spent(i) + level <= Units(KeyBurst) + inflow(i)
             /\ times[i] \in Nat /\ times[i] <= now
             /\ spent(i) \in Int /\ inflow(i) \in Int
             /\ (n + 1 - i + 1) * Token = spent(i) + Token
  <2>1. Spent(times, i, now, level) /\ times[i] \in Nat
    BY <1>1 DEF Accounts
  <2>2. spent(i) \in Int /\ inflow(i) \in Int
    BY <1>1, <1>2, <2>1, Times
  <2>3. n + 1 - i + 1 = (n - i + 1) + 1 /\ n - i + 1 \in Int
    BY <1>1
  <2>4. (n + 1 - i + 1) * Token = spent(i) + Token
    BY <1>2, <2>3, Times
  <2> QED BY <2>1, <2>2, <2>4 DEF Spent
<1>4. n + 1 - (n + 1) + 1 = 1 /\ now - now = 0 /\ 1 * Token = Token /\ KeyRate * 0 = 0
  BY <1>1, <1>2
<1> HIDE DEF new, n, spent, inflow
<1>5. ASSUME NEW i \in 1..n + 1 PROVE Spent(new, i, now, level - Token)
  <2>1. CASE i \in 1..n
    <3>1. Spent(new, i, now, level - Token) <=>
            /\ times[i] <= now
            /\ (n + 1 - i + 1) * Token + (level - Token) <= Units(KeyBurst) + inflow(i)
      BY <1>1, <2>1 DEF Spent, inflow
    <3> QED BY <1>2, <1>3, <2>1, <3>1
  <2>2. CASE i = n + 1
    <3>1. /\ (Len(new) - i + 1) * Token = Token /\ KeyRate * (now - new[i]) = 0
          /\ new[i] = now
      BY <1>1, <1>4, <2>2
    <3> QED BY <1>2, <3>1 DEF Spent
  <2> QED BY <1>1, <2>1, <2>2
<1>6. ASSUME NEW h \in 1..n + 1, NEW i \in 1..n + 1, h <= i PROVE WithinShare(new, h, i)
  <2>1. CASE i \in 1..n
    <3>1. h \in 1..n
      BY <1>1, <1>6, <2>1
    <3>2. WithinShare(times, h, i)
      BY <1>1, <1>6, <2>1, <3>1, Zenon DEF Accounts
    <3>3. new[h] = times[h] /\ new[i] = times[i]
      BY <1>1, <2>1, <3>1
    <3> QED BY <3>2, <3>3 DEF WithinShare
  <2>2. CASE i = n + 1 /\ h \in 1..n
    <3>1. (i - h + 1) * Token = spent(h) + Token
      <4>1. i - h + 1 = n + 1 - h + 1
        BY <1>1, <2>2
      <4>2. (n + 1 - h + 1) * Token = spent(h) + Token
        BY <1>3, <2>2
      <4> QED BY <4>1, <4>2, Zenon
    <3>2. KeyRate * (new[i] - new[h]) = inflow(h)
      BY <1>1, <2>2 DEF inflow
    <3>3. /\ spent(h) + level <= Units(KeyBurst) + inflow(h)
          /\ spent(h) \in Int /\ inflow(h) \in Int
      BY <1>3, <2>2
    <3> QED BY <1>2, <3>1, <3>2, <3>3 DEF WithinShare
  <2>3. CASE i = n + 1 /\ h = n + 1
    <3>1. (i - h + 1) * Token = Token /\ KeyRate * (new[i] - new[h]) = 0
      BY <1>1, <1>4, <2>3
    <3> QED BY <1>2, <3>1 DEF WithinShare
  <2> QED BY <1>1, <1>6, <2>1, <2>2, <2>3
<1> QED BY <1>1, <1>5, <1>6 DEF Accounts, new

-----------------------------------------------------------------------------

(* The budget when time passes. *)
LEMMA BudgetTick == RegistryInv /\ Tick => BudgetInv'
<1> SUFFICES ASSUME RegistryInv, Tick PROVE BudgetInv'
  OBVIOUS
<1>1. /\ clock \in Nat /\ clock' = clock + 1 /\ limiter' = limiter /\ allowed' = allowed
      /\ LimiterType(limiter, clock) /\ allowed \in [Key -> Seq(Nat)]
  BY DEF RegistryInv, RegistryTypeOK, BudgetInv, Tick
<1>2. clock + 1 \in Nat /\ LimiterType(limiter, clock + 1)
  BY <1>1 DEF LimiterType, Bucket
<1>3. ASSUME NEW k \in Key
      PROVE  Accounts(allowed[k], clock + 1, Level(limiter, k, clock + 1))
  <2>1. /\ Level(limiter, k, clock) \in 0..Units(KeyBurst)
        /\ Level(limiter, k, clock + 1) \in 0..Units(KeyBurst)
    BY <1>1, <1>2, LevelType
  <2>2. Level(limiter, k, clock + 1) <= Level(limiter, k, clock) + KeyRate
    BY <1>1, LevelLater
  <2>3. allowed[k] \in Seq(Nat) /\ Accounts(allowed[k], clock, Level(limiter, k, clock))
    BY <1>1 DEF RegistryInv, BudgetInv
  <2> QED BY <1>1, <2>1, <2>2, <2>3, AccountsLater
<1> QED BY <1>1, <1>2, <1>3, Zenon DEF BudgetInv

(* The limiter is asked for a key, which may write or not. *)
LEMMA BudgetAsked ==
  ASSUME RegistryInv, NEW k \in Key, limiter' = AfterAllow(limiter, k, clock),
         UNCHANGED clock,
         allowed' = IF Allows(limiter, k, clock)
                      THEN [allowed EXCEPT ![k] = Append(@, clock)] ELSE allowed
  PROVE  BudgetInv'
<1>1. /\ clock \in Nat /\ clock' = clock /\ allowed \in [Key -> Seq(Nat)]
      /\ LimiterType(limiter, clock)
      /\ \A j \in Key : Accounts(allowed[j], clock, Level(limiter, j, clock))
  BY DEF RegistryInv, RegistryTypeOK, BudgetInv
<1>2. /\ LimiterType(limiter', clock)
      /\ \A j \in Key : j # k => Level(limiter', j, clock) = Level(limiter, j, clock)
      /\ Level(limiter', k, clock) =
           IF Allows(limiter, k, clock) THEN Level(limiter, k, clock) - Token
                                        ELSE Level(limiter, k, clock)
      /\ Allows(limiter, k, clock) => Level(limiter, k, clock) >= Token
  BY <1>1, AfterAllowKept
<1>3. ASSUME NEW j \in Key PROVE Accounts(allowed'[j], clock, Level(limiter', j, clock))
  <2>1. CASE j # k
    <3>1. allowed'[j] = allowed[j]
      BY <1>1, <2>1
    <3> QED BY <1>1, <1>2, <2>1, <3>1
  <2>2. CASE j = k /\ Allows(limiter, k, clock)
    <3>1. allowed'[k] = Append(allowed[k], clock) /\ allowed[k] \in Seq(Nat)
      BY <1>1, <2>2
    <3>2. Level(limiter, k, clock) \in 0..Units(KeyBurst)
      BY <1>1, LevelType
    <3> QED BY <1>1, <1>2, <2>2, <3>1, <3>2, AccountsPaid
  <2>3. CASE j = k /\ ~Allows(limiter, k, clock)
    BY <1>1, <1>2, <2>3
  <2> QED BY <2>1, <2>2, <2>3
<1> QED BY <1>1, <1>2, <1>3, Zenon DEF BudgetInv

-----------------------------------------------------------------------------

(* The steps that neither ask the limiter nor let time pass. *)
LEMMA BudgetStill ==
  ASSUME RegistryInv, UNCHANGED <<limiter, clock, allowed>>
  PROVE  BudgetInv'
BY Zenon DEF RegistryInv, BudgetInv, Known

(* A worker that answers gives back its number, and its place. *)
LEMMA RespondNumbers ==
  ASSUME RegistryInv, NEW w \in Worker, workers[w] # "idle", Respond(w),
         UNCHANGED <<requests, backlog, queue>>
  PROVE  /\ NumbersInv'
         /\ answered' \subseteq 1..Begun
         /\ workers' \in [Worker -> Stage] /\ job' \in [Worker -> Nat]
         /\ declared' \in [Worker -> Seq(Block)] /\ unpaid' \in [Worker -> SUBSET Key]
         /\ \A v \in Worker : workers'[v] = "limiting" =>
              v # w /\ workers[v] = "limiting" /\ job'[v] = job[v]
<1>1. /\ workers \in [Worker -> Stage] /\ job \in [Worker -> Nat]
      /\ declared \in [Worker -> Seq(Block)] /\ unpaid \in [Worker -> SUBSET Key]
  BY DEF RegistryInv, RegistryTypeOK
<1>2. /\ answered' = answered \cup {job[w]}
      /\ workers' = [workers EXCEPT ![w] = "idle"] /\ job' = [job EXCEPT ![w] = 0]
      /\ declared' = [declared EXCEPT ![w] = << >>] /\ unpaid' = [unpaid EXCEPT ![w] = {}]
  BY DEF Respond
<1>3. /\ workers' \in [Worker -> Stage] /\ job' \in [Worker -> Nat]
      /\ declared' \in [Worker -> Seq(Block)] /\ unpaid' \in [Worker -> SUBSET Key]
  BY <1>1, <1>2 DEF Stage
<1>4. Begun' = Begun /\ queue' = queue /\ backlog' = backlog
  BY DEF Begun
<1>5. /\ workers'[w] = "idle" /\ job'[w] = 0
      /\ \A v \in Worker : v # w => workers'[v] = workers[v] /\ job'[v] = job[v]
  BY <1>1, <1>2
<1>6. NumbersInv
  BY DEF RegistryInv
<1>7. answered' \subseteq 1..Begun
  BY <1>2, <1>6 DEF NumbersInv
<1>8. NumbersInv'
  <2>1. /\ Begun' \in Nat
        /\ \A i \in 1..Len(queue') : queue'[i] = Begun' + i
        /\ \A i \in 1..Len(backlog') : backlog'[i] = Begun' + Len(queue') + i
        /\ answered' \subseteq 1..Begun'
    BY <1>4, <1>6, <1>7 DEF NumbersInv
  <2>2. \A v \in Worker : workers'[v] = "idle" => job'[v] = 0
    BY <1>5, <1>6 DEF NumbersInv
  <2>3. \A v \in Worker : workers'[v] # "idle" => job'[v] \in 1..Begun' /\ job'[v] \notin answered'
    BY <1>2, <1>4, <1>5, <1>6 DEF NumbersInv
  <2>4. \A v, u \in Worker : v # u /\ workers'[v] # "idle" => job'[v] # job'[u]
    BY <1>5, <1>6 DEF NumbersInv
  <2> QED BY <2>1, <2>2, <2>3, <2>4 DEF NumbersInv
<1> QED BY <1>3, <1>5, <1>7, <1>8

(* The request a busy worker has was sent. *)
LEMMA JobsSent ==
  ASSUME RegistryInv, NEW w \in Worker, workers[w] # "idle"
  PROVE  job[w] \in DOMAIN requests /\ Request(job[w]) \in Message
<1>1. /\ requests \in Seq(Message) /\ backlog \in Seq(Nat) /\ queue \in Seq(Nat)
      /\ job[w] \in 1..Begun
  BY DEF RegistryInv, RegistryTypeOK, NumbersInv
<1>2. job[w] \in 1..Len(requests)
  BY <1>1 DEF Begun
<1> QED BY <1>1, <1>2 DEF Request

(* Steps that leave the chains and put nobody new at the limiter. *)
LEMMA MutexStill ==
  ASSUME RegistryInv, chains' = chains,
         \A id \in DOMAIN requests : requests'[id] = requests[id],
         \A v \in Worker : workers'[v] = "limiting" =>
           workers[v] = "limiting" /\ job'[v] = job[v]
  PROVE  MutexInv'
<1>1. ASSUME NEW v \in Worker, workers'[v] = "limiting"
      PROVE  /\ workers[v] = "limiting" /\ job'[v] = job[v]
             /\ Request(job[v])' = Request(job[v])
  BY <1>1, JobsSent DEF Request
<1> QED BY <1>1 DEF RegistryInv, MutexInv, Request

LEMMA TickInv == RegistryInv /\ Tick => RegistryInv'
<1> SUFFICES ASSUME RegistryInv, Tick PROVE RegistryInv'
  OBVIOUS
<1>1. RegistryTypeOK'
  BY DEF RegistryInv, RegistryTypeOK, Tick
<1>2. NumbersInv'
  BY DEF RegistryInv, NumbersInv, Begun, Tick
<1>3. MutexInv'
  BY DEF RegistryInv, MutexInv, Request, Tick
<1> QED BY <1>1, <1>2, <1>3, BudgetTick DEF RegistryInv

(* A request gets the next number and waits last. *)
LEMMA SendInv ==
  ASSUME RegistryInv, NEW kind \in {"read", "push", "raw"}, NEW p \in Project,
         NEW n \in 0..Len(chains[p]), NEW batch \in Seq(Key), NEW genuine \in BOOLEAN,
         Send(kind, p, n, batch, genuine)
  PROVE  RegistryInv'
<1> DEFINE r == [kind |-> kind, project |-> p, base |-> SubSeq(chains[p], 1, n),
                 batch |-> batch, genuine |-> genuine]
<1>1. /\ requests \in Seq(Message) /\ backlog \in Seq(Nat) /\ queue \in Seq(Nat)
      /\ chains[p] \in Seq(Block)
  BY DEF RegistryInv, RegistryTypeOK
<1>2. r \in Message
  BY <1>1 DEF Message
<1>3. requests' = Append(requests, r) /\ backlog' = Append(backlog, Len(requests'))
  BY DEF Send
<1>4. /\ queue' = queue /\ workers' = workers /\ job' = job /\ answered' = answered
      /\ chains' = chains
  BY DEF Send
<1> HIDE DEF r
<1>5. /\ Len(requests') = Len(requests) + 1 /\ Len(backlog') = Len(backlog) + 1
      /\ \A i \in 1..Len(backlog) : backlog'[i] = backlog[i]
      /\ backlog'[Len(backlog) + 1] = Len(requests) + 1
      /\ \A id \in DOMAIN requests : requests'[id] = requests[id]
      /\ requests' \in Seq(Message) /\ backlog' \in Seq(Nat)
  BY <1>1, <1>2, <1>3
<1>6. RegistryTypeOK'
  BY <1>5 DEF RegistryInv, RegistryTypeOK, Send
<1>7. Begun' = Begun /\ Begun = Len(requests) - Len(backlog) - Len(queue)
  BY <1>1, <1>4, <1>5 DEF Begun
<1>8. NumbersInv'
  <2>1. \A i \in 1..Len(backlog') : backlog'[i] = Begun' + Len(queue') + i
    <3> TAKE i \in 1..Len(backlog')
    <3>1. CASE i \in 1..Len(backlog)
      BY <1>4, <1>5, <1>7, <3>1 DEF RegistryInv, NumbersInv
    <3>2. CASE i = Len(backlog) + 1
      BY <1>1, <1>4, <1>5, <1>7, <3>2
    <3> QED BY <1>1, <1>5, <3>1, <3>2
  <2> QED BY <1>4, <1>7, <2>1 DEF RegistryInv, NumbersInv
<1>9. MutexInv'
  BY <1>4, <1>5, MutexStill
<1>10. BudgetInv'
  BY BudgetStill DEF Send
<1> QED BY <1>6, <1>8, <1>9, <1>10 DEF RegistryInv

(* The first of the backlog becomes the last of the queue. *)
LEMMA AcceptInv == RegistryInv /\ Accept => RegistryInv'
<1> SUFFICES ASSUME RegistryInv, Accept PROVE RegistryInv'
  OBVIOUS
<1>1. /\ requests \in Seq(Message) /\ backlog \in Seq(Nat) /\ queue \in Seq(Nat)
      /\ backlog # << >>
  BY DEF RegistryInv, RegistryTypeOK, Accept
<1>2. /\ queue' = Append(queue, Head(backlog)) /\ backlog' = Tail(backlog)
      /\ requests' = requests /\ workers' = workers /\ job' = job /\ answered' = answered
      /\ chains' = chains
  BY DEF Accept
<1>3. /\ Len(queue') = Len(queue) + 1 /\ Len(backlog') = Len(backlog) - 1
      /\ \A i \in 1..Len(queue) : queue'[i] = queue[i]
      /\ queue'[Len(queue) + 1] = backlog[1] /\ 1 \in 1..Len(backlog)
      /\ \A i \in 1..Len(backlog') : backlog'[i] = backlog[i + 1] /\ i + 1 \in 1..Len(backlog)
      /\ queue' \in Seq(Nat) /\ backlog' \in Seq(Nat)
  BY <1>1, <1>2
<1>4. RegistryTypeOK'
  BY <1>3 DEF RegistryInv, RegistryTypeOK, Accept
<1>5. Begun' = Begun
  BY <1>1, <1>2, <1>3 DEF Begun
<1>6. NumbersInv'
  <2>0. /\ Begun \in Nat
        /\ \A i \in 1..Len(queue) : queue[i] = Begun + i
        /\ \A i \in 1..Len(backlog) : backlog[i] = Begun + Len(queue) + i
    BY DEF RegistryInv, NumbersInv
  <2>1. \A i \in 1..Len(queue') : queue'[i] = Begun' + i
    <3> TAKE i \in 1..Len(queue')
    <3>1. CASE i \in 1..Len(queue)
      BY <1>3, <1>5, <2>0, <3>1
    <3>2. CASE i = Len(queue) + 1
      BY <1>1, <1>3, <1>5, <2>0, <3>2
    <3> QED BY <1>1, <1>3, <3>1, <3>2
  <2>2. \A i \in 1..Len(backlog') : backlog'[i] = Begun' + Len(queue') + i
    BY <1>1, <1>3, <1>5, <2>0
  <2> QED BY <1>2, <1>5, <2>1, <2>2 DEF RegistryInv, NumbersInv
<1>7. MutexInv'
  BY <1>2, MutexStill
<1>8. BudgetInv'
  BY BudgetStill DEF Accept
<1> QED BY <1>4, <1>6, <1>7, <1>8 DEF RegistryInv

(* An idle worker gets the first of the queue, which no other has. *)
LEMMA TakeInv ==
  ASSUME RegistryInv, NEW w \in Worker, Take(w)
  PROVE  RegistryInv'
<1> DEFINE id == Head(queue)
           stage == IF Request(id).kind = "read" THEN "calling" ELSE "reading"
<1>1. /\ requests \in Seq(Message) /\ backlog \in Seq(Nat) /\ queue \in Seq(Nat)
      /\ workers \in [Worker -> Stage] /\ job \in [Worker -> Nat] /\ queue # << >>
      /\ workers[w] = "idle"
  BY DEF RegistryInv, RegistryTypeOK, Take
<1>2. /\ queue' = Tail(queue) /\ backlog' = backlog /\ requests' = requests
      /\ answered' = answered /\ chains' = chains
      /\ job' = [job EXCEPT ![w] = id] /\ workers' = [workers EXCEPT ![w] = stage]
  BY DEF Take
<1>3. /\ Begun \in Nat
      /\ \A i \in 1..Len(queue) : queue[i] = Begun + i
      /\ \A i \in 1..Len(backlog) : backlog[i] = Begun + Len(queue) + i
      /\ answered \subseteq 1..Begun
      /\ \A v \in Worker : workers[v] = "idle" => job[v] = 0
      /\ \A v \in Worker : workers[v] # "idle" => job[v] \in 1..Begun /\ job[v] \notin answered
      /\ \A v, u \in Worker : v # u /\ workers[v] # "idle" => job[v] # job[u]
  BY DEF RegistryInv, NumbersInv
<1>4. id = Begun + 1
  BY <1>1, <1>3
<1>5. /\ Len(queue') = Len(queue) - 1 /\ queue' \in Seq(Nat)
      /\ \A i \in 1..Len(queue') : queue'[i] = queue[i + 1] /\ i + 1 \in 1..Len(queue)
  BY <1>1, <1>2
<1>6. Begun' = Begun + 1
  BY <1>1, <1>2, <1>5 DEF Begun
<1>7. stage \in {"calling", "reading"} /\ stage \in Stage /\ stage # "idle" /\ stage # "limiting"
  BY DEF Stage
<1> HIDE DEF id, stage
<1>8. /\ job'[w] = Begun + 1 /\ workers'[w] = stage
      /\ \A v \in Worker : v # w => workers'[v] = workers[v] /\ job'[v] = job[v]
  BY <1>1, <1>2, <1>4
<1>9. RegistryTypeOK'
  <2>1. job' \in [Worker -> Nat] /\ workers' \in [Worker -> Stage]
    BY <1>1, <1>2, <1>3, <1>4, <1>7
  <2> QED BY <1>5, <2>1 DEF RegistryInv, RegistryTypeOK, Take
<1>10. NumbersInv'
  <2>1. \A i \in 1..Len(queue') : queue'[i] = Begun' + i
    BY <1>3, <1>5, <1>6
  <2>2. \A i \in 1..Len(backlog') : backlog'[i] = Begun' + Len(queue') + i
    BY <1>1, <1>2, <1>3, <1>5, <1>6
  <2>3. Begun' \in Nat /\ answered' \subseteq 1..Begun'
    BY <1>2, <1>3, <1>6
  <2>4. ASSUME NEW v \in Worker, workers'[v] # "idle"
        PROVE  job'[v] \in 1..Begun' /\ job'[v] \notin answered'
    BY <1>2, <1>3, <1>6, <1>8, <2>4
  <2>5. ASSUME NEW v \in Worker, NEW u \in Worker, v # u, workers'[v] # "idle"
        PROVE  job'[v] # job'[u]
    <3>1. ASSUME NEW x \in Worker PROVE job[x] # Begun + 1
      <4>1. job[x] = 0 \/ job[x] \in 1..Begun
        BY <1>3
      <4> QED BY <1>3, <4>1
    <3> QED BY <1>3, <1>8, <2>5, <3>1
  <2>6. \A v \in Worker : workers'[v] = "idle" => job'[v] = 0
    BY <1>3, <1>7, <1>8
  <2> QED BY <2>1, <2>2, <2>3, <2>4, <2>5, <2>6 DEF NumbersInv
<1>11. MutexInv'
  BY <1>2, <1>7, <1>8, MutexStill
<1>12. BudgetInv'
  BY BudgetStill DEF Take
<1> QED BY <1>9, <1>10, <1>11, <1>12 DEF RegistryInv

(* Steps of a worker that keeps its request. *)
LEMMA StaysNumbers ==
  ASSUME RegistryInv, NEW w \in Worker, workers[w] # "idle",
         NEW stage \in Stage, stage # "idle", workers' = [workers EXCEPT ![w] = stage],
         UNCHANGED <<requests, backlog, queue, job, answered>>
  PROVE  NumbersInv' /\ workers' \in [Worker -> Stage]
<1>1. workers \in [Worker -> Stage] /\ NumbersInv
  BY DEF RegistryInv, RegistryTypeOK
<1>2. /\ workers' \in [Worker -> Stage]
      /\ \A v \in Worker : workers'[v] = "idle" <=> workers[v] = "idle"
  BY <1>1
<1>3. Begun' = Begun
  BY DEF Begun
<1> QED BY <1>1, <1>2, <1>3 DEF NumbersInv

LEMMA ReadBodyInv ==
  ASSUME RegistryInv, NEW w \in Worker, ReadBody(w)
  PROVE  RegistryInv'
<1> DEFINE r == Request(job[w])
<1>1. workers[w] = "reading" /\ workers[w] # "idle" /\ workers[w] # "limiting"
  BY DEF ReadBody
<1>2. r \in Message
  BY <1>1, JobsSent
<1>3. UNCHANGED <<chains, limiter, clock, requests, backlog, queue, allowed>>
  BY DEF ReadBody
<1>4. BudgetInv'
  BY <1>3, BudgetStill
<1>5. CASE BrokenOff(w)
  <2>1. Respond(w)
    BY <1>5 DEF BrokenOff
  <2>2. RegistryTypeOK' /\ NumbersInv'
    BY <1>1, <1>3, <2>1, RespondNumbers DEF RegistryInv, RegistryTypeOK
  <2>3. MutexInv'
    BY <1>1, <1>3, <2>1, RespondNumbers, MutexStill
  <2> QED BY <1>4, <2>2, <2>3 DEF RegistryInv
<1>6. CASE /\ workers' = [workers EXCEPT ![w] = IF r.kind = "raw" THEN "looking" ELSE "calling"]
           /\ declared' = [declared EXCEPT ![w] = r.base]
           /\ UNCHANGED <<job, unpaid, answered>>
  <2> DEFINE stage == IF r.kind = "raw" THEN "looking" ELSE "calling"
  <2>1. stage \in Stage /\ stage # "idle" /\ stage # "limiting"
    BY DEF Stage
  <2>2. workers' = [workers EXCEPT ![w] = stage]
    BY <1>6
  <2> HIDE DEF stage
  <2>3. NumbersInv' /\ workers' \in [Worker -> Stage]
    BY <1>1, <1>3, <1>6, <2>1, <2>2, StaysNumbers
  <2>4. declared' \in [Worker -> Seq(Block)]
    BY <1>2, <1>6 DEF Message, RegistryInv, RegistryTypeOK
  <2>5. RegistryTypeOK'
    BY <1>3, <1>6, <2>3, <2>4 DEF RegistryInv, RegistryTypeOK
  <2>6. \A v \in Worker : workers'[v] = "limiting" => workers[v] = "limiting" /\ job'[v] = job[v]
    BY <1>6, <2>1, <2>2 DEF RegistryInv, RegistryTypeOK
  <2>7. MutexInv'
    BY <1>3, <2>6, MutexStill
  <2> QED BY <1>4, <2>3, <2>5, <2>7 DEF RegistryInv
<1> QED BY <1>5, <1>6 DEF ReadBody

LEMMA LookUpInv ==
  ASSUME RegistryInv, NEW w \in Worker, LookUp(w)
  PROVE  RegistryInv'
<1>1. /\ workers[w] = "looking" /\ workers[w] # "idle"
      /\ workers' = [workers EXCEPT ![w] = "calling"]
      /\ "calling" \in Stage /\ "calling" # "idle"
      /\ declared' = [declared EXCEPT ![w] = chains[Default]]
      /\ UNCHANGED <<chains, limiter, clock, requests, backlog, queue, job, unpaid,
                     answered, allowed>>
  BY DEF LookUp, Stage
<1>2. NumbersInv' /\ workers' \in [Worker -> Stage]
  BY <1>1, StaysNumbers
<1>3. chains[Default] \in Seq(Block)
  BY HttpAssumption DEF RegistryInv, RegistryTypeOK
<1>4. RegistryTypeOK'
  BY <1>1, <1>2, <1>3 DEF RegistryInv, RegistryTypeOK
<1>5. \A v \in Worker : workers'[v] = "limiting" => workers[v] = "limiting" /\ job'[v] = job[v]
  BY <1>1 DEF RegistryInv, RegistryTypeOK
<1>6. MutexInv'
  BY <1>1, <1>5, MutexStill
<1>7. BudgetInv'
  BY <1>1, BudgetStill
<1> QED BY <1>2, <1>4, <1>6, <1>7 DEF RegistryInv

(* A push that is admitted takes the project's mutex, and was made on the chain
   as it is. *)
LEMMA CallInv ==
  ASSUME RegistryInv, NEW w \in Worker, Call(w)
  PROVE  RegistryInv'
<1> DEFINE r == Request(job[w])
<1>1. workers[w] = "calling" /\ workers[w] # "idle" /\ workers[w] # "limiting"
  BY DEF Call
<1>2. r \in Message
  BY <1>1, JobsSent
<1>3. UNCHANGED <<chains, limiter, clock, requests, backlog, queue, allowed>>
  BY DEF Call
<1>4. BudgetInv'
  BY <1>3, BudgetStill
<1>5. CASE Respond(w)
  <2>1. RegistryTypeOK' /\ NumbersInv'
    BY <1>1, <1>3, <1>5, RespondNumbers DEF RegistryInv, RegistryTypeOK
  <2>2. MutexInv'
    BY <1>1, <1>3, <1>5, RespondNumbers, MutexStill
  <2> QED BY <1>4, <2>1, <2>2 DEF RegistryInv
<1>6. CASE /\ Admits(w)
           /\ workers' = [workers EXCEPT ![w] = "limiting"]
           /\ unpaid' = [unpaid EXCEPT ![w] = Authors(r)]
           /\ UNCHANGED <<job, declared, answered>>
  <2>1. "limiting" \in Stage /\ "limiting" # "idle"
    BY DEF Stage
  <2>2. NumbersInv' /\ workers' \in [Worker -> Stage]
    BY <1>1, <1>3, <1>6, <2>1, StaysNumbers
  <2>3. Authors(r) \subseteq Key /\ r.base = chains[r.project]
    BY <1>2, <1>6, HttpAssumption DEF Admits, Message
  <2>4. RegistryTypeOK'
    BY <1>3, <1>6, <2>2, <2>3 DEF RegistryInv, RegistryTypeOK
  <2>5. \A v \in Worker : v # w => (workers'[v] = "limiting" <=> workers[v] = "limiting")
    BY <1>6 DEF RegistryInv, RegistryTypeOK
  <2>6. \A v \in Worker : workers[v] = "limiting" => Request(job[v]).project # r.project
    BY DEF Call, ProjectFree
  <2>7. \A v \in Worker : Request(job[v])' = Request(job[v])
    BY <1>3, <1>6 DEF Request
  <2>8. MutexInv'
    BY <1>3, <1>6, <2>3, <2>5, <2>6, <2>7 DEF RegistryInv, MutexInv
  <2> QED BY <1>4, <2>2, <2>4, <2>8 DEF RegistryInv
<1> QED BY <1>5, <1>6 DEF Call

LEMMA LimitInv ==
  ASSUME RegistryInv, NEW w \in Worker, Limit(w)
  PROVE  RegistryInv'
<1>1. workers[w] = "limiting" /\ workers[w] # "idle"
  BY DEF Limit
<1>2. UNCHANGED <<chains, clock, requests, backlog, queue>>
  BY DEF Limit
<1>3. PICK k \in unpaid[w] :
        /\ limiter' = AfterAllow(limiter, k, clock)
        /\ IF Allows(limiter, k, clock)
             THEN /\ unpaid' = [unpaid EXCEPT ![w] = @ \ {k}]
                  /\ allowed' = [allowed EXCEPT ![k] = Append(@, clock)]
                  /\ UNCHANGED <<workers, job, declared, answered>>
             ELSE Respond(w) /\ UNCHANGED allowed
  BY DEF Limit
<1>4. k \in Key
  BY DEF RegistryInv, RegistryTypeOK
<1>5. BudgetInv'
  BY <1>2, <1>3, <1>4, BudgetAsked
<1>6. CASE Allows(limiter, k, clock)
  <2>1. allowed' \in [Key -> Seq(Nat)] /\ unpaid' \in [Worker -> SUBSET Key]
    <3>1. /\ allowed \in [Key -> Seq(Nat)] /\ unpaid \in [Worker -> SUBSET Key]
          /\ clock \in Nat
      BY DEF RegistryInv, RegistryTypeOK
    <3>2. Append(allowed[k], clock) \in Seq(Nat)
      BY <1>4, <3>1
    <3> QED BY <1>3, <1>6, <3>1, <3>2
  <2>2. RegistryTypeOK'
    BY <1>2, <1>3, <1>6, <2>1 DEF RegistryInv, RegistryTypeOK
  <2>3. Begun' = Begun
    BY <1>2 DEF Begun
  <2>4. NumbersInv'
    BY <1>2, <1>3, <1>6, <2>3 DEF RegistryInv, NumbersInv
  <2>5. MutexInv'
    BY <1>2, <1>3, <1>6, MutexStill
  <2> QED BY <1>5, <2>2, <2>4, <2>5 DEF RegistryInv
<1>7. CASE ~Allows(limiter, k, clock)
  <2>1. Respond(w) /\ allowed' = allowed
    BY <1>3, <1>7
  <2>2. RegistryTypeOK' /\ NumbersInv'
    BY <1>1, <1>2, <2>1, RespondNumbers DEF RegistryInv, RegistryTypeOK
  <2>3. MutexInv'
    BY <1>1, <1>2, <2>1, RespondNumbers, MutexStill
  <2> QED BY <1>5, <2>2, <2>3 DEF RegistryInv
<1> QED BY <1>6, <1>7

(* The blocks go on the chain of a project that no other worker is at. *)
LEMMA ExtendInv ==
  ASSUME RegistryInv, NEW w \in Worker, Extend(w)
  PROVE  RegistryInv'
<1> DEFINE r == Request(job[w])
<1>1. workers[w] = "limiting" /\ workers[w] # "idle" /\ Respond(w)
  BY DEF Extend
<1>2. r \in Message /\ job[w] \in Nat
  BY <1>1, JobsSent DEF RegistryInv, RegistryTypeOK
<1>3. /\ UNCHANGED <<limiter, clock, requests, backlog, queue, allowed>>
      /\ chains' = [chains EXCEPT ![r.project] = @ \o Blocks(job[w])]
  BY DEF Extend
<1>4. r.project \in Project /\ r.batch \in Seq(Key)
  BY <1>2 DEF Message
<1>5. Blocks(job[w]) \in Seq(Block)
  <2> DEFINE batch == r.batch
  <2>1. Blocks(job[w]) = [i \in 1..Len(batch) |-> [author |-> batch[i], by |-> job[w]]]
    BY <1>4 DEF Blocks
  <2>2. batch \in Seq(Key)
    BY <1>4
  <2> HIDE DEF batch
  <2>3. \A i \in 1..Len(batch) : [author |-> batch[i], by |-> job[w]] \in Block
    BY <1>2, <2>2 DEF Block
  <2> QED BY <2>1, <2>2, <2>3
<1> HIDE DEF r
<1>6. chains' \in [Project -> Seq(Block)]
  BY <1>3, <1>4, <1>5 DEF RegistryInv, RegistryTypeOK
<1>7. RegistryTypeOK' /\ NumbersInv'
  BY <1>1, <1>3, <1>6, RespondNumbers DEF RegistryInv, RegistryTypeOK
<1>8. MutexInv'
  <2>1. ASSUME NEW v \in Worker, workers'[v] = "limiting"
        PROVE  /\ v # w /\ workers[v] = "limiting" /\ job'[v] = job[v]
               /\ Request(job[v])' = Request(job[v])
               /\ Request(job[v]).project \in Project
               /\ chains'[Request(job[v]).project] = chains[Request(job[v]).project]
    <3>1. v # w /\ workers[v] = "limiting" /\ job'[v] = job[v]
      BY <1>1, <1>3, <2>1, RespondNumbers
    <3>2. Request(job[v]) \in Message /\ Request(job[v]).project # r.project
      BY <1>1, <3>1, JobsSent DEF RegistryInv, MutexInv, r
    <3>3. Request(job[v]).project \in Project
      BY <3>2 DEF Message
    <3>4. Request(job[v])' = Request(job[v])
      BY <1>3, <3>1 DEF Request
    <3> QED BY <1>3, <3>1, <3>2, <3>3, <3>4
  <2> QED BY <2>1 DEF RegistryInv, MutexInv
<1>9. BudgetInv'
  BY <1>3, BudgetStill
<1> QED BY <1>7, <1>8, <1>9 DEF RegistryInv

(* RegistryInv is kept by every step of the server, in either mode. *)
LEMMA RegistryStep == RegistryInv /\ [Next]_vars => RegistryInv'
<1> SUFFICES ASSUME RegistryInv, [Next]_vars PROVE RegistryInv'
  OBVIOUS
<1>1. CASE UNCHANGED registryVars
  <2>1. RegistryTypeOK' /\ NumbersInv' /\ MutexInv'
    BY <1>1 DEF registryVars, RegistryInv, RegistryTypeOK, NumbersInv, Begun, MutexInv, Request
  <2>2. BudgetInv'
    BY <1>1, BudgetStill DEF registryVars
  <2> QED BY <2>1, <2>2 DEF RegistryInv
<1>2. CASE RegistryNext
  <2>1. CASE ClientSteps
    <3>1. PICK p \in Project :
            \/ Send("read", p, 0, << >>, TRUE)
            \/ \E kind \in {"push", "raw"}, n \in 0..Len(chains[p]), batch \in Batches,
                  genuine \in BOOLEAN : Send(kind, p, n, batch, genuine)
      BY <2>1 DEF ClientSteps
    <3>2. 0 \in 0..Len(chains[p]) /\ << >> \in Seq(Key)
      BY DEF RegistryInv, RegistryTypeOK
    <3> QED BY <3>1, <3>2, SendInv, HttpAssumption
  <2> QED BY <1>2, <2>1, TickInv, AcceptInv, TakeInv, ReadBodyInv, LookUpInv, CallInv,
             LimitInv, ExtendInv DEF RegistryNext, Handle
<1> QED BY <1>1, <1>2 DEF Next, vars

(* A chain changes only when a worker is through with a push that was made on
   it; that worker's is the only request answered in this step. *)
LEMMA BlocksFollowStep ==
  ASSUME RegistryInv, [Next]_vars, NEW p \in Project, NEW w \in Worker,
         chains'[p] # chains[p], job[w] # 0, job[w] \in answered'
  PROVE  chains[p] = Request(job[w]).base
<1>1. PICK v \in Worker : Extend(v)
  BY DEF Next, vars, registryVars, RegistryNext, ClientSteps, Send, Tick, Accept, Take, Handle,
         ReadBody, LookUp, Call, Limit
<1>2. /\ workers[v] = "limiting" /\ answered' = answered \cup {job[v]}
      /\ chains' = [chains EXCEPT ![Request(job[v]).project] = @ \o Blocks(job[v])]
  BY <1>1 DEF Extend, Respond
<1>3. Request(job[v]).project = p
  BY <1>2 DEF RegistryInv, RegistryTypeOK
<1>4. w = v
  BY <1>2 DEF RegistryInv, NumbersInv
<1> QED BY <1>2, <1>3, <1>4 DEF RegistryInv, MutexInv

-----------------------------------------------------------------------------

(* RegistryInv holds in every reachable state. *)
THEOREM RegistryInvariant == Spec => []RegistryInv
<1>1. Init => RegistryInv
  BY RegistryInitInv DEF Init
<1> QED BY <1>1, RegistryStep, PTL DEF Spec

(* Whatever is asked of the limiter, refused or forgotten, no key writes more
   in any span of time than its burst and what flowed in. *)
THEOREM StaysWithinBudget == Spec => []WithinBudget
<1>1. RegistryInv => WithinBudget
  BY DEF RegistryInv, BudgetInv, Accounts, WithinBudget
<1> QED BY <1>1, RegistryInvariant, PTL

(* Blocks come only right after the block they were made on, whichever worker
   handles them and whatever was pushed meanwhile. *)
THEOREM BlocksAlwaysFollow == Spec => BlocksFollowTheirBase
<1> DEFINE Follows ==
      \A p \in Project, w \in Worker :
        chains'[p] # chains[p] /\ job[w] # 0 /\ job[w] \in answered' =>
          chains[p] = Request(job[w]).base
<1>1. RegistryInv /\ [Next]_vars => [Follows]_registryVars
  BY BlocksFollowStep
<1> QED BY <1>1, RegistryInvariant, PTL DEF Spec, BlocksFollowTheirBase

-----------------------------------------------------------------------------

(* A set of naturals that is not empty has a least element. *)
LEMMA LeastNat ==
  ASSUME NEW T, T \subseteq Nat, T # {}
  PROVE  \E x \in T : \A y \in T : ~(y < x)
<1>1. IsWellFoundedOn(OpToRel(<, Nat), Nat)
  BY NatLessThanWellFounded DEF OpToRel
<1>2. \E x \in T : \A y \in T : ~(<<y, x>> \in OpToRel(<, Nat))
  BY <1>1, WFMin DEF OpToRel
<1> QED BY <1>2 DEF OpToRel

(* Induction: a set that holds zero and, with a number, the next one holds
   every natural. *)
LEMMA Counting ==
  ASSUME NEW S, 0 \in S, \A n \in Nat : n \in S => n + 1 \in S
  PROVE  Nat \subseteq S
<1> SUFFICES ASSUME Nat \ S # {} PROVE FALSE
  OBVIOUS
<1>1. PICK x \in Nat \ S : \A y \in Nat \ S : ~(y < x)
  BY LeastNat
<1>2. x # 0 /\ x - 1 \in Nat
  BY <1>1
<1>3. x - 1 \in S
  BY <1>1, <1>2
<1>4. x \in S
  BY <1>2, <1>3
<1> QED BY <1>1, <1>4

(* Blocks in a row. *)
Listed(c) == \E X : c \in Seq(X)

(* One block more at the end of a list. *)
LEMMA ListedOn ==
  ASSUME NEW c, Listed(c), NEW b
  PROVE  /\ Listed(Append(c, b)) /\ Len(c) \in Nat /\ Len(Append(c, b)) = Len(c) + 1
         /\ Append(c, b)[Len(c) + 1] = b
         /\ \A i \in 1..Len(c) : Append(c, b)[i] = c[i]
         /\ c \o <<b>> = Append(c, b)
<1>1. PICK X : c \in Seq(X)
  BY DEF Listed
<1> DEFINE Y == X \cup {b}
<1>2. c \in Seq(Y) /\ b \in Y
  BY <1>1, SeqMonotonic
<1> HIDE DEF Y
<1>3. Append(c, b) \in Seq(Y)
  BY <1>2
<1>4. c \o <<b>> = Append(c, b)
  BY <1>2
<1> QED BY <1>2, <1>3, <1>4 DEF Listed

(* The graphs a chain goes through. *)
Replays(f, graph, blocks, n) ==
  f = [i \in 0..n |-> IF i = 0 THEN graph ELSE ApplyAll(f[i - 1], blocks[i].ops)]

(* There is such a function for a chain of any length. *)
LEMMA ReplayExists ==
  ASSUME NEW graph, NEW blocks, NEW n \in Nat
  PROVE  \E f : Replays(f, graph, blocks, n)
<1> DEFINE S == {k \in Nat : \E f : Replays(f, graph, blocks, k)}
<1>1. 0 \in S
  <2>1. Replays([i \in 0..0 |-> graph], graph, blocks, 0)
    BY DEF Replays
  <2> QED BY <2>1
<1>2. ASSUME NEW k \in Nat, k \in S PROVE k + 1 \in S
  <2>1. PICK f : Replays(f, graph, blocks, k)
    BY <1>2
  <2> DEFINE h == [i \in 0..k + 1 |-> IF i = k + 1 THEN ApplyAll(f[k], blocks[k + 1].ops) ELSE f[i]]
  <2>2. \A i \in 0..k : h[i] = f[i]
    OBVIOUS
  <2>3. ASSUME NEW i \in 0..k + 1
        PROVE  h[i] = IF i = 0 THEN graph ELSE ApplyAll(h[i - 1], blocks[i].ops)
    <3>1. CASE i = k + 1
      BY <3>1, <2>2
    <3>2. CASE i \in 0..k
      <4>1. f[i] = IF i = 0 THEN graph ELSE ApplyAll(f[i - 1], blocks[i].ops)
        BY <2>1, <3>2 DEF Replays
      <4>2. i # 0 => h[i - 1] = f[i - 1]
        BY <2>2, <3>2
      <4> HIDE DEF h
      <4> QED BY <2>2, <3>2, <4>1, <4>2
    <3> QED BY <3>1, <3>2
  <2>4. h = [i \in 0..k + 1 |-> h[i]]
    OBVIOUS
  <2> HIDE DEF h
  <2>5. Replays(h, graph, blocks, k + 1)
    BY <2>3, <2>4 DEF Replays
  <2> QED BY <2>5
<1> HIDE DEF S
<1>3. Nat \subseteq S
  BY <1>1, <1>2, Counting
<1> QED BY <1>3 DEF S

(* Replayed is where the run of the chain ends. *)
LEMMA ReplayedRuns ==
  ASSUME NEW graph, NEW blocks, Len(blocks) \in Nat
  PROVE  \E f : /\ Replayed(graph, blocks) = f[Len(blocks)]
                /\ \A i \in 0..Len(blocks) :
                     f[i] = IF i = 0 THEN graph ELSE ApplyAll(f[i - 1], blocks[i].ops)
<1> DEFINE F == CHOOSE f : f = [i \in 0..Len(blocks) |->
                  IF i = 0 THEN graph ELSE ApplyAll(f[i - 1], blocks[i].ops)]
<1>1. Replays(F, graph, blocks, Len(blocks))
  BY ReplayExists DEF Replays
<1>2. Replayed(graph, blocks) = F[Len(blocks)]
  BY DEF Replayed
<1> HIDE DEF F
<1> QED BY <1>1, <1>2 DEF Replays

(* A chain replays to what its later blocks make of what the first ones
   replay to. *)
LEMMA ReplayedInTwo ==
  ASSUME NEW graph, NEW all, NEW first, NEW later,
         Len(first) \in Nat, Len(later) \in Nat, Len(all) = Len(first) + Len(later),
         \A i \in 1..Len(first) : all[i] = first[i],
         \A i \in 1..Len(later) : all[Len(first) + i] = later[i]
  PROVE  Replayed(graph, all) = Replayed(Replayed(graph, first), later)
<1> DEFINE m == Len(first)
           n == Len(later)
<1>1. m \in Nat /\ n \in Nat /\ Len(all) = m + n /\ Len(all) \in Nat
  OBVIOUS
<1>2. PICK f : /\ Replayed(graph, first) = f[m]
               /\ \A i \in 0..m : f[i] = IF i = 0 THEN graph ELSE ApplyAll(f[i - 1], first[i].ops)
  BY ReplayedRuns
<1>3. PICK k : /\ Replayed(f[m], later) = k[n]
               /\ \A i \in 0..n : k[i] = IF i = 0 THEN f[m] ELSE ApplyAll(k[i - 1], later[i].ops)
  BY ReplayedRuns
<1>4. PICK h : /\ Replayed(graph, all) = h[m + n]
               /\ \A i \in 0..m + n : h[i] = IF i = 0 THEN graph ELSE ApplyAll(h[i - 1], all[i].ops)
  BY <1>1, ReplayedRuns
<1>5. (\A i \in 1..m : all[i] = first[i]) /\ (\A i \in 1..n : all[m + i] = later[i])
  OBVIOUS
<1> HIDE DEF m, n
<1> DEFINE S == {i \in Nat : i <= m => h[i] = f[i]}
           T == {i \in Nat : i <= n => h[m + i] = k[i]}
<1>6. 0 \in S
  BY <1>1, <1>2, <1>4
<1>7. ASSUME NEW i \in Nat, i \in S PROVE i + 1 \in S
  <2> SUFFICES ASSUME i + 1 <= m PROVE h[i + 1] = f[i + 1]
    OBVIOUS
  <2>1. h[i] = f[i]
    BY <1>1, <1>7 DEF S
  <2>3. i + 1 \in 1..m /\ i + 1 \in 0..m /\ i + 1 \in 0..m + n /\ (i + 1) - 1 = i
    BY <1>1
  <2>2. h[i + 1] = ApplyAll(h[i], all[i + 1].ops) /\ f[i + 1] = ApplyAll(f[i], first[i + 1].ops)
    BY <1>2, <1>4, <2>3
  <2> QED BY <1>5, <2>3, <2>1, <2>2
<1> HIDE DEF S
<1>8. Nat \subseteq S
  BY <1>6, <1>7, Counting
<1>9. 0 \in T
  <2>1. h[m] = f[m] /\ k[0] = f[m] /\ m + 0 = m
    BY <1>1, <1>3, <1>8 DEF S
  <2> QED BY <2>1
<1>10. ASSUME NEW i \in Nat, i \in T PROVE i + 1 \in T
  <2> SUFFICES ASSUME i + 1 <= n PROVE h[m + (i + 1)] = k[i + 1]
    OBVIOUS
  <2>1. h[m + i] = k[i] /\ i + 1 \in 1..n /\ m + (i + 1) \in 1..m + n /\ (m + (i + 1)) - 1 = m + i
        /\ (i + 1) - 1 = i
    BY <1>1, <1>10
  <2>2. h[m + (i + 1)] = ApplyAll(h[m + i], all[m + (i + 1)].ops)
        /\ k[i + 1] = ApplyAll(k[i], later[i + 1].ops)
    BY <1>1, <1>3, <1>4, <2>1
  <2> QED BY <1>5, <2>1, <2>2
<1> HIDE DEF T
<1>11. Nat \subseteq T
  BY <1>9, <1>10, Counting
<1>12. h[m + n] = k[n]
  BY <1>1, <1>11 DEF T
<1> QED BY <1>2, <1>3, <1>4, <1>12 DEF m, n

(* One block more. *)
LEMMA ReplayedOne ==
  ASSUME NEW graph, NEW b
  PROVE  Replayed(graph, <<b>>) = ApplyAll(graph, b.ops)
<1>1. Len(<<b>>) = 1 /\ <<b>>[1] = b
  OBVIOUS
<1>2. PICK f : /\ Replayed(graph, <<b>>) = f[1]
               /\ \A i \in 0..1 : f[i] = IF i = 0 THEN graph ELSE ApplyAll(f[i - 1], <<b>>[i].ops)
  BY <1>1, ReplayedRuns
<1> QED BY <1>1, <1>2

-----------------------------------------------------------------------------

(* A chain whose first blocks are those of another one and whose later blocks
   are each linked to the one before. *)
Continues(c, longer) ==
  /\ Listed(longer) /\ Len(c) <= Len(longer)
  /\ \A i \in 1..Len(c) : longer[i] = c[i]
  /\ \A i \in Len(c) + 1..Len(longer) : Linked(longer[i], longer[i - 1], Strict(c))

(* verify_extension_crypto, one block. *)
LEMMA TakesLinked ==
  ASSUME NEW c, Listed(c), c # << >>, NEW longer, Continues(c, longer),
         NEW b, Takes(longer, b).error = "none"
  PROVE  Continues(c, Takes(longer, b).chain)
<1> DEFINE t == Takes(longer, b)
<1>1. Len(c) \in Nat \ {0} /\ Len(longer) \in Nat /\ Len(longer) >= Len(c)
  BY EmptySeq DEF Listed, Continues
<1>2. Failed("diverged").error = "diverged" /\ Failed("invalid").error = "invalid"
      /\ \A x : Extended(x).chain = x
  BY DEF Failed, Extended
<1>3. CASE t = Extended(longer)
  BY <1>2, <1>3
<1>4. CASE t = Extended(Append(longer, b)) /\ Linked(b, Last(longer), Strict(longer))
  <2> DEFINE a == Append(longer, b)
             n == Len(longer)
  <2>1. /\ Listed(a) /\ Len(a) = n + 1 /\ a[n + 1] = b /\ \A i \in 1..n : a[i] = longer[i]
    BY ListedOn DEF Continues
  <2>2. Strict(longer) = Strict(c) /\ Last(longer) = longer[n]
    BY <1>1 DEF Strict, Continues, Last
  <2>3. ASSUME NEW i \in Len(c) + 1..n + 1 PROVE Linked(a[i], a[i - 1], Strict(c))
    <3>1. CASE i = n + 1
      <4>1. a[i] = b /\ a[i - 1] = longer[n]
        BY <1>1, <2>1, <3>1
      <4> QED BY <1>4, <2>2, <4>1
    <3>2. CASE i \in Len(c) + 1..n
      <4>1. a[i] = longer[i] /\ a[i - 1] = longer[i - 1]
        BY <1>1, <2>1, <3>2
      <4> QED BY <3>2, <4>1 DEF Continues
    <3> QED BY <1>1, <3>1, <3>2
  <2> HIDE DEF a, n
  <2>5. n \in Nat /\ Len(c) <= n /\ \A i \in 1..Len(c) : longer[i] = c[i]
    BY <1>1 DEF Continues, n
  <2>6. \A i \in 1..Len(c) : a[i] = c[i]
    BY <1>1, <2>1, <2>5
  <2>7. Len(a) = n + 1 /\ Len(c) <= Len(a)
    BY <1>1, <2>1, <2>5
  <2>4. Continues(c, a)
    BY <2>1, <2>3, <2>6, <2>7 DEF Continues
  <2> QED BY <1>2, <1>4, <2>4 DEF a
<1> QED BY <1>2, <1>3, <1>4 DEF Takes

(* What verify_extension_crypto goes through. *)
Checks(f, c, blocks, n) ==
  f = [i \in 0..n |-> IF i = 0 THEN Extended(c)
                      ELSE IF f[i - 1].error = "none" THEN Takes(f[i - 1].chain, blocks[i])
                      ELSE f[i - 1]]

(* There is such a function for blocks of any number. *)
LEMMA CheckExists ==
  ASSUME NEW c, NEW blocks, NEW n \in Nat
  PROVE  \E f : Checks(f, c, blocks, n)
<1> DEFINE On(r, b) == IF r.error = "none" THEN Takes(r.chain, b) ELSE r
           S == {k \in Nat : \E f : Checks(f, c, blocks, k)}
<1>1. 0 \in S
  <2>1. Checks([i \in 0..0 |-> Extended(c)], c, blocks, 0)
    BY DEF Checks
  <2> QED BY <2>1
<1>2. ASSUME NEW k \in Nat, k \in S PROVE k + 1 \in S
  <2>1. PICK f : Checks(f, c, blocks, k)
    BY <1>2
  <2> DEFINE h == [i \in 0..k + 1 |-> IF i = k + 1 THEN On(f[k], blocks[k + 1]) ELSE f[i]]
  <2>2. \A i \in 0..k : h[i] = f[i]
    OBVIOUS
  <2>3. ASSUME NEW i \in 0..k + 1
        PROVE  h[i] = IF i = 0 THEN Extended(c) ELSE On(h[i - 1], blocks[i])
    <3>1. CASE i = k + 1
      <4>1. h[i] = On(f[k], blocks[k + 1]) /\ h[k] = f[k] /\ i - 1 = k /\ i # 0
        BY <2>2, <3>1
      <4> HIDE DEF h, On
      <4> QED BY <3>1, <4>1
    <3>2. CASE i \in 0..k
      <4>1. f[i] = IF i = 0 THEN Extended(c) ELSE On(f[i - 1], blocks[i])
        BY <2>1, <3>2 DEF Checks
      <4>2. i # 0 => h[i - 1] = f[i - 1]
        BY <2>2, <3>2
      <4> HIDE DEF h, On
      <4> QED BY <2>2, <3>2, <4>1, <4>2
    <3> QED BY <3>1, <3>2
  <2>4. h = [i \in 0..k + 1 |-> h[i]]
    OBVIOUS
  <2> HIDE DEF h
  <2>5. Checks(h, c, blocks, k + 1)
    BY <2>3, <2>4 DEF Checks
  <2> QED BY <2>5
<1> HIDE DEF S
<1>3. Nat \subseteq S
  BY <1>1, <1>2, Counting
<1> QED BY <1>3 DEF S

(* A batch that verifies continues the chain it was checked against. *)
LEMMA VerifiedContinues ==
  ASSUME NEW c, Listed(c), c # << >>, NEW blocks, Len(blocks) \in Nat,
         verify_extension_crypto(c, blocks).error = "none"
  PROVE  Continues(c, verify_extension_crypto(c, blocks).chain)
<1> DEFINE n == Len(blocks)
           F == CHOOSE f : f = [i \in 0..n |->
                  IF i = 0 THEN Extended(c)
                  ELSE IF f[i - 1].error = "none" THEN Takes(f[i - 1].chain, blocks[i])
                  ELSE f[i - 1]]
           S == {i \in Nat : i <= n /\ F[i].error = "none" => Continues(c, F[i].chain)}
<1>1. Checks(F, c, blocks, n)
  <2>1. n \in Nat
    OBVIOUS
  <2>2. \E f : Checks(f, c, blocks, n)
    BY <2>1, CheckExists
  <2> HIDE DEF n
  <2> QED BY <2>2 DEF Checks
<1>2. verify_extension_crypto(c, blocks) = F[n]
  BY DEF verify_extension_crypto
<1> HIDE DEF F
<1>3. \A i \in 0..n : F[i] = IF i = 0 THEN Extended(c)
                             ELSE IF F[i - 1].error = "none" THEN Takes(F[i - 1].chain, blocks[i])
                             ELSE F[i - 1]
  BY <1>1 DEF Checks
<1> HIDE DEF n
<1>4. n \in Nat
  BY DEF n
<1>5. 0 \in S
  <2>1. F[0] = Extended(c) /\ Extended(c).chain = c
    BY <1>3, <1>4 DEF Extended
  <2>2. Continues(c, c)
    <3>1. Len(c) \in Nat
      BY DEF Listed
    <3> QED BY <3>1 DEF Continues
  <2> QED BY <2>1, <2>2
<1>6. ASSUME NEW i \in Nat, i \in S PROVE i + 1 \in S
  <2> SUFFICES ASSUME i + 1 <= n, F[i + 1].error = "none" PROVE Continues(c, F[i + 1].chain)
    OBVIOUS
  <2>1. i + 1 \in 0..n /\ (i + 1) - 1 = i /\ i <= n /\ i + 1 # 0
    BY <1>4
  <2>2. F[i + 1] = IF F[i].error = "none" THEN Takes(F[i].chain, blocks[i + 1]) ELSE F[i]
    BY <1>3, <2>1
  <2>3. F[i].error = "none"
    BY <2>2
  <2>4. Continues(c, F[i].chain)
    BY <1>6, <2>1, <2>3
  <2> QED BY <2>2, <2>3, <2>4, TakesLinked
<1> HIDE DEF S
<1>7. Nat \subseteq S
  BY <1>5, <1>6, Counting
<1>8. F[n].error = "none" => Continues(c, F[n].chain)
  BY <1>4, <1>7 DEF S
<1> QED BY <1>2, <1>8

(* try_extend gives a chain that validates. *)
LEMMA ExtendedValidates ==
  ASSUME NEW c, Listed(c), NEW blocks, Len(blocks) \in Nat, try_extend(c, blocks).error = "none"
  PROVE  Listed(try_extend(c, blocks).chain) /\ Validates(try_extend(c, blocks).chain)
<1> DEFINE r == verify_extension_crypto(c, blocks)
           tail == SubSeq(r.chain, Len(c) + 1, Len(r.chain))
<1>1. Failed("invalid").error = "invalid"
  BY DEF Failed
<1>2. /\ Validates(c) /\ r.error = "none" /\ Replayed(Replay(c), tail) # Refused
      /\ try_extend(c, blocks) = r
  BY <1>1 DEF try_extend, try_extend_trusted
<1>3. c # << >> /\ ValidGenesis(c[1]) /\ \A i \in 2..Len(c) : Linked(c[i], c[i - 1], Strict(c))
  BY <1>2 DEF Validates
<1> HIDE DEF r
<1>4. Continues(c, r.chain)
  BY <1>2, <1>3, VerifiedContinues DEF r
<1> DEFINE d == r.chain
<1> HIDE DEF d
<1>5. /\ Listed(d) /\ Len(c) \in Nat \ {0} /\ Len(d) \in Nat /\ Len(c) <= Len(d)
      /\ \A i \in 1..Len(c) : d[i] = c[i]
      /\ \A i \in Len(c) + 1..Len(d) : Linked(d[i], d[i - 1], Strict(c))
  BY <1>3, <1>4, EmptySeq DEF Listed, Continues, d
<1>6. d # << >> /\ d[1] = c[1] /\ Strict(d) = Strict(c)
  BY <1>5 DEF Strict
<1>7. ASSUME NEW i \in 2..Len(d) PROVE Linked(d[i], d[i - 1], Strict(d))
  <2>1. CASE i \in 2..Len(c)
    <3>1. d[i] = c[i] /\ d[i - 1] = c[i - 1]
      BY <1>5, <2>1
    <3> QED BY <1>3, <1>6, <2>1, <3>1
  <2>2. CASE i \in Len(c) + 1..Len(d)
    BY <1>5, <1>6, <2>2
  <2> QED BY <1>5, <2>1, <2>2
<1>8. Replay(d) # Refused
  <2> DEFINE t == SubSeq(d, Len(c) + 1, Len(d))
  <2>1. Len(t) = Len(d) - Len(c) /\ \A i \in 1..Len(t) : t[i] = d[Len(c) + i]
    <3>1. PICK X : d \in Seq(X)
      BY <1>5 DEF Listed
    <3> QED BY <1>5, <3>1
  <2> HIDE DEF t
  <2>2. Len(t) \in Nat /\ Len(d) = Len(c) + Len(t)
    BY <1>5, <2>1
  <2>4. /\ Len(c) \in Nat /\ \A i \in 1..Len(c) : d[i] = c[i]
        /\ \A i \in 1..Len(t) : d[Len(c) + i] = t[i]
    BY <1>5, <2>1
  <2>3. Replayed(EmptyGraph, d) = Replayed(Replayed(EmptyGraph, c), t)
    BY <2>2, <2>4, ReplayedInTwo
  <2> QED BY <1>2, <2>3 DEF Replay, t, d
<1>9. Validates(d)
  BY <1>3, <1>6, <1>7, <1>8 DEF Validates
<1> QED BY <1>2, <1>5, <1>9 DEF d

-----------------------------------------------------------------------------

(* What becomes of a chain once it is accepted. *)
Good(c) == Listed(c) /\ Validates(c)

(* A chain of a genesis alone. *)
LEMMA FreshIsGood ==
  ASSUME NEW message, message.hex = Lower PROVE Good(<<Genesis(message)>>)
<1> DEFINE b == Genesis(message)
           c == <<b>>
<1>1. Len(c) = 1 /\ c[1] = b /\ c # << >> /\ c \in Seq({b})
  OBVIOUS
<1>2. b.author = message /\ b.ops = << >>
  BY DEF Genesis, Hashed
<1>3. ValidGenesis(b)
  BY <1>2 DEF ValidGenesis
<1> HIDE DEF b
<1>4. Replay(c) = EmptyGraph
  <2>1. PICK f : ApplyAll(EmptyGraph, << >>) = f[0] /\ f[0] = EmptyGraph
    <3> DEFINE F == CHOOSE f : f = [i \in 0..0 |->
                      IF i = 0 THEN EmptyGraph ELSE Apply(f[i - 1], << >>[i])]
    <3>1. \E f : f = [i \in 0..0 |-> IF i = 0 THEN EmptyGraph ELSE Apply(f[i - 1], << >>[i])]
      <4> DEFINE e == [i \in 0..0 |-> EmptyGraph]
      <4>1. e = [i \in 0..0 |-> IF i = 0 THEN EmptyGraph ELSE Apply(e[i - 1], << >>[i])]
        OBVIOUS
      <4> QED BY <4>1
    <3>2. F = [i \in 0..0 |-> IF i = 0 THEN EmptyGraph ELSE Apply(F[i - 1], << >>[i])]
      BY <3>1
    <3>3. ApplyAll(EmptyGraph, << >>) = F[0]
      BY DEF ApplyAll
    <3> HIDE DEF F
    <3> QED BY <3>2, <3>3
  <2> QED BY <1>2, <2>1, ReplayedOne DEF Replay
<1>5. EmptyGraph # Refused
  <2>1. DOMAIN EmptyGraph = {"nodes", "edges"} /\ DOMAIN Refused = {"refused"}
    BY DEF EmptyGraph, Refused
  <2> QED BY <2>1
<1>6. 2..Len(c) = {}
  BY <1>1
<1>7. Validates(c)
  BY <1>1, <1>3, <1>4, <1>5, <1>6 DEF Validates
<1> QED BY <1>1, <1>7 DEF Good, Listed, b

(* The indices of a chain that validates count its blocks. *)
LEMMA IndexCounts ==
  ASSUME NEW c, Good(c) PROVE \A i \in 1..Len(c) : c[i].index = i - 1
<1>1. /\ Len(c) \in Nat \ {0} /\ c[1] = Genesis(c[1].author)
      /\ \A i \in 2..Len(c) : c[i].index = c[i - 1].index + 1
  BY EmptySeq DEF Good, Listed, Validates, ValidGenesis, Linked
<1> DEFINE S == {k \in Nat : k + 1 <= Len(c) => c[k + 1].index = k}
<1>2. 0 \in S
  BY <1>1 DEF Genesis, Hashed
<1>3. ASSUME NEW k \in Nat, k \in S PROVE k + 1 \in S
  <2> SUFFICES ASSUME (k + 1) + 1 <= Len(c) PROVE c[(k + 1) + 1].index = k + 1
    OBVIOUS
  <2>1. k + 2 \in 2..Len(c) /\ (k + 1) + 1 = k + 2 /\ (k + 2) - 1 = k + 1 /\ k + 1 <= Len(c)
    BY <1>1
  <2>2. c[k + 1].index = k
    BY <1>3, <2>1
  <2> QED BY <1>1, <2>1, <2>2
<1> HIDE DEF S
<1>4. Nat \subseteq S
  BY <1>2, <1>3, Counting
<1> SUFFICES ASSUME NEW i \in 1..Len(c) PROVE c[i].index = i - 1
  OBVIOUS
<1>5. i - 1 \in Nat /\ (i - 1) + 1 = i /\ i <= Len(c)
  BY <1>1
<1> QED BY <1>4, <1>5 DEF S

(* A block that append sealed may follow the chain. *)
LEMMA SealedIsGood ==
  ASSUME NEW c, Listed(c), NEW key \in Author, NEW ops, Sealed(c, key, ops) # << >>
  PROVE  Good(c \o Sealed(c, key, ops))
<1> DEFINE bare == [index |-> Len(c), prev |-> Last(c).hash, author |-> [key |-> key, hex |-> Lower],
                    ops |-> ops, sig |-> NoSignature]
           b == Signed(key, bare)
           a == Append(c, b)
           n == Len(c)
<1>1. /\ Sealed(c, key, ops) = <<b>> /\ ops # << >> /\ Finite(ops) /\ Validates(c)
      /\ ApplyAll(Replay(c), ops) # Refused
  BY DEF Sealed
<1>2. /\ b.index = n /\ b.prev = Last(c).hash /\ b.author = [key |-> key, hex |-> Lower] /\ b.ops = ops
      /\ b.hash = compute_hash(bare) /\ compute_hash(bare) = compute_hash(b)
      /\ b.sig = [key |-> key, of |-> compute_hash(bare), hex |-> Lower]
  BY DEF Signed, Hashed, compute_hash
<1> HIDE DEF b, bare
<1>3. /\ Listed(a) /\ Len(a) = n + 1 /\ a[n + 1] = b /\ \A i \in 1..n : a[i] = c[i]
      /\ c \o <<b>> = a /\ n \in Nat
  BY ListedOn
<1> HIDE DEF a
<1>4. /\ c # << >> /\ ValidGenesis(c[1]) /\ Replay(c) # Refused
      /\ \A i \in 2..n : Linked(c[i], c[i - 1], Strict(c))
  BY <1>1 DEF Validates
<1>5. n # 0 /\ Last(c) = c[n]
  BY <1>4, EmptySeq DEF Last, Listed
<1> HIDE DEF n
<1>6. a # << >> /\ a[1] = c[1] /\ Strict(a) = Strict(c)
  <2>1. 1 \in 1..n /\ Len(a) # 0
    BY <1>3, <1>5
  <2> QED BY <1>3, <2>1 DEF Strict
<1>7. c[n].index = n - 1
  <2>1. n \in 1..Len(c)
    BY <1>3, <1>5 DEF n
  <2> QED BY <1>1, <2>1, IndexCounts DEF Good, n
<1>8. VerifiesSignature(b, Strict(c))
  BY <1>2 DEF VerifiesSignature
<1>9. Linked(b, c[n], Strict(c))
  <2>1. b.index = c[n].index + 1
    BY <1>2, <1>3, <1>5, <1>7
  <2> QED BY <1>1, <1>2, <1>5, <1>8, <2>1 DEF Linked
<1>10. ASSUME NEW i \in 2..Len(a) PROVE Linked(a[i], a[i - 1], Strict(a))
  <2>1. CASE i = n + 1
    <3>1. a[i] = b /\ a[i - 1] = c[n]
      BY <1>3, <1>5, <2>1
    <3> QED BY <1>6, <1>9, <3>1
  <2>2. CASE i \in 2..n
    <3>1. a[i] = c[i] /\ a[i - 1] = c[i - 1]
      BY <1>3, <2>2
    <3> QED BY <1>4, <1>6, <2>2, <3>1
  <2> QED BY <1>3, <2>1, <2>2
<1>11. Replay(a) # Refused
  <2> DEFINE t == <<b>>
  <2>1. Len(t) = 1 /\ t[1] = b
    OBVIOUS
  <2>2. Replayed(Replay(c), t) = ApplyAll(Replay(c), b.ops)
    BY ReplayedOne
  <2> HIDE DEF t
  <2>3. Len(c) \in Nat /\ Len(t) \in Nat /\ Len(a) = Len(c) + Len(t)
    BY <1>3, <2>1 DEF n
  <2>4. \A i \in 1..Len(c) : a[i] = c[i]
    BY <1>3 DEF n
  <2>5. \A i \in 1..Len(t) : a[Len(c) + i] = t[i]
    BY <1>3, <2>1 DEF n
  <2>6. Replayed(EmptyGraph, a) = Replayed(Replayed(EmptyGraph, c), t)
    BY <2>3, <2>4, <2>5, ReplayedInTwo
  <2> QED BY <1>1, <1>2, <2>2, <2>6 DEF Replay
<1>12. Validates(a)
  BY <1>4, <1>6, <1>10, <1>11 DEF Validates
<1> QED BY <1>1, <1>3, <1>12 DEF Good

-----------------------------------------------------------------------------

(* Every chain there is, in memory, in the file, in what a power loss may
   leave of it, under way to it, and with the clients. *)
LegacyInv ==
  /\ Good(chain)
  /\ local = [c \in Client |-> local[c]] /\ \A c \in Client : Good(local[c])
  /\ file \in surviving /\ \A v \in surviving : v = Nothing \/ Good(v)
  /\ pc # "idle" => Good(candidate)

(* What a start makes of a file that it loads. *)
LEMMA LoadedIsGood ==
  ASSUME NEW blocks, blocks = Nothing \/ Good(blocks) PROVE Good(Loaded(blocks))
<1>1. Good(<<Genesis(Legacy)>>)
  BY FreshIsGood DEF Legacy
<1> QED BY <1>1 DEF Loaded

(* The chain of a request, cut from one of a client's. *)
LEMMA PushesAreLists ==
  ASSUME NEW c \in Client, Listed(local[c]), NEW blocks \in Pushes(c)
  PROVE  Len(blocks) \in Nat
<1>1. PICK X : local[c] \in Seq(X)
  BY DEF Listed
<1>2. \A i, j \in Int : i >= 1 /\ j <= Len(local[c]) => Len(SubSeq(local[c], i, j)) \in Nat
                                              /\ SubSeq(local[c], i, j) \in Seq(X)
  BY <1>1
<1>3. \A s \in Seq(X) : \A b : Len(s \o <<b>>) \in Nat
  OBVIOUS
<1>4. Len(local[c]) \in Nat
  BY <1>1
<1>5. CASE \E i, j \in 2..Len(local[c]) : blocks = SubSeq(local[c], i, j)
  BY <1>2, <1>4, <1>5
<1>6. CASE \E i \in 2..Len(local[c]), b \in Variants(Last(local[c])) :
             blocks = SubSeq(local[c], i, Len(local[c]) - 1) \o <<b>>
  <2>1. PICK i \in 2..Len(local[c]), b \in Variants(Last(local[c])) :
          blocks = SubSeq(local[c], i, Len(local[c]) - 1) \o <<b>>
    BY <1>6
  <2>2. SubSeq(local[c], i, Len(local[c]) - 1) \in Seq(X)
    BY <1>2, <1>4
  <2> QED BY <1>3, <2>1, <2>2
<1> QED BY <1>5, <1>6 DEF Pushes

(* Nobody takes in or writes a chain that does not validate. *)
LEMMA LegacyKeeps ==
  ASSUME LegacyInv, LegacyNext PROVE LegacyInv'
<1>1. ASSUME NEW c \in Client, NEW key \in Keys[c], NEW ops \in Commands, Commit(c, key, ops)
      PROVE  LegacyInv'
  <2>1. Sealed(local[c], key, ops) # << >>
        /\ local' = [local EXCEPT ![c] = local[c] \o Sealed(local[c], key, ops)]
        /\ UNCHANGED <<chain, disk, pc, candidate>>
    BY <1>1 DEF Commit
  <2>2. key \in Author
    BY KeysAssumption
  <2>3. Good(local[c] \o Sealed(local[c], key, ops))
    BY <2>1, <2>2, SealedIsGood DEF LegacyInv, Good
  <2> QED BY <2>1, <2>3 DEF LegacyInv, disk
<1>2. ASSUME NEW c \in Client, NEW from \in 1..Len(chain), NEW to \in 1..Len(chain), Pull(c, from, to)
      PROVE  LegacyInv'
  <2> DEFINE r == try_extend(local[c], SubSeq(chain, from, to))
  <2>1. r.error = "none" /\ local' = [local EXCEPT ![c] = r.chain] /\ UNCHANGED <<chain, disk, pc, candidate>>
    BY <1>2 DEF Pull
  <2>2. Len(SubSeq(chain, from, to)) \in Nat
    <3>1. PICK X : chain \in Seq(X)
      BY DEF LegacyInv, Good, Listed
    <3> QED BY <3>1
  <2>3. Good(r.chain)
    BY <2>1, <2>2, ExtendedValidates DEF LegacyInv, Good
  <2> HIDE DEF r
  <2> QED BY <2>1, <2>3 DEF LegacyInv, disk
<1>3. ASSUME NEW c \in Client, Post(c) PROVE LegacyInv'
  <2>1. PICK blocks \in Pushes(c) :
          try_extend(chain, blocks).error = "none" /\ candidate' = try_extend(chain, blocks).chain
    BY <1>3 DEF Post
  <2>2. Len(blocks) \in Nat
    BY PushesAreLists DEF LegacyInv, Good
  <2>3. Good(candidate')
    BY <2>1, <2>2, ExtendedValidates DEF LegacyInv, Good
  <2> QED BY <1>3, <2>3 DEF LegacyInv, Post, disk
<1>4. CASE Rename
  BY <1>4 DEF LegacyInv, Rename
<1>5. CASE RenameFails
  BY <1>5 DEF LegacyInv, RenameFails, Answered, disk
<1>6. CASE Sync
  BY <1>6 DEF LegacyInv, Sync, Answered
<1>7. CASE SyncFails
  BY <1>7 DEF LegacyInv, SyncFails, Answered, disk
<1>8. CASE Unlink
  BY <1>8 DEF LegacyInv, Unlink
<1>9. CASE Crash
  BY <1>9 DEF LegacyInv, Crash, Answered, disk
<1>10. CASE Restart
  BY <1>10, LoadedIsGood DEF LegacyInv, Restart, disk
<1> QED BY <1>1, <1>2, <1>3, <1>4, <1>5, <1>6, <1>7, <1>8, <1>9, <1>10 DEF LegacyNext

(* Whatever is committed, pulled and pushed, rewritten on the way or not, and
   however writes fail and the power goes, every chain that somebody holds
   validates from its genesis. *)
THEOREM AcceptedAlwaysValidates == Spec => []AcceptedValidates
<1>1. Init => LegacyInv
  <2> SUFFICES ASSUME LegacyInit PROVE LegacyInv
    BY DEF Init
  <2>1. Good(<<Genesis(Scoped(GenesisId))>>)
    BY FreshIsGood DEF Scoped
  <2>2. file = Nothing \/ Good(file)
    BY <2>1 DEF LegacyInit
  <2>3. Good(Loaded(file))
    BY <2>2, LoadedIsGood
  <2> QED BY <2>2, <2>3 DEF LegacyInit, LegacyInv
<1>2. LegacyInv /\ [Next]_vars => LegacyInv'
  <2> SUFFICES ASSUME LegacyInv, [Next]_vars PROVE LegacyInv'
    OBVIOUS
  <2>1. CASE UNCHANGED legacyVars
    BY <2>1 DEF LegacyInv, legacyVars, disk
  <2>2. CASE LegacyNext
    BY <2>2, LegacyKeeps
  <2> QED BY <2>1, <2>2 DEF Next, vars
<1>3. LegacyInv => AcceptedValidates
  BY DEF LegacyInv, AcceptedValidates, Chains, Good
<1> QED BY <1>1, <1>2, <1>3, PTL DEF Spec
=============================================================================
