------------------------ MODULE ProjectRegistryProofs ------------------------
(***************************************************************************)
(* What is proved of ProjectRegistry for any workers, slugs and            *)
(* bootstraps.                                                             *)
(*                                                                         *)
(* The inductive invariant follows a creation on its way: its worker alone *)
(* has the map for writing (LocksInv), so that the slug stays free and the *)
(* comparison with every project holds until it publishes (ScanInv); and   *)
(* whatever it has not settled, the disk holds exactly what is registered  *)
(* as long as writes are allowed, and may lose it in a power loss only     *)
(* where a kill has left a slug unconfirmed (DiskInv).  Both latches are   *)
(* set only by a worker that holds commit_lock, which nobody gets once     *)
(* writes are off.                                                         *)
(***************************************************************************)
EXTENDS ProjectRegistry, TLAPS

Creating == {"found", "verified", "writing", "scanning", "staging", "staged", "publishing",
             "published", "removed"}

(* The places from the comparison with the other projects on. *)
Compared == {"scanning", "staging", "staged", "publishing", "published", "removed"}

Place == Creating \cup {"idle", "received", "listing", "waiting", "judged", "persisting"}

Dirs == {NoDir} \cup {Dir(b) : b \in Bootstraps} \cup {Partial(b) : b \in Bootstraps}

Creates(w) == pc[w] \in Creating \/ (pc[w] = "received" /\ request[w].op = "create")

TypeOK ==
  /\ registered \in [Slug -> Bootstraps \cup {NoProject}]
  /\ directory \in [Slug -> Dirs]
  /\ surviving \in [Slug -> SUBSET Dirs]
  /\ ready \in BOOLEAN /\ mutationsAllowed \in BOOLEAN /\ up \in BOOLEAN
  /\ pc \in [Worker -> Place]
  /\ \E R : request \in [Worker -> R]
  /\ todo \in [Worker -> SUBSET Slug]
  /\ unconfirmed \subseteq Slug
  /\ created \subseteq Bootstraps /\ confirmed \subseteq Bootstraps
  /\ \A w \in Worker : Creates(w) =>
       /\ request[w].bootstrap \in Bootstraps
       /\ request[w].slug = request[w].bootstrap.slug

LocksInv ==
  /\ ~up => \A w \in Worker : pc[w] = "idle"
  /\ \A w, v \in Worker : w # v /\ HoldsWrite(w) => ~HoldsWrite(v)
  /\ \A w, v \in Worker : w # v /\ HoldsCommit(w) => ~HoldsCommit(v)
  /\ \A w \in Worker : HoldsCommit(w) => mutationsAllowed

(* The slug is still free, and the bootstrap goes with every project that was
   compared. *)
ScanInv ==
  \A w \in Worker : pc[w] \in Compared =>
    /\ registered[request[w].slug] = NoProject
    /\ pc[w] # "scanning" => todo[w] = {}
    /\ \A s \in Known \ todo[w] : ~Clashes(request[w].bootstrap, registered[s])

Settled(s) ==
  /\ directory[s] = IF registered[s] = NoProject THEN NoDir ELSE Dir(registered[s])
  /\ s \notin unconfirmed => surviving[s] = {directory[s]}

(* The projects the running server has are bound apart. *)
Apart ==
  up => \A s, t \in Known : s # t => ~Clashes(registered[s], registered[t])

DiskInv ==
  /\ ~up => \A s \in Slug \ unconfirmed : surviving[s] = {directory[s]}
  /\ up /\ mutationsAllowed => \A s \in Slug : Unsettled(s) \/ Settled(s)
  /\ \A w \in Worker : pc[w] = "published" =>
       LET b == request[w].bootstrap
       IN /\ directory[b.slug] = Dir(b) /\ Dir(b) \in surviving[b.slug]
          /\ b.slug \notin unconfirmed => surviving[b.slug] \subseteq {NoDir, Dir(b)}
  /\ \A w \in Worker : pc[w] = "removed" => directory[request[w].slug] = NoDir
  /\ GenesisBoundOnce
  /\ Apart

(* What was answered with 201 while storage was certain is on disk, whole, and
   registered. *)
CreatedInv ==
  \A b \in confirmed :
    surviving[b.slug] = {Dir(b)} /\ directory[b.slug] = Dir(b) /\ (up => registered[b.slug] = b)

Inv == TypeOK /\ LocksInv /\ ScanInv /\ DiskInv /\ CreatedInv /\ LatchedNotReady

-----------------------------------------------------------------------------

(* What a slug is bound to, what is missing and what is left over differ. *)
LEMMA Distinct ==
  /\ \A b \in Bootstraps : b # NoProject /\ b.slug \in Slug
  /\ \A b \in Bootstraps : Dir(b) # NoDir /\ Partial(b) # NoDir
  /\ \A b, c \in Bootstraps : Dir(b) # Partial(c) /\ (Dir(b) = Dir(c) => b = c)
  /\ \A b \in Bootstraps : Dir(b) \in Dirs /\ Partial(b) \in Dirs
  /\ NoDir \in Dirs
<1>1. ASSUME NEW b \in Bootstraps PROVE b # NoProject /\ b.slug \in Slug
  <2>1. b = [slug |-> b.slug, genesis |-> b.genesis, legacy |-> b.legacy]
    BY BootstrapAssumption
  <2>2. "legacy" \in DOMAIN b
    BY <2>1
  <2>3. "legacy" \notin DOMAIN NoProject
    BY DEF NoProject
  <2> QED BY <2>2, <2>3, BootstrapAssumption
<1>2. ASSUME NEW b PROVE Dir(b) # NoDir /\ Partial(b) # NoDir
  <2>1. "bootstrap" \in DOMAIN Dir(b) /\ "bootstrap" \in DOMAIN Partial(b)
    BY DEF Dir, Partial
  <2>2. "bootstrap" \notin DOMAIN NoDir
    BY DEF NoDir
  <2> QED BY <2>1, <2>2
<1>3. \A b, c : Dir(b) # Partial(c) /\ (Dir(b) = Dir(c) => b = c)
  BY DEF Dir, Partial
<1> QED BY <1>1, <1>2, <1>3 DEF Dirs

(* What two projects that do not clash have on disk may be there together. *)
LEMMA BoundApart ==
  ASSUME NEW r, NEW q, ~Clashes(r, q), NEW d, NEW e, d = Dir(r), e = Dir(q)
  PROVE  /\ d.bootstrap.genesis # e.bootstrap.genesis
         /\ ~(d.bootstrap.legacy /\ e.bootstrap.legacy)
BY DEF Clashes, Dir

LEMMA InitInv == Init => Inv
<1> SUFFICES ASSUME Init PROVE Inv
  OBVIOUS
<1>1. TypeOK
  <2>1. \E R : request \in [Worker -> R]
    <3>1. request \in [Worker -> {NoRequest}]
      BY DEF Init
    <3> QED BY <3>1
  <2> QED BY <2>1, Distinct DEF Init, TypeOK, Place, Creating, Creates
<1>2. LocksInv
  BY DEF Init, LocksInv, HoldsWrite, HoldsCommit
<1>3. ScanInv
  BY DEF Init, ScanInv, Compared
<1>4. DiskInv
  BY DEF Init, DiskInv, Settled, GenesisBoundOnce, Apart, Known
<1>5. CreatedInv /\ LatchedNotReady
  BY DEF Init, CreatedInv, LatchedNotReady
<1> QED BY <1>1, <1>2, <1>3, <1>4, <1>5 DEF Inv

-----------------------------------------------------------------------------

(* What w may do without touching the map or the disk: take a free lock, and
   go on once it has compared. *)
Moves(w, q) ==
  /\ pc' = [pc EXCEPT ![w] = q]
  /\ todo' \in [Worker -> SUBSET Slug] /\ \A v \in Worker \ {w} : todo'[v] = todo[v]
  /\ ready' \in BOOLEAN /\ (~mutationsAllowed => ~ready')
  /\ created' \subseteq Bootstraps
  /\ \A b \in confirmed' \ confirmed :
       /\ b \in Bootstraps
       /\ surviving[b.slug] = {Dir(b)} /\ directory[b.slug] = Dir(b) /\ registered[b.slug] = b
  /\ UNCHANGED <<registered, disk, mutationsAllowed, up, request, unconfirmed>>

(* What w may do at q. *)
MayBeAt(w, q) ==
  /\ q \in Creating => Creates(w)
  /\ q \in {"writing"} \cup Compared => HoldsWrite(w) \/ Writable
  /\ q \in {"publishing", "persisting"} => mutationsAllowed /\ CommitFree(w)
  /\ q \in Compared =>
       /\ registered[request[w].slug] = NoProject
       /\ q # "scanning" => todo'[w] = {}
       /\ \A s \in Known \ todo'[w] : ~Clashes(request[w].bootstrap, registered[s])

LEMMA MoveKeeps ==
  ASSUME Inv, up, NEW w \in Worker, NEW q \in Place \ {"received", "published", "removed"},
         pc[w] \notin {"published", "removed"}, Moves(w, q), MayBeAt(w, q)
  PROVE  Inv'
<1> USE DEF Inv
<1>1. pc \in [Worker -> Place] /\ pc'[w] = q /\ \A v \in Worker \ {w} : pc'[v] = pc[v]
  BY DEF TypeOK, Moves
<1>2. UNCHANGED <<registered, disk, mutationsAllowed, up, request, unconfirmed>>
  BY DEF Moves
<1>3. TypeOK'
  <2>1. pc' \in [Worker -> Place]
    BY <1>1 DEF Moves
  <2>2. \A v \in Worker : Creates(v)' => Creates(v)
    BY <1>1, <1>2 DEF MayBeAt, Creates
  <2>3. /\ todo' \in [Worker -> SUBSET Slug] /\ ready' \in BOOLEAN
        /\ created' \subseteq Bootstraps /\ confirmed' \subseteq Bootstraps
    BY DEF Moves, TypeOK
  <2> QED BY <1>2, <2>1, <2>2, <2>3 DEF TypeOK, disk
<1>4. LocksInv'
  <2>1. \A v \in Worker : HoldsWrite(v)' => HoldsWrite(v) \/ (v = w /\ Writable)
    BY <1>1 DEF HoldsWrite, MayBeAt, Compared
  <2>2. \A v \in Worker : HoldsCommit(v)' => HoldsCommit(v) \/ (v = w /\ CommitFree(w) /\ mutationsAllowed)
    BY <1>1 DEF HoldsCommit, MayBeAt
  <2>3. \A u, v \in Worker : u # v /\ HoldsWrite(u)' => ~HoldsWrite(v)'
    BY <2>1 DEF LocksInv, Writable
  <2>4. \A u, v \in Worker : u # v /\ HoldsCommit(u)' => ~HoldsCommit(v)'
    BY <2>2 DEF LocksInv, CommitFree
  <2>5. \A v \in Worker : HoldsCommit(v)' => mutationsAllowed
    BY <2>2 DEF LocksInv
  <2> QED BY <1>2, <2>3, <2>4, <2>5 DEF LocksInv
<1>5. ScanInv'
  <2> SUFFICES ASSUME NEW v \in Worker, pc'[v] \in Compared
               PROVE  /\ registered[request[v].slug] = NoProject
                      /\ pc'[v] # "scanning" => todo'[v] = {}
                      /\ \A s \in Known \ todo'[v] : ~Clashes(request[v].bootstrap, registered[s])
    BY <1>2 DEF ScanInv, Known
  <2>1. CASE v = w
    BY <2>1, <1>1 DEF MayBeAt
  <2>2. CASE v # w
    BY <2>2, <1>1 DEF ScanInv, Moves
  <2> QED BY <2>1, <2>2
<1>6. DiskInv'
  <2>1. \A s : Unsettled(s)' <=> Unsettled(s)
    BY <1>1, <1>2 DEF Unsettled
  <2>2. \A v \in Worker : pc'[v] \in {"published", "removed"} => pc'[v] = pc[v]
    BY <1>1
  <2> QED BY <1>2, <2>1, <2>2 DEF DiskInv, disk, Settled, GenesisBoundOnce, Apart, Known
<1>7. CreatedInv' /\ LatchedNotReady'
  BY <1>2 DEF CreatedInv, LatchedNotReady, Moves, disk
<1> QED BY <1>3, <1>4, <1>5, <1>6, <1>7

-----------------------------------------------------------------------------

(* A listing and a mutation, as far as the map is concerned. *)
LEMMA ReaderInv ==
  ASSUME Inv, NEW w \in Worker,
         \/ List(w) \/ (\E s \in Slug : ListOne(w, s)) \/ Listed(w) \/ FindProject(w)
         \/ LockProject(w) \/ CommitPush(w) \/ PersistPush(w)
  PROVE  Inv'
<1> USE DEF Inv
<1>1. /\ pc \in [Worker -> Place] /\ todo \in [Worker -> SUBSET Slug] /\ ready \in BOOLEAN
      /\ created \subseteq Bootstraps
  BY DEF TypeOK
<1>2. pc[w] \in {"received", "listing", "waiting", "judged", "persisting"} /\ up
  BY DEF List, ListOne, Listed, FindProject, LockProject, CommitPush, PersistPush, LocksInv
<1>3. ~mutationsAllowed => ~ready
  BY <1>2 DEF LatchedNotReady
<1> USE DEF Goto, Answer, disk, flags, answered
<1>4. CASE List(w) \/ (\E s \in Slug : ListOne(w, s)) \/ Listed(w)
  <2>1. Moves(w, IF Listed(w) THEN "idle" ELSE "listing")
    BY <1>1, <1>3, <1>4 DEF List, ListOne, Listed, Moves, Known
  <2> QED BY <1>2, <2>1, MoveKeeps DEF MayBeAt, Creating, Compared, Place
<1>5. CASE FindProject(w) \/ LockProject(w) \/ CommitPush(w)
  <2>1. PICK q \in {"idle", "waiting", "judged", "persisting"} :
          Moves(w, q) /\ (q = "persisting" => CommitPush(w) /\ mutationsAllowed)
    <3>1. ASSUME NEW q, Goto(w, q),
                 UNCHANGED <<registered, disk, flags, request, todo, answered, unconfirmed, sent>>
          PROVE  Moves(w, q)
      BY <1>1, <1>3, <3>1 DEF Moves
    <3> QED BY <1>5, <3>1 DEF FindProject, LockProject, CommitPush
  <2>2. MayBeAt(w, q)
    BY <2>1 DEF MayBeAt, Creating, Compared, CommitPush
  <2> QED BY <1>2, <2>1, <2>2, MoveKeeps DEF Place
<1>6. CASE PersistPush(w)
  <2>1. mutationsAllowed /\ pc[w] = "persisting"
    BY <1>6 DEF PersistPush, LocksInv, HoldsCommit
  <2>2. CASE mutationsAllowed'
    <3>1. Moves(w, "idle")
      BY <1>1, <1>6, <2>1, <2>2 DEF PersistPush, Moves
    <3> QED BY <1>2, <3>1, MoveKeeps DEF MayBeAt, Creating, Compared, Place
  <2>3. CASE ~mutationsAllowed'
    (* The latch: a mutation of nothing but the flags, at which every other
       worker is without commit_lock. *)
    <3>1. /\ ready' = FALSE /\ mutationsAllowed' = FALSE
          /\ pc' = [pc EXCEPT ![w] = "idle"]
          /\ UNCHANGED <<registered, directory, surviving, up, request, todo, created,
                         confirmed, unconfirmed>>
      BY <1>6, <2>1, <2>3 DEF PersistPush
    <3>2. pc'[w] = "idle" /\ \A v \in Worker \ {w} : pc'[v] = pc[v]
      BY <1>1, <3>1
    <3>3. \A v \in Worker : ~HoldsCommit(v)'
      BY <2>1, <3>2 DEF HoldsCommit, LocksInv
    <3>4. TypeOK'
      <4>1. \A v \in Worker : Creates(v)' => Creates(v)
        BY <3>1, <3>2 DEF Creates, Creating
      <4>2. pc' \in [Worker -> Place]
        BY <1>1, <3>1 DEF Place
      <4> QED BY <3>1, <4>1, <4>2 DEF TypeOK
    <3>5. LocksInv'
      BY <3>1, <3>2, <3>3 DEF LocksInv, HoldsWrite
    <3>6. ScanInv'
      BY <3>1, <3>2 DEF ScanInv, Known, Compared
    <3>7. DiskInv'
      BY <1>2, <3>1, <3>2 DEF DiskInv, GenesisBoundOnce, Apart, Known
    <3> QED BY <3>1, <3>4, <3>5, <3>6, <3>7 DEF CreatedInv, LatchedNotReady
  <2> QED BY <2>2, <2>3
<1> QED BY <1>4, <1>5, <1>6

(* A creation finds its bootstrap registered already. *)
AnswersOld(w) ==
  LET b == request[w].bootstrap IN registered[b.slug] = b /\ Record201(b)

(* While writes are allowed, a registered project that no kill has left
   unconfirmed is on disk for good: whoever is changing projects/ works on a
   slug that is not registered. *)
LEMMA OldIsSettled ==
  ASSUME Inv, up, NEW w \in Worker, Creates(w), AnswersOld(w)
  PROVE  /\ created' \subseteq Bootstraps
         /\ \A b \in confirmed' \ confirmed :
              /\ b \in Bootstraps
              /\ surviving[b.slug] = {Dir(b)} /\ directory[b.slug] = Dir(b) /\ registered[b.slug] = b
<1> DEFINE c == request[w].bootstrap
<1>1. c \in Bootstraps /\ c.slug \in Slug /\ registered[c.slug] = c /\ c # NoProject
  BY Distinct DEF Inv, TypeOK, AnswersOld
<1>2. created' = created \cup {c}
      /\ confirmed' = IF mutationsAllowed /\ c.slug \notin unconfirmed
                         THEN confirmed \cup {c} ELSE confirmed
  BY DEF AnswersOld, Record201
<1>3. ASSUME mutationsAllowed, c.slug \notin unconfirmed
      PROVE  surviving[c.slug] = {Dir(c)} /\ directory[c.slug] = Dir(c)
  <2>1. ~Unsettled(c.slug)
    BY <1>1 DEF Unsettled, Inv, ScanInv, Compared
  <2>2. Settled(c.slug)
    BY <1>1, <1>3, <2>1 DEF Inv, DiskInv
  <2> QED BY <1>1, <1>3, <2>2 DEF Settled
<1> QED BY <1>1, <1>2, <1>3 DEF Inv, TypeOK

(* A creation up to the point where it changes projects/. *)
LEMMA CreatorInv ==
  ASSUME Inv, NEW w \in Worker,
         \/ LookUp(w) \/ Existing(w) \/ LockMap(w) \/ LookAgain(w)
         \/ (\E s \in Slug : Scan(w, s)) \/ Scanned(w) \/ Stage(w) \/ CommitCreate(w)
  PROVE  Inv'
<1> USE DEF Inv
<1>1. /\ pc \in [Worker -> Place] /\ todo \in [Worker -> SUBSET Slug] /\ ready \in BOOLEAN
      /\ created \subseteq Bootstraps
  BY DEF TypeOK
<1>2. /\ pc[w] \in {"received", "found", "verified", "writing", "scanning", "staging", "staged"}
      /\ up /\ Creates(w) /\ request[w].slug \in Slug
  <2>1. /\ pc[w] \in {"received", "found", "verified", "writing", "scanning", "staging", "staged"}
        /\ up /\ Creates(w)
    BY DEF LookUp, Existing, LockMap, LookAgain, Scan, Scanned, Stage, CommitCreate, LocksInv,
           Creates, Creating
  <2> QED BY <2>1, Distinct DEF TypeOK
<1>3. ~mutationsAllowed => ~ready
  BY <1>2 DEF LatchedNotReady
<1> USE DEF Goto, Answer, disk, flags, answered
<1>4. ASSUME NEW q, Goto(w, q), ready' \in {ready, FALSE}, todo' = todo,
             UNCHANGED <<registered, disk, mutationsAllowed, up, request, unconfirmed>>,
             answered' = answered \/ AnswersOld(w)
      PROVE  Moves(w, q)
  <2>1. ready' \in BOOLEAN /\ (~mutationsAllowed => ~ready')
    <3>1. ready' = ready \/ ready' = FALSE
      BY <1>4
    <3>2. CASE ready' = ready
      BY <1>1, <1>3, <3>2
    <3>3. CASE ready' = FALSE
      BY <3>3
    <3> QED BY <3>1, <3>2, <3>3
  <2>2. /\ created' \subseteq Bootstraps
        /\ \A b \in confirmed' \ confirmed :
             /\ b \in Bootstraps
             /\ surviving[b.slug] = {Dir(b)} /\ directory[b.slug] = Dir(b) /\ registered[b.slug] = b
    BY <1>1, <1>2, <1>4, OldIsSettled
  <2> QED BY <1>1, <1>4, <2>1, <2>2 DEF Moves
<1>5. CASE LookUp(w) \/ Existing(w) \/ LockMap(w)
  <2>1. PICK q \in {"idle", "found", "verified", "writing"} :
          Moves(w, q) /\ (q = "writing" => Writable)
    <3>1. /\ UNCHANGED <<registered, disk, flags, request, todo, unconfirmed>>
          /\ answered' = answered \/ AnswersOld(w)
          /\ \E q \in {"idle", "found", "verified", "writing"} :
               Goto(w, q) /\ (q = "writing" => Writable)
      BY <1>5 DEF LookUp, Existing, AnswerExisting, LockMap, AnswersOld
    <3> QED BY <1>4, <3>1
  <2>2. MayBeAt(w, q)
    BY <1>2, <2>1 DEF MayBeAt, Compared
  <2> QED BY <1>2, <2>1, <2>2, MoveKeeps DEF Place, Creating
<1>6. CASE LookAgain(w)
  <2>1. PICK q \in {"idle", "scanning"} :
          /\ Moves(w, q)
          /\ q = "scanning" => todo'[w] = Known /\ request[w].slug \notin Known
    <3>1. Known \in SUBSET Slug
      BY DEF Known
    <3>2. CASE Goto(w, "scanning") /\ request[w].slug \notin Known
               /\ todo' = [todo EXCEPT ![w] = Known]
      BY <1>1, <1>3, <1>6, <3>1, <3>2 DEF LookAgain, Moves
    <3>3. CASE Goto(w, "idle") /\ UNCHANGED todo
      BY <1>4, <1>6, <3>3 DEF LookAgain, AnswerExisting, AnswersOld
    <3> QED BY <1>6, <3>2, <3>3 DEF LookAgain, AnswerExisting
  <2>2. HoldsWrite(w)
    BY <1>6 DEF LookAgain, HoldsWrite
  <2>3. q = "scanning" => /\ registered[request[w].slug] = NoProject
                          /\ Known \ todo'[w] = {}
    BY <1>2, <2>1 DEF Known
  <2>4. MayBeAt(w, q)
    BY <1>2, <2>1, <2>2, <2>3 DEF MayBeAt, Compared
  <2> QED BY <1>2, <2>1, <2>4, MoveKeeps DEF Place, Creating
<1>7. CASE \E s \in Slug : Scan(w, s)
  <2>1. PICK s \in Slug : Scan(w, s)
    BY <1>7
  <2>2. pc[w] = "scanning" /\ HoldsWrite(w)
    BY <2>1 DEF Scan, HoldsWrite
  <2>3. CASE Clashes(request[w].bootstrap, registered[s])
    <3>1. Moves(w, "idle")
      BY <1>4, <2>1, <2>3 DEF Scan
    <3> QED BY <1>2, <3>1, MoveKeeps DEF MayBeAt, Place, Creating, Compared
  <2>4. CASE ~Clashes(request[w].bootstrap, registered[s])
    <3>1. pc' = pc /\ todo' = [todo EXCEPT ![w] = @ \ {s}]
      BY <2>1, <2>4 DEF Scan
    <3>2. Moves(w, "scanning")
      BY <1>1, <1>3, <2>1, <2>2, <3>1 DEF Scan, Moves
    <3>3. MayBeAt(w, "scanning")
      <4>1. /\ registered[request[w].slug] = NoProject
            /\ \A t \in Known \ todo[w] : ~Clashes(request[w].bootstrap, registered[t])
        BY <2>2 DEF ScanInv, Compared
      <4>2. todo'[w] = todo[w] \ {s}
        BY <1>1, <3>1
      <4> QED BY <1>2, <2>2, <2>4, <4>1, <4>2 DEF MayBeAt
    <3> QED BY <1>2, <3>2, <3>3, MoveKeeps DEF Place, Creating
  <2> QED BY <2>3, <2>4
<1>8. CASE Scanned(w) \/ Stage(w) \/ CommitCreate(w)
  <2>1. PICK q \in {"idle", "staging", "staged", "publishing"} :
          Moves(w, q) /\ (q = "publishing" => mutationsAllowed /\ CommitFree(w))
    BY <1>4, <1>8 DEF Scanned, Stage, CommitCreate
  <2>2. /\ HoldsWrite(w) /\ todo'[w] = {}
        /\ registered[request[w].slug] = NoProject
        /\ \A s \in Known : ~Clashes(request[w].bootstrap, registered[s])
    <3>1. /\ pc[w] \in Compared /\ todo[w] = {} /\ todo' = todo
      BY <1>8 DEF Scanned, Stage, CommitCreate, ScanInv, Compared
    <3>2. HoldsWrite(w)
      BY <1>8 DEF Scanned, Stage, CommitCreate, HoldsWrite
    <3> QED BY <3>1, <3>2 DEF ScanInv
  <2>3. MayBeAt(w, q)
    BY <1>2, <2>1, <2>2 DEF MayBeAt
  <2> QED BY <1>2, <2>1, <2>3, MoveKeeps DEF Place, Creating
<1> QED BY <1>5, <1>6, <1>7, <1>8

-----------------------------------------------------------------------------

(* What holds while w changes projects/: nobody else has the map or is
   unsettled, and every other project is as it is registered. *)
LEMMA Publisher ==
  ASSUME Inv, NEW w \in Worker, pc[w] \in {"publishing", "published", "removed"}
  PROVE  /\ up /\ mutationsAllowed
         /\ request[w].bootstrap \in Bootstraps
         /\ request[w].slug = request[w].bootstrap.slug /\ request[w].slug \in Slug
         /\ registered[request[w].slug] = NoProject
         /\ \A s \in Known : ~Clashes(request[w].bootstrap, registered[s])
         /\ \A v \in Worker \ {w} : ~HoldsWrite(v) /\ ~HoldsCommit(v) /\ pc[v] \notin Compared
         /\ \A s \in Slug \ {request[w].slug} : ~Unsettled(s) /\ Settled(s)
         /\ pc[w] = "publishing" => Settled(request[w].slug)
<1> USE DEF Inv
<1>1. up /\ mutationsAllowed
  BY DEF LocksInv, HoldsCommit
<1>2. Creates(w)
  BY DEF Creates, Creating
<1>3. \A v \in Worker \ {w} : ~HoldsWrite(v) /\ ~HoldsCommit(v)
  BY DEF LocksInv, HoldsWrite, HoldsCommit
<1>4. \A v \in Worker \ {w} : pc[v] \notin Compared
  BY <1>3 DEF HoldsWrite, Compared
<1>5. /\ registered[request[w].slug] = NoProject
      /\ \A s \in Known : ~Clashes(request[w].bootstrap, registered[s])
  <2>1. pc[w] \in Compared /\ pc[w] # "scanning"
    BY DEF Compared
  <2> QED BY <2>1 DEF ScanInv
<1>6. \A s \in Slug \ {request[w].slug} : ~Unsettled(s)
  BY <1>4 DEF Unsettled, Compared
<1>7. pc[w] = "publishing" => ~Unsettled(request[w].slug)
  BY <1>4 DEF Unsettled, Compared
<1>8. request[w].bootstrap \in Bootstraps /\ request[w].slug = request[w].bootstrap.slug
  BY <1>2 DEF TypeOK
<1>9. request[w].slug \in Slug
  BY <1>8, Distinct
<1> QED BY <1>1, <1>3, <1>4, <1>5, <1>6, <1>7, <1>8, <1>9 DEF DiskInv

(* Whatever it does to projects/, it goes from one of its places to another
   and the locks are held as before or given back. *)
LEMMA PublisherLocks ==
  ASSUME Inv, NEW w \in Worker, pc[w] \in {"publishing", "published", "removed"},
         NEW q \in {"idle", "published", "removed"}, Goto(w, q), UNCHANGED <<up, request, todo>>,
         q # "idle" => UNCHANGED mutationsAllowed, mutationsAllowed' \in BOOLEAN,
         ready' \in BOOLEAN, ~mutationsAllowed' => ~ready', created' \subseteq Bootstraps,
         confirmed' \subseteq Bootstraps, unconfirmed' \subseteq Slug,
         registered' \in [Slug -> Bootstraps \cup {NoProject}],
         q # "idle" => UNCHANGED registered,
         directory' \in [Slug -> Dirs], surviving' \in [Slug -> SUBSET Dirs]
  PROVE  TypeOK' /\ LocksInv' /\ ScanInv' /\ LatchedNotReady'
<1> USE DEF Inv
<1>1. pc \in [Worker -> Place] /\ pc'[w] = q /\ \A v \in Worker \ {w} : pc'[v] = pc[v]
  BY DEF TypeOK, Goto
<1>2. TypeOK'
  <2>1. pc' \in [Worker -> Place]
    BY <1>1 DEF Goto, Place, Creating
  <2>2. \A v \in Worker : Creates(v)' => Creates(v)
    BY <1>1 DEF Creates, Creating
  <2>3. up' \in BOOLEAN
    BY DEF TypeOK
  <2> QED BY <2>1, <2>2, <2>3 DEF TypeOK
<1>3. LocksInv'
  <2>1. \A v \in Worker : /\ HoldsWrite(v)' => HoldsWrite(v) /\ v = w
                          /\ HoldsCommit(v)' => HoldsCommit(v) /\ v = w
    BY <1>1, Publisher DEF HoldsWrite, HoldsCommit
  <2>2. q # "idle" => mutationsAllowed'
    BY Publisher
  <2>3. HoldsCommit(w)' => q # "idle"
    BY <1>1 DEF HoldsCommit
  <2> QED BY <2>1, <2>2, <2>3, Publisher DEF LocksInv
<1>4. ScanInv'
  <2> SUFFICES ASSUME NEW v \in Worker, pc'[v] \in Compared
               PROVE  /\ registered'[request[v].slug] = NoProject
                      /\ pc'[v] # "scanning" => todo[v] = {}
                      /\ \A s \in Known' \ todo[v] : ~Clashes(request[v].bootstrap, registered'[s])
    BY DEF ScanInv
  <2>1. v = w /\ q # "idle"
    BY <1>1, Publisher DEF Compared
  <2>2. pc[w] \in Compared /\ pc[w] # "scanning" /\ Known' = Known
    BY <2>1 DEF Compared, Known
  <2> QED BY <2>1, <2>2 DEF ScanInv
<1> QED BY <1>2, <1>3, <1>4 DEF LatchedNotReady

(* The slug of a creation under way was never answered with a certain 201. *)
LEMMA NotCreatedYet ==
  ASSUME Inv, NEW w \in Worker, pc[w] \in {"publishing", "published", "removed"},
         NEW b \in confirmed
  PROVE  b \in Bootstraps /\ b.slug \in Slug /\ b.slug # request[w].slug
<1>1. b \in Bootstraps /\ registered[b.slug] = b
  BY Publisher DEF Inv, TypeOK, CreatedInv
<1> QED BY <1>1, Publisher, Distinct

(* A bootstrap that clashes with no registered project may share the disk with
   all of them. *)
LEMMA BoundOnce ==
  ASSUME Inv, NEW w \in Worker, pc[w] \in {"publishing", "published", "removed"},
         NEW s \in Slug \ unconfirmed, s # request[w].slug, NEW e \in surviving[s] \ {NoDir}
  PROVE  /\ e.bootstrap.genesis # request[w].bootstrap.genesis
         /\ ~(e.bootstrap.legacy /\ request[w].bootstrap.legacy)
<1> DEFINE b == request[w].bootstrap
           r == registered[s]
<1>1. Settled(s)
  BY Publisher
<1>2. e = directory[s] /\ r # NoProject /\ e = Dir(r)
  BY <1>1 DEF Settled
<1>3. s \in Known /\ e.bootstrap = r
  BY <1>2 DEF Known, Dir
<1>4. ~Clashes(b, r)
  BY <1>3, Publisher
<1> QED BY <1>3, <1>4 DEF Clashes

LEMMA PublishInv == ASSUME Inv, NEW w \in Worker, Publish(w) PROVE Inv'
<1> USE DEF Inv
<1> DEFINE b == request[w].bootstrap
<1>1. /\ pc[w] = "publishing" /\ b \in Bootstraps /\ b.slug = request[w].slug /\ b.slug \in Slug
      /\ up /\ mutationsAllowed
  BY Publisher DEF Publish
<1>2. UNCHANGED <<registered, mutationsAllowed, up, request, todo, created, confirmed,
                unconfirmed>>
  BY DEF Publish, answered
<1>3. /\ pc \in [Worker -> Place] /\ created \subseteq Bootstraps /\ mutationsAllowed \in BOOLEAN
      /\ confirmed \subseteq Bootstraps /\ unconfirmed \subseteq Slug
      /\ registered \in [Slug -> Bootstraps \cup {NoProject}]
      /\ directory \in [Slug -> Dirs] /\ surviving \in [Slug -> SUBSET Dirs] /\ ready \in BOOLEAN
      /\ todo \in [Worker -> SUBSET Slug]
  BY DEF TypeOK
<1>4. CASE /\ directory' = [directory EXCEPT ![b.slug] = Dir(b)]
           /\ surviving' = [surviving EXCEPT ![b.slug] = @ \cup {Dir(b)}]
           /\ Goto(w, "published") /\ UNCHANGED ready
  <2>1. TypeOK' /\ LocksInv' /\ ScanInv' /\ LatchedNotReady'
    BY <1>1, <1>2, <1>3, <1>4, Distinct, PublisherLocks
  <2>2. pc'[w] = "published" /\ \A v \in Worker \ {w} : pc'[v] = pc[v]
    BY <1>3, <1>4 DEF Goto
  <2>3. /\ directory'[b.slug] = Dir(b) /\ surviving'[b.slug] = surviving[b.slug] \cup {Dir(b)}
        /\ \A s \in Slug \ {b.slug} : directory'[s] = directory[s] /\ surviving'[s] = surviving[s]
    BY <1>1, <1>3, <1>4
  <2>4. b.slug \notin unconfirmed => surviving[b.slug] = {NoDir}
    BY <1>1, Publisher DEF Settled
  <2>5. \A s \in Slug : Unsettled(s)' \/ Settled(s)'
    <3>1. \A s \in {b.slug} : Unsettled(s)'
      BY <1>1, <1>2, <2>2 DEF Unsettled
    <3>2. \A s \in Slug \ {b.slug} : Settled(s)'
      BY <1>1, <1>2, <2>3, Publisher DEF Settled
    <3> QED BY <3>1, <3>2
  <2>6. \A v \in Worker : pc'[v] \in {"published", "removed"} => v = w
    BY <1>1, <2>2, Publisher DEF Compared
  <2>7. GenesisBoundOnce'
    <3>1. b.slug \notin unconfirmed => \A e \in surviving'[b.slug] \ {NoDir} : e.bootstrap = b
      BY <2>3, <2>4 DEF Dir
    <3>2. \A s \in (Slug \ unconfirmed) \ {b.slug} : \A e \in surviving'[s] \ {NoDir} :
            /\ e.bootstrap.genesis # b.genesis
            /\ ~(e.bootstrap.legacy /\ b.legacy)
      BY <1>1, <2>3, BoundOnce
    <3>3. \A s, t \in (Slug \ unconfirmed) \ {b.slug} : s # t =>
            \A d \in surviving'[s] \ {NoDir}, e \in surviving'[t] \ {NoDir} :
              /\ d.bootstrap.genesis # e.bootstrap.genesis
              /\ ~(d.bootstrap.legacy /\ e.bootstrap.legacy)
      BY <1>1, <2>3 DEF DiskInv, GenesisBoundOnce
    <3> QED BY <1>2, <3>1, <3>2, <3>3 DEF GenesisBoundOnce
  <2>8. DiskInv'
    <3>1. \A v \in Worker : pc'[v] = "published" =>
            LET c == request'[v].bootstrap
            IN /\ directory'[c.slug] = Dir(c) /\ Dir(c) \in surviving'[c.slug]
               /\ c.slug \notin unconfirmed' => surviving'[c.slug] \subseteq {NoDir, Dir(c)}
      BY <1>2, <2>3, <2>4, <2>6
    <3>2. \A v \in Worker : pc'[v] # "removed"
      BY <2>2, <2>6
    <3>3. Apart'
      BY <1>2 DEF DiskInv, Apart, Known
    <3> QED BY <1>1, <1>2, <2>5, <2>7, <3>1, <3>2, <3>3 DEF DiskInv
  <2>9. CreatedInv'
    BY <1>1, <1>2, <2>3, NotCreatedYet DEF CreatedInv
  <2> QED BY <2>1, <2>8, <2>9
<1>5. CASE ready' = FALSE /\ Goto(w, "idle") /\ UNCHANGED disk
  <2>1. Moves(w, "idle")
    BY <1>1, <1>2, <1>3, <1>5 DEF Moves, Goto, disk
  <2>2. MayBeAt(w, "idle")
    BY DEF MayBeAt, Creating, Compared
  <2> QED BY <1>1, <2>1, <2>2, MoveKeeps DEF Place
<1> QED BY <1>4, <1>5 DEF Publish, Answer

(* A sync of projects/ settles the name it is made for and takes nothing from
   the others that the system sees. *)
LEMMA SyncSettles ==
  ASSUME Inv, NEW s \in Slug, NEW x \in Dirs, SyncNames(s, x)
  PROVE  /\ surviving' \in [Slug -> SUBSET Dirs]
         /\ unconfirmed' \subseteq Slug
         /\ surviving'[s] = {x}
         /\ \A t \in Slug \ {s} :
              /\ surviving[t] = {directory[t]} => surviving'[t] = {directory[t]}
              /\ t \notin unconfirmed' => t \notin unconfirmed \/ surviving'[t] = {directory[t]}
<1>1. surviving \in [Slug -> SUBSET Dirs] /\ unconfirmed \subseteq Slug
  BY DEF Inv, TypeOK
<1>2. surviving' = [t \in Slug |->
        IF t = s THEN {x}
        ELSE {d \in surviving[t] : d = NoDir <=> directory[t] = NoDir}]
  BY DEF SyncNames
<1>3. unconfirmed' = {t \in unconfirmed \ {s} : surviving'[t] # {directory[t]}}
  BY DEF SyncNames
<1>4. \A t \in Slug : surviving'[t] \in SUBSET Dirs
  BY <1>1, <1>2
<1>5. surviving' \in [Slug -> SUBSET Dirs]
  BY <1>2, <1>4
<1>6. ASSUME NEW t \in Slug \ {s}, surviving[t] = {directory[t]}
      PROVE  surviving'[t] = {directory[t]}
  BY <1>2, <1>6
<1> QED BY <1>1, <1>2, <1>3, <1>5, <1>6

(* A creation adds a project that clashes with none. *)
LEMMA ApartGrows ==
  ASSUME Inv, NEW w \in Worker, pc[w] \in {"publishing", "published", "removed"},
         registered' = [registered EXCEPT ![request[w].bootstrap.slug] = request[w].bootstrap]
  PROVE  Apart'
<1> DEFINE b == request[w].bootstrap
<1>1. /\ b \in Bootstraps /\ b.slug = request[w].slug /\ b.slug \in Slug /\ up
      /\ \A s \in Known : ~Clashes(b, registered[s])
  BY Publisher
<1>2. registered \in [Slug -> Bootstraps \cup {NoProject}]
  BY DEF Inv, TypeOK
<1>3. registered'[b.slug] = b /\ \A s \in Slug \ {b.slug} : registered'[s] = registered[s]
  BY <1>1, <1>2
<1>4. \A s \in Known' \ {b.slug} : s \in Known
  BY <1>3 DEF Known
<1>5. \A s \in Known \ {b.slug} : ~Clashes(b, registered[s]) /\ ~Clashes(registered[s], b)
  BY <1>1 DEF Clashes
<1>6. \A s, t \in Known \ {b.slug} : s # t => ~Clashes(registered[s], registered[t])
  BY <1>1 DEF Inv, DiskInv, Apart
<1>7. Known' \subseteq Slug /\ Known \subseteq Slug
  BY DEF Known
<1> SUFFICES ASSUME NEW s \in Known', NEW t \in Known', s # t
             PROVE  ~Clashes(registered'[s], registered'[t])
  BY DEF Apart
<1>8. CASE s = b.slug
  BY <1>3, <1>4, <1>5, <1>7, <1>8
<1>9. CASE t = b.slug
  BY <1>3, <1>4, <1>5, <1>7, <1>9
<1>10. CASE s # b.slug /\ t # b.slug
  BY <1>3, <1>4, <1>6, <1>7, <1>10
<1> QED BY <1>8, <1>9, <1>10

LEMMA RegisterInv == ASSUME Inv, NEW w \in Worker, Register(w) PROVE Inv'
<1> USE DEF Inv
<1> DEFINE b == request[w].bootstrap
<1>1. /\ pc[w] = "published" /\ b \in Bootstraps /\ b.slug = request[w].slug /\ b.slug \in Slug
      /\ up /\ mutationsAllowed
  BY Publisher DEF Register
<1>2. /\ UNCHANGED <<directory, mutationsAllowed, up, request, todo>> /\ ready' = TRUE
      /\ created' = created \cup {b} /\ confirmed' = confirmed \cup {b} /\ Goto(w, "idle")
      /\ registered' = [registered EXCEPT ![b.slug] = b]
      /\ SyncNames(b.slug, Dir(b))
  BY DEF Register, Answer
<1>3. /\ pc \in [Worker -> Place] /\ created \subseteq Bootstraps /\ mutationsAllowed \in BOOLEAN
      /\ confirmed \subseteq Bootstraps
      /\ registered \in [Slug -> Bootstraps \cup {NoProject}]
      /\ directory \in [Slug -> Dirs]
  BY DEF TypeOK
<1>4. /\ surviving' \in [Slug -> SUBSET Dirs] /\ unconfirmed' \subseteq Slug
      /\ surviving'[b.slug] = {Dir(b)}
      /\ \A t \in Slug \ {b.slug} :
           /\ surviving[t] = {directory[t]} => surviving'[t] = {directory[t]}
           /\ t \notin unconfirmed' => t \notin unconfirmed \/ surviving'[t] = {directory[t]}
  <2>1. Dir(b) \in Dirs
    BY <1>1, Distinct
  <2> HIDE DEF Inv
  <2> QED BY <1>1, <1>2, <2>1, SyncSettles
<1>5. TypeOK' /\ LocksInv' /\ ScanInv' /\ LatchedNotReady'
  <2>1. /\ registered' \in [Slug -> Bootstraps \cup {NoProject}] /\ directory' \in [Slug -> Dirs]
        /\ ready' \in BOOLEAN /\ (~mutationsAllowed' => ~ready') /\ mutationsAllowed' \in BOOLEAN
        /\ created' \subseteq Bootstraps /\ confirmed' \subseteq Bootstraps
    BY <1>1, <1>2, <1>3
  <2> QED BY <1>1, <1>2, <1>4, <2>1, PublisherLocks
<1>6. pc'[w] = "idle" /\ \A v \in Worker \ {w} : pc'[v] = pc[v]
  BY <1>2, <1>3 DEF Goto
<1>7. registered'[b.slug] = b /\ \A s \in Slug \ {b.slug} : registered'[s] = registered[s]
  BY <1>1, <1>2, <1>3
<1>8. directory[b.slug] = Dir(b)
  BY <1>1 DEF DiskInv
<1>9. \A s \in Slug : Settled(s)'
  <2>1. \A s \in {b.slug} : Settled(s)'
    BY <1>1, <1>2, <1>4, <1>7, <1>8, Distinct DEF Settled
  <2>2. \A s \in Slug \ {b.slug} : Settled(s)'
    BY <1>1, <1>2, <1>4, <1>7, Publisher DEF Settled
  <2> QED BY <2>1, <2>2
<1>10. Apart'
  BY <1>1, <1>2, ApartGrows
<1>11. GenesisBoundOnce'
  <2>1. \A s, t \in {x \in Slug : registered'[x] # NoProject} : s # t =>
          ~Clashes(registered'[s], registered'[t])
    BY <1>1, <1>2, <1>10 DEF Apart, Known
  <2>2. /\ \A s \in Slug \ unconfirmed' : surviving'[s] = {directory'[s]}
        /\ \A s \in Slug : directory'[s] = IF registered'[s] = NoProject
                                              THEN NoDir ELSE Dir(registered'[s])
    BY <1>9 DEF Settled
  <2>3. registered' \in [Slug -> Bootstraps \cup {NoProject}]
    BY <1>5 DEF TypeOK
  <2> DEFINE R == registered'
             D == directory'
             S == surviving'
             U == unconfirmed'
  <2>4. /\ R \in [Slug -> Bootstraps \cup {NoProject}]
        /\ \A x, y \in Slug : x # y /\ R[x] # NoProject /\ R[y] # NoProject => ~Clashes(R[x], R[y])
        /\ \A x \in Slug \ U : S[x] = {D[x]}
        /\ \A x \in Slug : R[x] = NoProject => D[x] = NoDir
        /\ \A x \in Slug : R[x] # NoProject => D[x] = Dir(R[x])
    BY <2>1, <2>2, <2>3
  <2> HIDE DEF Inv, R, D, S, U
  <2>5. ASSUME NEW x \in Slug \ U, NEW y \in Slug \ U, x # y,
               NEW d \in S[x] \ {NoDir}, NEW e \in S[y] \ {NoDir}
        PROVE  /\ d.bootstrap.genesis # e.bootstrap.genesis
               /\ ~(d.bootstrap.legacy /\ e.bootstrap.legacy)
    <3>1. d = Dir(R[x]) /\ e = Dir(R[y]) /\ ~Clashes(R[x], R[y])
      BY <2>4, <2>5
    <3> QED BY <3>1, BoundApart
  <2> QED BY <2>5 DEF GenesisBoundOnce, R, D, S, U
<1>12. DiskInv'
  <2>1. \A v \in Worker : pc'[v] \notin {"published", "removed"}
    BY <1>1, <1>6, Publisher DEF Compared
  <2> QED BY <1>1, <1>2, <1>9, <1>10, <1>11, <2>1 DEF DiskInv
<1>13. CreatedInv'
  <2>1. \A c \in confirmed : c \in Bootstraps /\ c.slug \in Slug \ {b.slug}
    BY <1>1, NotCreatedYet
  <2>2. \A c \in confirmed : /\ surviving[c.slug] = {Dir(c)} /\ directory[c.slug] = Dir(c)
                              /\ registered[c.slug] = c
    BY <1>1 DEF CreatedInv
  <2>3. \A c \in confirmed : /\ surviving'[c.slug] = {Dir(c)} /\ directory'[c.slug] = Dir(c)
                              /\ registered'[c.slug] = c
    BY <1>2, <1>4, <1>7, <2>1, <2>2
  <2>4. surviving'[b.slug] = {Dir(b)} /\ directory'[b.slug] = Dir(b) /\ registered'[b.slug] = b
    BY <1>2, <1>4, <1>7, <1>8
  <2> QED BY <1>2, <2>3, <2>4 DEF CreatedInv
<1> QED BY <1>5, <1>12, <1>13

LEMMA RollBackInv == ASSUME Inv, NEW w \in Worker, RollBack(w) PROVE Inv'
<1> USE DEF Inv
<1> DEFINE b == request[w].bootstrap
<1>1. /\ pc[w] = "published" /\ b \in Bootstraps /\ b.slug = request[w].slug /\ b.slug \in Slug
      /\ up /\ mutationsAllowed
  BY Publisher DEF RollBack
<1>2. /\ UNCHANGED <<up, request, todo, created, confirmed, unconfirmed>>
      /\ surviving' = [surviving EXCEPT ![b.slug] = @ \cup {Partial(b)}]
  BY DEF RollBack, answered
<1>3. /\ pc \in [Worker -> Place] /\ created \subseteq Bootstraps /\ mutationsAllowed \in BOOLEAN
      /\ registered \in [Slug -> Bootstraps \cup {NoProject}] /\ ready \in BOOLEAN
      /\ directory \in [Slug -> Dirs] /\ surviving \in [Slug -> SUBSET Dirs]
      /\ confirmed \subseteq Bootstraps /\ unconfirmed \subseteq Slug
  BY DEF TypeOK
<1>4. /\ surviving'[b.slug] = surviving[b.slug] \cup {Partial(b)}
      /\ \A s \in Slug \ {b.slug} : surviving'[s] = surviving[s]
      /\ surviving' \in [Slug -> SUBSET Dirs]
  BY <1>1, <1>2, <1>3, Distinct
(* What a roll-back leaves over is bound like what it removes. *)
<1>5. GenesisBoundOnce'
  <2>1. \A e \in surviving'[b.slug] \ {NoDir} :
          \E d \in surviving[b.slug] \ {NoDir} : e.bootstrap = d.bootstrap
    <3>1. Dir(b) \in surviving[b.slug] \ {NoDir} /\ Dir(b).bootstrap = Partial(b).bootstrap
      BY <1>1, Distinct DEF DiskInv, Dir, Partial
    <3> QED BY <1>4, <3>1
  <2>2. \A s \in Slug : \A e \in surviving'[s] \ {NoDir} :
          \E d \in surviving[s] \ {NoDir} : e.bootstrap = d.bootstrap
    BY <1>4, <2>1
  <2> QED BY <1>1, <1>2, <2>2 DEF DiskInv, GenesisBoundOnce
<1>6. CASE /\ directory' = [directory EXCEPT ![b.slug] = NoDir] /\ Goto(w, "removed")
           /\ UNCHANGED <<registered, ready, mutationsAllowed>>
  <2>1. TypeOK' /\ LocksInv' /\ ScanInv' /\ LatchedNotReady'
    <3>1. directory' \in [Slug -> Dirs]
      BY <1>3, <1>6, Distinct
    <3>2. ~mutationsAllowed' => ~ready'
      BY <1>1, <1>6
    <3> QED BY <1>1, <1>2, <1>3, <1>4, <1>6, <3>1, <3>2, PublisherLocks
  <2>2. pc'[w] = "removed" /\ \A v \in Worker \ {w} : pc'[v] = pc[v]
    BY <1>3, <1>6 DEF Goto
  <2>3. directory'[b.slug] = NoDir /\ \A s \in Slug \ {b.slug} : directory'[s] = directory[s]
    BY <1>1, <1>3, <1>6
  <2>4. DiskInv'
    <3>1. \A s \in {b.slug} : Unsettled(s)'
      BY <1>1, <1>2, <2>2 DEF Unsettled
    <3>2. \A s \in Slug \ {b.slug} : Settled(s)'
      BY <1>1, <1>2, <1>4, <1>6, <2>3, Publisher DEF Settled
    <3>3. \A v \in Worker : /\ pc'[v] # "published"
                            /\ pc'[v] = "removed" => directory'[request'[v].slug] = NoDir
      BY <1>1, <1>2, <2>2, <2>3, Publisher DEF Compared
    <3>4. Apart'
      BY <1>1, <1>2, <1>6 DEF DiskInv, Apart, Known
    <3> QED BY <1>1, <1>2, <1>5, <3>1, <3>2, <3>3, <3>4 DEF DiskInv
  <2>5. CreatedInv'
    BY <1>1, <1>2, <1>4, <1>6, <2>3, NotCreatedYet DEF CreatedInv
  <2> QED BY <2>1, <2>4, <2>5
<1>7. CASE /\ \E d \in {Dir(b), Partial(b)} : directory' = [directory EXCEPT ![b.slug] = d]
           /\ registered' = [registered EXCEPT ![b.slug] = b]
           /\ latch_storage_uncertain /\ Goto(w, "idle")
  <2>1. TypeOK' /\ LocksInv' /\ ScanInv' /\ LatchedNotReady'
    <3>1. directory' \in [Slug -> Dirs] /\ registered' \in [Slug -> Bootstraps \cup {NoProject}]
      BY <1>1, <1>3, <1>7, Distinct
    <3>2. mutationsAllowed' \in BOOLEAN /\ ready' \in BOOLEAN /\ ~ready'
      BY <1>7 DEF latch_storage_uncertain
    <3> QED BY <1>1, <1>2, <1>3, <1>4, <1>7, <3>1, <3>2, PublisherLocks
  <2>2. pc'[w] = "idle" /\ \A v \in Worker \ {w} : pc'[v] = pc[v]
    BY <1>3, <1>7 DEF Goto
  <2>3. \A s \in Slug \ {b.slug} : directory'[s] = directory[s] /\ registered'[s] = registered[s]
    BY <1>1, <1>3, <1>7
  <2>4. DiskInv'
    <3>1. \A v \in Worker : pc'[v] \notin {"published", "removed"}
      BY <1>1, <2>2, Publisher DEF Compared
    <3>2. ~mutationsAllowed' /\ up'
      BY <1>1, <1>2, <1>7 DEF latch_storage_uncertain
    <3>3. Apart'
      BY <1>1, <1>7, ApartGrows
    <3> QED BY <1>5, <3>1, <3>2, <3>3 DEF DiskInv
  <2>5. CreatedInv'
    BY <1>1, <1>2, <1>4, <2>3, NotCreatedYet DEF CreatedInv
  <2> QED BY <2>1, <2>4, <2>5
<1> QED BY <1>6, <1>7 DEF RollBack, Answer

LEMMA ConfirmRemovalInv == ASSUME Inv, NEW w \in Worker, ConfirmRemoval(w) PROVE Inv'
<1> USE DEF Inv
<1> DEFINE s == request[w].slug
<1>1. pc[w] = "removed" /\ s \in Slug /\ up /\ mutationsAllowed
  BY Publisher DEF ConfirmRemoval
<1>2. UNCHANGED <<registered, directory, up, request, todo, created, confirmed>> /\ ready' = FALSE
      /\ Goto(w, "idle")
  BY DEF ConfirmRemoval, Answer, latch_storage_uncertain, answered
<1>3. /\ pc \in [Worker -> Place] /\ created \subseteq Bootstraps /\ mutationsAllowed \in BOOLEAN
      /\ confirmed \subseteq Bootstraps /\ unconfirmed \subseteq Slug
      /\ registered \in [Slug -> Bootstraps \cup {NoProject}]
      /\ directory \in [Slug -> Dirs] /\ surviving \in [Slug -> SUBSET Dirs]
  BY DEF TypeOK
<1>4. pc'[w] = "idle" /\ \A v \in Worker \ {w} : pc'[v] = pc[v]
  BY <1>2, <1>3 DEF Goto
<1>5. \A v \in Worker : pc'[v] \notin {"published", "removed"}
  BY <1>1, <1>4, Publisher DEF Compared
<1>6. Apart'
  BY <1>1, <1>2 DEF DiskInv, Apart, Known
<1>7. \A c \in confirmed : /\ c \in Bootstraps /\ c.slug \in Slug \ {s}
                            /\ surviving[c.slug] = {Dir(c)} /\ directory[c.slug] = Dir(c)
                            /\ registered[c.slug] = c
  BY <1>1, NotCreatedYet DEF CreatedInv
<1>8. CASE SyncNames(s, NoDir) /\ UNCHANGED mutationsAllowed
  <2>1. /\ surviving' \in [Slug -> SUBSET Dirs] /\ unconfirmed' \subseteq Slug
        /\ surviving'[s] = {NoDir}
        /\ \A t \in Slug \ {s} :
             /\ surviving[t] = {directory[t]} => surviving'[t] = {directory[t]}
             /\ t \notin unconfirmed' => t \notin unconfirmed \/ surviving'[t] = {directory[t]}
    <3>1. NoDir \in Dirs
      BY Distinct
    <3> HIDE DEF Inv
    <3> QED BY <1>1, <1>8, <3>1, SyncSettles
  <2>2. TypeOK' /\ LocksInv' /\ ScanInv' /\ LatchedNotReady'
    BY <1>1, <1>2, <1>3, <1>8, <2>1, PublisherLocks
  <2>3. \A t \in Slug : Settled(t)'
    <3>1. \A t \in {s} : Settled(t)'
      BY <1>1, <1>2, <2>1, Publisher DEF Settled, DiskInv
    <3>2. \A t \in Slug \ {s} : Settled(t)'
      BY <1>1, <1>2, <2>1, Publisher DEF Settled
    <3> QED BY <3>1, <3>2
  <2>4. GenesisBoundOnce'
    <3>1. \A x, t \in {y \in Slug : registered[y] # NoProject} : x # t =>
            ~Clashes(registered[x], registered[t])
      BY <1>1 DEF DiskInv, Apart, Known
    <3>2. /\ \A t \in Slug \ unconfirmed' : surviving'[t] = {directory[t]}
          /\ \A t \in Slug : directory[t] = IF registered[t] = NoProject
                                               THEN NoDir ELSE Dir(registered[t])
      BY <1>2, <2>3 DEF Settled
    <3> DEFINE R == registered'
               D == directory'
               S == surviving'
               U == unconfirmed'
    <3>3. /\ R \in [Slug -> Bootstraps \cup {NoProject}]
          /\ \A x, y \in Slug : x # y /\ R[x] # NoProject /\ R[y] # NoProject => ~Clashes(R[x], R[y])
          /\ \A x \in Slug \ U : S[x] = {D[x]}
          /\ \A x \in Slug : R[x] = NoProject => D[x] = NoDir
          /\ \A x \in Slug : R[x] # NoProject => D[x] = Dir(R[x])
      BY <1>2, <1>3, <3>1, <3>2
    <3> HIDE DEF Inv, R, D, S, U
    <3>4. ASSUME NEW x \in Slug \ U, NEW y \in Slug \ U, x # y,
                 NEW d \in S[x] \ {NoDir}, NEW e \in S[y] \ {NoDir}
          PROVE  /\ d.bootstrap.genesis # e.bootstrap.genesis
                 /\ ~(d.bootstrap.legacy /\ e.bootstrap.legacy)
      <4>1. d = Dir(R[x]) /\ e = Dir(R[y]) /\ ~Clashes(R[x], R[y])
        BY <3>3, <3>4
      <4> QED BY <4>1, BoundApart
    <3> QED BY <3>4 DEF GenesisBoundOnce, R, D, S, U
  <2>5. DiskInv'
    BY <1>1, <1>2, <1>5, <1>6, <2>3, <2>4 DEF DiskInv
  <2>6. CreatedInv'
    BY <1>2, <1>7, <2>1 DEF CreatedInv
  <2> QED BY <2>2, <2>5, <2>6
<1>9. CASE UNCHANGED <<surviving, unconfirmed>> /\ mutationsAllowed' = FALSE
  <2>1. TypeOK' /\ LocksInv' /\ ScanInv' /\ LatchedNotReady'
    BY <1>1, <1>2, <1>3, <1>9, PublisherLocks
  <2>2. GenesisBoundOnce'
    BY <1>1, <1>2, <1>9 DEF DiskInv, GenesisBoundOnce
  <2>3. DiskInv'
    BY <1>1, <1>2, <1>5, <1>6, <1>9, <2>2 DEF DiskInv
  <2>4. CreatedInv'
    BY <1>2, <1>7, <1>9 DEF CreatedInv
  <2> QED BY <2>1, <2>3, <2>4
<1> QED BY <1>8, <1>9 DEF ConfirmRemoval, latch_storage_uncertain

-----------------------------------------------------------------------------

LEMMA ReceiveInv == ASSUME Inv, NEW w \in Worker, NEW r \in Requests, Receive(w, r) PROVE Inv'
<1> USE DEF Inv
<1>1. /\ UNCHANGED <<registered, directory, surviving, ready, mutationsAllowed, up, todo, created,
                   confirmed, unconfirmed>>
      /\ up /\ pc[w] = "idle" /\ pc' = [pc EXCEPT ![w] = "received"]
      /\ request' = [request EXCEPT ![w] = r]
  BY DEF Receive, disk, flags, answered, Goto
<1>2. pc \in [Worker -> Place]
  BY DEF TypeOK
<1>3. pc'[w] = "received" /\ \A v \in Worker \ {w} : pc'[v] = pc[v]
  BY <1>1, <1>2
<1>4. PICK R : request \in [Worker -> R]
  BY DEF TypeOK
<1>5. /\ request'[w] = r /\ \A v \in Worker \ {w} : request'[v] = request[v]
      /\ request' \in [Worker -> R \cup {r}]
  BY <1>1, <1>4
<1>6. TypeOK'
  <2>1. \A v \in Worker : Creates(v)' => /\ request'[v].bootstrap \in Bootstraps
                                         /\ request'[v].slug = request'[v].bootstrap.slug
    <3>1. r.op = "create" => r.bootstrap \in Bootstraps /\ r.slug = r.bootstrap.slug
      BY DEF Requests
    <3>2. \A v \in Worker \ {w} : Creates(v)' => Creates(v)
      BY <1>3, <1>5 DEF Creates
    <3>3. Creates(w)' => r.op = "create"
      BY <1>3, <1>5 DEF Creates, Creating
    <3> QED BY <1>5, <3>1, <3>2, <3>3 DEF TypeOK
  <2>2. pc' \in [Worker -> Place]
    BY <1>1, <1>2 DEF Place
  <2>3. \E Q : request' \in [Worker -> Q]
    BY <1>5
  <2> QED BY <1>1, <2>1, <2>2, <2>3 DEF TypeOK
<1>7. LocksInv'
  BY <1>1, <1>3 DEF LocksInv, HoldsWrite, HoldsCommit
<1>8. ScanInv'
  <2> SUFFICES ASSUME NEW v \in Worker, pc'[v] \in Compared
               PROVE  /\ registered[request'[v].slug] = NoProject
                      /\ pc'[v] # "scanning" => todo[v] = {}
                      /\ \A s \in Known \ todo[v] : ~Clashes(request'[v].bootstrap, registered[s])
    BY <1>1 DEF ScanInv, Known
  <2> QED BY <1>3, <1>5 DEF ScanInv, Compared
<1>9. DiskInv'
  <2>1. \A v \in Worker : pc'[v] \in {"published", "removed"} =>
          pc'[v] = pc[v] /\ request'[v] = request[v]
    BY <1>3, <1>5
  <2>2. \A s : Unsettled(s) => Unsettled(s)'
    BY <1>1, <1>3, <1>5 DEF Unsettled
  <2> QED BY <1>1, <2>1, <2>2 DEF DiskInv, Settled, GenesisBoundOnce, Apart, Known
<1> QED BY <1>1, <1>6, <1>7, <1>8, <1>9 DEF CreatedInv, LatchedNotReady

(* The end of the process, whatever has become of projects/. *)
LEMMA StopInv ==
  ASSUME Inv, Stop, directory' \in [Slug -> Dirs], surviving' \in [Slug -> SUBSET Dirs],
         unconfirmed' \subseteq Slug,
         \A s \in Slug \ unconfirmed' : surviving'[s] = {directory'[s]},
         \A b \in confirmed : surviving'[b.slug] = {Dir(b)} /\ directory'[b.slug] = Dir(b)
  PROVE  Inv'
<1> USE DEF Inv
<1>1. /\ up' = FALSE /\ pc' = [w \in Worker |-> "idle"] /\ todo' = [w \in Worker |-> {}]
      /\ registered' = [s \in Slug |-> NoProject] /\ request' = [w \in Worker |-> NoRequest]
      /\ UNCHANGED <<ready, mutationsAllowed, created, confirmed>>
  BY DEF Stop, answered
<1>2. \A w \in Worker : pc'[w] = "idle"
  BY <1>1
<1>3. TypeOK'
  <2>1. \E R : request' \in [Worker -> R]
    <3>1. request' \in [Worker -> {NoRequest}]
      BY <1>1
    <3> QED BY <3>1
  <2>2. registered' \in [Slug -> Bootstraps \cup {NoProject}]
    BY <1>1
  <2> QED BY <1>1, <1>2, <2>1, <2>2 DEF TypeOK, Place, Creating, Creates
<1>4. LocksInv' /\ ScanInv'
  BY <1>2 DEF LocksInv, ScanInv, HoldsWrite, HoldsCommit, Compared
<1>5. DiskInv'
  BY <1>1, <1>2 DEF DiskInv, GenesisBoundOnce, Apart
<1> QED BY <1>1, <1>3, <1>4, <1>5 DEF CreatedInv, LatchedNotReady

LEMMA KillInv == ASSUME Inv, Kill PROVE Inv'
<1>1. /\ Stop /\ UNCHANGED <<directory, surviving>>
      /\ unconfirmed' = {s \in Slug : surviving[s] # {directory[s]}}
  BY DEF Kill, disk
<1>2. directory' \in [Slug -> Dirs] /\ surviving' \in [Slug -> SUBSET Dirs]
  BY <1>1 DEF Inv, TypeOK
<1>3. \A b \in confirmed : surviving'[b.slug] = {Dir(b)} /\ directory'[b.slug] = Dir(b)
  BY <1>1 DEF Inv, CreatedInv
<1> QED BY <1>1, <1>2, <1>3, StopInv

LEMMA PowerLossInv == ASSUME Inv, PowerLoss PROVE Inv'
<1>1. PICK now \in [Slug -> UNION {surviving[s] : s \in Slug}] :
        /\ \A s \in Slug : now[s] \in surviving[s]
        /\ directory' = now
        /\ surviving' = [s \in Slug |-> {now[s]}]
  BY DEF PowerLoss
<1>2. Stop /\ unconfirmed' = {}
  BY DEF PowerLoss
<1>3. \A s \in Slug : now[s] \in Dirs /\ surviving'[s] = {now[s]}
  BY <1>1 DEF Inv, TypeOK
<1>4. directory' \in [Slug -> Dirs] /\ surviving' \in [Slug -> SUBSET Dirs]
  BY <1>1, <1>3
<1>5. \A b \in confirmed : surviving'[b.slug] = {Dir(b)} /\ directory'[b.slug] = Dir(b)
  <2>1. \A b \in confirmed : b.slug \in Slug /\ surviving[b.slug] = {Dir(b)}
    BY Distinct DEF Inv, TypeOK, CreatedInv
  <2> QED BY <1>1, <1>3, <2>1
<1> QED BY <1>1, <1>2, <1>3, <1>4, <1>5, StopInv

(* A directory that loads is bound as its files say. *)
LEMMA RestartInv == ASSUME Inv, Restart PROVE Inv'
<1> USE DEF Inv
<1>1. /\ ~up /\ up' = TRUE /\ ready' = TRUE /\ mutationsAllowed' = TRUE
      /\ registered' = [s \in Slug |-> IF directory[s] = NoDir
                                         THEN NoProject ELSE directory[s].bootstrap]
      /\ UNCHANGED <<directory, surviving, pc, request, todo, created, confirmed, unconfirmed>>
  BY DEF Restart, disk, answered
<1>2. \A w \in Worker : pc[w] = "idle"
  BY <1>1 DEF LocksInv
<1>3. \A s \in Slug : directory[s] = NoDir \/ \E b \in Bootstraps : directory[s] = Dir(b)
  <2>1. \A s \in Slug : directory[s] = NoDir \/ directory[s].whole
    BY DEF Restart, Loads
  <2>2. \A b \in Bootstraps : ~Partial(b).whole
    BY DEF Partial
  <2> QED BY <2>1, <2>2 DEF TypeOK, Dirs
<1>4. \A s \in Slug : /\ registered'[s] \in Bootstraps \cup {NoProject}
                      /\ directory[s] = IF registered'[s] = NoProject
                                          THEN NoDir ELSE Dir(registered'[s])
  <2> SUFFICES ASSUME NEW s \in Slug
               PROVE  /\ registered'[s] \in Bootstraps \cup {NoProject}
                      /\ directory[s] = IF registered'[s] = NoProject
                                          THEN NoDir ELSE Dir(registered'[s])
    OBVIOUS
  <2>1. CASE directory[s] = NoDir
    BY <1>1, <2>1
  <2>2. CASE directory[s] # NoDir
    <3>1. PICK b \in Bootstraps : directory[s] = Dir(b)
      BY <1>3, <2>2
    <3>2. registered'[s] = b
      BY <1>1, <2>2, <3>1 DEF Dir
    <3> QED BY <3>1, <3>2, Distinct
  <2> QED BY <2>1, <2>2
<1>5. TypeOK'
  <2>1. registered' \in [Slug -> Bootstraps \cup {NoProject}]
    BY <1>1, <1>4
  <2>2. \A w \in Worker : ~Creates(w)'
    BY <1>1, <1>2 DEF Creates, Creating
  <2> QED BY <1>1, <2>1, <2>2 DEF TypeOK
<1>6. LocksInv' /\ ScanInv'
  BY <1>1, <1>2 DEF LocksInv, ScanInv, HoldsWrite, HoldsCommit, Compared
<1>7. DiskInv'
  <2>1. \A s \in Slug : Settled(s)'
    BY <1>1, <1>4 DEF DiskInv, Settled
  <2>2. \A s, t \in {x \in Slug : registered'[x] # NoProject} : s # t =>
          ~Clashes(registered'[s], registered'[t])
    <3>1. \A s \in {x \in Slug : registered'[x] # NoProject} :
            directory[s] # NoDir /\ registered'[s] = directory[s].bootstrap
      BY <1>1
    <3> QED BY <3>1 DEF Restart, Loads
  <2>3. Apart'
    BY <2>2 DEF Apart, Known
  <2>4. GenesisBoundOnce'
    <3>1. /\ \A s \in Slug \ unconfirmed' : surviving'[s] = {directory'[s]}
          /\ \A s \in Slug : directory'[s] = IF registered'[s] = NoProject
                                                THEN NoDir ELSE Dir(registered'[s])
      BY <2>1 DEF Settled
    <3>2. registered' \in [Slug -> Bootstraps \cup {NoProject}]
      BY <1>5 DEF TypeOK
    <3> DEFINE R == registered'
               D == directory'
               S == surviving'
               U == unconfirmed'
    <3>3. /\ R \in [Slug -> Bootstraps \cup {NoProject}]
          /\ \A x, y \in Slug : x # y /\ R[x] # NoProject /\ R[y] # NoProject => ~Clashes(R[x], R[y])
          /\ \A x \in Slug \ U : S[x] = {D[x]}
          /\ \A x \in Slug : R[x] = NoProject => D[x] = NoDir
          /\ \A x \in Slug : R[x] # NoProject => D[x] = Dir(R[x])
      BY <2>2, <3>1, <3>2
    <3> HIDE DEF Inv, R, D, S, U
    <3>4. ASSUME NEW x \in Slug \ U, NEW y \in Slug \ U, x # y,
                 NEW d \in S[x] \ {NoDir}, NEW e \in S[y] \ {NoDir}
          PROVE  /\ d.bootstrap.genesis # e.bootstrap.genesis
                 /\ ~(d.bootstrap.legacy /\ e.bootstrap.legacy)
      <4>1. d = Dir(R[x]) /\ e = Dir(R[y]) /\ ~Clashes(R[x], R[y])
        BY <3>3, <3>4
      <4> QED BY <4>1, BoundApart
    <3> QED BY <3>4 DEF GenesisBoundOnce, R, D, S, U
  <2> QED BY <1>1, <1>2, <2>1, <2>3, <2>4 DEF DiskInv
<1>8. CreatedInv'
  <2> SUFFICES ASSUME NEW b \in confirmed
               PROVE  surviving[b.slug] = {Dir(b)} /\ directory[b.slug] = Dir(b)
                      /\ registered'[b.slug] = b
    BY <1>1 DEF CreatedInv
  <2>1. b \in Bootstraps /\ b.slug \in Slug
    BY Distinct DEF TypeOK
  <2>2. surviving[b.slug] = {Dir(b)} /\ directory[b.slug] = Dir(b)
    BY DEF CreatedInv
  <2>3. registered'[b.slug] = b
    BY <1>1, <2>1, <2>2, Distinct DEF Dir
  <2> QED BY <2>2, <2>3
<1> QED BY <1>1, <1>5, <1>6, <1>7, <1>8 DEF LatchedNotReady

LEMMA InvStep == Inv /\ [Next]_vars => Inv'
<1> SUFFICES ASSUME Inv, [Next]_vars PROVE Inv'
  OBVIOUS
<1>1. CASE Next
  <2>1. ASSUME NEW w \in Worker, Work(w) PROVE Inv'
    <3>1. \/ List(w) \/ (\E s \in Slug : ListOne(w, s)) \/ Listed(w)
          \/ FindProject(w) \/ LockProject(w) \/ CommitPush(w) \/ PersistPush(w)
          \/ LookUp(w) \/ Existing(w) \/ LockMap(w) \/ LookAgain(w)
          \/ (\E s \in Slug : Scan(w, s)) \/ Scanned(w) \/ Stage(w) \/ CommitCreate(w)
          \/ Publish(w) \/ Register(w) \/ RollBack(w) \/ ConfirmRemoval(w)
      BY <2>1 DEF Work
    <3> QED BY <3>1, ReaderInv, CreatorInv, PublishInv, RegisterInv, RollBackInv, ConfirmRemovalInv
  <2> QED BY <1>1, <2>1, ReceiveInv, KillInv, PowerLossInv, RestartInv DEF Next
<1>2. CASE UNCHANGED vars
  <2>1. UNCHANGED <<registered, directory, surviving, ready, mutationsAllowed, up, pc, request,
                    todo, created, confirmed, unconfirmed>>
    BY <1>2 DEF vars, disk, flags, answered
  <2>2. TypeOK' /\ LocksInv' /\ ScanInv'
    BY <2>1 DEF Inv, TypeOK, LocksInv, ScanInv, Known, Creates, HoldsWrite, HoldsCommit
  <2>3. DiskInv'
    BY <2>1 DEF Inv, DiskInv, GenesisBoundOnce, Apart, Known, Settled, Unsettled
  <2>4. CreatedInv' /\ LatchedNotReady'
    BY <2>1 DEF Inv, CreatedInv, LatchedNotReady
  <2> QED BY <2>2, <2>3, <2>4 DEF Inv
<1> QED BY <1>1, <1>2

-----------------------------------------------------------------------------

(* The invariant holds throughout: the locks of the map and of the commits are
   each held by one worker at most. *)
THEOREM Invariant == Spec => []Inv
<1>1. Init => Inv
  BY InitInv
<1>2. Inv /\ [Next]_vars => Inv'
  BY InvStep
<1> QED BY <1>1, <1>2, PTL DEF Spec

(* The registry lists the directories that exist, bound as their files say,
   while writes are allowed (projects.rs, create and open). *)
THEOREM RegistryOnDisk == Spec => []RegistryMatchesDisk
<1>1. Inv => RegistryMatchesDisk
  BY DEF Inv, DiskInv, RegistryMatchesDisk, Settled
<1> QED BY <1>1, Invariant, PTL

(* A creation answered with 201 while writes are allowed survives any power
   loss, whether its own request made the project or found it made, unless a
   kill had left the slug unconfirmed (create).  Of a 201 answered once writes
   are off nothing is claimed: the project it names may be lost. *)
THEOREM CreationSurvives == Spec => []CreatedSurvives
<1>1. Inv => CreatedSurvives
  BY DEF Inv, CreatedInv, CreatedSurvives
<1> QED BY <1>1, Invariant, PTL

(* No power loss, not even one during a creation or a roll-back, leaves two
   projects with one genesis or two legacy projects among the slugs that no
   kill has left unconfirmed (create, open). *)
THEOREM BoundToOneProject == Spec => []GenesisBoundOnce
<1>1. Inv => GenesisBoundOnce
  BY DEF Inv, DiskInv
<1> QED BY <1>1, Invariant, PTL

(* Once storage is uncertain nothing reports the server ready again, whatever
   was under way (latch_storage_uncertain). *)
THEOREM StaysNotReady == Spec => []LatchedNotReady
<1>1. Inv => LatchedNotReady
  BY DEF Inv
<1> QED BY <1>1, Invariant, PTL

(* Outside a roll-back a power loss leaves a new project whole or absent
   at a slug that no kill has left unconfirmed (create: the staged directory
   is renamed). *)
THEOREM WholeOrAbsent == Spec => []AllOrNothing
<1>1. Inv => AllOrNothing
  <2> SUFFICES ASSUME Inv, up, mutationsAllowed, \A w \in Worker : pc[w] # "removed",
                      NEW s \in Slug \ unconfirmed, NEW d \in surviving[s]
               PROVE  d = NoDir \/ d.whole
    BY DEF AllOrNothing
  <2>1. CASE Settled(s)
    <3>1. d = NoDir \/ d = Dir(registered[s])
      BY <2>1 DEF Settled
    <3>2. Dir(registered[s]).whole
      BY DEF Dir
    <3> QED BY <3>1, <3>2
  <2>2. CASE Unsettled(s)
    <3>1. PICK w \in Worker : pc[w] = "published" /\ request[w].slug = s
      BY <2>2 DEF Unsettled
    <3>2. request[w].slug = request[w].bootstrap.slug
      BY <3>1 DEF Inv, TypeOK, Creates, Creating
    <3>3. d = NoDir \/ d = Dir(request[w].bootstrap)
      BY <3>1, <3>2 DEF Inv, DiskInv
    <3>4. Dir(request[w].bootstrap).whole
      BY DEF Dir
    <3> QED BY <3>3, <3>4
  <2> QED BY <2>1, <2>2 DEF Inv, DiskInv
<1> QED BY <1>1, Invariant, PTL
=============================================================================
