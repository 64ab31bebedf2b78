--------------------------- MODULE ProjectRegistry ---------------------------
(***************************************************************************)
(* ProjectRegistry of mantis-server: the map of projects, the creation of  *)
(* a project on disk with its roll-back, and the locks that creations,     *)
(* mutations and listings take.  What a mutation writes is ProjectStore's  *)
(* subject; here it is one step that may fail the same ways.               *)
(*                                                                         *)
(* The locks: projects (RwLock over the map), one mutex per project and    *)
(* commit_lock, taken in that order.  A worker's place decides what it     *)
(* holds.  The limiter's mutex is taken and released within one step.      *)
(***************************************************************************)
EXTENDS Integers, FiniteSets

CONSTANTS
  Worker,
  Slug,
  Bootstraps,   (* signed bootstraps that verify: slug, genesis, legacy *)
  WritersFirst, (* the RwLock lets no reader pass a waiting writer *)
  MaxRequests   (* bound: requests clients send in all *)

ASSUME BootstrapAssumption ==
  \A b \in Bootstraps :
    /\ b = [slug |-> b.slug, genesis |-> b.genesis, legacy |-> b.legacy]
    /\ b.slug \in Slug /\ b.legacy \in BOOLEAN
ASSUME ParameterAssumption == WritersFirst \in BOOLEAN /\ MaxRequests \in Nat

VARIABLES
  registered,   (* ProjectRegistry.projects: what each slug is bound to *)
  directory,    (* projects/<slug> as the running system sees it *)
  surviving,    (* what projects/<slug> may be after a power loss *)
  ready, mutationsAllowed, up,
  pc, request,
  todo,         (* the projects a scan of the map has yet to lock *)
  answer,       (* the last answer of each worker *)
  unconfirmed,  (* history: the slugs a kill left unsettled on disk, until
                   projects/ is synced or the disk has settled *)
  created,      (* history: the bootstraps answered with 201 *)
  confirmed,    (* history: those answered while writes were allowed and the
                   slug was not unconfirmed *)
  sent          (* requests sent so far *)

disk == <<directory, surviving>>
flags == <<ready, mutationsAllowed, up>>
answered == <<created, confirmed>>
vars == <<registered, disk, flags, unconfirmed, pc, request, todo, answer,
          answered, sent>>

NoProject == [slug |-> "none"]
NoDir     == [whole |-> FALSE]
Dir(b)    == [bootstrap |-> b, whole |-> TRUE]
Partial(b) == [bootstrap |-> b, whole |-> FALSE]

NoRequest == [op |-> "none"]
Requests ==
  {[op |-> "create", slug |-> b.slug, bootstrap |-> b] : b \in Bootstraps}
    \cup [op : {"push", "list"}, slug : Slug]

-----------------------------------------------------------------------------

(* Mutant: create keeps the guard of its first look. *)
HoldsReadOn(w) == pc[w] \in {"found", "listing", "verified"}

HoldsRead(w) == pc[w] \in {"found", "listing"}

HoldsWrite(w) == pc[w] \in {"writing", "scanning", "staging", "staged",
                            "publishing", "published", "removed"}
HoldsProject(w, s) == pc[w] \in {"judged", "persisting"} /\ request[w].slug = s

HoldsCommit(w) == pc[w] \in {"publishing", "published", "removed", "persisting"}

Readable ==
  \A w \in Worker : ~HoldsWrite(w) /\ (WritersFirst => pc[w] # "verified")
Writable   == \A w \in Worker : ~HoldsRead(w) /\ ~HoldsWrite(w)
Free(s)    == \A w \in Worker : ~HoldsProject(w, s)
CommitFree(w) == \A v \in Worker \ {w} : ~HoldsCommit(v)

Goto(w, place) == pc' = [pc EXCEPT ![w] = place]
Answer(w, a)   == Goto(w, "idle") /\ answer' = [answer EXCEPT ![w] = a]
Known          == {s \in Slug : registered[s] # NoProject}

Init ==
  /\ registered = [s \in Slug |-> NoProject]
  /\ directory = [s \in Slug |-> NoDir]
  /\ surviving = [s \in Slug |-> {NoDir}]
  /\ ready = TRUE /\ mutationsAllowed = TRUE /\ up = TRUE
  /\ pc = [w \in Worker |-> "idle"]
  /\ request = [w \in Worker |-> NoRequest]
  /\ todo = [w \in Worker |-> {}]
  /\ answer = [w \in Worker |-> "none"]
  /\ unconfirmed = {}
  /\ created = {} /\ confirmed = {}
  /\ sent = 0

Receive(w, r) ==
  /\ up /\ pc[w] = "idle" /\ sent < MaxRequests
  /\ r.op \in {"create", "push"} => mutationsAllowed
  /\ Goto(w, "received")
  /\ request' = [request EXCEPT ![w] = r]
  /\ answer' = [answer EXCEPT ![w] = "none"]
  /\ sent' = sent + 1
  /\ UNCHANGED <<registered, disk, flags, todo, answered, unconfirmed>>

-----------------------------------------------------------------------------

(* summaries: the map is held for reading while each project is locked in
   turn. *)
List(w) ==
  /\ pc[w] = "received" /\ request[w].op = "list"
  /\ Readable
  /\ Goto(w, "listing")
  /\ todo' = [todo EXCEPT ![w] = Known]
  /\ UNCHANGED <<registered, disk, flags, request, answer, answered,
                 unconfirmed, sent>>

ListOne(w, s) ==
  /\ pc[w] = "listing" /\ s \in todo[w]
  /\ Free(s)
  /\ todo' = [todo EXCEPT ![w] = @ \ {s}]
  /\ UNCHANGED <<registered, disk, flags, pc, request, answer, answered,
                 unconfirmed, sent>>

Listed(w) ==
  /\ pc[w] = "listing" /\ todo[w] = {}
  /\ Answer(w, "listed")
  /\ UNCHANGED <<registered, disk, flags, request, todo, answered, unconfirmed,
                 sent>>

(* project(): the handle is cloned under a read lock that is dropped at once. *)
FindProject(w) ==
  /\ pc[w] = "received" /\ request[w].op = "push"
  /\ Readable
  /\ IF request[w].slug \in Known
       THEN Goto(w, "waiting") /\ UNCHANGED answer
       ELSE Answer(w, "not_found")
  /\ UNCHANGED <<registered, disk, flags, request, todo, answered, unconfirmed,
                 sent>>

(* push and append_access, up to the commit lock. *)
LockProject(w) ==
  /\ pc[w] = "waiting" /\ Free(request[w].slug)
  /\ \/ mutationsAllowed /\ Goto(w, "judged") /\ UNCHANGED answer
     \/ Answer(w, "refused")
  /\ UNCHANGED <<registered, disk, flags, request, todo, answered, unconfirmed,
                 sent>>

CommitPush(w) ==
  /\ pc[w] = "judged" /\ CommitFree(w)
  /\ IF mutationsAllowed
       THEN Goto(w, "persisting") /\ UNCHANGED answer
       ELSE Answer(w, "refused")
  /\ UNCHANGED <<registered, disk, flags, request, todo, answered, unconfirmed,
                 sent>>

PersistPush(w) ==
  /\ pc[w] = "persisting"
  /\ \/ /\ ready' = TRUE /\ UNCHANGED mutationsAllowed
        /\ Answer(w, "accepted")
     \/ /\ ready' = FALSE /\ UNCHANGED mutationsAllowed
        /\ Answer(w, "persistence_failed")
     \/ /\ ready' = FALSE /\ mutationsAllowed' = FALSE
        /\ Answer(w, "persistence_uncertain")
  /\ UNCHANGED <<registered, disk, up, request, todo, answered, unconfirmed,
                 sent>>

-----------------------------------------------------------------------------

(* create, first look: an existing slug is answered from its anchors. *)
LookUp(w) ==
  /\ pc[w] = "received" /\ request[w].op = "create"
  /\ Readable
  /\ \/ request[w].slug \in Known /\ Goto(w, "found") /\ UNCHANGED answer
     \/ request[w].slug \notin Known /\ Goto(w, "verified") /\ UNCHANGED answer
     \/ request[w].slug \notin Known /\ Answer(w, "refused")
  /\ UNCHANGED <<registered, disk, flags, request, todo, answered, unconfirmed,
                 sent>>

(* A 201 is recorded, and so is whether storage was certain when it was
   answered. *)
Record201(b) ==
  /\ created' = created \cup {b}
  /\ confirmed' = IF mutationsAllowed /\ b.slug \notin unconfirmed
                    THEN confirmed \cup {b} ELSE confirmed

(* matches_bootstrap_anchors decides between 201 and 409: the same bootstrap
   matches until the project has grown.  Nothing is asked of the disk, and at
   the first look nothing of mutations_allowed either. *)
AnswerExisting(w) ==
  LET b == request[w].bootstrap
  IN /\ Free(b.slug)
     /\ \/ registered[b.slug] = b /\ Answer(w, "created") /\ Record201(b)
        \/ Answer(w, "project_exists") /\ UNCHANGED answered

Existing(w) ==
  /\ pc[w] = "found"
  /\ AnswerExisting(w)
  /\ UNCHANGED <<registered, disk, flags, request, todo, unconfirmed, sent>>

LockMap(w) ==
  /\ pc[w] = "verified" /\ Writable
  /\ Goto(w, "writing")
  /\ UNCHANGED <<registered, disk, flags, request, todo, answer, answered,
                 unconfirmed, sent>>

(* The second look, under the write lock. *)
LookAgain(w) ==
  /\ pc[w] = "writing"
  /\ \/ ~mutationsAllowed /\ Answer(w, "refused") /\ UNCHANGED <<todo, answered>>
     \/ /\ mutationsAllowed /\ request[w].slug \in Known
        /\ AnswerExisting(w) /\ UNCHANGED todo
     \/ /\ mutationsAllowed /\ request[w].slug \notin Known
        /\ Goto(w, "scanning")
        /\ todo' = [todo EXCEPT ![w] = Known] /\ UNCHANGED <<answer, answered>>
  /\ UNCHANGED <<registered, disk, flags, request, unconfirmed, sent>>

(* Mutant: only the legacy rule is checked. *)
ClashesLegacy(b, other) == b.legacy /\ other.legacy

(* One legacy project at most, and a genesis is bound to one project. *)
Clashes(b, other) ==
  (b.legacy /\ other.legacy) \/ b.genesis = other.genesis

(* One project of the map is locked and compared.  The code goes over the map
   twice, for the legacy rule and for the genesis; the map cannot change in
   between, so one pass in any order compares the same. *)
Scan(w, s) ==
  /\ pc[w] = "scanning" /\ s \in todo[w]
  /\ Free(s)
  /\ IF Clashes(request[w].bootstrap, registered[s])
       THEN Answer(w, "refused") /\ UNCHANGED todo
       ELSE todo' = [todo EXCEPT ![w] = @ \ {s}] /\ UNCHANGED <<pc, answer>>
  /\ UNCHANGED <<registered, disk, flags, request, answered, unconfirmed, sent>>

(* The rate limiter may refuse; otherwise the four files are written and
   synced in a directory whose name open() skips. *)
Scanned(w) ==
  /\ pc[w] = "scanning" /\ todo[w] = {}
  /\ \/ Goto(w, "staging") /\ UNCHANGED answer
     \/ Answer(w, "refused")
  /\ UNCHANGED <<registered, disk, flags, request, todo, answered, unconfirmed,
                 sent>>

Stage(w) ==
  /\ pc[w] = "staging"
  /\ \/ Goto(w, "staged") /\ UNCHANGED <<ready, answer>>
     \/ ready' \in {ready, FALSE} /\ Answer(w, "persistence_failed")
  /\ UNCHANGED <<registered, disk, mutationsAllowed, up, request, todo,
                 answered, unconfirmed, sent>>

CommitCreate(w) ==
  /\ pc[w] = "staged" /\ CommitFree(w)
  /\ IF mutationsAllowed
       THEN Goto(w, "publishing") /\ UNCHANGED answer
       ELSE Answer(w, "refused")
  /\ UNCHANGED <<registered, disk, flags, request, todo, answered, unconfirmed,
                 sent>>

-----------------------------------------------------------------------------

latch_storage_uncertain == ready' = FALSE /\ mutationsAllowed' = FALSE

(* The staged directory is renamed to projects/<slug>, which fails on a
   directory with files: visible at once, on disk for certain only when
   projects/ has been synced. *)
Publish(w) ==
  LET b == request[w].bootstrap
  IN /\ pc[w] = "publishing"
     /\ \/ /\ directory[b.slug] = NoDir
           /\ directory' = [directory EXCEPT ![b.slug] = Dir(b)]
           /\ surviving' = [surviving EXCEPT ![b.slug] = @ \cup {Dir(b)}]
           /\ Goto(w, "published") /\ UNCHANGED <<ready, answer>>
        \/ /\ ready' = FALSE /\ Answer(w, "persistence_failed")
           /\ UNCHANGED disk
     /\ UNCHANGED <<registered, mutationsAllowed, up, request, todo, answered, unconfirmed,
                 sent>>

(* Mutant: 201 is answered whether or not projects/ could be synced. *)
RegisterUnsynced(w) ==
  LET b == request[w].bootstrap
  IN /\ pc[w] = "published"
     /\ registered' = [registered EXCEPT ![b.slug] = b]
     /\ ready' = TRUE
     /\ created' = created \cup {b} /\ confirmed' = confirmed \cup {b}
     /\ Answer(w, "created")
     /\ UNCHANGED <<disk, mutationsAllowed, up, unconfirmed, request, todo, sent>>

(* A sync of projects/ confirms which of its names are there, the others'
   with the one it is made for; what is in a directory it says nothing of. *)
SyncNames(s, settled) ==
  /\ surviving' = [t \in Slug |->
       IF t = s THEN {settled}
       ELSE {d \in surviving[t] : d = NoDir <=> directory[t] = NoDir}]
  /\ unconfirmed' =
       {t \in unconfirmed \ {s} : surviving'[t] # {directory[t]}}

Register(w) ==
  LET b == request[w].bootstrap
  IN /\ pc[w] = "published"
     /\ SyncNames(b.slug, Dir(b))
     /\ registered' = [registered EXCEPT ![b.slug] = b]
     /\ ready' = TRUE
     /\ created' = created \cup {b} /\ confirmed' = confirmed \cup {b}
     /\ Answer(w, "created")
     /\ UNCHANGED <<directory, mutationsAllowed, up, request, todo, sent>>

(* Mutant: a directory that could not be removed is ignored. *)
RollBackQuietly(w) ==
  LET b == request[w].bootstrap
  IN /\ pc[w] = "published"
     /\ \/ /\ directory' = [directory EXCEPT ![b.slug] = NoDir]
           /\ Goto(w, "removed") /\ UNCHANGED <<ready, answer>>
        \/ /\ ready' = FALSE /\ Answer(w, "persistence_failed")
           /\ UNCHANGED directory
     /\ surviving' = [surviving EXCEPT ![b.slug] = @ \cup {Partial(b)}]
     /\ UNCHANGED <<registered, mutationsAllowed, up, request, todo, answered, unconfirmed,
                 sent>>

(* projects/ could not be synced and the directory is removed again, which
   may fail after some of its files are gone: then it is registered, for it is
   still there, and writes stop. *)
RollBack(w) ==
  LET b == request[w].bootstrap
  IN /\ pc[w] = "published"
     /\ \/ /\ directory' = [directory EXCEPT ![b.slug] = NoDir]
           /\ Goto(w, "removed")
           /\ UNCHANGED <<registered, ready, mutationsAllowed, answer>>
        \/ /\ \E d \in {Dir(b), Partial(b)} :
                directory' = [directory EXCEPT ![b.slug] = d]
           /\ registered' = [registered EXCEPT ![b.slug] = b]
           /\ latch_storage_uncertain
           /\ Answer(w, "persistence_uncertain")
     /\ surviving' = [surviving EXCEPT ![b.slug] = @ \cup {Partial(b)}]
     /\ UNCHANGED <<up, request, todo, answered, unconfirmed,
                 sent>>

(* The removal is synced too; if that fails nothing is registered, for the
   directory is no longer there, but writes stop. *)
ConfirmRemoval(w) ==
  /\ pc[w] = "removed"
  /\ \/ /\ SyncNames(request[w].slug, NoDir)
        /\ ready' = FALSE /\ UNCHANGED mutationsAllowed
        /\ Answer(w, "persistence_failed")
     \/ /\ latch_storage_uncertain
        /\ Answer(w, "persistence_uncertain")
        /\ UNCHANGED <<surviving, unconfirmed>>
  /\ UNCHANGED <<registered, directory, up, request, todo, answered, sent>>

-----------------------------------------------------------------------------

(* The process ends, and with it its map and every request. *)
Stop ==
  /\ up' = FALSE
  /\ registered' = [s \in Slug |-> NoProject]
  /\ pc' = [w \in Worker |-> "idle"]
  /\ request' = [w \in Worker |-> NoRequest]
  /\ todo' = [w \in Worker |-> {}]
  /\ answer' = [w \in Worker |-> "none"]
  /\ UNCHANGED <<ready, mutationsAllowed, answered, sent>>

(* The process is killed, or stopped by its operator: projects/ stays as it
   is seen, and as open to a power loss as it was. *)
Kill ==
  /\ up
  /\ Stop
  /\ unconfirmed' = {s \in Slug : surviving[s] # {directory[s]}}
  /\ UNCHANGED disk

PowerLoss ==
  /\ Stop
  /\ \E now \in [Slug -> UNION {surviving[s] : s \in Slug}] :
       /\ \A s \in Slug : now[s] \in surviving[s]
       /\ directory' = now
       /\ surviving' = [s \in Slug |-> {now[s]}]
  /\ unconfirmed' = {}

(* open: every directory of projects/ has to load, and the same rules hold
   across them as for a creation.  projects/ itself is not synced. *)
Loads ==
  /\ \A s \in Slug : directory[s] = NoDir \/ directory[s].whole
  /\ \A s, t \in Slug :
       s # t /\ directory[s] # NoDir /\ directory[t] # NoDir =>
         ~Clashes(directory[s].bootstrap, directory[t].bootstrap)

Restart ==
  /\ ~up /\ Loads
  /\ up' = TRUE /\ ready' = TRUE /\ mutationsAllowed' = TRUE
  /\ registered' = [s \in Slug |-> IF directory[s] = NoDir
                                     THEN NoProject ELSE directory[s].bootstrap]
  /\ UNCHANGED <<disk, pc, request, todo, answer, answered,
                 unconfirmed, sent>>

Work(w) ==
  \/ List(w) \/ (\E s \in Slug : ListOne(w, s)) \/ Listed(w)
  \/ FindProject(w) \/ LockProject(w) \/ CommitPush(w) \/ PersistPush(w)
  \/ LookUp(w) \/ Existing(w) \/ LockMap(w) \/ LookAgain(w)
  \/ (\E s \in Slug : Scan(w, s)) \/ Scanned(w) \/ Stage(w)
  \/ CommitCreate(w) \/ Publish(w) \/ Register(w) \/ RollBack(w)
  \/ ConfirmRemoval(w)

Next ==
  \/ \E w \in Worker : Work(w) \/ \E r \in Requests : Receive(w, r)
  \/ Kill
  \/ PowerLoss
  \/ Restart

Spec == Init /\ [][Next]_vars

(* The scheduler runs every worker that is not blocked. *)
FairSpec == Spec /\ \A w \in Worker : WF_vars(Work(w))

-----------------------------------------------------------------------------

Unsettled(s) ==
  \E w \in Worker : pc[w] \in {"published", "removed"} /\ request[w].slug = s

(* While writes are allowed, the registry lists exactly the directories that
   exist, bound as their files say.  In particular create's branch for a
   directory that exists outside the registry has nothing to recover. *)
RegistryMatchesDisk ==
  up /\ mutationsAllowed => \A s \in Slug : ~Unsettled(s) =>
    directory[s] = IF registered[s] = NoProject THEN NoDir ELSE Dir(registered[s])

(* A 201 answered while writes were allowed, for a project that no kill has
   left unconfirmed, is never undone, in whole or in part. *)
CreatedSurvives == \A b \in confirmed : surviving[b.slug] = {Dir(b)}

(* What the project's own documentation says of every success: it is answered
   after durable persistence, so no 201 is ever undone. *)
SuccessIsDurable == \A b \in created : surviving[b.slug] = {Dir(b)}

(* Outside a roll-back, a power loss leaves a new project complete or absent;
   only a roll-back cut short leaves a directory the server cannot load. *)
AllOrNothing ==
  up /\ mutationsAllowed /\ (\A w \in Worker : pc[w] # "removed") =>
    \A s \in Slug \ unconfirmed : \A d \in surviving[s] : d = NoDir \/ d.whole

(* No power loss leaves two projects bound to one chain genesis, or two legacy
   projects: the server would not start again.  A slug that a kill left
   unconfirmed is excepted: it may be absent now and back after a power loss. *)
GenesisBoundOnce ==
  up => \A s, t \in Slug \ unconfirmed : s # t =>
    \A d \in surviving[s] \ {NoDir}, e \in surviving[t] \ {NoDir} :
      /\ d.bootstrap.genesis # e.bootstrap.genesis
      /\ ~(d.bootstrap.legacy /\ e.bootstrap.legacy)

(* Neither a creation nor a mutation under way when storage became uncertain
   reports the server ready again. *)
LatchedNotReady == up /\ ~mutationsAllowed => ~ready

(* Every request is answered: the locks are taken in an order in which no two
   workers wait for each other. *)
EveryRequestAnswered ==
  \A w \in Worker : pc[w] # "idle" ~> pc[w] = "idle"
=============================================================================
