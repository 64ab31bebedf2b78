---------------------------- MODULE ProjectStore ----------------------------
(***************************************************************************)
(* The durable state of mantis-server's v2 projects: what is in memory,    *)
(* what is on disk, and the concurrent push and access-log requests that   *)
(* change both (ProjectRegistry::push and ::append_access over             *)
(* storage::persist_json_existing_observed), with kills of the process,     *)
(* power losses and restarts.                                              *)
(*                                                                         *)
(* A project has two files that change: chain.json and access-log.json.    *)
(* A request prepares a candidate for one of them under the project's      *)
(* mutex, then takes the registry's commit lock, renames the new file over *)
(* the old one, syncs the directory, and only then changes memory.  A kill *)
(* between the rename and the sync leaves a version that everybody reads   *)
(* and that a power loss may still take back: the restarted server reads   *)
(* it without syncing the project's directory.                             *)
(***************************************************************************)
EXTENDS AccessRules

CONSTANTS
  Project,
  Worker,    (* HTTP workers *)
  Op,        (* contents of a block *)
  Batch,     (* what clients send: the block and the record batches *)
  MaxChain,  (* bound: blocks after the signed checkpoint *)
  MaxLog     (* bound: access records *)

Block == [author : Key, op : Op]
Item  == [chain |-> Block, access |-> AccessRecord]
File  == {"chain", "access"}

ASSUME BatchAssumption ==
  \A f \in File : \A batch \in Batch[f] : batch \in Seq(Item[f])
ASSUME BoundAssumption == MaxChain \in Nat /\ MaxLog \in Nat

VARIABLES
  memory,     (* ProjectState of each project: its chain and access log *)
  visible,    (* what reading the file returns now *)
  surviving,  (* what the file may hold after a power loss *)
  ready,      (* ProjectRegistry.ready, what /readyz reports *)
  mutationsAllowed,
  up,         (* the process runs *)
  pc,         (* where each worker's request is *)
  request,    (* the request each worker serves *)
  acked,      (* history: the versions answered with 200 *)
  unconfirmed (* history: the projects a kill left with an unsynced rename,
                 until their directory is synced or the disk has settled *)

vars == <<memory, visible, surviving, ready, mutationsAllowed, up, pc,
          request, acked, unconfirmed>>

Version == Seq(Block) \cup Seq(AccessRecord)

NoRequest == [project |-> "none"]
Request ==
  [project : Project, file : File, base : Version, batch : Version,
   candidate : Version]  (* candidate: the new content, once prepared *)

(* The version of a file the bootstrap of a project leaves behind; the
   chain is counted from the signed initial checkpoint. *)
Initial == [chain |-> << >>, access |-> <<Bootstrap>>]

IsPrefixOf(s, t) == Len(s) <= Len(t) /\ SubSeq(t, 1, Len(s)) = s

Bound(f) == IF f = "chain" THEN MaxChain ELSE MaxLog

-----------------------------------------------------------------------------

(* Mutant: the project's mutex is released before the commit lock is taken. *)
HoldsProjectLate(w, p) ==
  pc[w] \in {"committing", "renamed"} /\ request[w].project = p

(* Which locks a worker holds follows from where it is: the project's mutex
   from the moment its request is judged, the commit lock while it writes. *)
HoldsProject(w, p) ==
  pc[w] \in {"prepared", "committing", "renamed"} /\ request[w].project = p

HoldsCommit(w) == pc[w] \in {"committing", "renamed"}

ProjectFree(p) == \A w \in Worker : ~HoldsProject(w, p)
CommitFree     == \A w \in Worker : ~HoldsCommit(w)

(* The answer is sent and every guard is dropped. *)
Answer(w) ==
  /\ pc' = [pc EXCEPT ![w] = "idle"]
  /\ request' = [request EXCEPT ![w] = NoRequest]

Init ==
  /\ memory = [p \in Project |-> Initial]
  /\ visible = memory
  /\ surviving = [p \in Project |-> [f \in File |-> {Initial[f]}]]
  /\ ready = TRUE
  /\ mutationsAllowed = TRUE
  /\ up = TRUE
  /\ pc = [w \in Worker |-> "idle"]
  /\ request = [w \in Worker |-> NoRequest]
  /\ acked = [p \in Project |-> [f \in File |-> {Initial[f]}]]
  /\ unconfirmed = {}

(* A client sends a request made against some version it has seen: the
   current one or an older one.  The first check of mutations_allowed is
   made before the project's mutex is taken. *)
Receive(w, p, f, n, batch) ==
  /\ up /\ pc[w] = "idle"
  /\ mutationsAllowed
  /\ n <= Len(memory[p][f])
  /\ n + Len(batch) <= Bound(f)
  /\ pc' = [pc EXCEPT ![w] = "received"]
  /\ request' = [request EXCEPT ![w] =
       [project |-> p, file |-> f, base |-> SubSeq(memory[p][f], 1, n),
        batch |-> batch, candidate |-> << >>]]
  /\ UNCHANGED <<memory, visible, surviving, ready, mutationsAllowed, up, acked,
                 unconfirmed>>

(* Mutant: membership is read the way the bootstrap check reads it. *)
AdmitsPastMembers(p, base, batch) ==
  /\ base = memory[p].chain
  /\ ~Archived(memory[p].access)
  /\ \A i \in DOMAIN batch : batch[i].author \in EverGranted(memory[p].access)

(* push: the base is the current head, the project is not archived, every
   author may write. *)
AdmitsPush(p, base, batch) ==
  /\ base = memory[p].chain
  /\ ~Archived(memory[p].access)
  /\ \A i \in DOMAIN batch : CanWrite(memory[p].access, batch[i].author)

(* append_access: the records are linked to the head of the log and each is
   authorized by the log up to it. *)
AdmitsAccess(p, base, batch) ==
  /\ base = memory[p].access
  /\ ValidExtension(memory[p].access, batch)

Admits(r) ==
  \/ r.file = "chain" /\ AdmitsPush(r.project, r.base, r.batch)
  \/ r.file = "access" /\ AdmitsAccess(r.project, r.base, r.batch)

(* try_extend_trusted and try_extend on a clone. *)
Candidate(r) == memory[r.project][r.file] \o r.batch

(* The candidate is built and checked under the project's mutex. *)
Prepare(w) ==
  /\ pc[w] = "received"
  /\ ProjectFree(request[w].project)
  /\ mutationsAllowed
  /\ Admits(request[w])
  /\ pc' = [pc EXCEPT ![w] = "prepared"]
  /\ request' = [request EXCEPT ![w].candidate = Candidate(request[w])]
  /\ UNCHANGED <<memory, visible, surviving, ready, mutationsAllowed, up, acked,
                 unconfirmed>>

(* 403, 409, 422, 429, 413 and 503: nothing has changed.  The rate limiter and
   the size quotas may refuse any request. *)
Reject(w) ==
  /\ pc[w] = "received"
  /\ ProjectFree(request[w].project)
  /\ Answer(w)
  /\ UNCHANGED <<memory, visible, surviving, ready, mutationsAllowed, up, acked,
                 unconfirmed>>

(* The commit lock is taken with the project's mutex held, and
   mutations_allowed is read once more under it. *)
TakeCommit(w) ==
  /\ pc[w] = "prepared"
  /\ CommitFree
  /\ mutationsAllowed
  /\ pc' = [pc EXCEPT ![w] = "committing"]
  /\ UNCHANGED <<memory, visible, surviving, ready, mutationsAllowed, up,
                 request, acked, unconfirmed>>

GiveUp(w) ==
  /\ pc[w] = "prepared"
  /\ CommitFree
  /\ ~mutationsAllowed
  /\ Answer(w)
  /\ UNCHANGED <<memory, visible, surviving, ready, mutationsAllowed, up, acked,
                 unconfirmed>>

(* persist_json_inner up to the rename.  The new name is visible at once;
   until the directory is synced a power loss may keep the old one. *)
Rename(w) ==
  LET p == request[w].project
      f == request[w].file
      v == request[w].candidate
  IN /\ pc[w] = "committing"
     /\ visible' = [visible EXCEPT ![p][f] = v]
     /\ surviving' = [surviving EXCEPT ![p][f] = @ \cup {v}]
     /\ pc' = [pc EXCEPT ![w] = "renamed"]
     /\ UNCHANGED <<memory, ready, mutationsAllowed, up, request, acked,
                    unconfirmed>>

(* PersistFailure::NotPublished: the candidate is dropped. *)
RenameFails(w) ==
  /\ pc[w] = "committing"
  /\ ready' = FALSE
  /\ Answer(w)
  /\ UNCHANGED <<memory, visible, surviving, mutationsAllowed, up, acked,
                 unconfirmed>>

(* sync_parent succeeded: memory follows the disk, 200.  The sync of the
   project's directory confirms the names of both its files. *)
Sync(w) ==
  LET p == request[w].project
      f == request[w].file
      v == request[w].candidate
  IN /\ pc[w] = "renamed"
     /\ surviving' = [surviving EXCEPT ![p] = [g \in File |-> {visible[p][g]}]]
     /\ unconfirmed' = unconfirmed \ {p}
     /\ memory' = [memory EXCEPT ![p][f] = v]
     /\ ready' = TRUE
     /\ acked' = [acked EXCEPT ![p][f] = @ \cup {v}]
     /\ Answer(w)
     /\ UNCHANGED <<visible, mutationsAllowed, up>>

latch_storage_uncertain ==
  /\ ready' = FALSE
  /\ mutationsAllowed' = FALSE

(* Mutant: the candidate on disk is not served. *)
SyncFailsKeepingOld(w) ==
  /\ pc[w] = "renamed"
  /\ latch_storage_uncertain
  /\ Answer(w)
  /\ UNCHANGED <<memory, visible, surviving, up, acked,
                 unconfirmed>>

(* PersistFailure::Published: the candidate is served, later mutations are
   refused. *)
SyncFails(w) ==
  LET p == request[w].project
      f == request[w].file
  IN /\ pc[w] = "renamed"
     /\ memory' = [memory EXCEPT ![p][f] = request[w].candidate]
     /\ latch_storage_uncertain
     /\ Answer(w)
     /\ UNCHANGED <<visible, surviving, up, acked,
                 unconfirmed>>

Survivors(f) == UNION {surviving[p][f] : p \in Project}

(* The process ends: the requests it served are gone, and so is memory, which
   is left at its last value until the next load. *)
Stop ==
  /\ up' = FALSE
  /\ pc' = [w \in Worker |-> "idle"]
  /\ request' = [w \in Worker |-> NoRequest]
  /\ UNCHANGED <<memory, ready, mutationsAllowed, acked>>

(* The process is killed, or stopped by its operator: what a reader of the
   disk finds stays, and so does what a power loss may still do to it. *)
Kill ==
  /\ up
  /\ Stop
  /\ unconfirmed' =
       {p \in Project : \E f \in File : surviving[p][f] # {visible[p][f]}}
  /\ UNCHANGED <<visible, surviving>>

(* The machine stops: each file keeps one of the versions it may have kept. *)
PowerLoss ==
  /\ Stop
  /\ visible' \in [Project -> [chain : Survivors("chain"),
                              access : Survivors("access")]]
  /\ \A p \in Project, f \in File : visible'[p][f] \in surviving[p][f]
  /\ surviving' = [p \in Project |-> [f \in File |-> {visible'[p][f]}]]
  /\ unconfirmed' = {}

(* ProjectBootstrapV1::verify, for the two files that change. *)
Verifies(chain, log) ==
  /\ Replays(log)
  /\ \A i \in DOMAIN chain : chain[i].author \in EverGranted(log)

(* ProjectRegistry::open: one project that does not verify keeps the whole
   server from starting.  The files are read as they are visible; the storage
   probe syncs the data directory and no project's, so what was unconfirmed
   stays so, and mutations are allowed again. *)
Restart ==
  /\ ~up
  /\ \A p \in Project : Verifies(visible[p].chain, visible[p].access)
  /\ up' = TRUE
  /\ memory' = visible
  /\ ready' = TRUE
  /\ mutationsAllowed' = TRUE
  /\ UNCHANGED <<visible, surviving, pc, request, acked, unconfirmed>>

Step(w) ==
  \/ \E p \in Project, f \in File :
       \E n \in 0..Len(memory[p][f]), batch \in Batch[f] :
         Receive(w, p, f, n, batch)
  \/ Prepare(w)
  \/ Reject(w)
  \/ TakeCommit(w)
  \/ GiveUp(w)
  \/ Rename(w)
  \/ RenameFails(w)
  \/ Sync(w)
  \/ SyncFails(w)

Next == Kill \/ PowerLoss \/ Restart \/ \E w \in Worker : Step(w)

Spec == Init /\ [][Next]_vars

-----------------------------------------------------------------------------

(* Every variable has its type: a file only ever holds items of its own kind,
   in memory and in whatever survives. *)
TypeOK ==
  /\ memory \in [Project -> [chain : Seq(Block), access : Seq(AccessRecord)]]
  /\ visible \in [Project -> [chain : Seq(Block), access : Seq(AccessRecord)]]
  /\ surviving \in [Project -> [chain : SUBSET Seq(Block),
                                access : SUBSET Seq(AccessRecord)]]
  /\ ready \in BOOLEAN
  /\ mutationsAllowed \in BOOLEAN
  /\ up \in BOOLEAN
  /\ acked \in [Project -> [chain : SUBSET Seq(Block),
                            access : SUBSET Seq(AccessRecord)]]
  /\ pc \in [Worker -> {"idle", "received", "prepared", "committing", "renamed"}]
  /\ request \in [Worker -> Request \cup {NoRequest}]
  /\ unconfirmed \subseteq Project

(* After an uncertain persistence outcome the server stays not ready until it
   is restarted: no request that was already under way in another project
   turns /readyz green again. *)
LatchedNotReady == up /\ ~mutationsAllowed => ~ready

(* What a reader of an idle project is served is what the disk holds; a power
   loss leaves that or an earlier part of it, never anything else.  While
   writes are allowed it leaves exactly that, unless the running server opened
   the project after a kill that came before the directory was synced, and
   has not synced it since. *)
ServedIsDurable ==
  up => \A p \in Project : ProjectFree(p) =>
    /\ visible[p] = memory[p]
    /\ \A f \in File : \A v \in surviving[p][f] : IsPrefixOf(v, memory[p][f])
    /\ mutationsAllowed /\ p \notin unconfirmed =>
         \A f \in File : surviving[p][f] = {memory[p][f]}

(* No accepted push or access update is ever lost or overwritten: whatever
   was answered with 200 is a prefix of everything the file can hold. *)
AckedSurvives ==
  \A p \in Project, f \in File :
    \A a \in acked[p][f], v \in surviving[p][f] : IsPrefixOf(a, v)

(* Whatever mixture of old and new files a power loss leaves of a project the
   running server has not opened unconfirmed, every block's author has a grant
   in the access log beside it.  A project that fails this keeps the whole
   server from starting. *)
AuthorsGranted ==
  up => \A p \in Project \ unconfirmed :
    \A c \in surviving[p].chain, l \in surviving[p].access :
      \A i \in DOMAIN c : c[i].author \in EverGranted(l)

(* Every access log a power loss can leave replays without an error. *)
AccessLogsReplay ==
  \A p \in Project : \A l \in surviving[p].access : Replays(l)

(* A block enters a project only while its author is a member and the project
   is not archived, whatever revocation or archiving runs at the same time. *)
OnlyMembersWrite ==
  [][up /\ up' => \A p \in Project :
       memory'[p].chain # memory[p].chain =>
         /\ ~Archived(memory[p].access)
         /\ \A i \in Len(memory[p].chain) + 1 .. Len(memory'[p].chain) :
              CanWrite(memory[p].access, memory'[p].chain[i].author)]_vars
=============================================================================
