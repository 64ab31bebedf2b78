--------------------------- MODULE Administration ---------------------------
(***************************************************************************)
(* mantis-admin: one command at a time, run by an operator against servers *)
(* that other people push to, or against the data directory of a server    *)
(* that is stopped.  A command dies with its process or with the power, a  *)
(* file operation fails, and the answer to a request may not come.         *)
(*                                                                         *)
(* A hash covers all that precedes it, so a head is written as the history *)
(* that leads to it.  AccessRules says what an access log means.           *)
(***************************************************************************)
EXTENDS AccessRules, FiniteSets

CONSTANTS
  Server,       \* servers that run
  Initial,      \* the projects they may hold at the start
  Action,       \* the access actions administrators ask for
  Slug,         \* names of projects to migrate to
  InitialDirs,  \* the project directories of the stopped server at the start
  PageItems,    \* blocks or records in a page
  MaxBlocks,    \* bound on the length of a history
  MaxRecords,   \* bound on the length of an access log
  MaxCommands,  \* bound on the commands that are run
  MaxLate       \* bound on the requests given up and still on their way

ASSUME BoundsAssumption ==
  /\ PageItems \in Nat \ {0}
  /\ {MaxBlocks, MaxRecords, MaxCommands, MaxLate} \subseteq Nat

VARIABLES
  project,  \* what each server holds
  held,     \* everything a server ever held
  noted,    \* the heads the operator wrote down at a checkpoint
  late,     \* requests given up by the tool that may still arrive
  restored, \* the servers an import was reported for
  run,      \* the command that runs
  asked,    \* the number of commands so far
  out,      \* the file at the path given by --out
  dir,      \* the project directories of the stopped server
  above     \* the directories above out, and above and of its data directory

servers == <<project, held, noted, late, restored>>
vars == <<servers, run, asked, out, dir, above>>

-----------------------------------------------------------------------------

Absent == [kind |-> "absent"]
Missing == [id |-> "missing"]
Path == [out : {"settled", "made", "missing"}, data : {"settled", "made", "missing"}]
Unnoted == [blocks |-> << >>, log |-> << >>]

(* A project as its server serves it: who made it, the length it was
   created with, its blocks by the server and the author they came from,
   and its access log. *)
IsProject(p) == p # Missing
Block(s, k) == [at |-> s, by |-> k]
Fresh(n, s, blocks) ==
  [id |-> <<s, n>>, initial |-> Len(blocks), blocks |-> blocks,
   log |-> <<Bootstrap>>]
Projects ==
  [id : Server \X Nat, initial : Nat, blocks : Seq([at : Server, by : Key]),
   log : Seq(AccessRecord)]

(* ProjectBootstrapV1::verify: the log replays, and whoever wrote after the
   bootstrap was a member at some time. *)
BootstrapVerifies(b) ==
  /\ IsProject(b) /\ b.initial \in 1..Len(b.blocks)
  /\ Replays(b.log)
  /\ \A i \in b.initial + 1..Len(b.blocks) : b.blocks[i].by \in EverGranted(b.log)

(* A file or a directory entry: what is seen there, what a loss of power may
   leave there, and what the last command that ended said is there. *)
Entry == [seen |-> Absent, kept |-> {Absent}, said |-> "nothing"]
Confirmed(e) == [e EXCEPT !.kept = {e.seen}]
Becomes(e, c) == [e EXCEPT !.seen = c, !.kept = @ \cup {c}, !.said = "nothing"]
Says(e, word) == [e EXCEPT !.said = word]

(* create_dir_all makes the directories above an entry that are missing, and
   nobody syncs the ones their names are in: until another program does, a
   loss of power may take them with all they hold. *)
Founded(path, word) == IF path = "settled" THEN word ELSE "unfounded"
MayLeave(e, path) == IF path = "settled" THEN e.kept ELSE e.kept \cup {Absent}

File == {"project-create", "manifest", "chain", "access-log"}
Directory(legacy, files) == [kind |-> "directory", legacy |-> legacy, files |-> files]
Whole(legacy) == Directory(legacy, File)
Partial(legacy) == {Directory(legacy, F) : F \in SUBSET File}

ASSUME InitialAssumption ==
  /\ \A projects \in Initial : projects \in [Server -> Projects \cup {Missing}]
  /\ \A a \in Action : [actor |-> CreatedBy, action |-> a] \in AccessRecord
  /\ \A dirs \in InitialDirs :
       /\ dirs = [g \in Slug |-> Confirmed(Becomes(Entry, dirs[g].seen))]
       /\ \A g \in Slug : dirs[g].seen \in {Absent} \cup Partial(TRUE) \cup Partial(FALSE)

Idle ==
  [cmd |-> "none", step |-> "none", to |-> "none", action |-> "none", as |-> "none",
   info |-> Missing, blocks |-> << >>, log |-> << >>, body |-> Absent]

At(cmd, step) == run.cmd = cmd /\ run.step = step
Go(step) == run' = [run EXCEPT !.step = step]
Return == run' = Idle

Begin(r) ==
  /\ run = Idle /\ asked < MaxCommands
  /\ asked' = asked + 1
  /\ run' = r

-----------------------------------------------------------------------------
(* Requests.  Each is answered under the project's lock, so an answer is    *)
(* the project at one moment.                                               *)

(* POST /api/v2/projects. *)
Creates(s, p) ==
  IF ~IsProject(project[s])
  THEN BootstrapVerifies(p) /\ project' = [project EXCEPT ![s] = p]
  ELSE project[s] = p /\ UNCHANGED project

(* POST .../access-log: the record continues the log its sender read. *)
Appends(s, seen, record) ==
  /\ IsProject(project[s]) /\ project[s].log = seen
  /\ Authorized(seen, record)
  /\ Len(seen) < MaxRecords
  /\ project' = [project EXCEPT ![s].log = Append(@, record)]

Processed(m) ==
  IF m.kind = "create" THEN Creates(m.to, m.project)
                       ELSE Appends(m.to, m.log, m.record)

Holding == held' = held \cup {project'[s] : s \in Server}

CreateRequest(s, p) == [kind |-> "create", to |-> s, project |-> p]
AppendRequest(s, log, r) == [kind |-> "append", to |-> s, log |-> log, record |-> r]

(* What the operator is told once a request succeeded. *)
Success ==
  restored' = IF run.cmd = "import" THEN restored \cup {run.to} ELSE restored

Posting == run.step = "post"

Answered ==
  /\ Posting /\ Processed(run.body) /\ Holding
  /\ Success /\ Return
  /\ UNCHANGED <<noted, late, asked, out, dir, above>>

(* Refused, or the connection failed before the request was taken. *)
RefusedOrUnsent ==
  /\ Posting /\ Return
  /\ UNCHANGED <<servers, asked, out, dir, above>>

(* The request arrived and its answer did not, or it is still on its way
   when the tool gives up after HTTP_TIMEOUT. *)
Unanswered ==
  /\ Posting /\ Processed(run.body) /\ Holding /\ Return
  /\ UNCHANGED <<noted, late, restored, asked, out, dir, above>>

TimesOut ==
  /\ Posting /\ Cardinality(late) < MaxLate
  /\ late' = late \cup {run.body}
  /\ Return
  /\ UNCHANGED <<project, held, noted, restored, asked, out, dir, above>>

Arrives ==
  \E m \in late :
    /\ late' = late \ {m}
    /\ Processed(m) \/ UNCHANGED project
    /\ Holding
    /\ UNCHANGED <<noted, restored, run, asked, out, dir, above>>

(* Members push to a server. *)
OtherPush ==
  \E s \in Server, k \in Key :
    /\ IsProject(project[s]) /\ Len(project[s].blocks) < MaxBlocks
    /\ CanWrite(project[s].log, k) /\ ~Archived(project[s].log)
    /\ project' = [project EXCEPT ![s].blocks = Append(@, Block(s, k))]
    /\ Holding
    /\ UNCHANGED <<noted, late, restored, run, asked, out, dir, above>>

(* Another administrator's command. *)
OtherAccess ==
  \E s \in Server, k \in Key, a \in Action :
    /\ IsProject(project[s])
    /\ Appends(s, project[s].log, [actor |-> k, action |-> a])
    /\ Holding
    /\ UNCHANGED <<noted, late, restored, run, asked, out, dir, above>>

(* The operator records both heads out of band. *)
NoteHeads ==
  \E s \in Server :
    /\ run = Idle /\ IsProject(project[s]) /\ restored = {}
    /\ noted' = [blocks |-> project[s].blocks, log |-> project[s].log]
    /\ UNCHANGED <<project, held, late, restored, run, asked, out, dir, above>>

-----------------------------------------------------------------------------
(* project create, rename, archive, unarchive; member add and remove.       *)

(* A new project, empty or with the chain of a workspace. *)
CreateProject ==
  \E s \in Server, n \in 1..MaxBlocks :
    /\ Begin([Idle EXCEPT
         !.cmd = "create", !.step = "post", !.to = s,
         !.body = CreateRequest(s, Fresh(asked, s, [i \in 1..n |-> Block(s, CreatedBy)]))])
    /\ UNCHANGED <<servers, out, dir, above>>

AccessCommand ==
  \E s \in Server, k \in Key, a \in Action :
    /\ Begin([Idle EXCEPT !.cmd = "access", !.step = "info", !.to = s,
                          !.as = k, !.action = a])
    /\ UNCHANGED <<servers, out, dir, above>>

(* project_access_action: the record is signed for the log info described. *)
SignRecord ==
  /\ At("access", "info") /\ IsProject(project[run.to])
  /\ run' = [run EXCEPT
       !.step = "post",
       !.body = AppendRequest(run.to, project[run.to].log,
                              [actor |-> run.as, action |-> run.action])]
  /\ UNCHANGED <<servers, asked, out, dir, above>>

-----------------------------------------------------------------------------
(* project export, verify and import.                                       *)

StartExport ==
  \E s \in Server :
    /\ Begin([Idle EXCEPT !.cmd = "export", !.step = "info", !.to = s])
    /\ UNCHANGED <<servers, out, dir, above>>

ReadInfo ==
  /\ At("export", "info") /\ IsProject(project[run.to])
  /\ run' = [run EXCEPT !.step = "blocks", !.info = project[run.to]]
  /\ UNCHANGED <<servers, asked, out, dir, above>>

(* A page from a cursor, with the state of the whole history it is from. *)
Page(items, from) ==
  LET end == IF from + PageItems < Len(items) THEN from + PageItems ELSE Len(items)
  IN [items |-> SubSeq(items, from + 1, end), more |-> end < Len(items),
      state |-> items]

(* validate_page_cursor: the page ends within the frozen history, and at its
   end when no other follows. *)
PageFits(page, from, frozen) ==
  LET end == from + Len(page.items)
  IN /\ page.state = frozen
     /\ end <= Len(frozen)
     /\ IF page.more THEN end > from /\ end < Len(frozen) ELSE end = Len(frozen)

WithBlocks(r, page) ==
  [r EXCEPT !.blocks = @ \o page.items, !.step = IF page.more THEN "blocks" ELSE "log"]
WithRecords(r, page) ==
  [r EXCEPT !.log = @ \o page.items, !.step = IF page.more THEN "log" ELSE "verify"]

RecordsOfNow(r, page) ==
  WithRecords([r EXCEPT !.info.log = page.state], page)

(* What the command becomes with the next page, or the failed command. *)
TakeBlocks(r, page) ==
  IF PageFits(page, Len(r.blocks), r.info.blocks) THEN WithBlocks(r, page) ELSE Idle

TakeRecords(r, page) ==
  IF PageFits(page, Len(r.log), r.info.log) THEN WithRecords(r, page) ELSE Idle

ReadPage ==
  /\ \/ /\ At("export", "blocks")
        /\ run' = TakeBlocks(run, Page(project[run.to].blocks, Len(run.blocks)))
     \/ /\ At("export", "log")
        /\ run' = TakeRecords(run, Page(project[run.to].log, Len(run.log)))
  /\ UNCHANGED <<servers, asked, out, dir, above>>

ExportFile(info, blocks, log) ==
  [kind |-> "export", info |-> info,
   bootstrap |-> [info EXCEPT !.blocks = blocks, !.log = log]]

(* verify_export: the bootstrap verifies and the summaries are of its ledgers. *)
VerifyExport(e) ==
  /\ e.kind = "export" /\ BootstrapVerifies(e.bootstrap)
  /\ e.bootstrap.blocks = e.info.blocks /\ e.bootstrap.log = e.info.log

VerifyAndWrite ==
  /\ At("export", "verify")
  /\ LET e == ExportFile(run.info, run.blocks, run.log) IN
       run' = IF VerifyExport(e) THEN [run EXCEPT !.step = "write", !.body = e]
                                 ELSE Idle
  /\ UNCHANGED <<servers, asked, out, dir, above>>

(* verify_expected_anchors with both heads required. *)
Anchored(e) == e.info.blocks = noted.blocks /\ e.info.log = noted.log

Import ==
  \E s \in Server :
    /\ VerifyExport(out.seen) /\ Anchored(out.seen)
    /\ Begin([Idle EXCEPT !.cmd = "import", !.step = "post", !.to = s,
                          !.body = CreateRequest(s, out.seen.bootstrap)])
    /\ UNCHANGED <<servers, out, dir, above>>

-----------------------------------------------------------------------------
(* write_new: a temporary file that is synced, a hard link to the path, the *)
(* temporary file removed, the directory synced.  identity generate writes  *)
(* a key with it, export its file.                                          *)

GenerateIdentity ==
  /\ Begin([Idle EXCEPT !.cmd = "generate", !.step = "write",
                        !.body = [kind |-> "key", id |-> asked]])
  /\ UNCHANGED <<servers, out, dir, above>>

MakeParents ==
  /\ run.step = "write" /\ above.out = "missing"
  /\ above' = [above EXCEPT !.out = "made"]
  /\ UNCHANGED <<servers, run, asked, out, dir>>

Link ==
  /\ run.step = "write" /\ above.out # "missing" /\ out.seen = Absent
  /\ out' = Becomes(out, run.body)
  /\ Go("linked")
  /\ UNCHANGED <<servers, asked, dir, above>>

(* The directories cannot be made, the temporary file cannot be written
   or linked, or the path is taken. *)
LinkFails ==
  /\ run.step = "write" /\ Return
  /\ UNCHANGED <<servers, asked, out, dir, above>>

(* The last directory of the path is synced, and no other. *)
SyncParent ==
  /\ run.step = "linked"
  /\ out' = Says(Confirmed(out), Founded(above.out, "written"))
  /\ Return
  /\ UNCHANGED <<servers, asked, dir, above>>

(* The temporary file is not removed, or the directory not synced:
   rollback_new_file. *)
RollBack ==
  /\ run.step = "linked"
  /\ \/ out' = Becomes(out, Absent) /\ Go("unlinked")
     \/ UNCHANGED out /\ Return
  /\ UNCHANGED <<servers, asked, dir, above>>

SyncRemoved ==
  /\ run.step = "unlinked"
  /\ \/ out' = IF out.seen = Absent THEN Says(Confirmed(out), "absent")
                                     ELSE Confirmed(out)
     \/ UNCHANGED out
  /\ Return
  /\ UNCHANGED <<servers, asked, dir, above>>

(* Another program puts a file at the path and syncs it with the directories
   above it, or takes away a file that no command is writing. *)
OtherFile ==
  /\ run.step # "linked"
  /\ \/ /\ out.seen = Absent
        /\ out' = Says(Confirmed(Becomes(out, [kind |-> "other"])), "other")
        /\ above' = [above EXCEPT !.out = "settled"]
     \/ out.seen # Absent /\ out' = Confirmed(Becomes(out, Absent)) /\ UNCHANGED above
  /\ UNCHANGED <<servers, run, asked, dir>>

-----------------------------------------------------------------------------
(* migrate-single-chain.                                                    *)

Visible == {g \in Slug : dir[g].seen # Absent}

ReadableProjects == \A g \in Visible : "manifest" \in dir[g].seen.files

(* reject_existing_legacy_project: each directory's manifest is read. *)
NoLegacyProject ==
  \A g \in Visible : "manifest" \in dir[g].seen.files /\ ~dir[g].seen.legacy

(* The data directory is made when it is missing, and synced for the name of
   the directory of the projects in it. *)
Migrate ==
  \E g \in Slug :
    /\ Begin([Idle EXCEPT !.cmd = "migrate", !.step = "stage", !.to = g])
    /\ NoLegacyProject /\ dir[g].seen = Absent
    /\ above' = [above EXCEPT !.data = IF @ = "missing" THEN "made" ELSE @]
    /\ UNCHANGED <<servers, out, dir>>

(* The four files are written into a staging directory nobody reads, which
   is removed when one fails. *)
StagingFails ==
  /\ At("migrate", "stage") /\ Return
  /\ UNCHANGED <<servers, asked, out, dir, above>>

PublishDirectory ==
  /\ At("migrate", "stage")
  /\ dir' = [dir EXCEPT ![run.to] = Becomes(@, Whole(TRUE))]
  /\ Go("published")
  /\ UNCHANGED <<servers, asked, out, above>>

(* One sync of the projects directory confirms every name in it. *)
SyncedDirs == [g \in Slug |-> Confirmed(dir[g])]

SyncProjects ==
  /\ At("migrate", "published")
  /\ dir' = [SyncedDirs EXCEPT ![run.to] = Says(@, Founded(above.data, "migrated"))]
  /\ Return
  /\ UNCHANGED <<servers, asked, out, above>>

(* remove_dir_all takes the files away one by one, and may fail between. *)
RemoveDirectory ==
  /\ At("migrate", "published")
  /\ LET g == run.to
         gone == [dir[g] EXCEPT !.seen = Absent, !.kept = @ \cup Partial(TRUE) \cup {Absent}]
     IN \/ dir' = [dir EXCEPT ![g] = gone] /\ Go("removed")
        \/ /\ \E c \in Partial(TRUE) : dir' = [dir EXCEPT ![g] = [gone EXCEPT !.seen = c]]
           /\ Return
  /\ UNCHANGED <<servers, asked, out, above>>

RemovedWithoutSync ==
  /\ At("migrate", "removed")
  /\ dir' = [dir EXCEPT ![run.to] = Says(@, "absent")]
  /\ Return
  /\ UNCHANGED <<servers, asked, out, above>>

SyncRemovedDirectory ==
  /\ At("migrate", "removed")
  /\ dir' = [SyncedDirs EXCEPT ![run.to] = Says(@, "absent")] \/ UNCHANGED dir
  /\ Return
  /\ UNCHANGED <<servers, asked, out, above>>

-----------------------------------------------------------------------------
(* The process is killed, or the machine loses its power.                   *)

Killed ==
  /\ run # Idle /\ Return
  /\ UNCHANGED <<servers, asked, out, dir, above>>

Left(e, c) == [e EXCEPT !.seen = c, !.kept = {c}]

(* A path that was made is there afterwards, and then it stays, or it is not,
   and nothing is in it. *)
Survives(path, to) == to = IF path = "made" THEN "settled" ELSE path
Vanishes(path, to) == path = "made" /\ to = "missing"

PowerLoss ==
  \E to \in Path :
    /\ above' = to
    /\ \/ Survives(above.out, to.out) /\ \E c \in out.kept : out' = Left(out, c)
       \/ Vanishes(above.out, to.out) /\ out' = Entry
    /\ \/ /\ Survives(above.data, to.data)
          /\ \E left \in [Slug -> UNION {dir[g].kept : g \in Slug}] :
               /\ \A g \in Slug : left[g] \in dir[g].kept
               /\ dir' = [g \in Slug |-> Left(dir[g], left[g])]
       \/ Vanishes(above.data, to.data) /\ dir' = [g \in Slug |-> Entry]
    /\ Return
    /\ UNCHANGED <<servers, asked>>

-----------------------------------------------------------------------------

Init ==
  /\ project \in Initial /\ held = {project[s] : s \in Server}
  /\ noted = Unnoted /\ late = {} /\ restored = {}
  /\ run = Idle /\ asked = 0 /\ out = Entry /\ dir \in InitialDirs
  /\ above \in [out : {"settled", "missing"}, data : {"settled", "missing"}]
  /\ above.data = "missing" => \A g \in Slug : dir[g] = Entry

Next ==
  \/ Answered \/ RefusedOrUnsent \/ Unanswered \/ TimesOut \/ Arrives
  \/ OtherPush \/ OtherAccess \/ NoteHeads
  \/ CreateProject \/ AccessCommand \/ SignRecord
  \/ StartExport \/ ReadInfo \/ ReadPage \/ VerifyAndWrite \/ Import
  \/ GenerateIdentity \/ MakeParents \/ Link \/ LinkFails \/ SyncParent \/ RollBack
  \/ SyncRemoved \/ OtherFile
  \/ Migrate \/ StagingFails \/ PublishDirectory \/ SyncProjects
  \/ RemoveDirectory \/ SyncRemovedDirectory
  \/ Killed \/ PowerLoss

Spec == Init /\ [][Next]_vars

-----------------------------------------------------------------------------
(* Properties.                                                              *)

(* What a command reported is there after any loss of power, when it did not
   have to make the directories it is in: a key or an export is at its path
   and a migrated project is whole.  A failure whose rollback did not fail
   left nothing, and a file that others put at the path is neither replaced
   nor removed (write_new, persist_migrated_project). *)
ReportedIsThere ==
  /\ out.said = "written" => MayLeave(out, above.out) = {out.seen} /\ out.seen # Absent
  /\ out.said = "other" => MayLeave(out, above.out) = {[kind |-> "other"]}
  /\ out.said = "absent" => MayLeave(out, above.out) = {Absent}
  /\ \A g \in Slug :
       /\ dir[g].said = "migrated" => MayLeave(dir[g], above.data) = {Whole(TRUE)}
       /\ dir[g].said = "absent" => MayLeave(dir[g], above.data) = {Absent}

(* Once a migration is reported, the server will find that legacy project
   and no other, whatever commands failed before it
   (reject_existing_legacy_project). *)
LegacyIsAlone ==
  \A g, h \in Slug :
    dir[g].said \in {"migrated", "unfounded"} /\ h # g =>
      \A c \in dir[h].kept : c = Absent \/ ~c.legacy

(* The chain and the access log of an exported file were the project's at one
   moment, although they were read page by page while others pushed and
   changed the membership; and a server accepts the file (export_project). *)
ExportIsASnapshot ==
  out.seen.kind = "export" =>
    out.seen.bootstrap \in held /\ BootstrapVerifies(out.seen.bootstrap)

=============================================================================
