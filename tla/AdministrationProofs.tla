------------------------ MODULE AdministrationProofs ------------------------
(***************************************************************************)
(* What is proved of Administration for any servers, projects, directories *)
(* and sizes of pages.                                                     *)
(*                                                                         *)
(* A file at --out is told to be there when it cannot be undone any more;  *)
(* so for everything a power loss may leave there, it holds that an export *)
(* is a project some server held (OutInv).  While a migration runs no      *)
(* other directory is a legacy project, and none was reported (MigrateInv),*)
(* which is what makes the one that is reported the only one.              *)
(***************************************************************************)
EXTENDS Administration, TLAPS

Blocks == Seq([at : Server, by : Key])
Log == Seq(AccessRecord)
Exports == [kind : {"export"}, info : Projects, bootstrap : Projects]
Keys == [kind : {"key"}, id : Nat]
Other == [kind |-> "other"]
Contents == {Absent, Other} \cup Exports \cup Keys
Requests ==
  [kind : {"create"}, to : Server, project : Projects]
  \cup [kind : {"append"}, to : Server, log : Log, record : AccessRecord]
Directories == {Absent} \cup Partial(TRUE) \cup Partial(FALSE)

Runs ==
  [cmd : {"none", "create", "access", "export", "import", "generate", "migrate"},
   step : {"none", "post", "info", "blocks", "log", "verify", "write", "linked",
           "unlinked", "stage", "published", "removed"},
   to : Server \cup Slug \cup {"none"}, action : Action \cup {"none"},
   as : Key \cup {"none"}, info : Projects \cup {Missing}, blocks : Blocks, log : Log,
   body : Requests \cup Exports \cup Keys \cup {Absent}]

(* An exported file is a project that was held, and verifies. *)
Snapshot(c) ==
  c.kind = "export" => c.bootstrap \in held /\ BootstrapVerifies(c.bootstrap)

ServersInv ==
  /\ project \in [Server -> Projects \cup {Missing}]
  /\ held \subseteq Projects \cup {Missing}
  /\ noted \in [blocks : Blocks, log : Log]
  /\ late \subseteq Requests
  /\ restored \subseteq Server
  /\ \A s \in Server : project[s] \in held

(* What the command posts or writes, and what it read. *)
RunInv ==
  /\ run \in Runs /\ asked \in Nat
  /\ run.step = "post" => run.body \in Requests
  /\ run.step \in {"write", "linked"} => run.body \in Exports \cup Keys /\ Snapshot(run.body)
  /\ run.step = "linked" => out.seen = run.body
  /\ run.cmd \in {"access", "export", "import"} => run.to \in Server
  /\ At("access", "info") => run.as \in Key /\ run.action \in Action
  /\ run.cmd = "export" /\ run.step \in {"blocks", "log", "verify"} =>
       run.info \in Projects /\ run.info \in held

(* What the path given by --out holds, may hold, and was reported to hold. *)
OutInv ==
  /\ out \in [seen : Contents, kept : SUBSET Contents,
              said : {"nothing", "written", "unfounded", "other", "absent"}]
  /\ out.seen \in out.kept
  /\ out.said = "written" => out.kept = {out.seen} /\ out.seen # Absent
  /\ out.said = "other" => out.kept = {Other}
  /\ out.said = "absent" => out.kept = {Absent}
  /\ \A c \in out.kept : Snapshot(c)

(* Whether or not the directories above it are sure to stay. *)
Reported == {"migrated", "unfounded"}
Harmless(c) == c = Absent \/ ~c.legacy

(* The same for a directory of the stopped server. *)
DirInv ==
  /\ dir \in [Slug -> [seen : Directories, kept : SUBSET Directories,
                       said : {"nothing", "migrated", "unfounded", "absent"}]]
  /\ \A g \in Slug :
       /\ dir[g].seen \in dir[g].kept
       /\ dir[g].said \in Reported => dir[g].kept = {Whole(TRUE)}
       /\ dir[g].said = "absent" => dir[g].kept = {Absent}
  /\ LegacyIsAlone

(* A migration found no legacy project and publishes the only one. *)
MigrateInv ==
  run.cmd = "migrate" =>
    /\ run.to \in Slug
    /\ \A g \in Slug : /\ dir[g].said \notin Reported
                       /\ g # run.to => Harmless(dir[g].seen)
    /\ run.step \in {"published", "removed"} =>
         /\ dir[run.to].said = "nothing"
         /\ dir[run.to].seen = IF run.step = "published" THEN Whole(TRUE) ELSE Absent

Inv == ServersInv /\ RunInv /\ OutInv /\ DirInv /\ MigrateInv

(* What is reported without reservation is below directories that stay. *)
PathInv ==
  /\ above \in Path
  /\ out.said \in {"written", "other"} => above.out = "settled"
  /\ \A g \in Slug : dir[g].said = "migrated" => above.data = "settled"

-----------------------------------------------------------------------------

LEMMA IdleTyped == Idle \in Runs
BY DEF Idle, Runs, Blocks, Log

LEMMA IdleHolds ==
  ASSUME run' = Idle, asked' \in Nat
  PROVE  RunInv' /\ MigrateInv'
<1>1. run'.step = "none" /\ run'.cmd = "none" /\ run' \in Runs
  BY IdleTyped DEF Idle
<1> QED BY <1>1 DEF RunInv, MigrateInv, At

(* The servers go on, and the command with them or to its end. *)
LEMMA ServersMove ==
  ASSUME Inv, ServersInv', held \subseteq held', run' = run \/ run' = Idle,
         UNCHANGED <<asked, out, dir>>
  PROVE  Inv'
<1>1. OutInv' /\ DirInv'
  BY DEF Inv, OutInv, DirInv, LegacyIsAlone, Snapshot
<1>2. RunInv' /\ MigrateInv'
  <2>1. CASE run' = run
    BY <2>1 DEF Inv, RunInv, MigrateInv, Snapshot, At
  <2>2. CASE run' = Idle
    BY <2>2, IdleHolds DEF Inv, RunInv
  <2> QED BY <2>1, <2>2
<1> QED BY <1>1, <1>2 DEF Inv

(* The command goes on, and nothing else. *)
LEMMA RunMoves ==
  ASSUME Inv, RunInv', MigrateInv', UNCHANGED <<servers, out, dir>>
  PROVE  Inv'
BY DEF Inv, servers, ServersInv, OutInv, DirInv, LegacyIsAlone, Snapshot

LEMMA Returns ==
  ASSUME Inv, Return, UNCHANGED <<servers, asked, out, dir>>
  PROVE  Inv'
BY IdleHolds, RunMoves DEF Return, Inv, RunInv

-----------------------------------------------------------------------------

LEMMA ProcessedKeeps ==
  ASSUME ServersInv, NEW m \in Requests, Processed(m)
  PROVE  project' \in [Server -> Projects \cup {Missing}]
<1>1. CASE m.kind = "create"
  <2>1. m.to \in Server /\ m.project \in Projects
    BY <1>1 DEF Requests
  <2>2. Creates(m.to, m.project)
    BY <1>1 DEF Processed
  <2> QED BY <2>1, <2>2 DEF Creates, ServersInv
<1>2. CASE m.kind = "append"
  <2>1. m.to \in Server /\ m.record \in AccessRecord
    BY <1>2 DEF Requests
  <2>2. Appends(m.to, m.log, m.record)
    BY <1>2 DEF Processed
  <2>3. project[m.to] \in Projects
    BY <2>1, <2>2 DEF Appends, IsProject, ServersInv
  <2> DEFINE p == [project[m.to] EXCEPT !.log = Append(@, m.record)]
  <2>4. p \in Projects
    <3>1. Append(project[m.to].log, m.record) \in Seq(AccessRecord)
      BY <2>1, <2>3 DEF Projects
    <3> QED BY <2>3, <3>1 DEF Projects
  <2>5. project' = [project EXCEPT ![m.to] = p]
    BY <2>1, <2>2 DEF Appends, ServersInv
  <2> HIDE DEF p
  <2> QED BY <2>4, <2>5 DEF ServersInv
<1> QED BY <1>1, <1>2 DEF Requests

(* What the servers come to hold is held. *)
LEMMA HoldingKeeps ==
  ASSUME ServersInv, project' \in [Server -> Projects \cup {Missing}], Holding,
         noted' = noted, late' \subseteq late, restored' \subseteq Server
  PROVE  ServersInv' /\ held \subseteq held'
<1>1. \A s \in Server : project'[s] \in Projects \cup {Missing}
  OBVIOUS
<1> QED BY <1>1 DEF ServersInv, Holding

LEMMA PostKeeps ==
  ASSUME Inv, Answered \/ Unanswered
  PROVE  Inv'
<1>1. /\ Processed(run.body) /\ Holding /\ run' = Idle /\ run.body \in Requests
      /\ UNCHANGED <<noted, late, asked, out, dir>>
  BY DEF Answered, Unanswered, Posting, Return, Inv, RunInv
<1>2. restored' \subseteq Server
  BY DEF Answered, Unanswered, Success, Inv, RunInv, ServersInv
<1>3. project' \in [Server -> Projects \cup {Missing}]
  BY <1>1, ProcessedKeeps DEF Inv
<1>4. ServersInv' /\ held \subseteq held'
  BY <1>1, <1>2, <1>3, HoldingKeeps DEF Inv
<1> QED BY <1>1, <1>4, ServersMove

LEMMA TimesOutKeeps ==
  ASSUME Inv, TimesOut
  PROVE  Inv'
<1>1. run.body \in Requests
  BY DEF TimesOut, Posting, Inv, RunInv
<1>2. ServersInv' /\ held \subseteq held'
  BY <1>1 DEF TimesOut, Inv, ServersInv
<1> QED BY <1>2, ServersMove DEF TimesOut, Return

LEMMA ArrivesKeeps ==
  ASSUME Inv, Arrives
  PROVE  Inv'
<1>1. PICK m \in late :
        /\ late' = late \ {m} /\ (Processed(m) \/ UNCHANGED project) /\ Holding
        /\ UNCHANGED <<noted, restored, run, asked, out, dir>>
  BY DEF Arrives
<1>2. m \in Requests
  BY DEF Inv, ServersInv
<1>3. project' \in [Server -> Projects \cup {Missing}]
  BY <1>1, <1>2, ProcessedKeeps DEF Inv, ServersInv
<1>4. ServersInv' /\ held \subseteq held'
  BY <1>1, <1>3, HoldingKeeps DEF Inv, ServersInv
<1> QED BY <1>1, <1>4, ServersMove

LEMMA OtherPushKeeps ==
  ASSUME Inv, OtherPush
  PROVE  Inv'
<1>1. PICK s \in Server, k \in Key :
        /\ IsProject(project[s])
        /\ project' = [project EXCEPT ![s].blocks = Append(@, Block(s, k))]
        /\ Holding
        /\ UNCHANGED <<noted, late, restored, run, asked, out, dir>>
  BY DEF OtherPush
<1>2. project[s] \in Projects
  BY <1>1 DEF IsProject, Inv, ServersInv
<1> DEFINE p == [project[s] EXCEPT !.blocks = Append(@, Block(s, k))]
<1>3. p \in Projects
  <2>1. Block(s, k) \in [at : Server, by : Key]
    BY DEF Block
  <2>2. Append(project[s].blocks, Block(s, k)) \in Seq([at : Server, by : Key])
    BY <1>2, <2>1 DEF Projects
  <2> QED BY <1>2, <2>2 DEF Projects
<1>4. project' = [project EXCEPT ![s] = p]
  BY <1>1 DEF Inv, ServersInv
<1> HIDE DEF p
<1>5. project' \in [Server -> Projects \cup {Missing}]
  BY <1>3, <1>4 DEF Inv, ServersInv
<1>6. ServersInv' /\ held \subseteq held'
  BY <1>1, <1>5, HoldingKeeps DEF Inv, ServersInv
<1> QED BY <1>1, <1>6, ServersMove

LEMMA OtherAccessKeeps ==
  ASSUME Inv, OtherAccess
  PROVE  Inv'
<1>1. PICK s \in Server, k \in Key, a \in Action :
        /\ IsProject(project[s])
        /\ Appends(s, project[s].log, [actor |-> k, action |-> a])
        /\ Holding
        /\ UNCHANGED <<noted, late, restored, run, asked, out, dir>>
  BY DEF OtherAccess
<1>2. project[s] \in Projects
  BY <1>1 DEF IsProject, Inv, ServersInv
<1>3. project[s].log \in Log /\ [actor |-> k, action |-> a] \in AccessRecord
  BY <1>2, InitialAssumption DEF Projects, Log, AccessRecord
<1> DEFINE m == AppendRequest(s, project[s].log, [actor |-> k, action |-> a])
<1>4. m \in Requests /\ Processed(m)
  BY <1>1, <1>3 DEF AppendRequest, Requests, Processed
<1>5. project' \in [Server -> Projects \cup {Missing}]
  BY <1>4, ProcessedKeeps DEF Inv
<1>6. ServersInv' /\ held \subseteq held'
  BY <1>1, <1>5, HoldingKeeps DEF Inv, ServersInv
<1> QED BY <1>1, <1>6, ServersMove

LEMMA NoteHeadsKeeps ==
  ASSUME Inv, NoteHeads
  PROVE  Inv'
<1>1. PICK s \in Server :
        /\ IsProject(project[s])
        /\ noted' = [blocks |-> project[s].blocks, log |-> project[s].log]
        /\ UNCHANGED <<project, held, late, restored, run, asked, out, dir>>
  BY DEF NoteHeads
<1>2. project[s] \in Projects
  BY <1>1 DEF IsProject, Inv, ServersInv
<1>3. noted' \in [blocks : Blocks, log : Log]
  BY <1>1, <1>2 DEF Projects, Blocks, Log
<1>4. ServersInv' /\ held \subseteq held'
  BY <1>1, <1>3 DEF Inv, ServersInv
<1> QED BY <1>1, <1>4, ServersMove

-----------------------------------------------------------------------------

(* A command that is not a migration disturbs none. *)
LEMMA OtherCommand ==
  ASSUME run'.cmd # "migrate"
  PROVE  MigrateInv'
BY DEF MigrateInv

LEMMA CreateProjectKeeps ==
  ASSUME Inv, CreateProject
  PROVE  Inv'
<1>1. PICK s \in Server, n \in 1..MaxBlocks :
        /\ Begin([Idle EXCEPT
             !.cmd = "create", !.step = "post", !.to = s,
             !.body = CreateRequest(s, Fresh(asked, s, [i \in 1..n |-> Block(s, CreatedBy)]))])
        /\ UNCHANGED <<servers, out, dir>>
  BY DEF CreateProject
<1> DEFINE blocks == [i \in 1..n |-> Block(s, CreatedBy)]
           body == CreateRequest(s, Fresh(asked, s, blocks))
           c == [Idle EXCEPT !.cmd = "create", !.step = "post", !.to = s, !.body = body]
<1>2. blocks \in Seq([at : Server, by : Key]) /\ Len(blocks) \in Nat
  <2>1. Block(s, CreatedBy) \in [at : Server, by : Key] /\ n \in Nat
    BY KeyAssumption, BoundsAssumption DEF Block
  <2> QED BY <2>1
<1>3. <<Bootstrap>> \in Seq(AccessRecord)
  <2>1. Bootstrap \in AccessRecord
    BY KeyAssumption, LabelAssumption
    DEF Bootstrap, AccessRecord, Grant, GrantAction, Role
  <2> QED BY <2>1
<1> HIDE DEF blocks
<1>4. Fresh(asked, s, blocks) \in Projects
  BY <1>2, <1>3 DEF Fresh, Projects, Inv, RunInv
<1>5. body \in Requests
  BY <1>4 DEF CreateRequest, Requests
<1>6. run' = c /\ asked' \in Nat
  BY <1>1 DEF Begin, blocks, Inv, RunInv
<1> HIDE DEF body
<1>7. c \in Runs /\ c.cmd = "create" /\ c.step = "post" /\ c.body = body
  BY <1>5, IdleTyped DEF Idle, Runs
<1> HIDE DEF c
<1>8. RunInv'
  BY <1>5, <1>6, <1>7 DEF RunInv, At
<1> QED BY <1>1, <1>6, <1>7, <1>8, OtherCommand, RunMoves

LEMMA AccessCommandKeeps ==
  ASSUME Inv, AccessCommand
  PROVE  Inv'
<1>1. PICK s \in Server, k \in Key, a \in Action :
        /\ Begin([Idle EXCEPT !.cmd = "access", !.step = "info", !.to = s,
                              !.as = k, !.action = a])
        /\ UNCHANGED <<servers, out, dir>>
  BY DEF AccessCommand
<1> DEFINE c == [Idle EXCEPT !.cmd = "access", !.step = "info", !.to = s,
                             !.as = k, !.action = a]
<1>2. run' = c /\ asked' \in Nat
  BY <1>1 DEF Begin, Inv, RunInv
<1>3. /\ c \in Runs /\ c.cmd = "access" /\ c.step = "info" /\ c.to = s /\ c.as = k
      /\ c.action = a
  BY IdleTyped DEF Idle, Runs
<1> HIDE DEF c
<1>4. RunInv'
  BY <1>2, <1>3 DEF RunInv, At
<1> QED BY <1>1, <1>2, <1>3, <1>4, OtherCommand, RunMoves

LEMMA SignRecordKeeps ==
  ASSUME Inv, SignRecord
  PROVE  Inv'
<1> DEFINE body == AppendRequest(run.to, project[run.to].log,
                                 [actor |-> run.as, action |-> run.action])
           c == [run EXCEPT !.step = "post", !.body = body]
<1>1. /\ run.cmd = "access" /\ run.step = "info" /\ IsProject(project[run.to])
      /\ run' = c /\ UNCHANGED <<servers, asked, out, dir>>
  BY DEF SignRecord, At
<1>2. run \in Runs /\ run.to \in Server /\ run.as \in Key /\ run.action \in Action
  BY <1>1 DEF Inv, RunInv, At
<1>3. project[run.to] \in Projects
  BY <1>1, <1>2 DEF IsProject, Inv, ServersInv
<1>4. project[run.to].log \in Log /\ [actor |-> run.as, action |-> run.action] \in AccessRecord
  BY <1>2, <1>3, InitialAssumption DEF Projects, Log, AccessRecord
<1>5. body \in Requests
  BY <1>2, <1>4 DEF AppendRequest, Requests
<1> HIDE DEF body
<1>6. c \in Runs /\ c.cmd = "access" /\ c.step = "post" /\ c.body = body /\ c.to = run.to
  BY <1>1, <1>2, <1>5 DEF Runs
<1> HIDE DEF c
<1>7. asked' \in Nat
  BY <1>1 DEF Inv, RunInv
<1>8. RunInv'
  BY <1>1, <1>2, <1>5, <1>6, <1>7 DEF RunInv, At
<1> QED BY <1>1, <1>6, <1>8, OtherCommand, RunMoves

LEMMA StartExportKeeps ==
  ASSUME Inv, StartExport
  PROVE  Inv'
<1>1. PICK s \in Server :
        /\ Begin([Idle EXCEPT !.cmd = "export", !.step = "info", !.to = s])
        /\ UNCHANGED <<servers, out, dir>>
  BY DEF StartExport
<1> DEFINE c == [Idle EXCEPT !.cmd = "export", !.step = "info", !.to = s]
<1>2. run' = c /\ asked' \in Nat
  BY <1>1 DEF Begin, Inv, RunInv
<1>3. c \in Runs /\ c.cmd = "export" /\ c.step = "info" /\ c.to = s
  BY IdleTyped DEF Idle, Runs
<1> HIDE DEF c
<1>4. RunInv'
  BY <1>2, <1>3 DEF RunInv, At
<1> QED BY <1>1, <1>2, <1>3, <1>4, OtherCommand, RunMoves

(* A step of an export, between what it was described and what it writes. *)
LEMMA ExportGoesOn ==
  ASSUME Inv, run.cmd = "export", NEW c \in Runs, run' = c,
         c.cmd = "export", c.to = run.to,
         c.step \in {"blocks", "log", "verify"}, c.info \in Projects, c.info \in held,
         UNCHANGED <<servers, asked, out, dir>>
  PROVE  Inv'
<1>1. RunInv'
  BY DEF Inv, RunInv, At, servers
<1> QED BY <1>1, OtherCommand, RunMoves

LEMMA ReadInfoKeeps ==
  ASSUME Inv, ReadInfo
  PROVE  Inv'
<1> DEFINE c == [run EXCEPT !.step = "blocks", !.info = project[run.to]]
<1>1. /\ run.cmd = "export" /\ IsProject(project[run.to]) /\ run' = c
      /\ UNCHANGED <<servers, asked, out, dir>>
  BY DEF ReadInfo, At
<1>2. run \in Runs /\ run.to \in Server
  BY <1>1 DEF Inv, RunInv
<1>3. project[run.to] \in Projects /\ project[run.to] \in held
  BY <1>1, <1>2 DEF IsProject, Inv, ServersInv
<1>4. /\ c \in Runs /\ c.cmd = "export" /\ c.step = "blocks" /\ c.to = run.to
      /\ c.info = project[run.to]
  BY <1>1, <1>2, <1>3 DEF Runs
<1> HIDE DEF c
<1> QED BY <1>1, <1>3, <1>4, ExportGoesOn

(* A page is a piece of the history it is from. *)
LEMMA PageTyped ==
  ASSUME NEW S, NEW items \in Seq(S), NEW from \in Nat
  PROVE  Page(items, from).items \in Seq(S)
<1> DEFINE end == IF from + PageItems < Len(items) THEN from + PageItems ELSE Len(items)
<1>1. PageItems \in Nat
  BY BoundsAssumption
<1>2. end \in Nat /\ end <= Len(items)
  BY <1>1
<1> HIDE DEF end
<1>3. SubSeq(items, from + 1, end) \in Seq(S)
  BY <1>2
<1> QED BY <1>3 DEF Page, end

LEMMA Joined == ASSUME NEW S, NEW s \in Seq(S), NEW t \in Seq(S) PROVE s \o t \in Seq(S)
OBVIOUS

LEMMA ReadPageKeeps ==
  ASSUME Inv, ReadPage
  PROVE  Inv'
<1>1. UNCHANGED <<servers, asked, out, dir>> /\ run.cmd = "export"
  BY DEF ReadPage, At
<1>2. run.step \in {"blocks", "log"} /\ run \in Runs /\ run.to \in Server
      /\ run.info \in Projects /\ run.info \in held
  BY <1>1 DEF ReadPage, At, Inv, RunInv
<1>3. run.blocks \in Blocks /\ run.log \in Log
  BY <1>2 DEF Runs
<1>4. CASE run' = Idle
  BY <1>1, <1>4, Returns DEF Return
<1>5. CASE run' # Idle /\ At("export", "blocks")
  <2> DEFINE page == Page(project[run.to].blocks, Len(run.blocks))
             c == WithBlocks(run, page)
  <2>1. run' = c /\ PageFits(page, Len(run.blocks), run.info.blocks)
    BY <1>5 DEF ReadPage, TakeBlocks, At
  <2>2. project[run.to].blocks = run.info.blocks
    BY <2>1 DEF PageFits, Page
  <2>3. run.info.blocks \in Blocks /\ Len(run.blocks) \in Nat
    BY <1>2, <1>3 DEF Projects, Blocks
  <2>4. page.items \in Blocks
    BY <2>2, <2>3, PageTyped DEF Blocks
  <2> HIDE DEF page
  <2>5. run.blocks \o page.items \in Blocks
    BY <1>3, <2>4, Joined DEF Blocks
  <2>6. /\ c \in Runs /\ c.cmd = "export" /\ c.step \in {"blocks", "log"} /\ c.to = run.to
        /\ c.info = run.info
    BY <1>1, <1>2, <2>5 DEF WithBlocks, Runs
  <2> HIDE DEF c
  <2> QED BY <1>1, <1>2, <2>1, <2>6, ExportGoesOn
<1>6. CASE run' # Idle /\ At("export", "log")
  <2> DEFINE page == Page(project[run.to].log, Len(run.log))
             c == WithRecords(run, page)
  <2>1. run' = c /\ PageFits(page, Len(run.log), run.info.log)
    BY <1>6 DEF ReadPage, TakeRecords, At
  <2>2. project[run.to].log = run.info.log
    BY <2>1 DEF PageFits, Page
  <2>3. run.info.log \in Log /\ Len(run.log) \in Nat
    BY <1>2, <1>3 DEF Projects, Log
  <2>4. page.items \in Log
    BY <2>2, <2>3, PageTyped DEF Log
  <2> HIDE DEF page
  <2>5. run.log \o page.items \in Log
    BY <1>3, <2>4, Joined DEF Log
  <2>6. /\ c \in Runs /\ c.cmd = "export" /\ c.step \in {"log", "verify"} /\ c.to = run.to
        /\ c.info = run.info
    BY <1>1, <1>2, <2>5 DEF WithRecords, Runs
  <2> HIDE DEF c
  <2> QED BY <1>1, <1>2, <2>1, <2>6, ExportGoesOn
<1> QED BY <1>4, <1>5, <1>6 DEF ReadPage

(* An export that verifies is the project it was described as. *)
LEMMA VerifiedIsInfo ==
  ASSUME NEW info \in Projects, NEW blocks \in Blocks, NEW log \in Log,
         VerifyExport(ExportFile(info, blocks, log))
  PROVE  /\ ExportFile(info, blocks, log) = [kind |-> "export", info |-> info, bootstrap |-> info]
         /\ BootstrapVerifies(info)
<1> DEFINE p == [info EXCEPT !.blocks = blocks, !.log = log]
<1>1. p.blocks = blocks /\ p.log = log
  BY DEF Projects
<1>2. /\ p.blocks = info.blocks /\ p.log = info.log
      /\ BootstrapVerifies(p)
  BY DEF VerifyExport, ExportFile
<1>3. p = info
  BY <1>1, <1>2 DEF Projects
<1> QED BY <1>2, <1>3 DEF ExportFile

LEMMA VerifyAndWriteKeeps ==
  ASSUME Inv, VerifyAndWrite
  PROVE  Inv'
<1> DEFINE e == ExportFile(run.info, run.blocks, run.log)
           c == [run EXCEPT !.step = "write", !.body = e]
<1>1. /\ run.cmd = "export" /\ run.step = "verify"
      /\ run' = IF VerifyExport(e) THEN c ELSE Idle
      /\ UNCHANGED <<servers, asked, out, dir>>
  BY DEF VerifyAndWrite, At
<1>2. CASE ~VerifyExport(e)
  BY <1>1, <1>2, Returns DEF Return
<1>3. CASE VerifyExport(e)
  <2>1. /\ run \in Runs /\ run.to \in Server /\ run.info \in Projects /\ run.info \in held
        /\ run.blocks \in Blocks /\ run.log \in Log
    BY <1>1 DEF Inv, RunInv, Runs
  <2>2. /\ e = [kind |-> "export", info |-> run.info, bootstrap |-> run.info]
        /\ BootstrapVerifies(run.info)
    BY <1>3, <2>1, VerifiedIsInfo
  <2>3. e \in Exports /\ e.bootstrap = run.info
    BY <2>1, <2>2 DEF Exports
  <2> HIDE DEF e
  <2>4. c \in Runs /\ c.cmd = "export" /\ c.step = "write" /\ c.body = e /\ c.to = run.to
    BY <1>1, <2>1, <2>3 DEF Runs
  <2> HIDE DEF c
  <2>5. run' = c /\ asked' \in Nat /\ held' = held
    BY <1>1, <1>3 DEF Inv, RunInv, servers
  <2>6. RunInv'
    BY <2>1, <2>2, <2>3, <2>4, <2>5 DEF RunInv, At, Snapshot
  <2> QED BY <1>1, <2>4, <2>5, <2>6, OtherCommand, RunMoves
<1> QED BY <1>2, <1>3

LEMMA ImportKeeps ==
  ASSUME Inv, Import
  PROVE  Inv'
<1>1. PICK s \in Server :
        /\ VerifyExport(out.seen)
        /\ Begin([Idle EXCEPT !.cmd = "import", !.step = "post", !.to = s,
                              !.body = CreateRequest(s, out.seen.bootstrap)])
        /\ UNCHANGED <<servers, out, dir>>
  BY DEF Import
<1> DEFINE body == CreateRequest(s, out.seen.bootstrap)
           c == [Idle EXCEPT !.cmd = "import", !.step = "post", !.to = s, !.body = body]
<1>2. out.seen \in Exports
  <2>1. out.seen \in Contents /\ out.seen.kind = "export"
    BY <1>1 DEF Inv, OutInv, VerifyExport
  <2> QED BY <2>1 DEF Contents, Absent, Other, Keys
<1>3. body \in Requests
  BY <1>2 DEF CreateRequest, Requests, Exports
<1>4. run' = c /\ asked' \in Nat
  BY <1>1 DEF Begin, Inv, RunInv
<1> HIDE DEF body
<1>5. c \in Runs /\ c.cmd = "import" /\ c.step = "post" /\ c.body = body /\ c.to = s
  BY <1>3, IdleTyped DEF Idle, Runs
<1> HIDE DEF c
<1>6. RunInv'
  BY <1>3, <1>4, <1>5 DEF RunInv, At
<1> QED BY <1>1, <1>4, <1>5, <1>6, OtherCommand, RunMoves

LEMMA GenerateIdentityKeeps ==
  ASSUME Inv, GenerateIdentity
  PROVE  Inv'
<1> DEFINE body == [kind |-> "key", id |-> asked]
           c == [Idle EXCEPT !.cmd = "generate", !.step = "write", !.body = body]
<1>1. run' = c /\ asked' \in Nat /\ UNCHANGED <<servers, out, dir>>
  BY DEF GenerateIdentity, Begin, Inv, RunInv
<1>2. body \in Keys /\ body.kind # "export"
  BY DEF Keys, Inv, RunInv
<1> HIDE DEF body
<1>3. c \in Runs /\ c.cmd = "generate" /\ c.step = "write" /\ c.body = body
  BY <1>2, IdleTyped DEF Idle, Runs
<1> HIDE DEF c
<1>4. RunInv'
  BY <1>1, <1>2, <1>3 DEF RunInv, At, Snapshot
<1> QED BY <1>1, <1>3, <1>4, OtherCommand, RunMoves

(* A migration starts when no directory is a legacy project, so none was
   reported to be one. *)
LEMMA MigrateKeeps ==
  ASSUME Inv, Migrate
  PROVE  Inv'
<1>1. PICK g \in Slug :
        /\ Begin([Idle EXCEPT !.cmd = "migrate", !.step = "stage", !.to = g])
        /\ NoLegacyProject
        /\ UNCHANGED <<servers, out, dir>>
  BY DEF Migrate
<1> DEFINE c == [Idle EXCEPT !.cmd = "migrate", !.step = "stage", !.to = g]
<1>2. run' = c /\ asked' \in Nat
  BY <1>1 DEF Begin, Inv, RunInv
<1>3. c \in Runs /\ c.cmd = "migrate" /\ c.step = "stage" /\ c.to = g
  BY IdleTyped DEF Idle, Runs
<1> HIDE DEF c
<1>4. RunInv'
  BY <1>2, <1>3 DEF RunInv, At
<1>5. \A h \in Slug : Harmless(dir[h].seen)
  BY <1>1 DEF NoLegacyProject, Visible, Harmless
<1>6. \A h \in Slug : dir[h].said \notin Reported
  <2> SUFFICES ASSUME NEW h \in Slug, dir[h].said \in Reported PROVE FALSE
    OBVIOUS
  <2>1. dir[h].seen = Whole(TRUE)
    BY DEF Inv, DirInv
  <2>2. ~Harmless(Whole(TRUE))
    BY DEF Harmless, Whole, Directory, Absent
  <2> QED BY <1>5, <2>1, <2>2
<1>7. MigrateInv'
  BY <1>1, <1>2, <1>3, <1>5, <1>6 DEF MigrateInv, Harmless
<1> QED BY <1>1, <1>4, <1>7, RunMoves

-----------------------------------------------------------------------------

(* The file at --out changes, and the command with it or to its end. *)
LEMMA OutMoves ==
  ASSUME Inv, OutInv', RunInv', UNCHANGED <<servers, asked, dir>>,
         run' = Idle \/ (run'.cmd = run.cmd /\ run'.to = run.to
                         /\ (run'.step = run.step \/ run'.step \in {"linked", "unlinked"}))
  PROVE  Inv'
<1>1. ServersInv' /\ DirInv'
  BY DEF Inv, servers, ServersInv, DirInv, LegacyIsAlone
<1>2. MigrateInv'
  <2>1. CASE run' = Idle
    BY <2>1, IdleHolds DEF Inv, RunInv
  <2>2. CASE run' # Idle
    BY <2>2 DEF Inv, MigrateInv
  <2> QED BY <2>1, <2>2
<1> QED BY <1>1, <1>2 DEF Inv

LEMMA LinkKeeps ==
  ASSUME Inv, Link
  PROVE  Inv'
<1> DEFINE body == run.body
           c == [run EXCEPT !.step = "linked"]
<1>1. /\ run.step = "write" /\ run' = c /\ out' = Becomes(out, body)
      /\ UNCHANGED <<servers, asked, dir>>
  BY DEF Link, Go
<1>2. run \in Runs /\ body \in Exports \cup Keys /\ Snapshot(body)
  BY <1>1 DEF Inv, RunInv
<1>3. c \in Runs /\ c.cmd = run.cmd /\ c.to = run.to /\ c.step = "linked" /\ c.body = body
  BY <1>2 DEF Runs
<1> HIDE DEF c
<1>4. /\ out' \in [seen : Contents, kept : SUBSET Contents,
                   said : {"nothing", "written", "unfounded", "other", "absent"}]
      /\ out'.seen = body /\ out'.kept = out.kept \cup {body} /\ out'.said = "nothing"
  BY <1>1, <1>2 DEF Becomes, Contents, Inv, OutInv
<1>5. held' = held
  BY <1>1 DEF servers
<1>6. OutInv'
  BY <1>2, <1>4, <1>5 DEF Inv, OutInv, Snapshot
<1>7. RunInv'
  BY <1>1, <1>2, <1>3, <1>4, <1>5 DEF Inv, RunInv, Snapshot, At
<1> QED BY <1>1, <1>3, <1>6, <1>7, OutMoves

(* What is confirmed is what is seen, and what was reported of it holds on. *)
LEMMA ConfirmedKeeps ==
  ASSUME OutInv, NEW e, e = Confirmed(out)
  PROVE  /\ e \in [seen : Contents, kept : SUBSET Contents,
                   said : {"nothing", "written", "unfounded", "other", "absent"}]
         /\ e.seen = out.seen /\ e.kept = {out.seen} /\ e.said = out.said
         /\ e.said = "written" => e.seen # Absent
         /\ e.said = "other" => e.seen = Other
         /\ e.said = "absent" => e.seen = Absent
         /\ Snapshot(e.seen)
<1>1. /\ e \in [seen : Contents, kept : SUBSET Contents,
                said : {"nothing", "written", "unfounded", "other", "absent"}]
      /\ e.seen = out.seen /\ e.kept = {out.seen} /\ e.said = out.said
  BY DEF Confirmed, OutInv
<1> QED BY <1>1 DEF OutInv

LEMMA SyncParentKeeps ==
  ASSUME Inv, SyncParent
  PROVE  Inv'
<1> DEFINE word == Founded(above.out, "written")
<1>1. /\ run.step = "linked" /\ out' = Says(Confirmed(out), word) /\ run' = Idle
      /\ UNCHANGED <<servers, asked, dir>>
  BY DEF SyncParent, Return
<1>6. word \in {"written", "unfounded"}
  BY DEF Founded
<1> HIDE DEF word
<1>2. out.seen # Absent /\ held' = held
  BY <1>1 DEF Inv, RunInv, Exports, Keys, Absent, servers
<1> DEFINE e == Confirmed(out)
<1>3. /\ e \in [seen : Contents, kept : SUBSET Contents,
                said : {"nothing", "written", "unfounded", "other", "absent"}]
      /\ e.seen = out.seen /\ e.kept = {out.seen} /\ Snapshot(out.seen)
  BY ConfirmedKeeps DEF Inv
<1> HIDE DEF e
<1>4. /\ out' \in [seen : Contents, kept : SUBSET Contents,
                   said : {"nothing", "written", "unfounded", "other", "absent"}]
      /\ out'.seen = out.seen /\ out'.kept = {out.seen} /\ out'.said = word
  BY <1>1, <1>3, <1>6 DEF Says, e
<1>5. OutInv'
  BY <1>2, <1>3, <1>4, <1>6 DEF OutInv, Snapshot
<1> QED BY <1>1, <1>5, IdleHolds, OutMoves DEF Inv, RunInv

LEMMA RollBackKeeps ==
  ASSUME Inv, RollBack
  PROVE  Inv'
<1>1. run.step = "linked" /\ UNCHANGED <<servers, asked, dir>> /\ held' = held
  BY DEF RollBack, servers
<1>2. CASE out' = out /\ run' = Idle
  BY <1>1, <1>2, Returns DEF Return
<1>3. CASE out' = Becomes(out, Absent) /\ Go("unlinked")
  <2> DEFINE c == [run EXCEPT !.step = "unlinked"]
  <2>1. run \in Runs
    BY DEF Inv, RunInv
  <2>2. /\ run' = c /\ c \in Runs /\ c.step = "unlinked" /\ c.cmd = run.cmd
        /\ c.to = run.to /\ c.body = run.body
    BY <1>3, <2>1 DEF Go, Runs
  <2> HIDE DEF c
  <2>3. /\ out' \in [seen : Contents, kept : SUBSET Contents,
                     said : {"nothing", "written", "unfounded", "other", "absent"}]
        /\ out'.seen = Absent /\ out'.kept = out.kept \cup {Absent} /\ out'.said = "nothing"
    BY <1>3 DEF Becomes, Contents, Inv, OutInv
  <2>4. OutInv'
    BY <1>1, <2>3 DEF Inv, OutInv, Snapshot, Absent
  <2>5. RunInv'
    BY <1>1, <2>2 DEF Inv, RunInv, At
  <2> QED BY <1>1, <2>2, <2>4, <2>5, OutMoves
<1> QED BY <1>2, <1>3 DEF RollBack, Return

LEMMA SyncRemovedKeeps ==
  ASSUME Inv, SyncRemoved
  PROVE  Inv'
<1>1. UNCHANGED <<servers, asked, dir>> /\ held' = held /\ run' = Idle
  BY DEF SyncRemoved, Return, servers
<1> DEFINE e == Confirmed(out)
<1>2. /\ e \in [seen : Contents, kept : SUBSET Contents,
                said : {"nothing", "written", "unfounded", "other", "absent"}]
      /\ e.seen = out.seen /\ e.kept = {out.seen} /\ Snapshot(out.seen)
      /\ e.said = "written" => e.seen # Absent
      /\ e.said = "other" => e.seen = Other
      /\ e.said = "absent" => e.seen = Absent
  BY ConfirmedKeeps DEF Inv
<1> HIDE DEF e
<1>3. CASE out' = out
  BY <1>1, <1>3, Returns DEF Return
<1>4. CASE out.seen = Absent /\ out' = Says(e, "absent")
  <2>1. /\ out' \in [seen : Contents, kept : SUBSET Contents,
                     said : {"nothing", "written", "unfounded", "other", "absent"}]
        /\ out'.seen = Absent /\ out'.kept = {Absent} /\ out'.said = "absent"
    BY <1>2, <1>4 DEF Says
  <2>2. OutInv'
    BY <1>1, <2>1 DEF OutInv, Snapshot, Absent
  <2> QED BY <1>1, <2>2, IdleHolds, OutMoves DEF Inv, RunInv
<1>5. CASE out' = e
  <2>1. OutInv'
    BY <1>1, <1>2, <1>5 DEF OutInv, Snapshot
  <2> QED BY <1>1, <2>1, IdleHolds, OutMoves DEF Inv, RunInv
<1> QED BY <1>3, <1>4, <1>5 DEF SyncRemoved, e

LEMMA OtherFileKeeps ==
  ASSUME Inv, OtherFile
  PROVE  Inv'
<1>1. /\ UNCHANGED <<servers, asked, dir>> /\ held' = held /\ run' = run
      /\ run.step # "linked"
  BY DEF OtherFile, servers
<1>2. RunInv'
  BY <1>1 DEF Inv, RunInv, Snapshot, At
<1>3. CASE out' = Says(Confirmed(Becomes(out, Other)), "other")
  <2>1. /\ out' \in [seen : Contents, kept : SUBSET Contents,
                     said : {"nothing", "written", "unfounded", "other", "absent"}]
        /\ out'.seen = Other /\ out'.kept = {Other} /\ out'.said = "other"
    BY <1>3 DEF Says, Confirmed, Becomes, Contents, Inv, OutInv
  <2>2. OutInv'
    BY <1>1, <2>1 DEF OutInv, Snapshot, Other
  <2> QED BY <1>1, <1>2, <2>2, OutMoves
<1>4. CASE out' = Confirmed(Becomes(out, Absent))
  <2>1. /\ out' \in [seen : Contents, kept : SUBSET Contents,
                     said : {"nothing", "written", "unfounded", "other", "absent"}]
        /\ out'.seen = Absent /\ out'.kept = {Absent} /\ out'.said = "nothing"
    BY <1>4 DEF Confirmed, Becomes, Contents, Inv, OutInv
  <2>2. OutInv'
    BY <1>1, <2>1 DEF OutInv, Snapshot, Absent
  <2> QED BY <1>1, <1>2, <2>2, OutMoves
<1> QED BY <1>3, <1>4 DEF OtherFile, Other

-----------------------------------------------------------------------------

DirEntries ==
  [seen : Directories, kept : SUBSET Directories, said : {"nothing", "migrated", "unfounded", "absent"}]

(* The directory a migration works on changes, and no other. *)
LEMMA DirMoves ==
  ASSUME Inv, run.cmd = "migrate", NEW e \in DirEntries, dir' = [dir EXCEPT ![run.to] = e],
         e.seen \in e.kept, e.said = "nothing" \/ (e.said = "absent" /\ e.kept = {Absent}),
         UNCHANGED <<servers, asked, out>>,
         \/ run' = Idle
         \/ /\ run' = [run EXCEPT !.step = IF e.seen = Absent THEN "removed" ELSE "published"]
            /\ e.said = "nothing" /\ e.seen \in {Absent, Whole(TRUE)}
  PROVE  Inv'
<1>1. /\ run.to \in Slug /\ run \in Runs /\ dir \in [Slug -> DirEntries]
      /\ \A g \in Slug : dir[g].said \notin Reported
      /\ \A g \in Slug : g # run.to => Harmless(dir[g].seen)
  BY DEF Inv, MigrateInv, RunInv, DirInv, DirEntries
<1>2. /\ dir'[run.to] = e /\ dir' \in [Slug -> DirEntries]
      /\ \A g \in Slug : g # run.to => dir'[g] = dir[g]
  BY <1>1
<1>3. \A g \in Slug : dir'[g].said \notin Reported
  BY <1>1, <1>2 DEF Reported
<1>4. DirInv'
  <2>1. \A g \in Slug : /\ dir'[g].seen \in dir'[g].kept
                        /\ dir'[g].said = "absent" => dir'[g].kept = {Absent}
    BY <1>2 DEF Inv, DirInv
  <2>2. LegacyIsAlone'
    BY <1>3 DEF LegacyIsAlone, Reported
  <2> QED BY <1>2, <1>3, <2>1, <2>2 DEF DirInv, DirEntries
<1>5. RunInv' /\ MigrateInv'
  <2>1. CASE run' = Idle
    BY <2>1, IdleHolds DEF Inv, RunInv
  <2>2. CASE run' # Idle
    <3> DEFINE step == IF e.seen = Absent THEN "removed" ELSE "published"
               c == [run EXCEPT !.step = step]
    <3>1. step \in {"removed", "published"} /\ asked' \in Nat
      BY DEF Inv, RunInv
    <3>2. run' = [run EXCEPT !.step = step]
      BY <2>2
    <3> HIDE DEF step
    <3>3. /\ run' = c /\ c \in Runs /\ c.cmd = "migrate" /\ c.step = step /\ c.to = run.to
      BY <1>1, <3>2, <3>1 DEF Runs
    <3>4. dir'[run.to].said = "nothing" /\ e.seen \in {Absent, Whole(TRUE)}
      BY <1>2, <2>2
    <3>5. dir'[run.to].seen = IF step = "published" THEN Whole(TRUE) ELSE Absent
      BY <1>2, <3>4 DEF step
    <3> HIDE DEF c
    <3>6. RunInv'
      BY <3>3, <3>1 DEF RunInv, At
    <3>7. MigrateInv'
      BY <1>1, <1>2, <1>3, <3>3, <3>4, <3>5 DEF MigrateInv, Harmless
    <3> QED BY <3>6, <3>7
  <2> QED BY <2>1, <2>2
<1>6. ServersInv' /\ OutInv'
  BY DEF Inv, servers, ServersInv, OutInv, Snapshot
<1> QED BY <1>4, <1>5, <1>6 DEF Inv

LEMMA PartialTyped ==
  /\ Partial(TRUE) \subseteq Directories /\ Whole(TRUE) \in Partial(TRUE)
  /\ Absent \in Directories /\ \A c \in Partial(TRUE) : c # Absent
<1>1. Partial(TRUE) \subseteq Directories /\ Absent \in Directories
  BY DEF Directories
<1>2. Whole(TRUE) \in Partial(TRUE)
  BY DEF Partial, Whole
<1>3. \A c \in Partial(TRUE) : c # Absent
  BY DEF Partial, Directory, Absent
<1> QED BY <1>1, <1>2, <1>3

(* What is known of the directory while a migration is at work on it. *)
LEMMA AtWork ==
  ASSUME Inv, run.cmd = "migrate"
  PROVE  /\ run.to \in Slug /\ dir[run.to] \in DirEntries
         /\ dir[run.to].seen \in dir[run.to].kept
         /\ run.step \in {"published", "removed"} => dir[run.to].said = "nothing"
         /\ run.step = "published" => dir[run.to].seen = Whole(TRUE)
         /\ run.step = "removed" => dir[run.to].seen = Absent
BY DEF Inv, MigrateInv, DirInv, DirEntries

LEMMA PublishDirectoryKeeps ==
  ASSUME Inv, PublishDirectory
  PROVE  Inv'
<1> DEFINE e == Becomes(dir[run.to], Whole(TRUE))
<1>1. /\ run.cmd = "migrate" /\ UNCHANGED <<servers, asked, out>>
      /\ dir' = [dir EXCEPT ![run.to] = e] /\ run' = [run EXCEPT !.step = "published"]
  BY DEF PublishDirectory, At, Go, Inv, DirInv
<1>2. /\ e \in DirEntries /\ e.seen = Whole(TRUE) /\ e.seen \in e.kept
      /\ e.said = "nothing"
  BY <1>1, AtWork, PartialTyped DEF Becomes, DirEntries
<1>3. Whole(TRUE) # Absent
  BY PartialTyped
<1> HIDE DEF e
<1> QED BY <1>1, <1>2, <1>3, DirMoves

LEMMA RemoveDirectoryKeeps ==
  ASSUME Inv, RemoveDirectory
  PROVE  Inv'
<1> DEFINE gone == [dir[run.to] EXCEPT !.seen = Absent,
                                       !.kept = @ \cup Partial(TRUE) \cup {Absent}]
<1>1. run.cmd = "migrate" /\ run.step = "published" /\ UNCHANGED <<servers, asked, out>>
  BY DEF RemoveDirectory, At
<1>2. /\ gone \in DirEntries /\ gone.seen = Absent /\ gone.said = "nothing"
      /\ gone.kept = dir[run.to].kept \cup Partial(TRUE) \cup {Absent}
  BY <1>1, AtWork, PartialTyped DEF DirEntries
<1> HIDE DEF gone
<1>3. CASE dir' = [dir EXCEPT ![run.to] = gone] /\ Go("removed")
  BY <1>1, <1>2, <1>3, DirMoves DEF Go
<1>4. ASSUME NEW c \in Partial(TRUE), dir' = [dir EXCEPT ![run.to] = [gone EXCEPT !.seen = c]],
             Return
      PROVE  Inv'
  <2> DEFINE e == [gone EXCEPT !.seen = c]
  <2>1. e \in DirEntries /\ e.seen = c /\ e.said = "nothing" /\ e.seen \in e.kept
    BY <1>2, PartialTyped DEF DirEntries
  <2> HIDE DEF e
  <2>2. dir' = [dir EXCEPT ![run.to] = e]
    BY <1>4 DEF e
  <2> QED BY <1>1, <1>4, <2>1, <2>2, DirMoves DEF Return
<1> QED BY <1>3, <1>4 DEF RemoveDirectory, gone

(* One sync confirms every directory, the one that is reported among them. *)
LEMMA SyncedKeeps ==
  ASSUME Inv, run.cmd = "migrate", NEW word \in {"migrated", "unfounded", "absent"},
         word \in Reported => dir[run.to].seen = Whole(TRUE),
         word = "absent" => dir[run.to].seen = Absent,
         dir' = [SyncedDirs EXCEPT ![run.to] = Says(@, word)],
         run' = Idle, UNCHANGED <<servers, asked, out>>
  PROVE  Inv'
<1>1. /\ run.to \in Slug /\ dir \in [Slug -> DirEntries]
      /\ \A g \in Slug : dir[g].said \notin Reported
      /\ \A g \in Slug : g # run.to => Harmless(dir[g].seen)
      /\ \A g \in Slug : /\ dir[g].seen \in dir[g].kept
                         /\ dir[g].said = "absent" => dir[g].kept = {Absent}
  BY DEF Inv, MigrateInv, DirInv, DirEntries
<1>2. ASSUME NEW g \in Slug
      PROVE  /\ Confirmed(dir[g]) \in DirEntries
             /\ Confirmed(dir[g]).seen = dir[g].seen /\ Confirmed(dir[g]).kept = {dir[g].seen}
             /\ Confirmed(dir[g]).said = dir[g].said
  BY <1>1 DEF Confirmed, DirEntries
<1>3. ASSUME NEW g \in Slug, g # run.to
      PROVE  dir'[g] = Confirmed(dir[g])
  BY <1>3 DEF SyncedDirs
<1>4. dir'[run.to] = Says(Confirmed(dir[run.to]), word)
  BY <1>1 DEF SyncedDirs
<1>5. /\ dir'[run.to] \in DirEntries /\ dir'[run.to].seen = dir[run.to].seen
      /\ dir'[run.to].kept = {dir[run.to].seen} /\ dir'[run.to].said = word
  BY <1>1, <1>2, <1>4 DEF Says, DirEntries
<1>6. dir' \in [Slug -> DirEntries]
  <2>1. \A g \in Slug : dir'[g] \in DirEntries
    BY <1>2, <1>3, <1>5
  <2>2. dir' = [g \in Slug |-> dir'[g]]
    BY DEF SyncedDirs
  <2> QED BY <2>1, <2>2
<1>7. ASSUME NEW g \in Slug
      PROVE  /\ dir'[g].kept = {dir[g].seen} /\ dir'[g].seen = dir[g].seen
             /\ g # run.to => dir'[g].said = dir[g].said
  BY <1>2, <1>3, <1>5
<1>8. ASSUME NEW g \in Slug
      PROVE  /\ dir'[g].seen \in dir'[g].kept
             /\ dir'[g].said \in Reported => dir'[g].kept = {Whole(TRUE)}
             /\ dir'[g].said = "absent" => dir'[g].kept = {Absent}
  <2>1. CASE g = run.to
    BY <1>5, <2>1 DEF Reported
  <2>2. CASE g # run.to
    BY <1>1, <1>7, <2>2 DEF Reported
  <2> QED BY <2>1, <2>2
<1>9. LegacyIsAlone'
  <2> SUFFICES ASSUME NEW g \in Slug, NEW h \in Slug, dir'[g].said \in Reported, h # g
               PROVE  \A c \in dir'[h].kept : c = Absent \/ ~c.legacy
    BY DEF LegacyIsAlone, Reported
  <2>1. g = run.to
    BY <1>1, <1>7
  <2>2. Harmless(dir[h].seen)
    BY <1>1, <2>1
  <2> QED BY <1>7, <2>2 DEF Harmless
<1>10. DirInv'
  BY <1>6, <1>8, <1>9 DEF DirInv, DirEntries
<1>11. RunInv' /\ MigrateInv'
  BY IdleHolds DEF Inv, RunInv
<1>12. ServersInv' /\ OutInv'
  BY DEF Inv, servers, ServersInv, OutInv, Snapshot
<1> QED BY <1>10, <1>11, <1>12 DEF Inv

LEMMA SyncProjectsKeeps ==
  ASSUME Inv, SyncProjects
  PROVE  Inv'
<1> DEFINE word == Founded(above.data, "migrated")
<1>1. word \in {"migrated", "unfounded"}
  BY DEF Founded
<1>2. /\ dir' = [SyncedDirs EXCEPT ![run.to] = Says(@, word)]
      /\ run.cmd = "migrate" /\ run.step = "published" /\ run' = Idle
      /\ UNCHANGED <<servers, asked, out>>
  BY DEF SyncProjects, At, Return
<1> HIDE DEF word
<1> QED BY <1>1, <1>2, AtWork, SyncedKeeps

LEMMA SyncRemovedDirectoryKeeps ==
  ASSUME Inv, SyncRemovedDirectory
  PROVE  Inv'
<1>1. CASE dir' = dir
  BY <1>1, Returns DEF SyncRemovedDirectory
<1>2. CASE dir' = [SyncedDirs EXCEPT ![run.to] = Says(@, "absent")]
  BY <1>2, AtWork, SyncedKeeps DEF SyncRemovedDirectory, At, Return, Reported
<1> QED BY <1>1, <1>2 DEF SyncRemovedDirectory

(* What is left is one of what was kept, and what was reported is all of it;
   or the directories above it are gone, and nothing is. *)
LEMMA OutLeft ==
  ASSUME OutInv, held' = held,
         \/ \E c \in out.kept : out' = Left(out, c)
         \/ out' = Entry
  PROVE  OutInv'
<1>1. ASSUME NEW c \in out.kept, out' = Left(out, c)
      PROVE  OutInv'
  <2>1. /\ out' \in [seen : Contents, kept : SUBSET Contents,
                     said : {"nothing", "written", "unfounded", "other", "absent"}]
        /\ out'.seen = c /\ out'.kept = {c} /\ out'.said = out.said
    BY <1>1 DEF Left, OutInv
  <2> QED BY <1>1, <2>1 DEF OutInv, Snapshot
<1>2. CASE out' = Entry
  BY <1>2 DEF Entry, OutInv, Contents, Snapshot, Absent
<1> QED BY <1>1, <1>2

LEMMA DirsLeft ==
  ASSUME DirInv, NEW left \in [Slug -> UNION {dir[g].kept : g \in Slug}],
         \A g \in Slug : left[g] \in dir[g].kept,
         dir' = [g \in Slug |-> Left(dir[g], left[g])]
  PROVE  DirInv'
<1>1. ASSUME NEW g \in Slug
      PROVE  /\ dir'[g] \in DirEntries /\ dir'[g].seen = left[g]
             /\ dir'[g].kept = {left[g]} /\ dir'[g].said = dir[g].said
             /\ left[g] \in dir[g].kept
  <2>1. dir[g] \in DirEntries /\ left[g] \in dir[g].kept
    BY DEF DirInv, DirEntries
  <2>2. dir'[g] = Left(dir[g], left[g])
    OBVIOUS
  <2>3. left[g] \in Directories
    BY <2>1 DEF DirEntries
  <2>4. ASSUME NEW e \in DirEntries, NEW d \in Directories
        PROVE  /\ Left(e, d) \in DirEntries /\ Left(e, d).seen = d
               /\ Left(e, d).kept = {d} /\ Left(e, d).said = e.said
    BY DEF Left, DirEntries
  <2> QED BY <2>1, <2>2, <2>3, <2>4
<1>2. dir' \in [Slug -> DirEntries]
  <2>1. dir' = [g \in Slug |-> dir'[g]]
    OBVIOUS
  <2> QED BY <1>1, <2>1
<1>3. ASSUME NEW g \in Slug
      PROVE  /\ dir'[g].seen \in dir'[g].kept
             /\ dir'[g].said \in Reported => dir'[g].kept = {Whole(TRUE)}
             /\ dir'[g].said = "absent" => dir'[g].kept = {Absent}
  <2>1. /\ dir[g].said \in Reported => left[g] = Whole(TRUE)
        /\ dir[g].said = "absent" => left[g] = Absent
    <3>1. /\ dir[g].said \in Reported => dir[g].kept = {Whole(TRUE)}
          /\ dir[g].said = "absent" => dir[g].kept = {Absent}
      BY DEF DirInv
    <3>2. left[g] \in dir[g].kept
      BY <1>1
    <3> QED BY <3>1, <3>2
  <2> QED BY <1>1, <2>1
<1>4. LegacyIsAlone'
  BY <1>1 DEF DirInv, LegacyIsAlone
<1> QED BY <1>2, <1>3, <1>4 DEF DirInv, DirEntries

LEMMA EntryTyped == Entry \in DirEntries
BY DEF Entry, DirEntries, Directories

LEMMA DirsGone ==
  ASSUME dir' = [g \in Slug |-> Entry]
  PROVE  DirInv'
<1>1. /\ Entry.seen = Absent /\ Entry.kept = {Absent} /\ Entry.said = "nothing"
  BY DEF Entry
<1>2. ASSUME NEW g \in Slug
      PROVE  dir'[g] = Entry
  OBVIOUS
<1>3. dir' \in [Slug -> DirEntries]
  BY EntryTyped
<1>4. ASSUME NEW g \in Slug
      PROVE  /\ dir'[g].seen \in dir'[g].kept
             /\ dir'[g].said \notin Reported /\ dir'[g].kept = {Absent}
  BY <1>1, <1>2 DEF Reported
<1>5. LegacyIsAlone'
  BY <1>4 DEF LegacyIsAlone, Reported
<1> QED BY <1>3, <1>4, <1>5 DEF DirInv, DirEntries

LEMMA PowerLossKeeps ==
  ASSUME Inv, PowerLoss
  PROVE  Inv'
<1>1. UNCHANGED <<servers, asked>> /\ held' = held /\ run' = Idle
  BY DEF PowerLoss, Return, servers
<1>2. OutInv'
  BY <1>1, OutLeft DEF PowerLoss, Inv
<1>3. DirInv'
  BY DirsLeft, DirsGone DEF PowerLoss, Inv
<1>4. RunInv' /\ MigrateInv'
  BY <1>1, IdleHolds DEF Inv, RunInv
<1>5. ServersInv'
  BY <1>1 DEF Inv, servers, ServersInv
<1> QED BY <1>2, <1>3, <1>4, <1>5 DEF Inv

-----------------------------------------------------------------------------

LEMMA InitHolds == Init => Inv
<1> SUFFICES ASSUME Init PROVE Inv
  OBVIOUS
<1>1. project \in [Server -> Projects \cup {Missing}]
  BY InitialAssumption DEF Init
<1>2. held \subseteq Projects \cup {Missing} /\ \A s \in Server : project[s] \in held
  BY <1>1 DEF Init
<1>3. noted \in [blocks : Blocks, log : Log]
  BY DEF Init, Unnoted, Blocks, Log
<1>4. ServersInv
  BY <1>1, <1>2, <1>3 DEF Init, ServersInv
<1>5. RunInv /\ MigrateInv
  <2>1. run = Idle /\ asked = 0
    BY DEF Init
  <2>2. run \in Runs /\ run.step = "none" /\ run.cmd = "none"
    BY <2>1, IdleTyped DEF Idle
  <2> QED BY <2>1, <2>2 DEF RunInv, MigrateInv, At
<1>6. OutInv
  <2>1. out = [seen |-> Absent, kept |-> {Absent}, said |-> "nothing"]
    BY DEF Init, Entry
  <2> QED BY <2>1 DEF OutInv, Contents, Snapshot, Absent
<1>7. DirInv
  <2>1. /\ dir = [g \in Slug |-> Confirmed(Becomes(Entry, dir[g].seen))]
        /\ \A g \in Slug : dir[g].seen \in Directories
    BY InitialAssumption DEF Init, Directories
  <2>2. ASSUME NEW c \in Directories
        PROVE  /\ Confirmed(Becomes(Entry, c)) \in DirEntries
               /\ Confirmed(Becomes(Entry, c)).seen = c
               /\ Confirmed(Becomes(Entry, c)).kept = {c}
               /\ Confirmed(Becomes(Entry, c)).said = "nothing"
    <3> DEFINE e == Becomes(Entry, c)
    <3>1. Entry \in DirEntries
      BY DEF Entry, DirEntries, Directories
    <3>2. e \in DirEntries /\ e.seen = c /\ e.said = "nothing"
      BY <3>1 DEF Becomes, DirEntries
    <3> HIDE DEF e
    <3>3. /\ Confirmed(e) \in DirEntries /\ Confirmed(e).seen = c
          /\ Confirmed(e).kept = {c} /\ Confirmed(e).said = "nothing"
      BY <3>2 DEF Confirmed, DirEntries
    <3> QED BY <3>3 DEF e
  <2>3. ASSUME NEW g \in Slug
        PROVE  /\ dir[g] \in DirEntries /\ dir[g].kept = {dir[g].seen}
               /\ dir[g].said = "nothing"
    <3>1. dir[g] = Confirmed(Becomes(Entry, dir[g].seen)) /\ dir[g].seen \in Directories
      BY <2>1
    <3> QED BY <2>2, <3>1
  <2>4. dir \in [Slug -> DirEntries]
    <3> DEFINE start == [g \in Slug |-> Confirmed(Becomes(Entry, dir[g].seen))]
    <3>1. \A g \in Slug : start[g] = dir[g]
      BY <2>1
    <3>2. start \in [Slug -> DirEntries]
      BY <2>3, <3>1
    <3> QED BY <2>1, <3>2
  <2> QED BY <2>3, <2>4 DEF DirInv, DirEntries, LegacyIsAlone, Reported
<1> QED BY <1>4, <1>5, <1>6, <1>7 DEF Inv

LEMMA StepKeeps ==
  ASSUME Inv, [Next]_vars
  PROVE  Inv'
<1>1. CASE UNCHANGED vars
  <2>1. run' = run /\ UNCHANGED <<servers, asked, out, dir>>
    BY <1>1 DEF vars
  <2>2. ServersInv' /\ held' = held
    BY <2>1 DEF servers, Inv, ServersInv
  <2> QED BY <2>1, <2>2, ServersMove
<1>2. CASE Answered \/ Unanswered
  BY <1>2, PostKeeps
<1>3. CASE RefusedOrUnsent \/ LinkFails \/ StagingFails \/ Killed
  BY <1>3, Returns DEF RefusedOrUnsent, LinkFails, StagingFails, Killed
<1>4. CASE TimesOut \/ Arrives \/ OtherPush \/ OtherAccess \/ NoteHeads
  BY <1>4, TimesOutKeeps, ArrivesKeeps, OtherPushKeeps, OtherAccessKeeps, NoteHeadsKeeps
<1>5. CASE CreateProject \/ AccessCommand \/ SignRecord
  BY <1>5, CreateProjectKeeps, AccessCommandKeeps, SignRecordKeeps
<1>6. CASE StartExport \/ ReadInfo \/ ReadPage \/ VerifyAndWrite \/ Import
  BY <1>6, StartExportKeeps, ReadInfoKeeps, ReadPageKeeps, VerifyAndWriteKeeps, ImportKeeps
<1>11. CASE MakeParents
  <2>1. ServersInv' /\ held' = held
    BY <1>11 DEF MakeParents, servers, Inv, ServersInv
  <2> QED BY <1>11, <2>1, ServersMove DEF MakeParents
<1>7. CASE GenerateIdentity \/ Link \/ SyncParent \/ RollBack \/ SyncRemoved \/ OtherFile
  BY <1>7, GenerateIdentityKeeps, LinkKeeps, SyncParentKeeps, RollBackKeeps,
     SyncRemovedKeeps, OtherFileKeeps
<1>8. CASE Migrate \/ PublishDirectory \/ SyncProjects
  BY <1>8, MigrateKeeps, PublishDirectoryKeeps, SyncProjectsKeeps
<1>9. CASE RemoveDirectory \/ SyncRemovedDirectory
  BY <1>9, RemoveDirectoryKeeps, SyncRemovedDirectoryKeeps
<1>10. CASE PowerLoss
  BY <1>10, PowerLossKeeps
<1> QED BY <1>1, <1>2, <1>3, <1>4, <1>5, <1>6, <1>7, <1>8, <1>9, <1>10, <1>11
    DEF Next

(* What happens to a path, and to what was reported below it. *)
LEMMA PathKeeps ==
  ASSUME Inv, PathInv, [Next]_vars
  PROVE  PathInv'
<1> USE DEF PathInv
<1>1. CASE UNCHANGED <<out, dir, above>>
  BY <1>1
<1>2. CASE MakeParents
  BY <1>2 DEF MakeParents, Path
<1>3. CASE Link
  <2>1. out'.said = "nothing" /\ UNCHANGED <<dir, above>>
    BY <1>3 DEF Link, Becomes, Inv, OutInv
  <2> QED BY <2>1
<1>4. CASE SyncParent
  <2> DEFINE e == Confirmed(out)
             word == Founded(above.out, "written")
  <2>1. e \in [seen : Contents, kept : SUBSET Contents,
              said : {"nothing", "written", "unfounded", "other", "absent"}]
    BY ConfirmedKeeps DEF Inv
  <2>2. out' = Says(e, word) /\ UNCHANGED <<dir, above>>
    BY <1>4 DEF SyncParent
  <2> HIDE DEF e, word
  <2>3. out'.said = word
    BY <2>1, <2>2 DEF Says
  <2> QED BY <2>2, <2>3 DEF Founded, word
<1>5. CASE RollBack
  BY <1>5 DEF RollBack, Becomes, Inv, OutInv
<1>6. CASE SyncRemoved
  <2> DEFINE e == Confirmed(out)
  <2>1. /\ e \in [seen : Contents, kept : SUBSET Contents,
                 said : {"nothing", "written", "unfounded", "other", "absent"}]
        /\ e.said = out.said
    BY ConfirmedKeeps DEF Inv
  <2> HIDE DEF e
  <2>2. out' \in {out, e, Says(e, "absent")} /\ UNCHANGED <<dir, above>>
    BY <1>6 DEF SyncRemoved, e
  <2>3. out'.said \in {out.said, "absent"}
    BY <2>1, <2>2 DEF Says
  <2> QED BY <2>2, <2>3
<1>7. CASE OtherFile
  <2>1. CASE above' = [above EXCEPT !.out = "settled"]
    BY <1>7, <2>1 DEF OtherFile, Path
  <2>2. CASE out' = Confirmed(Becomes(out, Absent)) /\ UNCHANGED <<dir, above>>
    BY <2>2 DEF Confirmed, Becomes, Inv, OutInv
  <2> QED BY <1>7, <2>1, <2>2 DEF OtherFile
<1>8. CASE Migrate
  <2>1. /\ UNCHANGED <<out, dir>>
        /\ above' = [above EXCEPT !.data = IF @ = "missing" THEN "made" ELSE @]
    BY <1>8 DEF Migrate
  <2>2. above'.out = above.out /\ above' \in Path
    BY <2>1 DEF Path
  <2>3. above.data = "settled" => above'.data = "settled"
    BY <2>1 DEF Path
  <2> QED BY <2>1, <2>2, <2>3
<1>9. CASE PublishDirectory \/ RemoveDirectory
  <2>1. /\ run.cmd = "migrate" /\ UNCHANGED <<out, above>>
        /\ \A g \in Slug : g # run.to => dir'[g] = dir[g]
    BY <1>9 DEF PublishDirectory, RemoveDirectory, At, Inv, DirInv
  <2>2. dir[run.to] \in DirEntries /\ run.to \in Slug /\ dir[run.to].said \notin Reported
    BY <2>1, AtWork DEF Inv, MigrateInv
  <2>3. dir'[run.to].said \notin Reported
    <3>1. CASE PublishDirectory
      <4>1. dir'[run.to] = Becomes(dir[run.to], Whole(TRUE))
        BY <2>2, <3>1 DEF PublishDirectory, Inv, DirInv
      <4>2. dir'[run.to].said = "nothing"
        BY <2>2, <4>1 DEF Becomes, DirEntries
      <4> QED BY <4>2 DEF Reported
    <3>2. CASE RemoveDirectory
      <4> DEFINE gone == [dir[run.to] EXCEPT !.seen = Absent,
                                             !.kept = @ \cup Partial(TRUE) \cup {Absent}]
      <4>1. gone.said = dir[run.to].said /\ \A c : [gone EXCEPT !.seen = c].said = gone.said
        BY <2>2 DEF DirEntries
      <4> HIDE DEF gone
      <4>2. \/ dir' = [dir EXCEPT ![run.to] = gone]
            \/ \E c \in Partial(TRUE) : dir' = [dir EXCEPT ![run.to] = [gone EXCEPT !.seen = c]]
        BY <3>2 DEF RemoveDirectory, gone
      <4>3. CASE dir' = [dir EXCEPT ![run.to] = gone]
        BY <2>2, <4>1, <4>3 DEF Inv, DirInv
      <4>4. ASSUME NEW c \in Partial(TRUE),
                   dir' = [dir EXCEPT ![run.to] = [gone EXCEPT !.seen = c]]
            PROVE  dir'[run.to].said \notin Reported
        <5> DEFINE e == [gone EXCEPT !.seen = c]
        <5>1. e.said = dir[run.to].said
          BY <4>1
        <5> HIDE DEF e
        <5>2. dir' = [dir EXCEPT ![run.to] = e]
          BY <4>4 DEF e
        <5>3. dir'[run.to] = e
          BY <2>2, <5>2 DEF Inv, DirInv
        <5> QED BY <2>2, <5>1, <5>3
      <4> QED BY <4>2, <4>3, <4>4
    <3> QED BY <1>9, <3>1, <3>2
  <2> QED BY <2>1, <2>2, <2>3 DEF Reported
<1>10. CASE SyncProjects \/ SyncRemovedDirectory
  <2>1. CASE dir' = dir
    BY <1>10, <2>1 DEF SyncProjects, SyncRemovedDirectory
  <2>2. ASSUME NEW word \in {Founded(above.data, "migrated"), "absent"},
               dir' = [SyncedDirs EXCEPT ![run.to] = Says(@, word)]
        PROVE  PathInv'
    <3>1. UNCHANGED <<out, above>> /\ run.cmd = "migrate"
      BY <1>10 DEF SyncProjects, SyncRemovedDirectory, At
    <3>2. ASSUME NEW g \in Slug
          PROVE  dir[g] \in DirEntries /\ dir[g].said # "migrated"
      BY <3>1 DEF Inv, DirInv, DirEntries, MigrateInv, Reported
    <3>3. ASSUME NEW g \in Slug
          PROVE  Confirmed(dir[g]) \in DirEntries /\ Confirmed(dir[g]).said # "migrated"
      BY <3>2 DEF Confirmed, DirEntries, Inv, DirInv
    <3>4. \A g \in Slug : g # run.to => dir'[g] = Confirmed(dir[g])
      BY <2>2 DEF SyncedDirs
    <3>5. run.to \in Slug /\ dir'[run.to] = Says(Confirmed(dir[run.to]), word)
      BY <2>2, <3>1, AtWork DEF SyncedDirs
    <3>6. dir'[run.to].said = word
      BY <3>3, <3>5 DEF Says, DirEntries
    <3> QED BY <3>1, <3>3, <3>4, <3>6 DEF Founded
  <2> QED BY <1>10, <2>1, <2>2 DEF SyncProjects, SyncRemovedDirectory
<1>11. CASE PowerLoss
  <2>1. PICK to \in Path :
          /\ above' = to
          /\ \/ Survives(above.out, to.out) /\ \E c \in out.kept : out' = Left(out, c)
             \/ Vanishes(above.out, to.out) /\ out' = Entry
          /\ \/ /\ Survives(above.data, to.data)
                /\ \E left \in [Slug -> UNION {dir[g].kept : g \in Slug}] :
                     dir' = [g \in Slug |-> Left(dir[g], left[g])]
             \/ Vanishes(above.data, to.data) /\ dir' = [g \in Slug |-> Entry]
    BY <1>11 DEF PowerLoss
  <2>2. out'.said \in {"written", "other"} => to.out = "settled"
    <3>1. CASE out' = Entry
      BY <3>1 DEF Entry
    <3>2. ASSUME NEW c, out' = Left(out, c), Survives(above.out, to.out)
          PROVE  out'.said \in {"written", "other"} => to.out = "settled"
      <4>1. out'.said = out.said
        BY <3>2 DEF Left, Inv, OutInv
      <4> QED BY <3>2, <4>1 DEF Survives
    <3> QED BY <2>1, <3>1, <3>2
  <2>3. ASSUME NEW g \in Slug, dir'[g].said = "migrated"
        PROVE  to.data = "settled"
    <3>1. dir[g] \in DirEntries
      BY DEF Inv, DirInv, DirEntries
    <3>2. CASE Vanishes(above.data, to.data) /\ dir' = [h \in Slug |-> Entry]
      BY <2>3, <3>2 DEF Entry
    <3>3. ASSUME Survives(above.data, to.data), NEW left,
                 dir' = [h \in Slug |-> Left(dir[h], left[h])]
          PROVE  to.data = "settled"
      <4>1. dir'[g] = Left(dir[g], left[g])
        BY <3>3
      <4>2. dir[g].said = "migrated"
        BY <2>3, <3>1, <4>1 DEF Left, DirEntries
      <4> QED BY <3>3, <4>2 DEF Survives
    <3> QED BY <2>1, <3>2, <3>3
  <2> QED BY <2>1, <2>2, <2>3
<1>12. CASE \/ Answered \/ RefusedOrUnsent \/ Unanswered \/ TimesOut \/ Arrives
            \/ OtherPush \/ OtherAccess \/ NoteHeads
            \/ CreateProject \/ AccessCommand \/ SignRecord
            \/ StartExport \/ ReadInfo \/ ReadPage \/ VerifyAndWrite \/ Import
            \/ GenerateIdentity \/ LinkFails \/ StagingFails \/ Killed
  <2>1. UNCHANGED <<out, dir, above>>
    BY <1>12
    DEF Answered, RefusedOrUnsent, Unanswered, TimesOut, Arrives, OtherPush, OtherAccess,
        NoteHeads, CreateProject, AccessCommand, SignRecord, StartExport, ReadInfo,
        ReadPage, VerifyAndWrite, Import, GenerateIdentity, LinkFails, StagingFails, Killed
  <2> QED BY <1>1, <2>1
<1> QED
  BY <1>1, <1>2, <1>3, <1>4, <1>5, <1>6, <1>7, <1>8, <1>9, <1>10, <1>11, <1>12
  DEF Next, vars

LEMMA PathStarts == Init => PathInv
<1> SUFFICES ASSUME Init PROVE PathInv
  OBVIOUS
<1>1. above \in Path /\ out.said = "nothing"
  BY DEF Init, Path, Entry
<1>2. ASSUME NEW g \in Slug
      PROVE  dir[g].said # "migrated"
  <2>1. dir[g] = Confirmed(Becomes(Entry, dir[g].seen))
    BY InitialAssumption DEF Init
  <2> DEFINE e == Becomes(Entry, dir[g].seen)
  <2>2. e.said = "nothing"
    BY DEF Becomes, Entry
  <2>3. Confirmed(e).said = e.said
    BY DEF Confirmed, e, Becomes, Entry
  <2> QED BY <2>1, <2>2, <2>3
<1> QED BY <1>1, <1>2 DEF PathInv

(* The inductive invariant: what the servers hold is held, what a command      *)
(* writes was held by one, a migration finds no legacy project, and nothing is *)
(* reported without reservation below directories that may vanish.             *)
THEOREM Invariant == Spec => [](Inv /\ PathInv)
<1>1. Init => Inv /\ PathInv
  BY InitHolds, PathStarts
<1>2. Inv /\ PathInv /\ [Next]_vars => Inv' /\ PathInv'
  BY StepKeeps, PathKeeps
<1> QED BY <1>1, <1>2, PTL DEF Spec

(* What a command reported of the file at --out, or of a migrated project, is  *)
(* there after any loss of power, unless the directories above it were made    *)
(* for it and never synced: write_new, persist_migrated_project.               *)
THEOREM ReportedStays == Spec => []ReportedIsThere
<1>1. Inv /\ PathInv => ReportedIsThere
  <2> SUFFICES ASSUME Inv, PathInv PROVE ReportedIsThere
    OBVIOUS
  <2>1. /\ out.said = "written" => MayLeave(out, above.out) = {out.seen} /\ out.seen # Absent
        /\ out.said = "other" => MayLeave(out, above.out) = {Other}
        /\ out.said = "absent" => MayLeave(out, above.out) = {Absent}
    BY DEF Inv, OutInv, PathInv, MayLeave
  <2>2. ASSUME NEW g \in Slug
        PROVE  /\ dir[g].said = "migrated" => MayLeave(dir[g], above.data) = {Whole(TRUE)}
               /\ dir[g].said = "absent" => MayLeave(dir[g], above.data) = {Absent}
    BY DEF Inv, DirInv, PathInv, MayLeave, Reported
  <2> QED BY <2>1, <2>2 DEF ReportedIsThere, Other
<1> QED BY <1>1, Invariant, PTL

(* Once a migration is reported there is no other legacy project among the     *)
(* directories, nor after a loss of power: reject_existing_legacy_project.     *)
THEOREM LegacyStaysAlone == Spec => []LegacyIsAlone
<1>1. Inv /\ PathInv => LegacyIsAlone
  BY DEF Inv, DirInv
<1> QED BY <1>1, Invariant, PTL

(* An exported file is the project as its server held it at one moment, and    *)
(* its bootstrap verifies: export_project.                                     *)
THEOREM ExportsAreSnapshots == Spec => []ExportIsASnapshot
<1>1. Inv /\ PathInv => ExportIsASnapshot
  BY DEF Inv, OutInv, Snapshot, ExportIsASnapshot
<1> QED BY <1>1, Invariant, PTL
=============================================================================
