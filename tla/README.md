# A TLA+ model of Mantis

Mantis is a parametric CAD program in Rust. A model is a graph of components; every edit is an
operation on that graph; operations are sealed into signed blocks, and a server keeps each project's
blocks and the signed log of who may write. This directory holds TLA+ modules for the parts of the
program that keep state, TLC configurations that check them on small instances, and proofs that
TLAPS checks for every instance. All paths below are relative to `src/` of the repository.

## 1. The system: an inventory

### Components, their state and their operations

| component | where | state it keeps | operations |
|---|---|---|---|
| graph | `crates/mantis-graph/src/graph.rs` | nodes, wires | `apply` of AddNode, RemoveNode, Connect, Disconnect, SetParam, MoveNode; `apply_all`; `topo_order`, `downstream` |
| evaluator | `crates/mantis-graph/src/eval.rs`, `component.rs` | a cache of outputs with the signature and component that gave them, `dirty_all` | `evaluate`, `invalidate`, `invalidate_all`; `Registry::register` |
| component library, kernel | `mantis-graph/src/components/`, `mantis-kernel/` | none (pure geometry) | `Component::eval` |
| chain | `crates/mantis-chain/src/lib.rs` | blocks linked by hashes and signed | `append`, `try_extend`, `try_extend_trusted`, `replay`, `validate` |
| access ledger | `crates/mantis-protocol/src/access.rs` | records, and members, title, archived derived from them | `replay`, `try_extend` |
| project bootstrap | `crates/mantis-protocol/src/project.rs` | none | `verify` |
| project registry | `crates/mantis-server/src/projects.rs` | map of projects (RwLock), a mutex per project, `commit_lock`, `ready`, `mutations_allowed` | `open`, `create`, `push`, `append_access`, `summaries`, readers |
| atomic storage | `crates/mantis-server/src/storage.rs` | files | write, sync, rename, sync the directory |
| HTTP server | `crates/mantis-server/src/main.rs` | an accept loop, a bounded queue and four workers (v2); one thread and one file (v1) | routes |
| rate limiter | `crates/mantis-server/src/rate_limit.rs` | a bucket of tokens for the server and one for each key | `allow_at`, `prune` |
| document | `crates/mantis-app/src/state.rs` | chain, working graph, pending and recovery operations, undo and redo, the drag in flight, the block viewed, dirty flags | edits, drags, undo, redo, `set_view`, `commit`, `merge_remote`, `adopt_remote`, `restore` |
| workspace persistence | `crates/mantis-app/src/app.rs`, `workspace.rs` | catalog of snapshots, save stamp, durability generations, the key's second copy | autosave, save, switch, create, import, delete, exit, load |
| sync client | `crates/mantis-app/src/sync.rs`, `app.rs` | one flow at a time, push progress, the frozen target of a pull, `adopting_remote` | check, list, pull page by page, push chunk by chunk |
| user interface | `app.rs`, `node_editor.rs`, `design_panel.rs`, `viewport.rs`, `commands.rs` | selection, drags, the wire and box in hand, the scene and what it was built of | one event a frame, commands, rebuild, pick |
| CAD jobs | `cad_io.rs` | the job in flight with its payload | import, solid operations, export, cancel, poll |
| Grasshopper definitions | `grasshopper.rs` | none | import, export |
| command-line agent | `crates/mantis-cli/src/agent.rs`, `remote.rs`, `local_io.rs` | document files under lock files | `init`, `graph`, `apply`, `pull`, `push` |
| administration tool | `crates/mantis-admin/src/main.rs` | project files and directories | project and member administration, export, verify, import, migrate |
| history comparison | `crates/mantis-history/src/lib.rs` | none | compare two revisions |

### How they interact

* The **user interface** calls the **document**, one handler per event on one thread, in the order of a
  frame: what was pulled, the panels, the scene, the viewport, the dialogs. The document calls
  `Graph::apply` for every edit, live drags included, and the **evaluator** once a frame when a dirty
  flag is set. The **workspace** code snapshots the document between frames; a **CAD job** runs beside
  them in a worker and is polled once a frame.
* The **sync client** sends requests whose answers come back through an inbox that is drained once a
  frame; the user edits, commits and undoes in between. What it pulls enters the document through
  `merge_remote` and `adopt_remote`.
* The **server**'s workers take requests from one queue, read their bodies and call the registry.
  A mutation takes a project's mutex, judges the request, asks the **rate limiter**, takes
  `commit_lock`, replaces the file and then changes memory. A creation holds the map's
  lock for writing throughout. Readers take the map's lock for reading, then a mutex.
* The **access log** decides who may push; the chain and the access log are two files replaced one
  at a time. At start the server reads everything and refuses to start if anything does not verify.
* The **command-line agent** and the **administration tool** are processes of their own. They share
  files with each other only through lock files, links and renames, and the server with everybody.

### What is hard

* **Concurrency**: the three levels of locks and the two flags `ready` and `mutations_allowed`, both
  read more than once on the way of a request; agents on one document under two names.
* **Failure**: a rename may be visible and not durable, and a process that is killed then starts on it again; files survive a power loss independently; a
  creation may fail to publish and then fail to roll back; an answer may be lost after the deed.
* **Ordering**: a drag changes the graph before the ledger; a merge changes the ground under pending
  edits; undo keeps lengths of lists that others shorten; browser writes end later than they start.
* **Staleness**: cached outputs, dirty flags, save stamps, and decisions made before an answer arrived.

### What makes each component correct

| component | properties |
|---|---|
| access ledger | derived members, title and flag are what the log says, also after a rolled-back batch; an owner remains; only authorised records enter, whole batches at a time |
| project store | nothing acknowledged is lost; what is served is durable while writes are allowed, and opens again, but for what a kill left unsynced; a revoked key cannot write; an uncertain outcome stops writes until a restart |
| project registry | the map lists what is on disk; a creation is never undone once answered while writes are allowed; a genesis belongs to one project; every request is answered |
| server | a push that is answered extended exactly the history its base names; no key writes more than its burst and rate; every request is answered; every chain held validates |
| graph, evaluator | no loose wire, one wire per input, no cycle; a cached answer is the answer a fresh evaluation would give |
| history | a comparison that sees no change is right about the screen; comparison, replay, export and viewport find the same geometry |
| document | blocks and pending operations replay to the working graph; undo and redo replay; no edit of the user is lost |
| workspace, catalog | what is saved opens again; an exit loses nothing; clean means durable; the key is never without a durable copy once it had one |
| sync client | pages are merged contiguously onto the history they belong to; a lost, late or repeated push enters once, whole and in order; every flow ends |
| interface | one undo takes back one edit; a click meets the scene it was drawn for; features are listed after what they depend on |
| CAD jobs, definitions | a result replaces only what it was computed from; units stay with their geometry; nothing is guessed in a definition; what is drawn is exported or the export refused |
| agent | what was answered is in the file, after a power loss too where the command wrote it; a batch is committed on what its agent saw; what a push counts is published |
| administration | what a command reported is there, under directories that are; one legacy project at most; an export is a snapshot |

## 2. The modules

Arrows read "is extended by".

* `AccessRules` → `AccessLog`, `AccessLedger`, `ProjectStore`, `Administration`
* `Graph` → `Evaluator` → `History`
* `Graph` → `Document` → `Workspace`; `Document` → `Interface`; `Interface`, `Grasshopper` → `CadFiles`
* `Graph` → `Chain` → `LegacyServer`; `RateLimiter` → `HttpServer`; `LegacyServer`, `HttpServer` → `Server`
* `ProjectRegistry`, `SyncClient`, `AgentFiles`, `Catalog` stand alone.

`MC…` modules hold instances for TLC, `…Proofs` modules theorems. In a module, a definition whose comment
begins with "Mutant:" is not part of the model: it is a plausible bug, and putting it in the place of the
definition it varies makes the run find the property violated that the bug would break.

### AccessRules and AccessLog

What a log says about a key, answered by the log alone: roles, owners, title, archived ("the last record about
a key decides"). The code keeps a map instead; `AccessLedger` models that map, and the theorem
`DerivedStateMatches` says that the two agree, so that `ProjectStore` may use the simpler answer.
`AccessLog` is the abstract promise: a log that grows by whole batches, each record authorized by those before it.
`ProjectRegistry` and `ProjectStore` split the server: what a mutation does to one project's files
is the subject of the second, and is one step with the same outcomes in the first.

### AccessLedger

`records`, `members`, `title`, `archived` are the fields of `AccessLedgerV1`; `saved` is what
`try_extend` keeps to go back to, `left` the records of the batch still to come. `Begin`, `Accept`,
`Refuse` are the loop's start, a record that `verify_next` and `apply_next` accept, and one they
refuse (with the roll-back). A record's index, previous hash, hash and signature are one flag:
the hash of a record commits to everything before it. Labels other than the shape of a grant,
times and the actor's name are left out.

### ProjectStore

For each project and each of its two changing files: `memory` is what the process serves, `visible`
what reading the file returns, `surviving` what it may hold after a power loss (between rename and
directory sync both the old and the new). A worker's request goes
`received -> prepared -> committing -> renamed -> idle`, and the locks it holds follow from that
place. `Receive` (with a `base` that may be out of date), `Prepare` and `Reject` are the part of
`push` and `append_access` under the project's mutex; `TakeCommit` and `GiveUp` the check of
`mutations_allowed` under the commit lock; `Rename`, `RenameFails`, `Sync`, `SyncFails` are the
outcomes of `persist_json_existing_observed`: not published (memory unchanged, not ready), published
and not synced (the candidate is served, writes stop), done. The process ends by `Kill`, which leaves every file as it
is seen and what may survive of it as it was, or by `PowerLoss`, which picks for every file, each on its
own, one of the versions it may hold; `Restart` is `open`, which refuses to start on a project that
does not verify, and syncs none of those it reads. `acked` remembers what was answered with 200.

* The chain is counted from the project's signed checkpoint. A version stands for its hash.
* Size limits, quotas, the rate limiter, graph replay and malformed bodies are a `Reject` that may
  happen to any request. The first check of `mutations_allowed` that fails changes nothing and is not a step.
* A restart after a kill, the one DEPLOYMENT.md (241-246) prescribes included, accepts writes on files whose last replacement
  a later power loss may take back. The history variable `unconfirmed` holds the projects a kill left so, until one of their
  files is synced: what is served of the others is durable (`ServedIsDurable`), and their authors are granted whichever versions
  survive (`AuthorsGranted`). Of the ones in it neither holds: a grant that was not synced, a kill, a restart, a push by the new
  member, and a power loss may leave the old log beside the new chain, which `open` refuses. `AckedSurvives` holds of all.
* A project's own name in `projects/` is taken to be durable; `ProjectRegistry` is about it.

### ProjectRegistry

`registered` is the map, `directory` what `projects/<slug>` is to the running system, `surviving` what
a power loss may leave of it (absent, whole, or partly removed). The places of `pc` follow `summaries`
(`List`, `ListOne`, `Listed`), the mutations (`FindProject` to `PersistPush`) and `create`: `LookUp` under
the read lock, `LockMap`, `LookAgain`, the scan of all projects for the legacy place and the genesis
(`Scan`), the limiter (`Scanned`), the staging directory (`Stage`), the commit lock (`CommitCreate`),
`Publish`, and then `Register`, or `RollBack` and `ConfirmRemoval`. `created` holds every bootstrap answered with 201, the ones of projects that
were found in the map included (`Record201`), `confirmed` those answered while writes were allowed and no kill had left the slug
unsettled (`unconfirmed`, as in `ProjectStore`). `CreatedSurvives` speaks of `confirmed`; of `created` it does not hold (section 6).

* The projects of the map are locked in any order (the code: by slug); its two passes are one.
* Whether an existing project still matches a bootstrap depends on whether it has grown; the answer is a choice.
* The branch of `create` for a directory that exists outside the registry (587-620) is not an action:
  `RegistryMatchesDisk` shows that no such directory exists there.
* Staging directories are skipped by `open` and are not modelled. The limiter's mutex is taken and
  dropped within one step.

### Chain, LegacyServer, RateLimiter, HttpServer, Server

`Chain` is `mantis-chain`: genesis of both formats, hashes over links, signatures in two spellings, sealing,
validation, and extension checked on top of what is trusted. `LegacyServer` is the server with one chain file
(`run`, `handle`): clients that commit, pull ranges and post chains that may be altered on the way (`Variants`), the file's
replacement with its failures and the latch, power losses and restarts.

`RateLimiter` counts in whole units (`Token` of them pay for a write), in ticks. `SharesAssumption` says what the
constants of the code have in common and the proof needs: a key's burst is below the server's, and a bucket is
pruned only when disuse has filled it. `HttpServer` is the server with a data directory: `Accept` fills the
bounded queue and waits while it is full, workers `Take`, `ReadBody` (or see it `BrokenOff`), `LookUp`
the head for pushes by the old route, `Call` under the project's mutex, ask the limiter key by key (`Limit`), and
`Extend`. Which of the two a process is follows from `parse_args_from` and the environment (`Server`).

### Graph and Evaluator

`Apply(g, op)` gives the graph after an operation, or `Refused`. A node carries one parameter for its
map of them; kinds, values and positions are members of small sets. The evaluator's `EvaluateGraph` is the
whole pass of `evaluate`: nodes in the order of `topo_order`, `Needs` deciding from signature, component,
changed sources and failed sources whether a node runs, `RunNode` gathering inputs, defaults and the
errors about ports. A component has one output, and `Compute` stands for list matching, type checks and
the component's code. When a node has several wrong ports only which error is reported differs.
Callers edit the graph with or without an invalidation (`Edit` alone, or with `Invalidate`), and a
component may be registered in place of another. `current` is a history variable.

### History

The same outputs read by four tools: the comparison of two revisions (`Collected`, `Definition`, `StatusOfScene`,
`Classification`), the viewport (`Scene`), replay on the command line (`MeshCount`) and export
(`Exported`). An output is a tree of lists and leaves; a leaf has a kind, the fingerprint of its exact
definition and whether its measures are finite. Counts, areas and bounds that only explain are left out. An export takes the record in an imported
node's parameter, of a plane too, which nobody draws, and is refused as a whole by a chosen node that fails, a list too deep, too many objects, a
record that is not valid or too many bytes (`Records`): `ToolsFindTheSame` says that one that is not refused holds all that is drawn, and all that was
chosen.

### Document and Workspace

Every handler of `state.rs` that changes the document is an action; each begins by ending the drag
in flight where the code does (`Settled`, `SettledUndo`, `SettledRedo` are the ledger after that, and
`Record` adds a user edit to it). `chain` holds the blocks after the genesis, each a batch of operations
made here or pulled. A drag of a parameter or of nodes changes the graph at once (`ParamDrag`,
`MoveLive`) and is recorded when it ends (`GestureOps`). `MergeRemote` replays the pending operations one
by one over a pulled block and puts the ones that fail aside; `RetryRecovery` and `ClearRecovery` are
the recovery dialog. `evalDirty`, `sceneDirty` are the two flags, `Evaluate` and `Frame` their readers.

* A pulled page is one block, as a chain extended page by page is a chain extended block by block. One that
  diverges or is already known has the effect of one that does not apply: the drag ends.
* `MoveNode`s of one drag are recorded in any order; they commute.
* `revised` says that `persistence_revision` moved since the last save. The stamp's parts that have no
  counterpart here (name, camera, selection, sync settings) and the debounce of autosave are left out.
* In `Workspace` a snapshot is written at once and durably, and there is one workspace; `Catalog` has the rest.
  `Reopen` is an exit or a switch to another workspace and the return.

### Catalog

All workspaces of a device and the signing key in one catalog, in a native program (a file that is replaced) and in a browser
(transactions that end later, in order, or abort). A document is the number of its latest edit. `app` holds the fields of `MantisApp`
that persistence reads and writes, with `CatalogDurability` (`require_durable_save`, `Requested`, `ConfirmedBy`, `FailedBy`), `store`
the disk or database with what a power loss may leave, `legacy` the key's copy in eframe's storage. Each handler is a
set of outcomes (`Then`, `Persisted`), as `persist_now` may fail in several ways in the middle of it.

* A key that was imported while the catalog could not be saved is replaced at the next start by the catalog's old key
  (`app.rs` 2303): `KeyStaysStored` speaks of a key that had a durable copy.
* A start reads a catalog whose rename was not synced as if it were durable, and takes it for confirmed. `KeyStaysStored`
  does not count such a copy until the program has written one itself (`ReadForGood`); section 6 says what may come of it.

### Interface, CadFiles, Grasshopper

`Interface` puts the window over `Document`: `phase` walks through the frame (`begin`, `panels`, `viewport`, `tools`),
and in each phase one event of the user may fall, named after its handler (`SelectNode`, `DragValue`, `PressNode`, `DragNodes`,
`GrabInput`, `DropWire`, `Delete`, `Command`, …). `pointer`, `canvas` and `wire` are the drags of egui and of the editor, which go on
across frames whatever else changes the document; `evaluated` and `drawn` are what the last evaluation and the scene were made of.
`Topology` is `design_panel.rs`'s feature list. Cameras, painting, layout and the projection behind a pick are left out.

`CadFiles` adds the jobs of `cad_io.rs`: `Started` freezes the payload, `ReadFile`, `Solve`, `WriteFile` and `Fail` are the worker,
`Poll` judges what it brings back (`Welcome`, `Records`, `Renamed`), and `SwitchWorkspace` may happen in between.
`Grasshopper` is the reading and writing of definitions, without the XML. An object may list its sources and not count them (`counted`), and have outputs that are
reversed or grafted (`modified`): the code asks for neither, so `NothingGuessed` speaks of definitions without (`Plain`). A number of more than 10^12 is
written and not read (`TooLarge`), and so is a definition of more than 10,000 objects (`MaxObjects`, for all the limits of an archive): `DefinitionsReadBack` says
that the first takes with it exactly what depends on it, and nothing of the second. What cannot be written refuses the whole export (`Exportable`).
An imported point or plane is written as bare coordinates.

### SyncClient

A block is the workspace that signed it, or the project for a genesis made on the server, and a head is the
history that leads to it: the hash of a block covers all before it. `remote` is what each project holds, `local`
and `edited` are the workspace's chain and whether it has pending operations. `client` is one record for what
`SyncClient` keeps (`flow`, the project, the last `info`) and the flags `App` keeps beside it (`ahead` for
`remote_ahead`, `adopting` for `adopting_remote`, `progress` for `push_progress`). `call` is the request under way and
`inbox` the answer not yet drained.

The user's actions are `Edit`, `Commit`, `Start` (the four flows), `Reattach` (attach, detach, another server or project),
and `Switch` (to another workspace and back: a new `SyncClient` with an inbox of its own). The network's are `Serve`,
`ServePush`, `LoseCall` (no answer, or an error), and `ServeLate`: a push nobody waits for any more
is served all the same. Every branch of `process_sync` is an action named after its handler:
`Continue`, `ListProjects`, `handle_check_info`, `handle_pull_info`, `handle_push_info`, `handle_push_ok`, `Conflict`,
`handle_pull_blocks`, `Fail`. A handler that asks for the next page or chunk does so in the same step (`Ask`).

* What a merge or an adoption does to pending operations is `Document`'s subject; here it may leave some or none (`Take`).
* The server's histories only grow: that they do, whatever the disk does, is `ProjectStore`'s subject (`AckedSurvives`).
* The limits on a chunk's operations and bytes may end it anywhere (`PostChunk`), or end the push when one block exceeds them.
* The anchor saved with a workspace may be older than the info of the moment; `Anchors` lets it be any head
  the local history continues.
* An answer that the running flow has no handler for is dropped by `process_sync`; there is no action for it.
* The compatibility check of the preflight, URLs, the check made in the background without messages, and parsing (a
  malformed answer is `Failed`) are left out.

### AgentFiles

Processes of the command line, each running one command at a time: `Lock` takes the lock files in path order or answers that the document
is busy, `ReadInit`, `ReadApply`, `ReadSync` read and judge, `Info`, `Page`, `Send`, `Receive`, `Lose` talk to the project, `Replace` renames the new
document over the old one and `SyncDirectory` or `AnswerUnsynced` end it. `disk` is what a file may hold after a power loss, `told` what
an agent was last told is in it, `shown` what a pull that found nothing new said of it, `seen` the state it last observed. Two names may be one file (`Target`).

* Such a pull answers without a sync (`remote.rs` 318-326): what it said is in the file until power is lost and the file had not been
  synced since its replacement (`AnsweredSurvives`, its second part). What a command saved itself and said so stays.
* A symbolic link whose target is not there yet (`Link`) is locked under its own name. `Spec` has no command begin on one; `DanglingSpec` does, and section 6
  says what follows.

### Administration

One command at a time against servers that others push to (`OtherPush`, `OtherAccess`), requests that arrive late
(`TimesOut`, `Arrives`), exports read page by page, files written without replacing any (`Link`, `SyncParent`, `RollBack`), and
migrations into the data directory of a server that is stopped, published by one rename. `kept` of a file or directory is what a power loss may leave,
`said` what the operator was told of it. `above` says whether the directories above are there and durable: a command makes the missing ones (`MakeParents`) and
syncs only the last, so a file it reported under such a path may vanish, until somebody syncs them (`Founded`; `ReportedIsThere` speaks of the other paths).
The encryption of a key file is taken to work. Two failed
syncs and a power loss between them may leave two legacy projects where no migration was reported, so `LegacyIsAlone` speaks of reported ones.

## 3. What TLC checks

| run | states | properties | what it shows |
|---|---|---|---|
| `access_ledger` | 295,000 | `OwnerRemains` `ImplementsAccessLog` | batches with refused records leave no trace; the ledger implements the append-only authorised log |
| `project_store` | 1,277,000 | `ServedIsDurable` `AckedSurvives` `OnlyMembersWrite` | two workers on two projects through failing disks, kills, power losses and restarts |
| `registry` | 312,000 | `RegistryMatchesDisk` `CreatedSurvives` `GenesisBoundOnce` `EveryRequestAnswered` | competing creations, mutations and listings with failing roll-backs; no cycle in the order of locks |
| `evaluator` | 1,418,000 | `GraphStaysWellFormed` `CachedIsFresh` `QuietMeansSameView` `ToolsFindTheSame` | edits, invalidations and component replacements between evaluations, with cycles refused and nodes that fail; four tools that read the outputs |
| `workspace` | 46,000 | `LedgerGivesGraph` `HistoryReplays` `SavedOpens` `ExitLosesNothing` | drags, edits, undo, commits, conflicting merges, saves, exits and kills in every order |
| `sync_client` | 193,000 | `RemoteKeepsAuthors` `AuthoredSurvives` `FlowEnds` | one workspace pushes in chunks, another pulls in pages and adopts, over a network that loses and delays |
| `stale_adoption` | | `NewBlocksAreReplayed` (violated) | a pull that rejects its own page, see section 6 |
| `agent_files` | 1,130,000 | `AnsweredSurvives` `CommitsOnWhatWasSeen` `PublishedAsReported` | two agents on documents that have several names, killed and cut off anywhere |
| `catalog` | 858,000 | `CleanIsOnDisk` `KeyStaysStored` `NothingOpenIsLost` | workspaces, keys, failing and late saves, in both builds |
| `server` | 177,000 | `AcceptedValidates` `WithinBudget` `BlocksFollowTheirBase` `EveryRequestAnswered` | both servers: altered chains, failed writes; queue, workers and limiter |
| `administration` | 860,000 | `ReportedIsThere` `LegacyIsAlone` `ExportIsASnapshot` | the operator's tool against servers in use and a stopped one's directory |
| `interface` | 206,000 | `OneUndoStep` `DrawnIsCurrent` `FeaturesInOrder` `UnitsFollowGeometry` `NothingGuessed` `DefinitionsReadBack` `ResultsMeetTheirModel` | the window frame by frame, jobs beside it, definitions read and written |

Five more configurations state what a document or a comment says and the code does not do; TLC finds each violated within seconds, and section 6
says how: `MCUnsyncedCreation.cfg` (`SuccessIsDurable`), `MCDanglingLink.cfg` (`OneWriter`), `MCUnitlessPoints.cfg` (`UnitsFollowCoordinates`),
`MCModifiedOutputs.cfg` and `MCUncountedSources.cfg` (`NothingIgnored`).

Every property that holds has a mutant of the code (`Mutant:` in the modules), a plausible bug under which the run finds it violated.

**Bounds.** They are small because the hazards need few actors.

* `access_ledger`: three keys (an operator that is no member, an owner, one more), two labels and titles,
  batches of up to three records, logs of up to five: enough to promote, hand over, demote and revoke
  in one batch and roll it back.
* `project_store`: two projects, because one may fail while another waits for the commit lock; two workers,
  because a race needs two and the locks exclude more; one block and two records after the first, so that a guest can be
  granted, write and be revoked, or the project archived; projects and workers are interchangeable (symmetry).
* `registry`: two slugs and bootstraps that share a genesis, that are both legacy, and that may coexist;
  three workers, so that a creation, a mutation and a listing wait for each other; three requests.
* `evaluator`: three nodes, so that a change passes through a node that may hide it and a cycle may be longer than
  two; the edits connect, close cycles, move, remove and re-add; one kind is unknown until it is registered, one value makes it
  fail, and `Version` has a second instance to replace a component by. Outputs draw lists in which points recur, one deeper
  than the viewport follows; an imported plane, and shapes that an export refuses.
* `workspace`: two sessions (`session`). In "changes" one node, two edits and two blocks, nothing saved: a conflict needs one
  node and one pulled block; two blocks let the user look at a block of the history that is not the genesis. In "saves" two
  nodes, three operations and one block, so that a merge takes an end of a pending wire away, saved, left and killed in between.
* `sync_client`: pages and chunks of one block, and two blocks that one workspace signs and pushes in two chunks while the other pulls them in
  pages. One push given up may be on its way (`MaxLate`), and arrives while the other workspace rests (`Quietly`): what it does to the project
  then, an answered push does at any time. A key that loses the right to write and adoption between two projects are left to
  the proofs, which hold for any projects, workspaces and sizes.
* `agent_files`: two interchangeable agents, two documents, one of which has two names; a behaviour works on the
  workspace, which is copied once, or on the clone and the project (`Apart`). In `MCDanglingLink.cfg` one of the names is a link to a document that is not there.
* `catalog`: three workspaces, one of which does not replay, two keys, four saves in a run of the program; a behaviour is about keys
  and has two failures, or about several workspaces and has one (`Apart`).
* `server`: two clients of a chain file, a key in both places, two blocks and two failures; or two keys, two workers, a queue of one,
  three requests, two ticks. Time passes between requests.
* `administration`: two commands, pages of one item, histories of two blocks and three records, two directories; a behaviour works
  on servers or on the directory of a stopped one, and one of the two paths may lie under directories that are missing.
* `interface`: four kinds of sessions: edits of a slider wired to a box (two edits, a merge); a job in two workspaces that are copies of
  one project; imports and exports beside geometry of a document in millimeters; definitions of three objects read, and graphs saved
  as one, with a point, a toggle, a number too large, values that cannot be written, and one object too many. What a worker brings back arrives just before it is polled.

**Deadlock** is checked except in the runs of the registry, the server, the administration tool and the ledger: a full log, a spent number of
requests or commands, or a disk that does not load really ends them.

**Fairness.** `registry` and `server` assume weak fairness of each worker, and `server` of the accept loop: the operating system runs a thread that is
not blocked. Nothing is assumed of clients, crashes or restarts. `std`'s locks are not fair, so with
unboundedly many requests a worker may wait for ever; the number of requests is bounded, and
`WritersFirst` makes the map's lock prefer writers, the harder case for a cycle (a reader then waits for a
writer that waits for a reader).

`sync_client` assumes weak fairness of each workspace's network and frame: an HTTP client ends every request with an
answer or an error and asks for a repaint then, and each frame drains the inbox. Nothing makes a user act, and nothing makes a push
succeed or a late one arrive. `FlowEnds` would fail if a pull followed a moving head: its target is frozen.

The other properties are safety properties and assume none.

## 4. What is proved

TLAPS checks the following for every value of the constants, from the assumptions named in the modules; TLC evaluates
those assumptions in the runs. The properties are the ones TLC checks on small instances, but for those in brackets, which no run
needs to repeat.

| module | theorem | states |
|---|---|---|
| `AccessProofs` | `OwnerAlwaysRemains` | `[]OwnerRemains` of `AccessLedger` |
| | `LedgerImplementsLog` | `ImplementsAccessLog`: the refinement of `AccessLog` |
| | `DerivedStateMatches`, `LedgerTypeCorrect` | (`[]DerivedStateMatchesLog`, `[]LedgerTypeOK`) |
| | `ServedDurable`, `NothingAckedIsLost`, `MembersOnly` | `[]ServedIsDurable`, `[]AckedSurvives`, `OnlyMembersWrite` of `ProjectStore` |
| | `EveryAuthorGranted`, `EveryLogReplays`, `LatchedStaysNotReady`, `TypeCorrect` | (`[]AuthorsGranted`, `[]AccessLogsReplay`, `[]LatchedNotReady`, `[]TypeOK`) |
| `ProjectRegistryProofs` | `RegistryOnDisk`, `CreationSurvives`, `BoundToOneProject` | `[]RegistryMatchesDisk`, `[]CreatedSurvives`, `[]GenesisBoundOnce` |
| | `StaysNotReady`, `WholeOrAbsent` | (`[]LatchedNotReady`, `[]AllOrNothing`) |
| `ServerProofs` | `AcceptedAlwaysValidates` | `[]AcceptedValidates` |
| | `StaysWithinBudget`, `BlocksAlwaysFollow` | `[]WithinBudget`, `BlocksFollowTheirBase` |
| `SyncClientProofs` | `RemoteIsAuthored`, `HistoriesSurvive` | `[]RemoteKeepsAuthors`, `AuthoredSurvives` |
| | `TypeCorrect` | (`[]TypeOK`) |
| `AgentFilesProofs` | `AnsweredStays`, `CommitsOnWhatItExpected`, `ReportedIsPublished` | `[]AnsweredSurvives`, `[]CommitsOnWhatWasSeen`, `[]PublishedAsReported` |
| `CatalogProofs` | `CleanIsSaved`, `KeyIsKept`, `OpenIsKept` | `[]CleanIsOnDisk`, `KeyStaysStored`, `NothingOpenIsLost` |
| `AdministrationProofs` | `ReportedStays`, `LegacyStaysAlone`, `ExportsAreSnapshots` | `[]ReportedIsThere`, `[]LegacyIsAlone`, `[]ExportIsASnapshot` |
| `GraphProofs` | `LedgerIsTheModel`, `UndoAndRedoWork`, `SavedAlwaysOpens` | `[]LedgerGivesGraph`, `[]HistoryReplays`, `[]SavedOpens` of `Workspace` |
| | `NothingIsLost` | `ExitLosesNothing` of `Workspace` |
| | `EvaluationIsFresh`, `StaysWellFormed` | `[]CachedIsFresh`, `[]GraphStaysWellFormed` of `Evaluator` |
| | `DocumentStaysWellFormed` | (`[]WellFormed(graph)` of `Workspace`) |
| | `ViewportShowsTheModel`, `UndoTakesBackOneEdit`, `PanelListsInOrder` | `[]DrawnIsCurrent`, `[]OneUndoStep`, `[]FeaturesInOrder` of `Interface`, under the jobs of `CadFiles` |
| | `JobsMeetTheirModel` | `ResultsMeetTheirModel` of `CadFiles` |

None of these properties is inductive by itself, but for the type invariants and `GraphStaysWellFormed`. Each module states its inductive invariant (a theorem
`Invariant`, of the ledger `LedgerInvariant`, in `ServerProofs` `RegistryInvariant`, in `CatalogProofs` `CatalogInvariant`, in `GraphProofs`
`WorkspaceInvariant`, `EvaluatorInv` and `CadCorrect`) as a conjunction of named parts, and has one lemma for each action or group of alike actions. Why each is needed:

* **AccessLedger.** That an owner remains depends on the map, and that a batch was authorized depends on the log. `Matches` joins them for the
  live state; `BatchInv` joins them for the state put aside, which a roll-back makes live again, and says of each record taken since that
  the log up to it authorized it. The refinement step of the last record of a batch is exactly that.
* **ProjectStore.** That a push keeps `AuthorsGranted` needs that the authors are members *when the file is renamed*, while membership
  was judged two steps earlier. `LocksInv` (the mutexes exclude each other, and nobody is in the commit
  while writes are stopped), `PreparedInv` (as long as the project's mutex is held, what a request was judged by
  still holds and its candidate is memory extended by its batch) and `DiskInv` (memory, visible and
  surviving versions agree, but for the window between rename and sync, when writes are stopped, and for what a kill left) carry it over.
* **ProjectRegistry.** The comparison with the other projects is made before the directory is published. `LocksInv` says that a creation has the map for
  writing alone, `ScanInv` what its scan has ruled out so far and that it stays so, `DiskInv` what map, directories and survivors
  have in common while it publishes or rolls back.
* **Server.** A bucket only shows how much is left now. `BudgetInv` relates it to every earlier write: since any of them, what was written and what is left
  are at most a burst and what flowed in. A bucket that is forgotten and made anew keeps that, because it would have been full (`SharesAssumption`).
  `MutexInv` says that between the comparison of heads and the extension nobody else touches the project's chain.
  An extension is checked only from where it leaves what is held. `LegacyInv` says that every chain a client or the server holds, the file holds or a
  power loss may leave validates as a whole, and the lemmas that validating is appending: what is checked on top of a valid chain is what validating all of it
  would check.
* **SyncClient.** A page, or a push that was given up, may be applied to a history much later. `Attributed` says of every history, wherever it is (a project,
  a workspace, a push, a page), that each block stands where its signer has it; it is kept because local histories only grow, or are replaced
  when nobody has built on them.
* **AgentFiles.** The theorems are about `Spec`, without commands on links to files that are not there. A command writes what it computed from an earlier read. `HoldsLocks` and `WritesWell` say that it holds the locks from the read on
  and that what it read is still there; `Keeps` is transitive, so what was told through several commands survives.
* **Catalog.** That a clean program is right about the disk says nothing of saves that have not ended. `AsAsked` says of every save the program believes in that the
  catalog asked for last has landed: it is on the disk, nothing is under way, and, once the program has written itself, no power loss undoes it. Why a result
  that is heard late may be believed is in the queues: the newest request is the last transaction and writes the stamp (`WritesOk`), and the success of the newest
  is in the inbox only when it landed (`EventsOk`). A handler calls `persist_now` up to three times between changes, and each call has several outcomes; `Good`
  says of every point in between how far program and store may be from where the handler began (no workspace lost, no edit taken back, and
  nothing new to be found on the device but catalogs with the key), so that handlers are proved link by link. The key is erased from eframe's copy
  on the word of a save alone: `LandedIsDurable` says that the word is good.
* **Administration.** `OutInv` and `DirInv` say of everything a power loss may leave at a path what is true of it; `PathInv`, that nothing is under directories that are missing; `MigrateInv`, that no other directory
  is a legacy project while a migration runs.
* **Graph.** `Connect` is judged by the graph before it: a set of nodes that lies on a cycle with the new wire would be reached without it.
* **Evaluator.** That an answer is fresh says nothing of the cache the next evaluation starts from, and an entry outlives the graph and the
  components it was made with. `CacheFits` says of an entry only what never goes stale: its output is what its component gives from its signature, on the
  outputs its sources have in the cache, as long as all of them are there; nothing while one is missing. It is kept when entries are dropped.
  Within a pass, `PassFits` says that a node that does not count as changed has the output it had before; a node comes after its sources
  (`TopoOrderSorts`), so an entry that is taken over was made from what its sources have now. Two results that are each the answer given the others
  differ nowhere: a node where they differ would have a source where they differ, and there is no cycle. The graph it starts with is finite and ids are numbers, which the
  order of evaluation compares.
* **Document and Workspace.** `LedgerGivesGraph` and `HistoryReplays` speak of the ledger that ending the gesture would leave, and not of the gesture. `DocumentInv`
  splits the graph on the screen in two: `Base`, to which the blocks and the pending operations replay, and the gesture on it. `DragFits` says
  that a drag of a value started from the value in `Base` and changed only that; `MoveFits`, that a move changed only the
  places of its nodes. Then ending the gesture records operations that give the graph back, though the moves are listed in no particular order and those that
  came back to where they were are not listed at all (`GestureGives`). Every handler ends the gesture first, so each starts from a
  ledger that replays (`SettledFits`). `RedoFits` says that all the batches undone apply after what is pending, one after the other: that each applies alone is not
  enough, and not inductive. For `ExitLosesNothing`, an action property, the counts of an operation in the parts of the ledger are added up before and after
  a step (`Carried`): a commit moves them, undo cuts the ledger in two parts and a merge sorts it into two lists, and neither drops one.
* **Interface.** The handlers of the window call those of the document and change selection, pointer and canvas beside. `HistoryStep` and `SceneStep` say
  what a handler of the document does to the edits that can be undone (they stay, lose the last or get one more, or the chain moves) and to the screen
  (all is asked for again, or what is shown stays), so that the window needs nothing else of them. `SceneInv` then says that what was evaluated
  and drawn last is current as long as nothing asks for it anew, in every phase; `BeforeInv`, that the graph noted before an
  edit is what the edits under it give. The scene is built of the graph displayed, which may be a block of the history: `Seen` says that this one
  replays too. `HandsInv` says that hands and selection hold ids, though maybe of nodes that are gone, as a merge leaves them.
* **The listing.** `OrderInv` says that the features in order come after their sources, each once, and that the others wait for exactly the sources not yet
  in order; `DepthInv`, that a feature is one deeper than the deepest of those. Both are kept by a round. None is left over at the end: it would have
  a source left over, and so on around a cycle. That the depth is the longest way takes both halves, that ways are no longer and
  that one is as long.
* **CadFiles.** `JobOk` says of a job that it holds the model it was started on and, once done, what its worker may bring; `ShelfInv`, that the workspaces put away open
  again, because a workspace is put away with its gesture ended. What a file holds is only well formed (`FileOk`); the operations planned from it are
  operations of the program, under ids no operation named, and enter as one batch, which may still be refused.

  The assumptions: a session starts with a ledger that replays, at its head (`SessionsAssumption`; what does not open is not
  started), ids are finite and ordered and there is a topmost place (`InterfaceAssumption`), and files hold what the reader accepts (`CadFilesAssumption`).

What the recursive functions `ApplyAll`, `Replay`, `Rebased`, `Replayed`, `TopoOrder`, `Pass`, `AllOrdered`, `Included`, `verify_extension_crypto`, `HeedsAll` and the library's `FlattenSeq` compute is proved by induction over their argument's length
(`Counting`, `SeqCounting`), from the library's theorem that the naturals are well-founded: a set stands for the
statement to be proved. For each, one lemma says that the function its `CHOOSE` names exists, and one what one element more gives.

**Only model-checked.** `EveryRequestAnswered` (both) and `FlowEnds` are liveness under fairness. `QuietMeansSameView` and
`ToolsFindTheSame` compare walks over trees of values of any depth, written with RECURSIVE operators, which the prover does not take.
`NothingGuessed` and `DefinitionsReadBack` compare what many operations planned from a definition add up to with the definition, wire by wire.
`UnitsFollowGeometry` depends on which settings documents have and on what the user may write into them. The properties that are violated are
not theorems.

## 5. What is not modelled

Floating-point geometry (the kernel and the components' code), formats, hashing and signatures (a hash
identifies what it hashes; a signature, who signed), drawing, the Python bridge, packaging. The CLI's and the administration
tool's printing commands only read.

## 6. Findings

* `stale_adoption`: `handle_pull_info` sets `adopting_remote` before it asks for the first page (`app.rs` 883). When that
  request fails, the flag stays (767-789), also when another project is chosen (1334-1344). The next pull, from a
  project that continues this workspace's history, asks for the blocks from its own length on, expects
  block 0 (1039-1051) and rejects the page as non-contiguous, each time until the workspace is switched. `README.md`
  (80) says that a pull verifies and replays the new blocks. Nothing is lost by it.
* `MCUnsyncedCreation.cfg`: a creation checks that writes are allowed (`projects.rs` 505) and waits for the map while another one of the same project
  publishes its directory, fails to sync `projects/` and fails to take the directory away. That one puts the project into the map and stops writes
  (674-701); the one that waited finds it there and answers with it (515-519), and `main.rs` (1560-1568) makes that 201. A power loss takes the
  directory. `ARCHITECTURE.md` (101-102) says that a success is returned only after durable persistence.
* `MCDanglingLink.cfg`: a symbolic link to a document that is not there yet is locked under its own name (`local_io.rs` 59-83), and written through once
  the document is there (`agent.rs` 239-245): a command through the link and one on the document may both be about to replace it.
  `docs/AGENT_PROTOCOL.md` (44-45) says that a concurrent writer is told `document_busy`.
* `MCUnitlessPoints.cfg`: `.gh` and `.ghx` files are exported without asking for the document of what is imported (`cad_io.rs` 159-160), and hold imported points and planes as
  coordinates (`grasshopper.rs` 1058-1066, 1143-1150). The comment at `cad_io.rs` 733-734 says that units follow geometry.
* `MCModifiedOutputs.cfg`: an output that is reversed, grafted or flattened is read as if it were not (`grasshopper.rs` 788-803; modifiers are
  asked for at 590 and 673 only), and nothing is reported. The comment at 3-4 and `docs/INTEROP.md` (85-87) say that what is not supported is reported.
* `MCUncountedSources.cfg`: whether a typed parameter or a panel is wired is asked of `SourceCount` (708), which is 0 when it is missing. A typed parameter that lists
  sources is then imported with them, and a panel as its text. `docs/INTEROP.md` (103-105) says that wired typed parameters are left out with
  a diagnosis, and reads panels that are not wired.
* Not checked by a run: when a creation's directory is published, removed again because `projects/` could not be
  synced, and the removal cannot be synced either, the answer is `persistence_uncertain` though nothing is
  visible (`projects.rs` 674-703; `RollBack` and `ConfirmRemoval`). ARCHITECTURE.md (102-105) and DEPLOYMENT.md (241) say that
  with this answer the candidate is visible.
* Not checked by a run: a catalog is renamed into place, its directory cannot be synced, and the program dies. The next start reads it as confirmed
  (`install_catalog`, `restored_catalog`; `app.rs` 256-267), and `save` erases eframe's copy of the key before it writes again (2196-2210). When that write
  fails too and the power fails, the catalog from before may come back, and the key is nowhere. The comment at `app.rs` 2302-2304 says that the copy is kept
  "so a storage failure cannot destroy the sole usable key". TLC finds this in the run `catalog` when `KeyStaysStored` is stated without `ReadForGood`.

## 7. Plan

All parts of the inventory that keep state are modelled, and their safety properties are proved but for the ones that section 4
lists. A restart that syncs what it reads, an up-to-date pull that syncs, an export that asks for the
document and an import that looks at outputs and `Source` items would let the qualifications above go (`unconfirmed`, `shown`, `Plain`). Next come `NothingGuessed` and `DefinitionsReadBack`, by induction over the objects of a definition with the lemmas on `Included` and `ImportGhx` in `GraphProofs`.
