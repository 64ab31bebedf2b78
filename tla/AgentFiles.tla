------------------------------ MODULE AgentFiles ------------------------------
(***************************************************************************)
(* mantis-cli on documents: agents run init, graph, apply, pull and push   *)
(* on files that others use at the same time, against a project that other *)
(* clients push to.  A command takes the lock of each file it may replace, *)
(* reads the document, and replaces it by a temporary file and a rename.   *)
(*                                                                         *)
(* A hash covers all that precedes it, so a head is written as the history *)
(* that leads to it, and a state hash as a history with the pending edits. *)
(***************************************************************************)
EXTENDS Integers, Sequences, FiniteSets
LOCAL INSTANCE SequencesExt

CONSTANTS
  Agent,       \* the processes of the command line
  File,        \* documents, in the order their paths sort
  Name,        \* the names they are called by; two may be one file
  Target,      \* the file each name resolves to
  Link,        \* the names that are symbolic links
  Edit,        \* operations an agent applies
  Draft,       \* operations a user leaves pending
  Calls,       \* the commands that are run, each on the names it is given
  Initial,     \* what the files may hold at the start
  Project,     \* the histories the project may start from
  PageBlocks,  \* blocks in a page of a download, and in a batch of a push
  MaxBlocks,   \* bound on the length of a history
  MaxLate      \* bound on the pushes given up and still on their way

ASSUME FilesAssumption ==
  /\ Target \in [Name -> 1..Len(File)] /\ Link \subseteq Name
  /\ PageBlocks \in Nat \ {0} /\ MaxBlocks \in Nat /\ MaxLate \in Nat
  /\ \A c \in Calls :
       /\ c.cmd \in {"init", "graph", "apply", "pull", "push"}
       /\ c.name \in Name /\ c.out \in Name
       /\ c.flags \in [expectHead : BOOLEAN, expectState : BOOLEAN,
                       signPending : BOOLEAN, dry : BOOLEAN]
       /\ c.cmd # "apply" => c.name = c.out /\ ~c.flags.dry

VARIABLES
  file,     \* what each file holds
  disk,     \* what each may hold after a power loss
  lock,     \* who holds each file's lock, or Free
  run,      \* the command each agent is running
  seen,     \* the state each agent last observed
  remote,   \* the history the project holds
  late,     \* pushes given up by their sender that may still arrive
  told,     \* the document an agent was last told is saved in each file
  shown     \* the one that an up-to-date pull last said is there

answers == <<told, shown>>
vars == <<file, disk, lock, run, seen, remote, late, answers>>

-----------------------------------------------------------------------------

Absent == [kind |-> "absent"]
Free == "free"
Unseen == [chain |-> << >>, pending |-> << >>]

(* A bare chain, or a .mantis workspace with the edits its user did not sign. *)
ChainFile(chain) == [kind |-> "chain", chain |-> chain, pending |-> << >>]
WorkspaceFile(chain, pending) ==
  [kind |-> "workspace", chain |-> chain, pending |-> pending]

(* Blocks, and the histories and documents made of them. *)
Ops == Seq(Edit \cup Draft)
Block == [by : Agent \cup {"genesis", "project", "other"}, ops : Ops]
History == Seq(Block)
IsDocument(doc) ==
  \/ doc = Absent
  \/ doc = ChainFile(doc.chain) /\ doc.chain \in History
  \/ /\ doc = WorkspaceFile(doc.chain, doc.pending)
     /\ doc.chain \in History /\ doc.pending \in Ops

ASSUME InitialAssumption ==
  /\ Free \notin Agent
  /\ \A files \in Initial :
       /\ files = [f \in 1..Len(File) |-> files[f]]
       /\ \A f \in 1..Len(File) : IsDocument(files[f])
  /\ \A chain \in Project : chain \in History

State(doc) == [chain |-> doc.chain, pending |-> doc.pending]
Signed(agent, ops) == [by |-> agent, ops |-> ops]
NewChain == << Signed("genesis", << >>) >>

Plain == [expectHead |-> FALSE, expectState |-> FALSE, signPending |-> FALSE,
          dry |-> FALSE]

(* A command: the file it reads and the one it writes, what it was asked to
   check, and what it found so far; own is the dangling link it is locked by. *)
Idle ==
  [cmd |-> "none", step |-> "none", from |-> 0, into |-> 0, wants |-> {},
   flags |-> Plain, edit |-> << >>, doc |-> Absent, result |-> Absent,
   info |-> << >>, got |-> << >>, done |-> 0, inflight |-> FALSE, own |-> {}]

At(a, cmd, step) == run[a].cmd = cmd /\ run[a].step = step
Go(a, step) == run' = [run EXCEPT ![a].step = step]

(* The locks are released when the command returns or its process dies. *)
Unlocked(a) == [f \in DOMAIN lock |-> IF lock[f] = a THEN Free ELSE lock[f]]
Return(a) == run' = [run EXCEPT ![a] = Idle] /\ lock' = Unlocked(a)

Tell(f, doc) == told' = [told EXCEPT ![f] = doc]
Show(f, doc) == shown' = [shown EXCEPT ![f] = doc]

-----------------------------------------------------------------------------

Init ==
  /\ file \in Initial
  /\ disk = [f \in DOMAIN file |-> {file[f]}]
  /\ lock = [f \in DOMAIN file |-> Free]
  /\ run = [a \in Agent |-> Idle]
  /\ seen = [a \in Agent |-> Unseen]
  /\ remote \in Project
  /\ late = {}
  /\ told = [f \in DOMAIN file |-> Absent]
  /\ shown = [f \in DOMAIN file |-> Absent]

(* graph: it takes no lock, and what it prints is the agent's observation. *)
Observe(a, call) ==
  LET doc == file[Target[call.name]] IN
  /\ call.cmd = "graph" /\ run[a] = Idle
  /\ doc.kind \in {"chain", "workspace"}
  /\ seen' = [seen EXCEPT ![a] = State(doc)]
  /\ UNCHANGED <<file, disk, lock, run, remote, late, answers>>

(* A link to a file that is not there yet. *)
Dangling(name) == name \in Link /\ file[Target[name]] = Absent

(* Every other command begins with the locks: init, pull and push lock their
   file, apply the document and its --out, and a dry run nothing. *)
Begin(a, call, e, wants, own) ==
  /\ call.cmd \in {"init", "apply", "pull", "push"} /\ run[a] = Idle
  /\ call.flags.expectHead \/ call.flags.expectState => seen[a] # Unseen
  /\ run' = [run EXCEPT ![a] =
       [Idle EXCEPT !.cmd = call.cmd, !.flags = call.flags,
                    !.edit = IF call.cmd = "apply" THEN << e >> ELSE << >>,
                    !.step = IF call.flags.dry \/ wants = {} THEN "read" ELSE "lock",
                    !.from = Target[call.name], !.into = Target[call.out],
                    !.wants = wants, !.own = own]]
  /\ UNCHANGED <<file, disk, lock, seen, remote, late, answers>>

(* A name stands for the file it resolves to. *)
Start(a, call, e) ==
  /\ ~Dangling(call.name) /\ ~Dangling(call.out)
  /\ Begin(a, call, e, {Target[call.name], Target[call.out]}, {})

(* canonical_document_path resolves a link only if its target exists: the
   lock of a dangling one is the link's own, and excludes nobody who calls the
   file by another name. *)
StartDangling(a, call, e) ==
  /\ Dangling(call.out) /\ ~call.flags.dry
  /\ \A b \in Agent : call.out \notin run[b].own
  /\ Begin(a, call, e, IF call.name = call.out THEN {} ELSE {Target[call.name]},
           {call.out})

(* try_lock on the files in the order their paths sort, each once:
   document_busy when another process holds it. *)
Lock(a) ==
  /\ run[a].step = "lock"
  /\ \E f \in run[a].wants :
       /\ \A g \in run[a].wants : f <= g
       /\ IF lock[f] # Free THEN Return(a)
          ELSE /\ lock' = [lock EXCEPT ![f] = a]
               /\ run' = [run EXCEPT
                    ![a].wants = @ \ {f},
                    ![a].step = IF run[a].wants = {f} THEN "read" ELSE "lock"]
  /\ UNCHANGED <<file, disk, seen, remote, late, answers>>

(* Any error before something was written: an unreadable file, an identity or
   a batch that is refused, a server that does not answer.  A power loss and a
   kill end a command the same way. *)
Fail(a) ==
  /\ run[a] # Idle /\ ~run[a].inflight
  /\ Return(a)
  /\ UNCHANGED <<file, disk, seen, remote, late, answers>>

-----------------------------------------------------------------------------

(* init refuses to overwrite. *)
ReadInit(a) ==
  /\ At(a, "init", "read")
  /\ IF file[run[a].into] = Absent
     THEN run' = [run EXCEPT ![a].result = ChainFile(NewChain), ![a].step = "write"]
          /\ UNCHANGED lock
     ELSE Return(a)
  /\ UNCHANGED <<file, disk, seen, remote, late, answers>>

(* Mutant: the state is compared without the head it was read at. *)
AgreesOnPending(c, doc, s) ==
  /\ c.flags.expectHead => doc.chain = s.chain
  /\ c.flags.expectState => doc.pending = s.pending

(* --expected-head and --expected-state. *)
Agrees(c, doc, s) ==
  /\ c.flags.expectHead => doc.chain = s.chain
  /\ c.flags.expectState => State(doc) = s

(* One block signs the pending edits and the batch, and committed clears them. *)
Sealed(doc, agent, ops) ==
  [doc EXCEPT !.chain = Append(@, Signed(agent, doc.pending \o ops)),
              !.pending = << >>]

(* cmd_apply up to its write: everything is checked on what was just read. *)
ReadApply(a) ==
  LET c == run[a]
      doc == file[c.from] IN
  /\ At(a, "apply", "read")
  /\ IF /\ doc.kind \in {"chain", "workspace"} /\ Agrees(c, doc, seen[a])
        /\ c.flags.signPending \/ doc.pending = << >>
        /\ Len(doc.chain) < MaxBlocks
        /\ ~c.flags.dry
     THEN /\ run' = [run EXCEPT ![a].result = Sealed(doc, a, c.edit),
                                ![a].step = "write"]
          /\ UNCHANGED lock
     ELSE Return(a)
  /\ UNCHANGED <<file, disk, seen, remote, late, answers>>

(* read_local, for pull and push: a workspace is refused, and only pull goes
   on without a document. *)
ReadSync(a) ==
  LET c == run[a]
      doc == file[c.from] IN
  /\ c.cmd \in {"pull", "push"} /\ c.step = "read"
  /\ IF doc.kind = "chain" \/ (doc = Absent /\ c.cmd = "pull")
     THEN /\ run' = [run EXCEPT ![a].doc = doc, ![a].step = "info"]
          /\ UNCHANGED lock
     ELSE Return(a)
  /\ UNCHANGED <<file, disk, seen, remote, late, answers>>

-----------------------------------------------------------------------------

(* download: the state the project is at, *)
Info(a) ==
  /\ run[a].step = "info"
  /\ run' = [run EXCEPT ![a].info = remote, ![a].step = "page"]
  /\ UNCHANGED <<file, disk, lock, seen, remote, late, answers>>

(* a page of blocks at a time, each served at that state, *)
Page(a) ==
  LET from == Len(run[a].got)
      next == [i \in 1..Len(run[a].info) - from |-> run[a].info[from + i]] IN
  /\ run[a].step = "page"
  /\ IF remote # run[a].info THEN Return(a)
     ELSE /\ run' = [run EXCEPT
               ![a].got = @ \o SubSeq(remote, from + 1,
                                      from + (IF Len(next) < PageBlocks
                                              THEN Len(next) ELSE PageBlocks)),
               ![a].step = IF Len(next) > PageBlocks THEN "page" ELSE "final"]
          /\ UNCHANGED lock
  /\ UNCHANGED <<file, disk, seen, remote, late, answers>>

(* ensure_prefix *)
FastForwards(doc, chain) == doc = Absent \/ IsPrefix(doc.chain, chain)

Downloaded(c) == [c EXCEPT !.info = << >>, !.got = << >>]

(* and the state once more; then pull checks that the local chain is a prefix
   of the remote one, and push the other way round.  A pull that finds the two
   equal answers at once that the file is there, and syncs nothing. *)
Final(a) ==
  LET c == run[a] IN
  /\ c.step = "final"
  /\ IF remote # c.info THEN Return(a) /\ UNCHANGED shown
     ELSE \/ /\ c.cmd = "pull"
             /\ IF FastForwards(c.doc, c.got) /\ c.doc # ChainFile(c.got)
                THEN /\ run' = [run EXCEPT ![a] = Downloaded(c),
                                           ![a].result = ChainFile(c.got),
                                           ![a].step = "write"]
                     /\ UNCHANGED <<lock, shown>>
                ELSE /\ Return(a)
                     /\ IF c.doc = ChainFile(c.got) THEN Show(c.from, c.doc)
                        ELSE UNCHANGED shown
          \/ /\ c.cmd = "push"
             /\ IF IsPrefix(c.got, c.doc.chain) /\ c.got # c.doc.chain
                THEN /\ run' = [run EXCEPT ![a] = Downloaded(c),
                                           ![a].done = Len(c.got), ![a].step = "push"]
                     /\ UNCHANGED lock
                ELSE Return(a)
             /\ UNCHANGED shown
  /\ UNCHANGED <<file, disk, seen, remote, late, told>>

(* The batch of blocks a push sends next, after those acknowledged. *)
Batch(c) ==
  LET end == IF Len(c.doc.chain) - c.done < PageBlocks
             THEN Len(c.doc.chain) ELSE c.done + PageBlocks
  IN [base |-> SubSeq(c.doc.chain, 1, c.done),
      target |-> SubSeq(c.doc.chain, 1, end)]

(* Mutant: a batch counts as published once it was sent. *)
SendCounted(a) ==
  /\ At(a, "push", "push") /\ ~run[a].inflight
  /\ run' = [run EXCEPT ![a].inflight = TRUE, ![a].done = Len(Batch(run[a]).target)]
  /\ UNCHANGED <<file, disk, lock, seen, remote, late, answers>>

Send(a) ==
  /\ At(a, "push", "push") /\ ~run[a].inflight
  /\ run' = [run EXCEPT ![a].inflight = TRUE]
  /\ UNCHANGED <<file, disk, lock, seen, remote, late, answers>>

(* The server's answer: the batch is appended if it starts from the head. *)
Receive(a) ==
  LET batch == Batch(run[a])
      done == Len(batch.target) IN
  /\ run[a].inflight
  /\ IF remote # batch.base
     THEN Return(a) /\ UNCHANGED remote
     ELSE /\ remote' = batch.target
          /\ IF done = Len(run[a].doc.chain) THEN Return(a)
             ELSE /\ run' = [run EXCEPT ![a].done = done, ![a].inflight = FALSE]
                  /\ UNCHANGED lock
  /\ UNCHANGED <<file, disk, seen, late, answers>>

(* No answer: the outcome is unknown, the push stops, and the request may
   still be on its way. *)
Lose(a) ==
  /\ run[a].inflight
  /\ Return(a)
  /\ \/ late' = late
     \/ Cardinality(late) < MaxLate /\ late' = late \cup {Batch(run[a])}
  /\ UNCHANGED <<file, disk, seen, remote, answers>>

Arrive(batch) ==
  /\ batch \in late
  /\ late' = late \ {batch}
  /\ remote' = IF remote = batch.base THEN batch.target ELSE remote
  /\ UNCHANGED <<file, disk, lock, run, seen, answers>>

(* Another client pushes a block. *)
OtherPush ==
  /\ Len(remote) < MaxBlocks
  /\ remote' = Append(remote, Signed("other", << >>))
  /\ UNCHANGED <<file, disk, lock, run, seen, late, answers>>

-----------------------------------------------------------------------------

(* write_json_atomic: the temporary file is synced and renamed; a failure up
   to there is Fail, and leaves the file as it was.  A link is resolved again,
   and one that still dangles cannot be written. *)
Replace(a) ==
  LET c == run[a] IN
  /\ c.step = "write"
  /\ c.own # {} => file[c.into] # Absent
  /\ file' = [file EXCEPT ![c.into] = c.result]
  /\ disk' = [disk EXCEPT ![c.into] = @ \cup {c.result}]
  /\ Go(a, "sync")
  /\ IF c.into = c.from THEN UNCHANGED answers
     ELSE Tell(c.into, Absent) /\ Show(c.into, Absent)
  /\ UNCHANGED <<lock, seen, remote, late>>

(* Mutant: the command answers without a sync of the directory. *)
AnswerUnsynced(a) ==
  LET c == run[a] IN
  /\ c.step = "sync"
  /\ Tell(c.into, c.result) /\ UNCHANGED shown
  /\ Return(a)
  /\ UNCHANGED <<file, disk, seen, remote, late>>

(* Then the directory is synced, and the command answers; if that fails it
   reports an error although the file is replaced (Fail). *)
SyncDirectory(a) ==
  LET c == run[a] IN
  /\ c.step = "sync"
  /\ disk' = [disk EXCEPT ![c.into] = {file[c.into]}]
  /\ Tell(c.into, c.result) /\ UNCHANGED shown
  /\ Return(a)
  /\ UNCHANGED <<file, seen, remote, late>>

(* What was only shown is lost with a file that was not settled. *)
PowerLoss ==
  /\ \E f \in DOMAIN file : disk[f] # {file[f]}
  /\ file' \in [DOMAIN file -> UNION {disk[f] : f \in DOMAIN file}]
  /\ \A f \in DOMAIN file : file'[f] \in disk[f]
  /\ disk' = [f \in DOMAIN file |-> {file'[f]}]
  /\ lock' = [f \in DOMAIN lock |-> Free]
  /\ run' = [a \in Agent |-> Idle]
  /\ shown' = [f \in DOMAIN file |->
                 IF disk[f] = {file[f]} THEN shown[f] ELSE Absent]
  /\ UNCHANGED <<seen, remote, late, told>>

-----------------------------------------------------------------------------

Step(a) ==
  \/ \E call \in Calls : Observe(a, call) \/ \E e \in Edit : Start(a, call, e)
  \/ Lock(a) \/ Fail(a)
  \/ ReadInit(a) \/ ReadApply(a) \/ ReadSync(a)
  \/ Info(a) \/ Page(a) \/ Final(a)
  \/ Send(a) \/ Receive(a) \/ Lose(a)
  \/ Replace(a) \/ SyncDirectory(a)

Next ==
  \/ \E a \in Agent : Step(a)
  \/ \E batch \in late : Arrive(batch)
  \/ OtherPush
  \/ PowerLoss

Spec == Init /\ [][Next]_vars

(* The same with links that dangle. *)
DanglingNext ==
  Next \/ \E a \in Agent, call \in Calls, e \in Edit : StartDangling(a, call, e)
DanglingSpec == Init /\ [][DanglingNext]_vars

-----------------------------------------------------------------------------

(* The new document holds the blocks of the old one, and what was pending in
   it is still pending or signed by the block that follows them. *)
Keeps(old, new) ==
  /\ new # Absent /\ IsPrefix(old.chain, new.chain)
  /\ IsPrefix(old.pending, IF new.chain = old.chain THEN new.pending
                           ELSE new.chain[Len(old.chain) + 1].ops)

(* What a command answered it has saved is in the document, after a power loss
   as well.  What an up-to-date pull answered is there too, but for a power loss
   that finds the replacement of the file not synced. *)
AnsweredSurvives ==
  \A f \in DOMAIN file :
    /\ \A doc \in disk[f] : told[f] = Absent \/ Keeps(told[f], doc)
    /\ shown[f] = Absent \/ Keeps(shown[f], file[f])

(* As AGENT_PROTOCOL.md has it, the lock is held across loading, validation and
   replacement, and a concurrent writer is told document_busy: no two commands
   are about to replace one document. *)
OneWriter ==
  \A a, b \in Agent : a # b /\ run[a].step = "write" /\ run[b].step = "write" =>
    run[a].into # run[b].into \/ file[run[a].into] = Absent

(* A batch with an expected head or state is committed on what its agent saw,
   also after an error that left the file replaced, and on what is in the file
   when the commit replaces it. *)
CommitsOnWhatWasSeen ==
  \A a \in Agent : At(a, "apply", "write") =>
    LET doc == file[run[a].from] IN
    /\ run[a].flags.expectHead => doc.chain = seen[a].chain
    /\ run[a].flags.expectState => State(doc) = seen[a]
    /\ IsPrefix(doc.pending, Last(run[a].result.chain).ops)

(* What a push reports as acknowledged is in the project. *)
PublishedAsReported ==
  \A a \in Agent : At(a, "push", "push") =>
    IsPrefix(SubSeq(run[a].doc.chain, 1, run[a].done), remote)
=============================================================================
