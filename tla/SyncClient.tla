------------------------------ MODULE SyncClient ------------------------------
(***************************************************************************)
(* The desktop program's side of /api/v2 (sync.rs, and the flows of app.rs *)
(* that drain its inbox): a workspace checks, pulls and pushes against a   *)
(* project that other workspaces push to, while its user goes on editing,  *)
(* committing and switching.  Requests fail before or after the server has *)
(* served them, and a push given up may still arrive.                      *)
(*                                                                         *)
(* A block is who signed it; a hash covers all that precedes it, so a head *)
(* is the history that leads to it and is written as that sequence.        *)
(***************************************************************************)
EXTENDS Integers, Sequences
LOCAL INSTANCE SequencesExt
LOCAL INSTANCE FiniteSetsExt
LOCAL INSTANCE FiniteSets

CONSTANTS
  Workspace,
  Project,
  Origin,      \* what each project's genesis is: its own, or a workspace's
  PageSize,    \* blocks in a page of a Pull
  ChunkSize,   \* blocks in a chunk of a Push
  Started,     \* the flows each user starts
  ReadOnly,    \* what the server may say of the key: that it cannot write, or can
  MaxCommits,  \* bounds on the blocks the workspaces sign: any of these
  MaxLate      \* bound on the pushes given up and still on their way

ASSUME SyncAssumption ==
  /\ Workspace \cap Project = {}
  /\ Origin \in [Project -> Project \cup Workspace]
  /\ PageSize \in Nat \ {0} /\ ChunkSize \in Nat \ {0}
  /\ Started \in [Workspace -> SUBSET {"Projects", "Check", "Pull", "Push"}]
  /\ ReadOnly \subseteq BOOLEAN
  /\ MaxCommits \subseteq [Workspace -> Nat] /\ MaxLate \in Nat

VARIABLES
  remote,  \* the history each project holds
  late,    \* pushes given up by their sender that may still arrive
  local,   \* the history of each workspace
  edited,  \* it has edits not committed
  client,  \* its SyncClient, and the flags App keeps beside it
  call,    \* the request it has under way
  inbox    \* the answer it has not drained

document == <<local, edited>>
network == <<call, inbox>>
vars == <<remote, late, document, client, network>>

Block == Workspace \cup Project
History == Seq(Block)

Info == [project : Project, chain : History, readOnly : BOOLEAN]
NoInfo == [chain |-> << >>, readOnly |-> FALSE]

(* PushProgress: the target frozen when the push began, what the server has
   acknowledged, and the end of the chunk in flight, or 0. *)
Progress == [target : Nat, acknowledged : History, inflight : Nat]
NoPush == [target |-> 0, acknowledged |-> << >>, inflight |-> 0]

Flow == {"Idle", "Projects", "Check", "Pull", "Push"}

Client ==
  [flow : Flow, project : Project, info : Info \cup {NoInfo},
   ahead : BOOLEAN, adopting : BOOLEAN, progress : Progress]

Nothing == [kind |-> "nothing"]

InfoCall(p) == [kind |-> "info", project |-> p]
BlocksCall(p, from) == [kind |-> "blocks", project |-> p, from |-> from]
PushCall(p, base, blocks) ==
  [kind |-> "push", project |-> p, base |-> base, blocks |-> blocks]

Failed == [kind |-> "Failed"]

IsPristine(w) == Len(local[w]) = 1 /\ ~edited[w]

(* Where the blocks a workspace signed are in its history. *)
Signed(w) == {n \in 2..Len(local[w]) : local[w][n] = w}

-----------------------------------------------------------------------------

Init ==
  /\ remote = [p \in Project |-> <<Origin[p]>>]
  /\ late = {}
  /\ local = [w \in Workspace |-> <<w>>]
  /\ edited = [w \in Workspace |-> FALSE]
  /\ client \in [Workspace ->
       [flow : {"Idle"}, project : Project, info : {NoInfo}, ahead : {FALSE},
        adopting : {FALSE}, progress : {NoPush}]]
  /\ call = [w \in Workspace |-> Nothing]
  /\ inbox = [w \in Workspace |-> Nothing]

(* The user edits, takes the edits back, and commits, whatever else runs. *)
Edit(w) ==
  /\ edited' = [edited EXCEPT ![w] = ~@]
  /\ UNCHANGED <<remote, late, local, client, network>>

Commit(w) ==
  /\ edited[w]
  /\ local' = [local EXCEPT ![w] = Append(@, w)]
  /\ \E bound \in MaxCommits :
       \A v \in Workspace : Cardinality(Signed(v)') <= bound[v]
  /\ edited' = [edited EXCEPT ![w] = FALSE]
  /\ UNCHANGED <<remote, late, client, network>>

(* The push button is disabled while the last info said read-only. *)
MayStart(w, flow) ==
  /\ client[w].flow = "Idle"
  /\ flow = "Push" => ~client[w].info.readOnly

(* start_check, start_projects, start_pull, start_push. *)
Start(w, flow) ==
  /\ MayStart(w, flow)
  /\ client' = [client EXCEPT ![w].flow = flow,
       ![w].progress = IF flow = "Push" THEN NoPush ELSE @]
  /\ call' = [call EXCEPT ![w] = [kind |-> "preflight"]]
  /\ UNCHANGED <<remote, late, document, inbox>>

(* The user attaches, detaches, or types another server or project; the
   fields are disabled while a flow runs. *)
Reattach(w, p) ==
  /\ client[w].flow = "Idle"
  /\ client' = [client EXCEPT ![w].project = p, ![w].info = NoInfo,
                              ![w].ahead = FALSE]
  /\ UNCHANGED <<remote, late, document, network>>

(* What the network may still hold once nobody waits for a request. *)
Abandon(request) ==
  \/ UNCHANGED late
  \/ /\ request.kind = "push" /\ Cardinality(late) < MaxLate
     /\ late' = late \cup {request}

(* The anchor a workspace is saved with: the last info if the history here
   continues it, or an older one that it continues, or none. *)
Anchors(w) ==
  LET info == client[w].info
  IN IF info # NoInfo /\ IsPrefix(info.chain, local[w]) THEN {info}
     ELSE {NoInfo} \cup
       {[project |-> client[w].project, chain |-> SubSeq(local[w], 1, n),
         readOnly |-> r] : n \in 1..Len(local[w]), r \in ReadOnly}

(* switch_workspace, away and back: the SyncClient is a new one, with an
   inbox of its own. *)
Switch(w) ==
  /\ \E info \in Anchors(w) :
       client' = [client EXCEPT ![w] =
         [flow |-> "Idle", project |-> client[w].project, info |-> info,
          ahead |-> FALSE, adopting |-> FALSE, progress |-> NoPush]]
  /\ Abandon(call[w])
  /\ call' = [call EXCEPT ![w] = Nothing]
  /\ inbox' = [inbox EXCEPT ![w] = Nothing]
  /\ UNCHANGED <<remote, document>>

-----------------------------------------------------------------------------

(* The server's page of blocks: the ones from an offset on, and where the
   next page starts, or 0 if there is none. *)
Page(p, from) ==
  LET start == Min({from, Len(remote[p])})
      end == Min({start + PageSize, Len(remote[p])})
  IN [kind |-> "Blocks", from |-> start,
      blocks |-> SubSeq(remote[p], start + 1, end),
      next |-> IF end < Len(remote[p]) THEN end ELSE 0,
      chain |-> remote[p]]

(* The answer, once parsed. *)
Answer(request) ==
  CASE request.kind = "preflight" -> {[kind |-> "PreflightOk"]}
    [] request.kind = "projects" -> {[kind |-> "Projects"]}
    [] request.kind = "info" ->
         {[kind |-> "Info", info |->
            [project |-> request.project, chain |-> remote[request.project],
             readOnly |-> r]] : r \in ReadOnly}
    [] request.kind = "blocks" ->
         LET page == Page(request.project, request.from)
         IN {IF page.from = request.from THEN page ELSE Failed}
    [] OTHER -> {}

(* The server serves a request that reads. *)
Serve(w) ==
  /\ call[w] # Nothing
  /\ \E answer \in Answer(call[w]) : inbox' = [inbox EXCEPT ![w] = answer]
  /\ call' = [call EXCEPT ![w] = Nothing]
  /\ UNCHANGED <<remote, late, document, client>>

(* Mutant: any head the project ever had will do as a base. *)
ExtendsPast(request) == IsPrefix(request.base, remote[request.project])

(* ProjectRegistry::push: the base is the head the project has now. *)
Extends(request) == remote[request.project] = request.base

AppendTo(request) ==
  remote' = [remote EXCEPT ![request.project] = @ \o request.blocks]

ServePush(w) ==
  LET request == call[w]
  IN /\ request.kind = "push"
     /\ \/ /\ Extends(request)
           /\ AppendTo(request)
           /\ inbox' = [inbox EXCEPT ![w] =
                [kind |-> "PushOk", head |-> request.base \o request.blocks,
                 appended |-> Len(request.blocks)]]
        \/ /\ ~Extends(request)
           /\ inbox' = [inbox EXCEPT ![w] = [kind |-> "PushConflict"]]
           /\ UNCHANGED remote
     /\ call' = [call EXCEPT ![w] = Nothing]
     /\ UNCHANGED <<late, document, client>>

(* No answer, or an error: the server refused, never heard of the request,
   or has served it or is still to serve it. *)
LoseCall(w) ==
  /\ call[w] # Nothing
  /\ Abandon(call[w])
  /\ call' = [call EXCEPT ![w] = Nothing]
  /\ inbox' = [inbox EXCEPT ![w] = Failed]
  /\ UNCHANGED <<remote, document, client>>

(* A push nobody waits for arrives. *)
ServeLate(request) ==
  /\ late' = late \ {request}
  /\ \/ Extends(request) /\ AppendTo(request)
     \/ ~Extends(request) /\ UNCHANGED remote
  /\ UNCHANGED <<document, client, network>>

-----------------------------------------------------------------------------
(* process_sync: a frame drains the inbox.  Each handler below takes the
   answer its flow waits for. *)

Drained(w, flows, kind) ==
  /\ client[w].flow \in flows
  /\ inbox[w].kind = kind
  /\ inbox' = [inbox EXCEPT ![w] = Nothing]
  /\ UNCHANGED remote

Stop(w, state) ==
  /\ client' = [client EXCEPT ![w] = [state EXCEPT !.flow = "Idle"]]
  /\ UNCHANGED <<call, late>>

Ask(w, state, request) ==
  /\ client' = [client EXCEPT ![w] = state]
  /\ call' = [call EXCEPT ![w] = request]
  /\ UNCHANGED late

(* continue_after_preflight. *)
Continue(w) ==
  /\ Drained(w, Flow \ {"Idle"}, "PreflightOk")
  /\ Ask(w, client[w], IF client[w].flow = "Projects" THEN [kind |-> "projects"]
                       ELSE InfoCall(client[w].project))
  /\ UNCHANGED document

ListProjects(w) ==
  /\ Drained(w, {"Projects"}, "Projects")
  /\ Stop(w, client[w])
  /\ UNCHANGED document

(* check_remote_identity: the project asked for, and another genesis only if
   nothing was authored here. *)
IdentityHolds(w, info) ==
  /\ info.project = client[w].project
  /\ Head(info.chain) = Head(local[w]) \/ IsPristine(w)

(* compare_heads says Same or LocalAhead. *)
remote_is_local_prefix(w, info) == IsPrefix(info.chain, local[w])

handle_check_info(w) ==
  LET info == inbox[w].info
  IN /\ Drained(w, {"Check"}, "Info")
     /\ Stop(w, IF IdentityHolds(w, info)
                THEN [client[w] EXCEPT !.info = info,
                        !.ahead = ~remote_is_local_prefix(w, info)]
                ELSE client[w])
     /\ UNCHANGED document

handle_pull_info(w) ==
  LET info == inbox[w].info
      state == [client[w] EXCEPT !.info = info]
      adopt == Head(info.chain) # Head(local[w])
  IN /\ Drained(w, {"Pull"}, "Info")
     /\ \/ ~IdentityHolds(w, info) /\ Stop(w, client[w])
        \/ /\ IdentityHolds(w, info)
           /\ adopt
           /\ Ask(w, [state EXCEPT !.adopting = TRUE], BlocksCall(info.project, 0))
        \/ /\ IdentityHolds(w, info)
           /\ ~adopt /\ Len(info.chain) > Len(local[w])
           /\ Ask(w, state, BlocksCall(info.project, Len(local[w])))
        \/ /\ IdentityHolds(w, info)
           /\ ~adopt /\ Len(info.chain) <= Len(local[w])
           /\ Stop(w, [state EXCEPT !.ahead = ~remote_is_local_prefix(w, info)])
     /\ UNCHANGED document

(* post_next_push_chunk.  The limits on a chunk's operations and bytes may
   end it anywhere, and a block over them ends the push. *)
PostChunk(w, state, failed) ==
  LET base == state.progress.acknowledged
      end == Min({Len(base) + ChunkSize, state.progress.target})
  IN \/ \E n \in Len(base) + 1 .. end :
          Ask(w, [state EXCEPT !.progress.inflight = n],
              PushCall(state.project, base, SubSeq(local[w], Len(base) + 1, n)))
     \/ Stop(w, failed)

handle_push_info(w) ==
  LET info == inbox[w].info
      none == [client[w] EXCEPT !.progress = NoPush]
      state == [none EXCEPT !.info = info]
  IN /\ Drained(w, {"Push"}, "Info")
     /\ \/ /\ ~IdentityHolds(w, info) \/ info.readOnly
           /\ Stop(w, none)
        \/ /\ IdentityHolds(w, info) /\ ~info.readOnly
           /\ ~remote_is_local_prefix(w, info)
           /\ Stop(w, [(IF Len(info.chain) > Len(local[w]) THEN state ELSE none)
                       EXCEPT !.ahead = TRUE])
        \/ /\ IdentityHolds(w, info) /\ ~info.readOnly
           /\ info.chain = local[w]
           /\ Stop(w, state)
        \/ /\ IdentityHolds(w, info) /\ ~info.readOnly
           /\ remote_is_local_prefix(w, info) /\ info.chain # local[w]
           /\ PostChunk(w, [state EXCEPT !.progress =
                [target |-> Len(local[w]), acknowledged |-> info.chain,
                 inflight |-> 0]], state)
     /\ UNCHANGED document

(* PushProgress::acknowledge. *)
Acknowledges(w, answer) ==
  LET progress == client[w].progress
  IN /\ progress.inflight # 0
     /\ Len(answer.head) = progress.inflight
     /\ IsPrefix(answer.head, local[w])
     /\ answer.appended = progress.inflight - Len(progress.acknowledged)

Completes(w, answer) == Len(answer.head) = client[w].progress.target

handle_push_ok(w) ==
  LET answer == inbox[w]
      over == [client[w] EXCEPT !.progress = NoPush, !.ahead = TRUE]
      seen == IF client[w].info = NoInfo THEN NoInfo
              ELSE [client[w].info EXCEPT !.chain = answer.head]
      state == [client[w] EXCEPT !.info = seen,
                  !.progress.acknowledged = answer.head, !.progress.inflight = 0]
  IN /\ Drained(w, {"Push"}, "PushOk")
     /\ IF ~Acknowledges(w, answer) THEN Stop(w, over)
        ELSE IF Completes(w, answer)
        THEN Stop(w, [state EXCEPT !.progress = NoPush, !.ahead = FALSE])
        ELSE PostChunk(w, state, [over EXCEPT !.info = seen])
     /\ UNCHANGED document

Conflict(w) ==
  /\ Drained(w, {"Push"}, "PushConflict")
  /\ Stop(w, [client[w] EXCEPT !.progress = NoPush, !.ahead = TRUE])
  /\ UNCHANGED document

(* A page against the head the pull began with, which the server may have
   moved past by now. *)
Compatible(page, target) ==
  /\ Head(page.chain) = Head(target)
  /\ Len(page.chain) > Len(target) \/ page.chain = target

(* The blocks of a page that the pull is for. *)
Wanted(page, target) ==
  SubSeq(page.blocks, 1, Min({Len(page.blocks), Len(target) - page.from}))

(* Mutant: a document edited since the pull began is replaced all the same. *)
TakesEdited(w, page) ==
  client[w].adopting \/ SubSeq(page.chain, 1, page.from) = local[w]

(* adopt_remote replaces a document nothing was authored in; merge_remote
   extends the one here, if the blocks link to its head. *)
Takes(w, page) ==
  IF client[w].adopting THEN IsPristine(w)
  ELSE SubSeq(page.chain, 1, page.from) = local[w]

(* The document afterwards.  A merge keeps the pending edits that still
   apply, which may be none of them. *)
Take(w, page, blocks) ==
  /\ local' = [local EXCEPT ![w] =
       IF client[w].adopting THEN blocks ELSE @ \o blocks]
  /\ \E left \in (IF edited[w] THEN BOOLEAN ELSE {FALSE}) :
       edited' = [edited EXCEPT ![w] = left]

(* The next page, or the end of the pull. *)
NextPage(w, state, page, now, target) ==
  IF Len(now) < Len(target) /\ page.next = Len(now)
  THEN Ask(w, state, BlocksCall(state.project, Len(now)))
  ELSE Stop(w, [state EXCEPT !.ahead = (now # target)])

handle_pull_blocks(w) ==
  LET page == inbox[w]
      target == client[w].info.chain
      expected == IF client[w].adopting THEN 0 ELSE Len(local[w])
      state == [client[w] EXCEPT !.adopting = FALSE]
      fits == /\ target # << >>
              /\ Compatible(page, target)
              /\ page.from = expected
              /\ Wanted(page, target) # << >>
  IN /\ Drained(w, {"Pull"}, "Blocks")
     /\ \/ /\ ~fits
           /\ Stop(w, client[w])
           /\ UNCHANGED document
        \/ /\ fits /\ ~Takes(w, page)
           /\ Stop(w, state)
           /\ UNCHANGED document
        \/ /\ fits /\ Takes(w, page)
           /\ Take(w, page, Wanted(page, target))
           /\ NextPage(w, state, page, local'[w], target)

(* Mutant: a failure is reported and the flow goes on. *)
FailWaiting(w) ==
  /\ Drained(w, Flow \ {"Idle"}, "Failed")
  /\ UNCHANGED <<call, late, client, document>>

(* The flags of a pull stay as they are. *)
Fail(w) ==
  /\ Drained(w, Flow \ {"Idle"}, "Failed")
  /\ Stop(w, IF client[w].flow = "Push" THEN [client[w] EXCEPT !.progress = NoPush]
             ELSE client[w])
  /\ UNCHANGED document

Drain(w) ==
  \/ Continue(w) \/ ListProjects(w)
  \/ handle_check_info(w) \/ handle_pull_info(w) \/ handle_push_info(w)
  \/ handle_push_ok(w) \/ Conflict(w) \/ handle_pull_blocks(w)
  \/ Fail(w)

Network(w) == Serve(w) \/ ServePush(w) \/ LoseCall(w)

User(w) ==
  \/ Edit(w) \/ Commit(w) \/ Switch(w)
  \/ \E flow \in Started[w] : Start(w, flow)
  \/ \E p \in Project : Reattach(w, p)

Next ==
  \/ \E w \in Workspace : User(w) \/ Network(w) \/ Drain(w)
  \/ \E request \in late : ServeLate(request)

Spec == Init /\ [][Next]_vars

(* Each request ends in an answer or an error, which asks for a repaint; the
   frame drains it.  Nothing makes a user act or a lost push arrive. *)
FairSpec ==
  Spec /\ \A w \in Workspace : WF_vars(Network(w)) /\ WF_vars(Drain(w))

-----------------------------------------------------------------------------

Request ==
  {[kind |-> "preflight"], [kind |-> "projects"]}
    \cup [kind : {"info"}, project : Project]
    \cup [kind : {"blocks"}, project : Project, from : Nat]
    \cup [kind : {"push"}, project : Project, base : History, blocks : History]

Event ==
  [kind : {"PreflightOk", "Projects", "PushConflict", "Failed"}]
    \cup [kind : {"Info"}, info : Info]
    \cup [kind : {"Blocks"}, from : Nat, blocks : History, next : Nat,
          chain : History]
    \cup [kind : {"PushOk"}, head : History, appended : Nat]

(* Every variable has its type. *)
TypeOK ==
  /\ remote \in [Project -> History]
  /\ late \subseteq Request
  /\ local \in [Workspace -> History]
  /\ edited \in [Workspace -> BOOLEAN]
  /\ client \in [Workspace -> Client]
  /\ call \in [Workspace -> Request \cup {Nothing}]
  /\ inbox \in [Workspace -> Event \cup {Nothing}]

(* What a project holds under a workspace's name is at its place in that
   workspace's own history: a push that is cut in chunks, given up, retried,
   or arrives late enters once, whole and in order. *)
RemoteKeepsAuthors ==
  \A p \in Project : \A n \in 2..Len(remote[p]) :
    IsPrefix(SubSeq(remote[p], 1, n), local[remote[p][n]])

(* A history grows and is never replaced, but by the adoption of a remote one
   where nothing was committed or edited, also while a page was on its way. *)
AuthoredSurvives ==
  [][\A w \in Workspace : IsPrefix(local[w], local'[w]) \/ IsPristine(w)]_vars

(* Every flow ends, whoever pushes meanwhile. *)
FlowEnds ==
  \A w \in Workspace : client[w].flow # "Idle" ~> client[w].flow = "Idle"

(* "Pull: verifies and replays the new blocks" (README.md:80).  A page that
   continues the history here, up to the head the pull began with, is taken. *)
NewBlocksAreReplayed ==
  [][\A w \in Workspace :
       LET page == inbox[w]
           target == client[w].info.chain
       IN /\ handle_pull_blocks(w)
          /\ Compatible(page, target)
          /\ SubSeq(page.chain, 1, page.from) = local[w]
          => local'[w] = local[w] \o Wanted(page, target)]_vars
=============================================================================
