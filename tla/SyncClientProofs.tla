--------------------------- MODULE SyncClientProofs ---------------------------
(***************************************************************************)
(* What is proved of SyncClient for any workspaces, projects and sizes of  *)
(* pages and chunks.                                                       *)
(*                                                                         *)
(* A history is attributed (Attributed) when every block of it, after its  *)
(* genesis, stands at its place in the history of the workspace it is      *)
(* signed by.  The inductive invariant says so of whatever travels: the    *)
(* projects, the local histories, the pushes sent and given up, and the    *)
(* pages that were served.  As a local history only grows, or is replaced  *)
(* while it is a genesis alone, what is attributed once remains so         *)
(* (AttributedStays), and so a push may arrive at any later time.          *)
(***************************************************************************)
EXTENDS SyncClient, TLAPS
LOCAL INSTANCE SequencesExt
LOCAL INSTANCE FiniteSetsExt

Attributed(h, locals) ==
  \A n \in 2..Len(h) : h[n] \in Workspace /\ IsPrefix(SubSeq(h, 1, n), locals[h[n]])

PushHolds(r, locals) == Attributed(r.base \o r.blocks, locals)

(* A page is a piece of a history the project had. *)
PageHolds(page, locals) ==
  /\ Attributed(page.chain, locals)
  /\ page.from + Len(page.blocks) <= Len(page.chain)
  /\ page.blocks = SubSeq(page.chain, page.from + 1, page.from + Len(page.blocks))

HistoriesInv ==
  /\ \A p \in Project : Attributed(remote[p], local)
  /\ \A w \in Workspace : local[w] # << >> /\ Attributed(local[w], local)

PushesInv ==
  /\ \A r \in late : r.kind = "push" /\ PushHolds(r, local)
  /\ \A w \in Workspace : call[w].kind = "push" => PushHolds(call[w], local)

PagesInv == \A w \in Workspace : inbox[w].kind = "Blocks" => PageHolds(inbox[w], local)

TargetsInv == \A w \in Workspace : client[w].progress.target <= Len(local[w])

Inv == TypeOK /\ HistoriesInv /\ PushesInv /\ PagesInv /\ TargetsInv

-----------------------------------------------------------------------------

(* A prefix is shorter and agrees at each of its places. *)
LEMMA PrefixMeans ==
  ASSUME NEW S, NEW s \in Seq(S), NEW t \in Seq(S)
  PROVE  IsPrefix(s, t) <=> Len(s) <= Len(t) /\ \A i \in 1..Len(s) : s[i] = t[i]
<1>1. SubSeq(s, 1, Len(s)) = s
  OBVIOUS
<1>2. ASSUME Len(s) <= Len(t)
      PROVE  /\ SubSeq(t, 1, Len(s)) \in Seq(S) /\ Len(SubSeq(t, 1, Len(s))) = Len(s)
             /\ \A i \in 1..Len(s) : SubSeq(t, 1, Len(s))[i] = t[i]
  BY <1>2
<1> QED BY <1>1, <1>2 DEF IsPrefix

LEMMA Piece ==
  ASSUME NEW S, NEW s \in Seq(S), NEW m \in 0..Len(s), NEW n \in m..Len(s)
  PROVE  /\ SubSeq(s, m + 1, n) \in Seq(S) /\ Len(SubSeq(s, m + 1, n)) = n - m
         /\ \A i \in 1..n - m : SubSeq(s, m + 1, n)[i] = s[m + i]
<1>1. SubSeq(s, m + 1, n) \in Seq(S)
  OBVIOUS
<1>2. Len(SubSeq(s, m + 1, n)) = n - m
  OBVIOUS
<1>3. ASSUME NEW i \in 1..n - m PROVE SubSeq(s, m + 1, n)[i] = s[m + i]
  <2>1. SubSeq(s, m + 1, n)[i] = s[(m + 1) + i - 1]
    BY <1>2
  <2>2. (m + 1) + i - 1 = m + i
    OBVIOUS
  <2> QED BY <2>1, <2>2
<1> QED BY <1>1, <1>2, <1>3

LEMMA MinMeans ==
  ASSUME NEW m \in Int, NEW n \in Int
  PROVE  Min({m, n}) = IF m <= n THEN m ELSE n
BY DEF Min

LEMMA AttributedMeans ==
  ASSUME NEW h \in History, NEW locals \in [Workspace -> History]
  PROVE  Attributed(h, locals) <=>
           \A n \in 2..Len(h) : /\ h[n] \in Workspace
                                /\ n <= Len(locals[h[n]])
                                /\ \A i \in 1..n : h[i] = locals[h[n]][i]
<1>1. ASSUME NEW n \in 2..Len(h), h[n] \in Workspace
      PROVE  IsPrefix(SubSeq(h, 1, n), locals[h[n]]) <=>
               n <= Len(locals[h[n]]) /\ \A i \in 1..n : h[i] = locals[h[n]][i]
  <2> DEFINE g == SubSeq(h, 1, n)
             t == locals[h[n]]
  <2>1. g \in Seq(Block) /\ Len(g) = n /\ \A i \in 1..n : g[i] = h[i]
    BY DEF History
  <2>2. t \in Seq(Block)
    BY <1>1 DEF History
  <2> HIDE DEF g, t
  <2>3. IsPrefix(g, t) <=> Len(g) <= Len(t) /\ \A i \in 1..Len(g) : g[i] = t[i]
    BY <2>1, <2>2, PrefixMeans
  <2>4. IsPrefix(g, t) <=> n <= Len(t) /\ \A i \in 1..n : h[i] = t[i]
    BY <2>1, <2>3
  <2> QED BY <2>4 DEF g, t
<1> QED BY <1>1 DEF Attributed

(* What is attributed stays so when the local histories grow, and when one
   that is a genesis alone is replaced: nothing is attributed to it yet. *)
LEMMA AttributedStays ==
  ASSUME NEW h \in History,
         NEW before \in [Workspace -> History], NEW after \in [Workspace -> History],
         \A w \in Workspace : IsPrefix(before[w], after[w]) \/ Len(before[w]) = 1,
         Attributed(h, before)
  PROVE  Attributed(h, after)
<1> SUFFICES ASSUME NEW n \in 2..Len(h)
             PROVE  /\ h[n] \in Workspace
                    /\ n <= Len(after[h[n]])
                    /\ \A i \in 1..n : h[i] = after[h[n]][i]
  BY AttributedMeans
<1>1. /\ h[n] \in Workspace
      /\ n <= Len(before[h[n]])
      /\ \A i \in 1..n : h[i] = before[h[n]][i]
  BY AttributedMeans
<1>2. before[h[n]] \in Seq(Block) /\ after[h[n]] \in Seq(Block)
  BY <1>1 DEF History
<1>3. IsPrefix(before[h[n]], after[h[n]])
  BY <1>1, <1>2
<1>4. Len(before[h[n]]) <= Len(after[h[n]])
      /\ \A i \in 1..Len(before[h[n]]) : before[h[n]][i] = after[h[n]][i]
  BY <1>2, <1>3, PrefixMeans
<1> QED BY <1>1, <1>2, <1>4

(* A history is attributed as far as it is a piece of one that is. *)
LEMMA AttributedPrefix ==
  ASSUME NEW h \in History, NEW k \in 0..Len(h), NEW locals \in [Workspace -> History],
         Attributed(h, locals)
  PROVE  SubSeq(h, 1, k) \in History /\ Attributed(SubSeq(h, 1, k), locals)
<1> DEFINE g == SubSeq(h, 1, k)
<1>1. g \in History /\ Len(g) = k /\ \A i \in 1..k : g[i] = h[i]
  BY DEF History
<1>2. \A n \in 2..Len(h) : /\ h[n] \in Workspace
                           /\ n <= Len(locals[h[n]])
                           /\ \A i \in 1..n : h[i] = locals[h[n]][i]
  BY AttributedMeans
<1> HIDE DEF g
<1>3. ASSUME NEW n \in 2..k
      PROVE  /\ g[n] \in Workspace
             /\ n <= Len(locals[g[n]])
             /\ \A i \in 1..n : g[i] = locals[g[n]][i]
  <2>1. n \in 2..Len(h) /\ g[n] = h[n] /\ \A i \in 1..n : i \in 1..k
    BY <1>1 DEF History
  <2> QED BY <1>1, <1>2, <2>1
<1>4. Attributed(g, locals)
  BY <1>1, <1>3, AttributedMeans
<1> QED BY <1>1, <1>4 DEF g

LEMMA RequestTypes ==
  ASSUME NEW r \in Request \cup {Nothing}
  PROVE  /\ r.kind = "push" => /\ r \in Request /\ r.project \in Project
                               /\ r.base \in History /\ r.blocks \in History
                               /\ r.base \o r.blocks \in History
         /\ r.kind \in {"info", "blocks"} => r.project \in Project
         /\ r.kind = "blocks" => r.from \in Nat
BY DEF Request, Nothing, History

LEMMA EventTypes ==
  ASSUME NEW e \in Event \cup {Nothing}
  PROVE  /\ e.kind = "Info" => e.info \in Info
         /\ e.kind = "Blocks" => /\ e.from \in Nat /\ e.next \in Nat
                                 /\ e.blocks \in History /\ e.chain \in History
         /\ e.kind = "PushOk" => e.head \in History /\ e.appended \in Nat
BY DEF Event, Nothing

LEMMA InfoTypes ==
  /\ \A info \in Info \cup {NoInfo} : info.chain \in History
  /\ \A info \in Info : info.project \in Project /\ info.chain \in History
<1>1. \A info \in Info : info.project \in Project /\ info.chain \in History
  BY DEF Info
<1>2. NoInfo.chain \in History
  BY DEF NoInfo, History
<1> QED BY <1>1, <1>2

LEMMA NoPushType == NoPush \in Progress
BY DEF NoPush, Progress, History

LEMMA ClientTypes ==
  ASSUME NEW c \in Client
  PROVE  /\ c.flow \in Flow /\ c.project \in Project /\ c.info \in Info \cup {NoInfo}
         /\ c.info.chain \in History
         /\ c.ahead \in BOOLEAN /\ c.adopting \in BOOLEAN /\ c.progress \in Progress
         /\ c.progress.target \in Nat /\ c.progress.acknowledged \in History
         /\ c.progress.inflight \in Nat
BY InfoTypes DEF Client, Progress

LEMMA PushLater ==
  ASSUME NEW before \in [Workspace -> History], NEW after \in [Workspace -> History],
         \A w \in Workspace : IsPrefix(before[w], after[w]) \/ Len(before[w]) = 1,
         NEW r \in Request \cup {Nothing}, r.kind = "push", PushHolds(r, before)
  PROVE  PushHolds(r, after)
BY RequestTypes, AttributedStays DEF PushHolds

LEMMA PageLater ==
  ASSUME NEW before \in [Workspace -> History], NEW after \in [Workspace -> History],
         \A w \in Workspace : IsPrefix(before[w], after[w]) \/ Len(before[w]) = 1,
         NEW e \in Event \cup {Nothing}, e.kind = "Blocks", PageHolds(e, before)
  PROVE  PageHolds(e, after)
BY EventTypes, AttributedStays DEF PageHolds

-----------------------------------------------------------------------------

(* What a step may do to each part of the state. *)
LocalStep ==
  /\ local' \in [Workspace -> History] /\ edited' \in [Workspace -> BOOLEAN]
  /\ \A w \in Workspace : /\ local'[w] # << >> /\ Attributed(local'[w], local')
                          /\ IsPrefix(local[w], local'[w]) \/ IsPristine(w)

RemoteStep ==
  remote' \in [Project -> History] /\ \A p \in Project : Attributed(remote'[p], local)

LateStep == \A r \in late' : r \in Request /\ r.kind = "push" /\ PushHolds(r, local)

CallStep ==
  /\ call' \in [Workspace -> Request \cup {Nothing}]
  /\ \A w \in Workspace : call'[w].kind = "push" => PushHolds(call'[w], local)

InboxStep ==
  /\ inbox' \in [Workspace -> Event \cup {Nothing}]
  /\ \A w \in Workspace : inbox'[w].kind = "Blocks" => PageHolds(inbox'[w], local)

ClientStep ==
  /\ client' \in [Workspace -> Client]
  /\ \A w \in Workspace : client'[w].progress.target <= Len(local[w])

LEMMA StepKeeps ==
  ASSUME Inv, LocalStep, RemoteStep, LateStep, CallStep, InboxStep, ClientStep
  PROVE  Inv'
<1>1. local \in [Workspace -> History] /\ local' \in [Workspace -> History]
  BY DEF Inv, TypeOK, LocalStep
<1>2. \A w \in Workspace : IsPrefix(local[w], local'[w]) \/ Len(local[w]) = 1
  BY DEF LocalStep, IsPristine
<1>3. TypeOK'
  BY DEF TypeOK, LocalStep, RemoteStep, LateStep, CallStep, InboxStep, ClientStep
<1>4. HistoriesInv'
  BY <1>1, <1>2, AttributedStays DEF HistoriesInv, LocalStep, RemoteStep
<1>5. PushesInv'
  BY <1>1, <1>2, PushLater DEF PushesInv, LateStep, CallStep
<1>6. PagesInv'
  BY <1>1, <1>2, PageLater DEF PagesInv, InboxStep
<1>7. TargetsInv'
  <2> SUFFICES ASSUME NEW w \in Workspace PROVE client'[w].progress.target <= Len(local'[w])
    BY DEF TargetsInv
  <2>1. client'[w].progress.target <= Len(local[w]) /\ client'[w].progress.target \in Nat
    BY ClientTypes DEF ClientStep
  <2>2. local[w] \in Seq(Block) /\ local'[w] \in Seq(Block) /\ local'[w] # << >>
    BY <1>1 DEF History, LocalStep
  <2>3. Len(local[w]) <= Len(local'[w])
    BY <1>2, <2>2, PrefixMeans
  <2> QED BY <2>1, <2>2, <2>3
<1> QED BY <1>3, <1>4, <1>5, <1>6, <1>7 DEF Inv

(* What is left alone is as it was. *)
LEMMA LeftAlone ==
  ASSUME Inv
  PROVE  /\ UNCHANGED document => LocalStep
         /\ UNCHANGED remote => RemoteStep
         /\ UNCHANGED late => LateStep
         /\ UNCHANGED call => CallStep
         /\ UNCHANGED inbox => InboxStep
         /\ UNCHANGED client => ClientStep
<1> USE DEF Inv, TypeOK
<1>1. UNCHANGED document => LocalStep
  <2>1. \A w \in Workspace : IsPrefix(local[w], local[w])
    BY PrefixMeans DEF History
  <2> QED BY <2>1 DEF LocalStep, document, HistoriesInv
<1>2. UNCHANGED remote => RemoteStep
  BY DEF RemoteStep, HistoriesInv
<1>3. UNCHANGED late => LateStep
  BY DEF LateStep, PushesInv
<1>4. UNCHANGED call => CallStep
  BY DEF CallStep, PushesInv
<1>5. UNCHANGED inbox => InboxStep
  BY DEF InboxStep, PagesInv
<1>6. UNCHANGED client => ClientStep
  BY DEF ClientStep, TargetsInv
<1> QED BY <1>1, <1>2, <1>3, <1>4, <1>5, <1>6

-----------------------------------------------------------------------------

(* A flow that ends, and one that goes on with a request. *)
LEMMA FlowGoesOn ==
  ASSUME Inv, NEW w \in Workspace, NEW state \in Client,
         state.progress.target <= Len(local[w]),
         \/ Stop(w, state)
         \/ \E r \in Request : /\ Ask(w, state, r)
                               /\ r.kind = "push" => PushHolds(r, local)
  PROVE  ClientStep /\ CallStep /\ LateStep
<1>1. /\ client \in [Workspace -> Client] /\ call \in [Workspace -> Request \cup {Nothing}]
      /\ \A v \in Workspace : client[v].progress.target <= Len(local[v])
      /\ \A v \in Workspace : call[v].kind = "push" => PushHolds(call[v], local)
  BY DEF Inv, TypeOK, PushesInv, TargetsInv
<1>2. CASE Stop(w, state)
  <2>1. /\ [state EXCEPT !.flow = "Idle"] \in Client
        /\ [state EXCEPT !.flow = "Idle"].progress = state.progress
    BY DEF Client, Flow
  <2>2. ClientStep
    BY <1>1, <1>2, <2>1 DEF Stop, ClientStep
  <2> QED BY <1>2, <2>2, LeftAlone DEF Stop
<1>3. ASSUME NEW r \in Request, Ask(w, state, r), r.kind = "push" => PushHolds(r, local)
      PROVE  ClientStep /\ CallStep /\ LateStep
  BY <1>1, <1>3, LeftAlone DEF Ask, ClientStep, CallStep
<1> QED BY <1>2, <1>3

LEMMA DrainedKeeps ==
  ASSUME Inv, NEW w \in Workspace, NEW flows, NEW kind, Drained(w, flows, kind)
  PROVE  RemoteStep /\ InboxStep /\ client[w].flow \in flows /\ inbox[w].kind = kind
<1>1. /\ inbox \in [Workspace -> Event \cup {Nothing}]
      /\ \A v \in Workspace : inbox[v].kind = "Blocks" => PageHolds(inbox[v], local)
  BY DEF Inv, TypeOK, PagesInv
<1>2. inbox' = [inbox EXCEPT ![w] = Nothing] /\ Nothing.kind # "Blocks"
  BY DEF Drained, Nothing
<1>3. InboxStep
  BY <1>1, <1>2 DEF InboxStep
<1> QED BY <1>3, LeftAlone DEF Drained

(* The client of a workspace, and its histories, are typed. *)
LEMMA At ==
  ASSUME Inv, NEW w \in Workspace
  PROVE  /\ client[w] \in Client /\ client[w].progress.target <= Len(local[w])
         /\ local[w] \in History /\ local[w] # << >> /\ Attributed(local[w], local)
         /\ call[w] \in Request \cup {Nothing} /\ inbox[w] \in Event \cup {Nothing}
BY DEF Inv, TypeOK, HistoriesInv, TargetsInv

LEMMA SmallStepInv ==
  ASSUME Inv, NEW w \in Workspace,
         \/ Edit(w) \/ Continue(w) \/ ListProjects(w) \/ Conflict(w) \/ Fail(w)
         \/ \E flow \in Started[w] : Start(w, flow)
         \/ \E p \in Project : Reattach(w, p)
  PROVE  Inv'
<1>1. /\ client \in [Workspace -> Client] /\ call \in [Workspace -> Request \cup {Nothing}]
      /\ edited \in [Workspace -> BOOLEAN]
  BY DEF Inv, TypeOK
<1>2. CASE Edit(w)
  <2>1. edited' \in [Workspace -> BOOLEAN]
    BY <1>1, <1>2 DEF Edit
  <2>2. LocalStep
    <3>1. \A v \in Workspace : IsPrefix(local[v], local[v])
      BY At, PrefixMeans DEF History
    <3> QED BY <1>2, <2>1, <3>1, At DEF LocalStep, Edit, Inv, TypeOK
  <2> QED BY <1>2, <2>2, LeftAlone, StepKeeps DEF Edit, network
<1>3. CASE Continue(w)
  <2>1. PICK r \in Request : Ask(w, client[w], r) /\ r.kind # "push"
    <3>1. [kind |-> "projects"] \in Request /\ InfoCall(client[w].project) \in Request
      BY At, ClientTypes DEF Request, InfoCall
    <3> QED BY <1>3, <3>1 DEF Continue, InfoCall
  <2> QED BY <1>3, <2>1, At, FlowGoesOn, DrainedKeeps, LeftAlone, StepKeeps DEF Continue
<1>4. CASE ListProjects(w)
  BY <1>4, At, FlowGoesOn, DrainedKeeps, LeftAlone, StepKeeps DEF ListProjects
<1>5. CASE Conflict(w) \/ Fail(w)
  <2>1. PICK state \in Client : Stop(w, state) /\ state.progress.target <= Len(local[w])
    <3>1. [client[w] EXCEPT !.progress = NoPush] \in Client
          /\ [client[w] EXCEPT !.progress = NoPush, !.ahead = TRUE] \in Client
      BY At, NoPushType DEF Client
    <3>2. /\ [client[w] EXCEPT !.progress = NoPush].progress.target = 0
          /\ [client[w] EXCEPT !.progress = NoPush, !.ahead = TRUE].progress.target = 0
      BY At DEF Client, NoPush
    <3>3. 0 <= Len(local[w])
      BY At DEF History
    <3> QED BY <1>5, <3>1, <3>2, <3>3, At DEF Conflict, Fail
  <2> QED BY <1>5, <2>1, FlowGoesOn, DrainedKeeps, LeftAlone, StepKeeps DEF Conflict, Fail
<1>6. ASSUME NEW flow \in Started[w], Start(w, flow) PROVE Inv'
  <2> DEFINE state == [client[w] EXCEPT !.flow = flow,
                         !.progress = IF flow = "Push" THEN NoPush ELSE @]
  <2>1. state \in Client
    <3>1. flow \in Flow
      BY SyncAssumption DEF Flow
    <3> QED BY <3>1, At, NoPushType DEF Client
  <2>2. state.progress.target <= Len(local[w])
    BY At DEF Client, NoPush, History
  <2>3. [kind |-> "preflight"] \in Request
    BY DEF Request
  <2>4. Ask(w, state, [kind |-> "preflight"])
    BY <1>1, <1>6 DEF Start, Ask
  <2> QED BY <1>6, <2>1, <2>2, <2>3, <2>4, FlowGoesOn, LeftAlone, StepKeeps DEF Start
<1>7. ASSUME NEW p \in Project, Reattach(w, p) PROVE Inv'
  <2> DEFINE state == [client[w] EXCEPT !.project = p, !.info = NoInfo, !.ahead = FALSE]
  <2>1. state \in Client /\ state.progress = client[w].progress
    BY At DEF Client
  <2>2. client' = [client EXCEPT ![w] = state]
    BY <1>1, <1>7 DEF Reattach
  <2>3. ClientStep
    BY <1>1, <2>1, <2>2, At DEF ClientStep
  <2> QED BY <1>7, <2>3, LeftAlone, StepKeeps DEF Reattach, network
<1> QED BY <1>2, <1>3, <1>4, <1>5, <1>6, <1>7

-----------------------------------------------------------------------------

(* A block the workspace signs stands at its place in its own history. *)
LEMMA CommitGrows == ASSUME Inv, NEW w \in Workspace, Commit(w) PROVE LocalStep
<1>1. local \in [Workspace -> History] /\ edited \in [Workspace -> BOOLEAN]
  BY DEF Inv, TypeOK
<1>2. /\ local' = [local EXCEPT ![w] = Append(local[w], w)]
      /\ edited' = [edited EXCEPT ![w] = FALSE]
      /\ UNCHANGED <<remote, late, client, network>>
  BY DEF Commit
<1> DEFINE h == local[w]
           g == Append(h, w)
<1>3. /\ h \in Seq(Block) /\ w \in Block /\ g \in Seq(Block) /\ Len(g) = Len(h) + 1
      /\ g[Len(g)] = w /\ \A i \in 1..Len(h) : g[i] = h[i]
  BY At DEF History, Block
<1>4. local' \in [Workspace -> History] /\ edited' \in [Workspace -> BOOLEAN]
  BY <1>1, <1>2, <1>3 DEF History
<1>5. local'[w] = g /\ \A v \in Workspace \ {w} : local'[v] = local[v]
  BY <1>1, <1>2
<1> HIDE DEF h, g
<1>6. \A v \in Workspace : IsPrefix(local[v], local'[v])
  <2>1. IsPrefix(h, g)
    BY <1>3, PrefixMeans
  <2>2. \A v \in Workspace : IsPrefix(local[v], local[v])
    BY At, PrefixMeans DEF History
  <2> QED BY <1>5, <2>1, <2>2 DEF h
<1>7. ASSUME NEW v \in Workspace PROVE local'[v] # << >> /\ Attributed(local'[v], local')
  <2>1. local[v] \in History /\ local[v] # << >> /\ Attributed(local[v], local')
    BY <1>1, <1>4, <1>6, At, AttributedStays
  <2>2. CASE v # w
    BY <1>5, <2>1, <2>2
  <2>3. CASE v = w
    <3>1. ASSUME NEW n \in 2..Len(g)
          PROVE  /\ g[n] \in Workspace /\ n <= Len(local'[g[n]])
                 /\ \A i \in 1..n : g[i] = local'[g[n]][i]
      <4>1. CASE n = Len(g)
        BY <1>3, <1>5, <4>1
      <4>2. CASE n # Len(g)
        <5>1. n \in 2..Len(h) /\ \A i \in 1..n : g[i] = h[i]
          BY <1>3, <4>2
        <5>2. /\ h[n] \in Workspace /\ n <= Len(local'[h[n]])
              /\ \A i \in 1..n : h[i] = local'[h[n]][i]
          BY <1>4, <2>1, <2>3, <5>1, AttributedMeans DEF h
        <5> QED BY <5>1, <5>2
      <4> QED BY <4>1, <4>2
    <3>2. Attributed(g, local')
      BY <1>3, <1>4, <3>1, AttributedMeans DEF History
    <3> QED BY <1>3, <1>5, <2>3, <3>2
  <2> QED BY <2>2, <2>3
<1> QED BY <1>4, <1>6, <1>7 DEF LocalStep

-----------------------------------------------------------------------------

(* What the network may still hold of a request given up. *)
LEMMA Abandoned == ASSUME Inv, NEW w \in Workspace, Abandon(call[w]) PROVE LateStep
<1>1. CASE UNCHANGED late
  BY <1>1, LeftAlone
<1>2. CASE call[w].kind = "push" /\ late' = late \cup {call[w]}
  <2>1. call[w] \in Request /\ PushHolds(call[w], local)
    BY <1>2, At, RequestTypes DEF Inv, PushesInv
  <2> QED BY <1>2, <2>1 DEF LateStep, Inv, TypeOK, PushesInv
<1> QED BY <1>1, <1>2 DEF Abandon

LEMMA NothingWaits ==
  ASSUME Inv, NEW w \in Workspace
  PROVE  /\ call' = [call EXCEPT ![w] = Nothing] => CallStep
         /\ \A e \in Event \cup {Nothing} :
              inbox' = [inbox EXCEPT ![w] = e] /\ (e.kind = "Blocks" => PageHolds(e, local)) => InboxStep
<1>1. /\ call \in [Workspace -> Request \cup {Nothing}]
      /\ inbox \in [Workspace -> Event \cup {Nothing}] /\ Nothing.kind # "push"
      /\ \A v \in Workspace : call[v].kind = "push" => PushHolds(call[v], local)
      /\ \A v \in Workspace : inbox[v].kind = "Blocks" => PageHolds(inbox[v], local)
  BY DEF Inv, TypeOK, Nothing, PushesInv, PagesInv
<1>2. call' = [call EXCEPT ![w] = Nothing] => CallStep
  BY <1>1 DEF CallStep
<1>3. ASSUME NEW e \in Event \cup {Nothing}, inbox' = [inbox EXCEPT ![w] = e],
             e.kind = "Blocks" => PageHolds(e, local)
      PROVE  InboxStep
  BY <1>1, <1>3 DEF InboxStep
<1> QED BY <1>2, <1>3

LEMMA SwitchInv == ASSUME Inv, NEW w \in Workspace, Switch(w) PROVE Inv'
<1>1. PICK info \in Anchors(w) :
        client' = [client EXCEPT ![w] =
          [flow |-> "Idle", project |-> client[w].project, info |-> info,
           ahead |-> FALSE, adopting |-> FALSE, progress |-> NoPush]]
  BY DEF Switch
<1>2. info \in Info \cup {NoInfo}
  <2>1. ASSUME NEW n \in 1..Len(local[w]), NEW r \in ReadOnly
        PROVE  [project |-> client[w].project, chain |-> SubSeq(local[w], 1, n),
                readOnly |-> r] \in Info
    <3>1. SubSeq(local[w], 1, n) \in History
      BY At DEF History
    <3>2. r \in BOOLEAN /\ client[w].project \in Project
      BY At, ClientTypes, SyncAssumption
    <3> QED BY <3>1, <3>2 DEF Info
  <2>2. client[w].info \in Info \cup {NoInfo}
    BY At, ClientTypes
  <2> QED BY <2>1, <2>2 DEF Anchors
<1> DEFINE state == [flow |-> "Idle", project |-> client[w].project, info |-> info,
                     ahead |-> FALSE, adopting |-> FALSE, progress |-> NoPush]
<1>3. state \in Client /\ state.progress.target <= Len(local[w])
  <2>1. state \in Client
    BY <1>2, At, ClientTypes, NoPushType DEF Client, Flow
  <2>2. state.progress.target = 0 /\ Len(local[w]) \in Nat
    BY At DEF NoPush, History
  <2> QED BY <2>1, <2>2
<1> HIDE DEF state
<1>4. client' = [client EXCEPT ![w] = state]
  BY <1>1 DEF state
<1>5. ClientStep
  BY <1>3, <1>4, At DEF ClientStep, Inv, TypeOK
<1>6. CallStep /\ InboxStep
  <2>1. Nothing.kind # "Blocks"
    BY DEF Nothing
  <2> QED BY <2>1, NothingWaits DEF Switch
<1> QED BY <1>5, <1>6, Abandoned, LeftAlone, StepKeeps DEF Switch

-----------------------------------------------------------------------------

(* A page that starts where it was asked for is a piece of the history. *)
LEMMA ServedPage ==
  ASSUME Inv, NEW p \in Project, NEW from \in Nat, Page(p, from).from = from
  PROVE  Page(p, from) \in Event /\ PageHolds(Page(p, from), local)
<1> DEFINE h == remote[p]
           end == Min({from + PageSize, Len(h)})
           page == [kind |-> "Blocks", from |-> from, blocks |-> SubSeq(h, from + 1, end),
                    next |-> IF end < Len(h) THEN end ELSE 0, chain |-> h]
<1>1. h \in Seq(Block) /\ Attributed(h, local) /\ Len(h) \in Nat
  BY DEF Inv, TypeOK, HistoriesInv, History
<1>2. Min({from, Len(h)}) = from
  BY DEF Page
<1>3. from <= Len(h)
  BY <1>1, <1>2, MinMeans
<1>4. end \in from..Len(h)
  <2>1. from + PageSize \in Nat /\ from <= from + PageSize
    BY SyncAssumption
  <2> QED BY <1>1, <1>3, <2>1, MinMeans
<1>5. Page(p, from) = page
  BY <1>2 DEF Page
<1> HIDE DEF end
<1>6. SubSeq(h, from + 1, end) \in Seq(Block) /\ Len(SubSeq(h, from + 1, end)) = end - from
  BY <1>1, <1>4
<1>7. page \in Event
  BY <1>1, <1>4, <1>6 DEF Event, History
<1>8. PageHolds(page, local)
  <2>1. from + Len(page.blocks) = end
    BY <1>4, <1>6
  <2> QED BY <1>1, <1>4, <2>1 DEF PageHolds
<1> QED BY <1>5, <1>7, <1>8

LEMMA ServeInv == ASSUME Inv, NEW w \in Workspace, Serve(w) PROVE Inv'
<1>1. PICK answer \in Answer(call[w]) : inbox' = [inbox EXCEPT ![w] = answer]
  BY DEF Serve
<1>2. /\ call[w] \in Request /\ call' = [call EXCEPT ![w] = Nothing]
      /\ UNCHANGED <<remote, late, document, client>>
  BY At DEF Serve
<1>3. answer \in Event /\ (answer.kind = "Blocks" => PageHolds(answer, local))
  <2>1. Failed \in Event /\ Failed.kind # "Blocks"
    BY DEF Event, Failed
  <2>2. CASE call[w].kind \in {"preflight", "projects"}
    BY <2>2 DEF Answer, Event
  <2>3. CASE call[w].kind = "info"
    <3>1. PICK r \in ReadOnly :
            answer = [kind |-> "Info", info |->
              [project |-> call[w].project, chain |-> remote[call[w].project], readOnly |-> r]]
      BY <2>3 DEF Answer
    <3>2. r \in BOOLEAN /\ call[w].project \in Project
      BY <1>2, <2>3, RequestTypes, SyncAssumption
    <3>3. remote[call[w].project] \in History
      BY <3>2 DEF Inv, TypeOK
    <3>4. [project |-> call[w].project, chain |-> remote[call[w].project], readOnly |-> r] \in Info
      BY <3>2, <3>3 DEF Info
    <3> QED BY <3>1, <3>4 DEF Event
  <2>4. CASE call[w].kind = "blocks"
    <3> DEFINE page == Page(call[w].project, call[w].from)
    <3>1. answer = IF page.from = call[w].from THEN page ELSE Failed
      BY <2>4 DEF Answer
    <3>2. call[w].project \in Project /\ call[w].from \in Nat
      BY <1>2, <2>4, RequestTypes
    <3>3. page.from = call[w].from => page \in Event /\ PageHolds(page, local)
      BY <3>2, ServedPage
    <3> QED BY <2>1, <3>1, <3>3
  <2>5. CASE call[w].kind \notin {"preflight", "projects", "info", "blocks"}
    BY <2>5 DEF Answer
  <2> QED BY <2>2, <2>3, <2>4, <2>5
<1> QED BY <1>1, <1>2, <1>3, NothingWaits, LeftAlone, StepKeeps

LEMMA LoseCallInv == ASSUME Inv, NEW w \in Workspace, LoseCall(w) PROVE Inv'
<1>1. Failed \in Event /\ Failed.kind # "Blocks"
  BY DEF Event, Failed
<1> QED BY <1>1, Abandoned, NothingWaits, LeftAlone, StepKeeps DEF LoseCall

(* A push that extends the project leaves it with the history it was sent to
   make, whenever it arrives. *)
LEMMA Appends ==
  ASSUME Inv, NEW r \in Request, r.kind = "push", PushHolds(r, local),
         Extends(r), AppendTo(r)
  PROVE  RemoteStep
<1>1. r.project \in Project /\ r.base \o r.blocks \in History
  BY RequestTypes
<1>2. remote' = [remote EXCEPT ![r.project] = r.base \o r.blocks]
  BY DEF Extends, AppendTo
<1> QED BY <1>1, <1>2 DEF RemoteStep, PushHolds, Inv, TypeOK, HistoriesInv

LEMMA ServePushInv == ASSUME Inv, NEW w \in Workspace, ServePush(w) PROVE Inv'
<1> DEFINE r == call[w]
<1>1. r \in Request /\ r.kind = "push" /\ r.base \in History /\ r.blocks \in History
      /\ r.base \o r.blocks \in History /\ PushHolds(r, local)
  BY At, RequestTypes DEF ServePush, Inv, PushesInv
<1>2. RemoteStep
  BY <1>1, Appends, LeftAlone DEF ServePush
<1>3. PICK e \in Event : e.kind # "Blocks" /\ inbox' = [inbox EXCEPT ![w] = e]
  <2>1. [kind |-> "PushConflict"] \in Event
    BY DEF Event
  <2>2. [kind |-> "PushOk", head |-> r.base \o r.blocks, appended |-> Len(r.blocks)] \in Event
    BY <1>1 DEF Event, History
  <2> QED BY <2>1, <2>2 DEF ServePush
<1> QED BY <1>2, <1>3, NothingWaits, LeftAlone, StepKeeps DEF ServePush

LEMMA ServeLateInv == ASSUME Inv, NEW r \in late, ServeLate(r) PROVE Inv'
<1>1. r \in Request /\ r.kind = "push" /\ PushHolds(r, local)
  BY DEF Inv, TypeOK, PushesInv
<1>2. RemoteStep
  BY <1>1, Appends, LeftAlone DEF ServeLate
<1>3. LateStep
  BY DEF ServeLate, LateStep, Inv, TypeOK, PushesInv
<1> QED BY <1>2, <1>3, LeftAlone, StepKeeps DEF ServeLate, network

-----------------------------------------------------------------------------

(* A chunk is a piece of the local history that follows what the server has
   acknowledged, so that the two together are a beginning of that history. *)
LEMMA PostChunkKeeps ==
  ASSUME Inv, NEW w \in Workspace, NEW state \in Client, NEW failed \in Client,
         state.progress.target <= Len(local[w]), failed.progress.target <= Len(local[w]),
         IsPrefix(state.progress.acknowledged, local[w]),
         PostChunk(w, state, failed)
  PROVE  ClientStep /\ CallStep /\ LateStep
<1> DEFINE h == local[w]
           base == state.progress.acknowledged
           end == Min({Len(base) + ChunkSize, state.progress.target})
<1>1. h \in Seq(Block) /\ base \in Seq(Block) /\ Attributed(h, local)
      /\ Len(h) \in Nat /\ Len(base) \in Nat
  BY At, ClientTypes DEF History
<1>2. Len(base) <= Len(h) /\ \A i \in 1..Len(base) : base[i] = h[i]
  BY <1>1, PrefixMeans
<1>3. end \in Int /\ end <= Len(h)
  <2>1. Len(base) + ChunkSize \in Int /\ state.progress.target \in Int
    BY <1>1, ClientTypes, SyncAssumption
  <2>2. end \in Int /\ end <= state.progress.target
    BY <2>1, MinMeans
  <2> QED BY <1>1, <2>1, <2>2
<1>4. CASE Stop(w, failed)
  BY <1>4, FlowGoesOn
<1>5. ASSUME NEW n \in Len(base) + 1 .. end,
             Ask(w, [state EXCEPT !.progress.inflight = n],
                 PushCall(state.project, base, SubSeq(h, Len(base) + 1, n)))
      PROVE  ClientStep /\ CallStep /\ LateStep
  <2> DEFINE blocks == SubSeq(h, Len(base) + 1, n)
             sent == [state EXCEPT !.progress.inflight = n]
             r == PushCall(state.project, base, blocks)
  <2>1. n \in 1..Len(h) /\ Len(base) < n
    BY <1>1, <1>3
  <2>2. /\ blocks \in Seq(Block) /\ Len(blocks) = n - Len(base)
        /\ \A i \in 1..Len(blocks) : blocks[i] = h[Len(base) + i]
    <3> HIDE DEF base, h
    <3>1. Len(base) \in 0..Len(h) /\ n \in Len(base)..Len(h)
      BY <1>1, <2>1
    <3>2. /\ blocks \in Seq(Block) /\ Len(blocks) = n - Len(base)
          /\ \A i \in 1..n - Len(base) : blocks[i] = h[Len(base) + i]
      BY <1>1, <3>1, Piece, Zenon
    <3> QED BY <3>2
  <2>3. sent \in Client /\ sent.progress.target = state.progress.target
    <3>1. n \in Nat
      BY <2>1
    <3> QED BY <3>1 DEF Client, Progress
  <2>4. r \in Request /\ r.kind = "push" /\ r.base = base /\ r.blocks = blocks
    BY <1>1, <2>2, ClientTypes DEF Request, PushCall, History
  <2>5. base \o blocks = SubSeq(h, 1, n)
    <3> HIDE DEF base, blocks, h
    <3> DEFINE g == SubSeq(h, 1, n)
    <3>1. g \in Seq(Block) /\ Len(g) = n /\ \A i \in 1..n : g[i] = h[i]
      BY <1>1, <2>1
    <3>2. base \o blocks \in Seq(Block) /\ Len(base \o blocks) = n
      BY <1>1, <2>2
    <3> HIDE DEF g
    <3>3. ASSUME NEW i \in 1..n PROVE (base \o blocks)[i] = g[i]
      <4>1. CASE i \in 1..Len(base)
        BY <1>1, <1>2, <2>2, <3>1, <4>1
      <4>2. CASE i \notin 1..Len(base)
        <5>1. i - Len(base) \in 1..Len(blocks) /\ Len(base) + (i - Len(base)) = i
          BY <1>1, <2>1, <2>2, <4>2
        <5>2. (base \o blocks)[i] = blocks[i - Len(base)]
          BY <1>1, <2>2, <4>2, <5>1
        <5> QED BY <2>2, <3>1, <5>1, <5>2
      <4> QED BY <4>1, <4>2
    <3>4. base \o blocks = g
      BY <3>1, <3>2, <3>3
    <3> QED BY <3>4 DEF g
  <2>6. PushHolds(r, local)
    <3>1. Attributed(SubSeq(h, 1, n), local)
      BY <1>1, <2>1, AttributedPrefix DEF Inv, TypeOK, History
    <3> QED BY <2>4, <2>5, <3>1 DEF PushHolds
  <2> QED BY <1>5, <2>3, <2>4, <2>6, FlowGoesOn
<1> QED BY <1>4, <1>5 DEF PostChunk

LEMMA CheckInfoInv == ASSUME Inv, NEW w \in Workspace, handle_check_info(w) PROVE Inv'
<1> DEFINE info == inbox[w].info
           seen == [client[w] EXCEPT !.info = info,
                      !.ahead = ~remote_is_local_prefix(w, info)]
<1>1. info \in Info
  BY At, EventTypes DEF handle_check_info, Drained
<1>2. seen \in Client /\ seen.progress = client[w].progress
  <2>1. (~remote_is_local_prefix(w, info)) \in BOOLEAN
    OBVIOUS
  <2> QED BY <1>1, <2>1, At DEF Client
<1>3. Stop(w, seen) \/ Stop(w, client[w])
  BY DEF handle_check_info
<1> HIDE DEF seen
<1>4. ClientStep /\ CallStep /\ LateStep
  BY <1>2, <1>3, At, FlowGoesOn
<1> QED BY <1>4, DrainedKeeps, LeftAlone, StepKeeps DEF handle_check_info

LEMMA PullInfoInv == ASSUME Inv, NEW w \in Workspace, handle_pull_info(w) PROVE Inv'
<1> DEFINE info == inbox[w].info
           state == [client[w] EXCEPT !.info = info]
<1>1. info \in Info /\ info.project \in Project /\ Len(local[w]) \in Nat
  BY At, EventTypes, InfoTypes DEF handle_pull_info, Drained, History
<1>2. /\ state \in Client /\ state.progress = client[w].progress
      /\ [state EXCEPT !.adopting = TRUE] \in Client
      /\ [state EXCEPT !.adopting = TRUE].progress = client[w].progress
  BY <1>1, At DEF Client
<1>3. LET ahead == [state EXCEPT !.ahead = ~remote_is_local_prefix(w, info)]
      IN ahead \in Client /\ ahead.progress = client[w].progress
  <2>1. (~remote_is_local_prefix(w, info)) \in BOOLEAN
    OBVIOUS
  <2> QED BY <1>2, <2>1 DEF Client
<1>4. \A n \in Nat : BlocksCall(info.project, n) \in Request /\ BlocksCall(info.project, n).kind # "push"
  BY <1>1 DEF BlocksCall, Request
<1>5. ClientStep /\ CallStep /\ LateStep
  <2>1. CASE Stop(w, client[w])
    BY <2>1, At, FlowGoesOn
  <2>2. CASE Ask(w, [state EXCEPT !.adopting = TRUE], BlocksCall(info.project, 0))
    BY <1>2, <1>4, <2>2, At, FlowGoesOn
  <2>3. CASE Ask(w, state, BlocksCall(info.project, Len(local[w])))
    BY <1>1, <1>2, <1>4, <2>3, At, FlowGoesOn
  <2>4. CASE Stop(w, [state EXCEPT !.ahead = ~remote_is_local_prefix(w, info)])
    BY <1>3, <2>4, At, FlowGoesOn
  <2> QED BY <2>1, <2>2, <2>3, <2>4 DEF handle_pull_info
<1> QED BY <1>5, DrainedKeeps, LeftAlone, StepKeeps DEF handle_pull_info

LEMMA PushInfoInv == ASSUME Inv, NEW w \in Workspace, handle_push_info(w) PROVE Inv'
<1> DEFINE info == inbox[w].info
           none == [client[w] EXCEPT !.progress = NoPush]
           state == [none EXCEPT !.info = info]
           begun == [state EXCEPT !.progress =
                       [target |-> Len(local[w]), acknowledged |-> info.chain, inflight |-> 0]]
<1>1. info \in Info /\ info.chain \in History /\ Len(local[w]) \in Nat
  BY At, EventTypes, InfoTypes DEF handle_push_info, Drained, History
<1>2. NoPush.target <= Len(local[w])
  BY <1>1 DEF NoPush
<1>3. /\ none \in Client /\ none.progress = NoPush
      /\ state \in Client /\ state.progress = NoPush
      /\ [none EXCEPT !.ahead = TRUE] \in Client /\ [none EXCEPT !.ahead = TRUE].progress = NoPush
      /\ [state EXCEPT !.ahead = TRUE] \in Client /\ [state EXCEPT !.ahead = TRUE].progress = NoPush
  BY <1>1, At, NoPushType DEF Client
<1>4. /\ begun \in Client /\ begun.progress.target = Len(local[w])
      /\ begun.progress.acknowledged = info.chain
  <2>1. [target |-> Len(local[w]), acknowledged |-> info.chain, inflight |-> 0] \in Progress
    BY <1>1 DEF Progress
  <2> QED BY <1>3, <2>1 DEF Client
<1>5. \/ Stop(w, none) \/ Stop(w, state)
      \/ Stop(w, [none EXCEPT !.ahead = TRUE]) \/ Stop(w, [state EXCEPT !.ahead = TRUE])
      \/ IsPrefix(info.chain, local[w]) /\ PostChunk(w, begun, state)
  BY DEF handle_push_info, remote_is_local_prefix
<1> HIDE DEF info, none, state, begun
<1>6. ClientStep /\ CallStep /\ LateStep
  <2>1. CASE Stop(w, none) \/ Stop(w, [none EXCEPT !.ahead = TRUE])
    BY <1>2, <1>3, <2>1, FlowGoesOn
  <2>2. CASE Stop(w, state) \/ Stop(w, [state EXCEPT !.ahead = TRUE])
    BY <1>2, <1>3, <2>2, FlowGoesOn
  <2>3. CASE IsPrefix(info.chain, local[w]) /\ PostChunk(w, begun, state)
    BY <1>1, <1>2, <1>3, <1>4, <2>3, PostChunkKeeps
  <2> QED BY <1>5, <2>1, <2>2, <2>3
<1> QED BY <1>6, DrainedKeeps, LeftAlone, StepKeeps DEF handle_push_info

LEMMA PushOkInv == ASSUME Inv, NEW w \in Workspace, handle_push_ok(w) PROVE Inv'
<1> DEFINE answer == inbox[w]
           over == [client[w] EXCEPT !.progress = NoPush, !.ahead = TRUE]
           seen == IF client[w].info = NoInfo THEN NoInfo
                   ELSE [client[w].info EXCEPT !.chain = answer.head]
           state == [client[w] EXCEPT !.info = seen,
                       !.progress.acknowledged = answer.head, !.progress.inflight = 0]
           complete == [state EXCEPT !.progress = NoPush, !.ahead = FALSE]
           blocked == [over EXCEPT !.info = seen]
<1>1. answer.head \in History /\ Len(local[w]) \in Nat
  BY At, EventTypes DEF handle_push_ok, Drained, History
<1>2. seen \in Info \cup {NoInfo}
  BY <1>1, At, ClientTypes DEF Info
<1>3. NoPush.target <= Len(local[w])
  BY <1>1 DEF NoPush
<1> HIDE DEF answer, seen
<1>4. over \in Client /\ over.progress = NoPush
  BY At, NoPushType DEF Client
<1>5. /\ state \in Client /\ state.progress.target = client[w].progress.target
      /\ state.progress.acknowledged = answer.head
  BY <1>1, <1>2, At DEF Client, Progress
<1>6. complete \in Client /\ complete.progress = NoPush
  BY <1>5, NoPushType DEF Client
<1>7. blocked \in Client /\ blocked.progress = NoPush
  BY <1>2, <1>4 DEF Client
<1>8. \/ Stop(w, over) \/ Stop(w, complete)
      \/ IsPrefix(answer.head, local[w]) /\ PostChunk(w, state, blocked)
  BY DEF handle_push_ok, Acknowledges, answer, seen
<1> HIDE DEF over, state, complete, blocked
<1>9. ClientStep /\ CallStep /\ LateStep
  <2>1. CASE Stop(w, over)
    BY <1>3, <1>4, <2>1, FlowGoesOn
  <2>2. CASE Stop(w, complete)
    BY <1>3, <1>6, <2>2, FlowGoesOn
  <2>3. CASE IsPrefix(answer.head, local[w]) /\ PostChunk(w, state, blocked)
    BY <1>3, <1>5, <1>7, <2>3, At, PostChunkKeeps
  <2> QED BY <1>8, <2>1, <2>2, <2>3
<1> QED BY <1>9, DrainedKeeps, LeftAlone, StepKeeps DEF handle_push_ok

(* What a pull takes of a page, after what it replaces or extends, is a
   beginning of the history the page is from. *)
LEMMA Taken ==
  ASSUME Inv, NEW w \in Workspace, NEW target \in History, inbox[w].kind = "Blocks",
         inbox[w].from = IF client[w].adopting THEN 0 ELSE Len(local[w]),
         Wanted(inbox[w], target) # << >>, Takes(w, inbox[w])
  PROVE  LET g == IF client[w].adopting THEN Wanted(inbox[w], target)
                  ELSE local[w] \o Wanted(inbox[w], target)
         IN /\ g \in History /\ g # << >> /\ Attributed(g, local)
            /\ IsPrefix(local[w], g) \/ IsPristine(w)
<1> DEFINE from == inbox[w].from
           blocks == inbox[w].blocks
           h == inbox[w].chain
           l == local[w]
           k == Min({Len(blocks), Len(target) - from})
           wanted == SubSeq(blocks, 1, k)
           end == from + Len(blocks)
           top == SubSeq(h, 1, from + k)
<1>1. /\ blocks \in Seq(Block) /\ h \in Seq(Block) /\ from \in Nat /\ l \in Seq(Block)
      /\ Len(blocks) \in Nat /\ Len(h) \in Nat /\ Len(target) \in Nat /\ Len(l) \in Nat
  BY At, EventTypes DEF History
<1>2. Attributed(h, local) /\ end <= Len(h) /\ blocks = SubSeq(h, from + 1, end)
  BY DEF Inv, PagesInv, PageHolds
<1>3. wanted = Wanted(inbox[w], target)
  BY DEF Wanted
<1>4. /\ client[w].adopting => from = 0 /\ IsPristine(w)
      /\ ~client[w].adopting => from = Len(l) /\ SubSeq(h, 1, from) = l
  BY DEF Takes
<1> HIDE DEF from, blocks, h, l, k
<1>5. k \in 1..Len(blocks)
  <2>1. Len(blocks) \in Int /\ Len(target) - from \in Int
    BY <1>1
  <2>2. k \in Int /\ k <= Len(blocks)
    BY <2>1, MinMeans DEF k
  <2>3. k < 1 => wanted = << >>
    BY <1>1, <2>2
  <2> QED BY <1>1, <1>3, <2>2, <2>3
<1>6. wanted \in Seq(Block) /\ Len(wanted) = k /\ \A i \in 1..k : wanted[i] = h[from + i]
  <2>1. /\ wanted \in Seq(Block) /\ Len(wanted) = k
        /\ \A i \in 1..k : wanted[i] = blocks[i]
    BY <1>1, <1>5
  <2>2. \A i \in 1..Len(blocks) : blocks[i] = h[from + i]
    <3>1. from \in 0..Len(h) /\ end \in from..Len(h) /\ end - from = Len(blocks)
      BY <1>1, <1>2
    <3> HIDE DEF end
    <3>2. \A i \in 1..end - from : SubSeq(h, from + 1, end)[i] = h[from + i]
      BY <1>1, <3>1, Piece, Zenon
    <3> QED BY <1>2, <3>1, <3>2
  <2> QED BY <1>5, <2>1, <2>2
<1>7. from + k \in 1..Len(h)
  BY <1>1, <1>2, <1>5
<1>8. h \in History /\ Attributed(top, local)
      /\ top \in Seq(Block) /\ Len(top) = from + k /\ \A i \in 1..from + k : top[i] = h[i]
  BY <1>1, <1>2, <1>7, AttributedPrefix DEF Inv, TypeOK, History
<1> HIDE DEF wanted, top
<1>9. CASE client[w].adopting
  <2>1. wanted = top
    BY <1>4, <1>5, <1>6, <1>8, <1>9
  <2>2. top # << >>
    BY <1>7, <1>8
  <2> QED BY <1>3, <1>4, <1>8, <1>9, <2>1, <2>2 DEF History
<1>10. CASE ~client[w].adopting
  <2>1. from = Len(l) /\ SubSeq(h, 1, from) = l
    BY <1>4, <1>10
  <2>2. \A i \in 1..Len(l) : l[i] = h[i]
    <3>1. \A i \in 1..from : SubSeq(h, 1, from)[i] = h[i]
      BY <1>1, <1>5, <1>7
    <3> QED BY <2>1, <3>1
  <2> DEFINE g == l \o wanted
  <2>3. g \in Seq(Block) /\ Len(g) = from + k
    <3>1. l \in Seq(Block) /\ wanted \in Seq(Block)
      BY <1>1, <1>6
    <3>2. g \in Seq(Block) /\ Len(g) = Len(l) + Len(wanted)
      BY <3>1
    <3> QED BY <1>6, <2>1, <3>2
  <2>4. ASSUME NEW i \in 1..from + k PROVE g[i] = h[i]
    <3>1. CASE i \in 1..Len(l)
      BY <1>1, <1>6, <2>2, <3>1
    <3>2. CASE i \notin 1..Len(l)
      <4>1. i - from \in 1..k /\ from + (i - from) = i
        BY <1>1, <1>5, <2>1, <3>2
      <4>2. g[i] = wanted[i - from]
        BY <1>1, <1>5, <1>6, <2>1, <3>2, <4>1
      <4> QED BY <1>6, <4>1, <4>2
    <3> QED BY <3>1, <3>2
  <2> HIDE DEF g
  <2>5. g = top
    BY <1>8, <2>3, <2>4
  <2>6. IsPrefix(l, g)
    <3>1. Len(l) <= Len(g) /\ \A i \in 1..Len(l) : i \in 1..from + k
      BY <1>1, <1>5, <2>1, <2>3
    <3>2. \A i \in 1..Len(l) : l[i] = g[i]
      BY <2>2, <2>4, <3>1
    <3> QED BY <1>1, <2>3, <3>1, <3>2, PrefixMeans
  <2>7. g # << >>
    BY <1>7, <2>3
  <2>8. g = local[w] \o Wanted(inbox[w], target)
    BY <1>3 DEF g, l
  <2> QED BY <1>8, <1>10, <2>3, <2>5, <2>6, <2>7, <2>8 DEF History, l
<1> QED BY <1>9, <1>10

LEMMA TakeGrows ==
  ASSUME Inv, NEW w \in Workspace, NEW target \in History, inbox[w].kind = "Blocks",
         inbox[w].from = IF client[w].adopting THEN 0 ELSE Len(local[w]),
         Wanted(inbox[w], target) # << >>, Takes(w, inbox[w]),
         Take(w, inbox[w], Wanted(inbox[w], target))
  PROVE  LocalStep
<1> DEFINE wanted == Wanted(inbox[w], target)
           g == IF client[w].adopting THEN wanted ELSE local[w] \o wanted
<1>1. /\ g \in History /\ g # << >> /\ Attributed(g, local)
      /\ IsPrefix(local[w], g) \/ IsPristine(w)
  BY Taken
<1>2. local' = [local EXCEPT ![w] = g] /\ local \in [Workspace -> History]
  BY DEF Take, Inv, TypeOK
<1>3. edited' \in [Workspace -> BOOLEAN]
  <2>1. PICK left \in BOOLEAN : edited' = [edited EXCEPT ![w] = left]
    BY DEF Take
  <2> QED BY <2>1 DEF Inv, TypeOK
<1> HIDE DEF g
<1>4. local' \in [Workspace -> History] /\ local'[w] = g
      /\ \A v \in Workspace \ {w} : local'[v] = local[v]
  BY <1>1, <1>2
<1>5. \A v \in Workspace : IsPrefix(local[v], local'[v]) \/ IsPristine(v)
  <2>1. \A v \in Workspace : IsPrefix(local[v], local[v])
    BY At, PrefixMeans DEF History
  <2> QED BY <1>1, <1>4, <2>1
<1>6. \A v \in Workspace : IsPrefix(local[v], local'[v]) \/ Len(local[v]) = 1
  BY <1>5 DEF IsPristine
<1>7. ASSUME NEW v \in Workspace PROVE local'[v] # << >> /\ Attributed(local'[v], local')
  <2> DEFINE h == local'[v]
  <2>1. h # << >> /\ h \in History /\ Attributed(h, local)
    BY <1>1, <1>4, At
  <2> HIDE DEF h
  <2>2. Attributed(h, local')
    BY <1>2, <1>4, <1>6, <2>1, AttributedStays
  <2> QED BY <2>1, <2>2 DEF h
<1> QED BY <1>3, <1>4, <1>5, <1>7 DEF LocalStep

(* A page is taken whole or not at all. *)
LEMMA PullBlocksGrow == ASSUME Inv, NEW w \in Workspace, handle_pull_blocks(w) PROVE LocalStep
<1> DEFINE target == client[w].info.chain
           wanted == Wanted(inbox[w], target)
<1>1. inbox[w].kind = "Blocks" /\ target \in History
  BY At, ClientTypes DEF handle_pull_blocks, Drained
<1>2. \/ UNCHANGED document
      \/ /\ inbox[w].from = IF client[w].adopting THEN 0 ELSE Len(local[w])
         /\ wanted # << >> /\ Takes(w, inbox[w]) /\ Take(w, inbox[w], wanted)
  BY DEF handle_pull_blocks
<1> QED BY <1>1, <1>2, LeftAlone, TakeGrows

LEMMA PullBlocksInv == ASSUME Inv, NEW w \in Workspace, handle_pull_blocks(w) PROVE Inv'
<1> DEFINE target == client[w].info.chain
           state == [client[w] EXCEPT !.adopting = FALSE]
           over == [state EXCEPT !.ahead = (local'[w] # target)]
<1>1. /\ state \in Client /\ state.progress = client[w].progress /\ state.project \in Project
      /\ over \in Client /\ over.progress = client[w].progress
  BY At DEF Client
<1>2. \/ Stop(w, client[w]) \/ Stop(w, state) \/ Stop(w, over)
      \/ Ask(w, state, BlocksCall(state.project, Len(local'[w])))
  BY DEF handle_pull_blocks, NextPage
<1>3. LocalStep
  BY PullBlocksGrow
<1>4. BlocksCall(state.project, Len(local'[w])) \in Request
      /\ BlocksCall(state.project, Len(local'[w])).kind # "push"
  <2>1. Len(local'[w]) \in Nat
    BY <1>3 DEF LocalStep, History
  <2> QED BY <1>1, <2>1 DEF BlocksCall, Request
<1> HIDE DEF state, over
<1>5. ClientStep /\ CallStep /\ LateStep
  <2>1. CASE Stop(w, client[w]) \/ Stop(w, state) \/ Stop(w, over)
    BY <1>1, <2>1, At, FlowGoesOn
  <2>2. CASE Ask(w, state, BlocksCall(state.project, Len(local'[w])))
    BY <1>1, <1>4, <2>2, At, FlowGoesOn
  <2> QED BY <1>2, <2>1, <2>2
<1> QED BY <1>3, <1>5, DrainedKeeps, StepKeeps DEF handle_pull_blocks

-----------------------------------------------------------------------------

LEMMA InitInv == Init => Inv
<1> SUFFICES ASSUME Init PROVE Inv
  OBVIOUS
<1>1. \A b \in Block : <<b>> \in History /\ Len(<<b>>) = 1 /\ <<b>> # << >>
  BY DEF History
<1>2. \A p \in Project : Origin[p] \in Block
  BY SyncAssumption DEF Block
<1>3. \A w \in Workspace : w \in Block
  BY DEF Block
<1>4. \A p \in Project : remote[p] \in History /\ Len(remote[p]) = 1
  BY <1>1, <1>2 DEF Init
<1>5. \A w \in Workspace : local[w] \in History /\ Len(local[w]) = 1 /\ local[w] # << >>
  BY <1>1, <1>3 DEF Init
<1>6. \A h \in History : Len(h) = 1 => Attributed(h, local)
  BY DEF Attributed
<1>7. client \in [Workspace -> Client] /\ \A w \in Workspace : client[w].progress = NoPush
  <2>1. [flow : {"Idle"}, project : Project, info : {NoInfo}, ahead : {FALSE},
         adopting : {FALSE}, progress : {NoPush}] \subseteq Client
    BY NoPushType DEF Client, Flow
  <2> QED BY <2>1 DEF Init
<1>8. TypeOK
  BY <1>4, <1>5, <1>7 DEF TypeOK, Init
<1>9. HistoriesInv
  BY <1>4, <1>5, <1>6 DEF HistoriesInv
<1>10. PushesInv /\ PagesInv
  BY DEF PushesInv, PagesInv, Init, Nothing
<1>11. TargetsInv
  BY <1>5, <1>7 DEF TargetsInv, NoPush
<1> QED BY <1>8, <1>9, <1>10, <1>11 DEF Inv

LEMMA CommitInv == ASSUME Inv, NEW w \in Workspace, Commit(w) PROVE Inv'
BY CommitGrows, LeftAlone, StepKeeps DEF Commit, network

LEMMA InvStep == Inv /\ [Next]_vars => Inv'
<1> SUFFICES ASSUME Inv, [Next]_vars PROVE Inv'
  OBVIOUS
<1>1. ASSUME NEW w \in Workspace, User(w) \/ Network(w) \/ Drain(w) PROVE Inv'
  <2>1. CASE User(w)
    BY <2>1, SmallStepInv, CommitInv, SwitchInv DEF User
  <2>2. CASE Network(w)
    BY <2>2, ServeInv, ServePushInv, LoseCallInv DEF Network
  <2>3. CASE Drain(w)
    BY <2>3, SmallStepInv, CheckInfoInv, PullInfoInv, PushInfoInv, PushOkInv, PullBlocksInv
       DEF Drain
  <2> QED BY <1>1, <2>1, <2>2, <2>3
<1>2. CASE UNCHANGED vars
  BY <1>2, LeftAlone, StepKeeps DEF vars, network
<1> QED BY <1>1, <1>2, ServeLateInv DEF Next

(* Every history that travels is attributed, whatever is lost or late. *)
THEOREM Invariant == Spec => []Inv
<1>1. Init => Inv
  BY InitInv
<1>2. Inv /\ [Next]_vars => Inv'
  BY InvStep
<1> QED BY <1>1, <1>2, PTL DEF Spec

(* Every variable has its type. *)
THEOREM TypeCorrect == Spec => []TypeOK
<1>1. Inv => TypeOK
  BY DEF Inv
<1> QED BY <1>1, Invariant, PTL

(* What a project holds under a workspace's name stands at the same place in
   that workspace's history (ProjectRegistry::push and handle_push_ok). *)
THEOREM RemoteIsAuthored == Spec => []RemoteKeepsAuthors
<1>1. Inv => RemoteKeepsAuthors
  BY DEF Inv, HistoriesInv, Attributed, RemoteKeepsAuthors
<1> QED BY <1>1, Invariant, PTL

(* A step extends the local histories, or replaces one that is pristine. *)
LEMMA HistoriesGrow ==
  ASSUME Inv, [Next]_vars
  PROVE  \A w \in Workspace : IsPrefix(local[w], local'[w]) \/ IsPristine(w)
<1>1. CASE LocalStep
  BY <1>1 DEF LocalStep
<1>2. CASE UNCHANGED local
  BY <1>2, At, PrefixMeans DEF History
<1>3. ASSUME NEW w \in Workspace, User(w) PROVE LocalStep \/ UNCHANGED local
  BY <1>3, CommitGrows DEF User, Edit, Switch, Start, Reattach, document
<1>4. ASSUME NEW w \in Workspace, Network(w) PROVE UNCHANGED local
  BY <1>4 DEF Network, Serve, ServePush, LoseCall, document
<1>5. ASSUME NEW w \in Workspace, Drain(w) PROVE LocalStep \/ UNCHANGED local
  BY <1>5, PullBlocksGrow DEF Drain, Continue, ListProjects, handle_check_info, handle_pull_info,
     handle_push_info, handle_push_ok, Conflict, Fail, document
<1>6. ASSUME NEW r \in late, ServeLate(r) PROVE UNCHANGED local
  BY <1>6 DEF ServeLate, document
<1>7. CASE UNCHANGED vars
  BY <1>2, <1>7 DEF vars, document
<1> QED BY <1>1, <1>2, <1>3, <1>4, <1>5, <1>6, <1>7 DEF Next

(* A history grows and is replaced only where nothing was committed or edited
   (adopt_remote, merge_remote). *)
THEOREM HistoriesSurvive == Spec => AuthoredSurvives
<1>1. Inv /\ [Next]_vars => [\A w \in Workspace : IsPrefix(local[w], local'[w]) \/ IsPristine(w)]_vars
  BY HistoriesGrow
<1> QED BY <1>1, Invariant, PTL DEF Spec, AuthoredSurvives
=============================================================================
