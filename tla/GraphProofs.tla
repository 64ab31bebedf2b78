----------------------------- MODULE GraphProofs -----------------------------
(***************************************************************************)
(* What is proved of the graph the evaluator works on and of the document, *)
(* workspace, window and jobs of the desktop program, for any nodes,       *)
(* ports, kinds, values, places, edits, files and pulled batches, and      *)
(* chains, histories and merges of any length the bounds allow.            *)
(*                                                                         *)
(* Well-formedness.  The hard case is Connect.  Reaches is what connect    *)
(* searches for before it adds a wire: it holds of the start, and goes on  *)
(* along every wire.  A set of nodes that all have a wire from the set     *)
(* would, with the new wire in it, have to be among the nodes the new      *)
(* wire's target reaches, and then it would not need the new wire.         *)
(*                                                                         *)
(* Replay.  ApplyAll, Replay, Rebased and FlattenSeq are recursive         *)
(* functions; what they compute is proved by induction over Nat, with sets *)
(* in the place of predicates (Counting, SeqCounting).                     *)
(*                                                                         *)
(* The document.  LedgerGivesGraph and HistoryReplays are not inductive:   *)
(* they speak of what ending the gesture would record, and say nothing of  *)
(* the gesture.  DocumentInv splits the graph on the screen into Base,     *)
(* what is recorded replays to, and the gesture on it: a drag holds its    *)
(* value on the value Base has (DragFits), a move the places Base has      *)
(* (MoveFits).  Ending either gives the graph back (GestureGives), so that *)
(* every handler, which ends the gesture first, starts from a ledger that  *)
(* replays (SettledFits).  Undo and redo need that the batches undone      *)
(* apply after what is pending, all of them together (RedoFits).           *)
(*                                                                         *)
(* What was authored.  ExitLosesNothing counts an operation in lists.      *)
(* Carried adds up the counts in the blocks signed here, in the ledger and *)
(* in the recovery list; it follows from DocumentInv of the state before a *)
(* step and of the one after it, action by action (NextStays).             *)
(*                                                                         *)
(* Evaluation.  CacheFits says of an entry that its output is what its     *)
(* component gives from its signature on the outputs its sources have in   *)
(* the cache now, whatever became of the graph; it says nothing while one  *)
(* of them is missing.  In a pass every node comes after its sources       *)
(* (TopoOrderSorts), so that a source that is not marked as changed has    *)
(* the output the entry was made from (PassFits), and results that are     *)
(* each the answer given the others are the fresh ones (AnswersAreFresh).  *)
(*                                                                         *)
(* The window.  A handler of the window calls those of the document, so    *)
(* that DocumentInv is half of what its step needs; the other half is what *)
(* the step does to the history (HistoryStep: the edits that can be undone *)
(* stay, lose the last, or get another after them) and to the screen       *)
(* (SceneStep: all is to be evaluated and drawn again, or what is shown    *)
(* stays).  InterfaceInv adds what was noted of the last edit (BeforeInv), *)
(* that what is shown is current until a flag asks for it anew (SceneInv), *)
(* and that hands and selection hold ids, if of nodes gone (HandsInv).     *)
(*                                                                         *)
(* The listing.  OrderInv and DepthInv are kept by every round of          *)
(* Topology::refresh; a feature left over would have a source left over,   *)
(* and features with sources among themselves are what connect refuses.    *)
(*                                                                         *)
(* Jobs.  CadInv adds the workspaces put away, whose ledgers open          *)
(* (ShelfInv), and the job, which holds the model it was started on and,   *)
(* once it is done, what its worker may bring (JobOk).  A result is planned*)
(* as operations that are well typed whatever a file holds (FileOk), and   *)
(* enters through the same handler as an edit of the user.                 *)
(***************************************************************************)
EXTENDS Evaluator, Workspace, CadFiles, TLAPS, WellFoundedInduction, FiniteSetTheorems,
        SequenceTheorems

(* Where connect starts its search is reached. *)
LEMMA ReachesItself ==
  ASSUME NEW g, NEW a PROVE Reaches(g, a, a)
BY DEF Reaches

(* What is reached goes on along a wire. *)
LEMMA ReachesOn ==
  ASSUME NEW g, NEW a, NEW e \in g.edges, Reaches(g, a, e.from[1])
  PROVE  Reaches(g, a, e.to[1])
BY DEF Reaches

(* With fewer wires a graph stays without cycles. *)
LEMMA FewerWires ==
  ASSUME NEW g, NEW h, Acyclic(g), Nodes(h) \subseteq Nodes(g), h.edges \subseteq g.edges
  PROVE  Acyclic(h)
<1> SUFFICES ASSUME NEW S \in SUBSET Nodes(h),
                    \A n \in S : \E e \in h.edges : e.to[1] = n /\ e.from[1] \in S
             PROVE  S = {}
  BY DEF Acyclic
<1> QED BY DEF Acyclic

(* A wire whose target does not reach its source closes no cycle. *)
LEMMA NewWireClosesNoCycle ==
  ASSUME NEW g, NEW h, NEW added, Acyclic(g),
         Nodes(h) = Nodes(g), h.edges \subseteq g.edges \cup {added},
         ~Reaches(g, added.to[1], added.from[1])
  PROVE  Acyclic(h)
<1> SUFFICES ASSUME NEW S \in SUBSET Nodes(h),
                    \A n \in S : \E e \in h.edges : e.to[1] = n /\ e.from[1] \in S
             PROVE  S = {}
  BY DEF Acyclic
<1> DEFINE reached == {n \in S : Reaches(g, added.to[1], n)}
           rest == S \ reached
<1>1. ASSUME NEW n \in rest PROVE \E e \in g.edges : e.to[1] = n /\ e.from[1] \in rest
  <2>1. PICK e \in h.edges : e.to[1] = n /\ e.from[1] \in S
    OBVIOUS
  <2>2. e # added
    BY <2>1, ReachesItself
  <2>3. e \in g.edges
    BY <2>2
  <2>4. ~Reaches(g, added.to[1], e.from[1])
    BY <2>1, <2>3, ReachesOn
  <2> QED BY <2>1, <2>3, <2>4
<1>2. rest = {}
  BY <1>1 DEF Acyclic
<1>3. added.from[1] \notin S
  BY <1>2
<1>4. ASSUME NEW n \in S PROVE \E e \in g.edges : e.to[1] = n /\ e.from[1] \in S
  BY <1>3
<1> QED BY <1>4 DEF Acyclic

-----------------------------------------------------------------------------

(* A node joins, without a wire. *)
LEMMA AddKeeps ==
  ASSUME NEW g, GraphType(g), WellFormed(g), NEW o \in GraphOp, o.op = "AddNode"
  PROVE  GraphType(Added(g, o)) /\ WellFormed(Added(g, o))
<1> DEFINE h == Added(g, o)
<1>1. g = [nodes |-> g.nodes, edges |-> g.edges]
  BY DEF GraphType
<1>2. o.id \in NodeId /\ o.kind \in Kind /\ o.pos \in Pos
  BY DEF GraphOp
<1>3. /\ h = [nodes |-> h.nodes, edges |-> h.edges] /\ h.edges = g.edges
      /\ h.nodes = [n \in Nodes(g) \cup {o.id} |->
                      IF n = o.id THEN [kind |-> o.kind, value |-> Unset, pos |-> o.pos]
                                  ELSE g.nodes[n]]
  BY <1>1 DEF Added
<1>4. Nodes(h) = Nodes(g) \cup {o.id}
  BY <1>3 DEF Nodes
<1> HIDE DEF h
<1>5. [kind |-> o.kind, value |-> Unset, pos |-> o.pos] \in Node
  BY <1>2 DEF Node
<1>6. GraphType(h)
  <2>1. h.nodes \in [Nodes(h) -> Node]
    BY <1>3, <1>4, <1>5 DEF GraphType
  <2> QED BY <1>2, <1>3, <1>4, <2>1 DEF GraphType
<1>7. Acyclic(h)
  <2> SUFFICES ASSUME NEW S \in SUBSET Nodes(h),
                      \A n \in S : \E e \in h.edges : e.to[1] = n /\ e.from[1] \in S
               PROVE  S = {}
    BY DEF Acyclic
  <2>1. S \subseteq Nodes(g)
    BY <1>3 DEF WellFormed, NoLooseWires
  <2> QED BY <1>3, <2>1 DEF WellFormed, Acyclic
<1> QED BY <1>3, <1>4, <1>6, <1>7 DEF WellFormed, NoLooseWires, OneWirePerInput, h

(* A node goes, and the wires at both its sides. *)
LEMMA RemoveKeeps ==
  ASSUME NEW g, GraphType(g), WellFormed(g), NEW o \in GraphOp, o.op = "RemoveNode"
  PROVE  GraphType(Removed(g, o)) /\ WellFormed(Removed(g, o))
<1> DEFINE h == Removed(g, o)
<1>1. /\ h = [nodes |-> h.nodes, edges |-> h.edges]
      /\ h.nodes = [n \in Nodes(g) \ {o.id} |-> g.nodes[n]]
      /\ h.edges = {e \in g.edges : e.from[1] # o.id /\ e.to[1] # o.id}
  BY DEF Removed
<1>2. Nodes(h) = Nodes(g) \ {o.id}
  BY <1>1 DEF Nodes
<1> HIDE DEF h
<1>3. GraphType(h)
  BY <1>1, <1>2 DEF GraphType
<1>4. Acyclic(h)
  BY <1>1, <1>2, FewerWires DEF WellFormed
<1> QED BY <1>1, <1>2, <1>3, <1>4 DEF WellFormed, NoLooseWires, OneWirePerInput, h

(* A wire takes the place of the one its input held. *)
LEMMA ConnectKeeps ==
  ASSUME NEW g, GraphType(g), WellFormed(g), NEW o \in GraphOp, o.op = "Connect",
         Wires(g, o.from, o.to)
  PROVE  GraphType(Connected(g, o)) /\ WellFormed(Connected(g, o))
<1> DEFINE h == Connected(g, o)
           added == [from |-> o.from, to |-> o.to]
<1>1. g = [nodes |-> g.nodes, edges |-> g.edges]
  BY DEF GraphType
<1>2. added \in Edge
  BY DEF GraphOp, Edge
<1>3. /\ h = [nodes |-> h.nodes, edges |-> h.edges] /\ h.nodes = g.nodes
      /\ h.edges = (g.edges \ IncomingAt(g, o.to)) \cup {added}
  BY <1>1 DEF Connected
<1>4. Nodes(h) = Nodes(g)
  BY <1>3 DEF Nodes
<1>5. added.from = o.from /\ added.to = o.to
  OBVIOUS
<1> HIDE DEF h, added
<1>6. GraphType(h)
  BY <1>2, <1>3, <1>4 DEF GraphType
<1>7. NoLooseWires(h)
  BY <1>3, <1>4, <1>5 DEF WellFormed, NoLooseWires, Wires
<1>8. OneWirePerInput(h)
  BY <1>3, <1>5 DEF WellFormed, OneWirePerInput, IncomingAt
<1>9. Acyclic(h)
  BY <1>3, <1>4, <1>5, NewWireClosesNoCycle DEF WellFormed, Wires
<1> QED BY <1>6, <1>7, <1>8, <1>9 DEF WellFormed, h

(* A wire goes. *)
LEMMA DisconnectKeeps ==
  ASSUME NEW g, GraphType(g), WellFormed(g), NEW o
  PROVE  GraphType(Disconnected(g, o)) /\ WellFormed(Disconnected(g, o))
<1> DEFINE h == Disconnected(g, o)
<1>1. g = [nodes |-> g.nodes, edges |-> g.edges]
  BY DEF GraphType
<1>2. /\ h = [nodes |-> h.nodes, edges |-> h.edges] /\ h.nodes = g.nodes
      /\ h.edges \subseteq g.edges
  BY <1>1 DEF Disconnected
<1>3. Nodes(h) = Nodes(g)
  BY <1>2 DEF Nodes
<1> HIDE DEF h
<1>4. GraphType(h)
  BY <1>2, <1>3 DEF GraphType
<1>5. Acyclic(h)
  BY <1>2, <1>3, FewerWires DEF WellFormed
<1> QED BY <1>2, <1>3, <1>4, <1>5 DEF WellFormed, NoLooseWires, OneWirePerInput, h

(* A node gets a value or a place, and keeps its wires. *)
LEMMA SetKeeps ==
  ASSUME NEW g, GraphType(g), WellFormed(g), NEW h,
         h = [nodes |-> h.nodes, edges |-> g.edges], h.nodes \in [Nodes(g) -> Node]
  PROVE  GraphType(h) /\ WellFormed(h)
<1>1. Nodes(h) = Nodes(g) /\ h.edges = g.edges
  BY DEF Nodes
<1>2. GraphType(h)
  BY <1>1 DEF GraphType
<1> QED BY <1>1, <1>2 DEF WellFormed, NoLooseWires, OneWirePerInput, Acyclic

(* Graph::apply, whichever operation it is given. *)
LEMMA AppliedKeeps ==
  ASSUME NEW g, GraphType(g), WellFormed(g), NEW o \in GraphOp, Accepts(g, o)
  PROVE  GraphType(Applied(g, o)) /\ WellFormed(Applied(g, o))
<1>1. CASE o.op = "AddNode"
  BY <1>1, AddKeeps DEF Applied
<1>2. CASE o.op = "RemoveNode"
  BY <1>2, RemoveKeeps DEF Applied
<1>3. CASE o.op = "Connect"
  BY <1>3, ConnectKeeps DEF Applied, Accepts
<1>4. CASE o.op = "Disconnect"
  BY <1>4, DisconnectKeeps DEF Applied
<1>5. CASE o.op = "SetParam"
  <2> DEFINE h == [g EXCEPT !.nodes[o.id].value = o.value]
  <2>1. /\ g = [nodes |-> g.nodes, edges |-> g.edges] /\ g.nodes \in [Nodes(g) -> Node]
        /\ o.id \in Nodes(g) /\ o.value \in Value
    BY <1>5 DEF GraphType, Accepts, GraphOp
  <2>2. [g.nodes[o.id] EXCEPT !.value = o.value] \in Node
    BY <2>1 DEF Node
  <2>3. /\ h = [nodes |-> h.nodes, edges |-> g.edges]
        /\ h.nodes = [g.nodes EXCEPT ![o.id] = [g.nodes[o.id] EXCEPT !.value = o.value]]
    BY <2>1
  <2>4. h.nodes \in [Nodes(g) -> Node]
    BY <2>1, <2>2, <2>3
  <2>5. Applied(g, o) = h
    BY <1>5 DEF Applied
  <2> HIDE DEF h
  <2> QED BY <2>3, <2>4, <2>5, SetKeeps
<1>6. CASE o.op = "MoveNode"
  <2> DEFINE h == [g EXCEPT !.nodes[o.id].pos = o.pos]
  <2>1. /\ g = [nodes |-> g.nodes, edges |-> g.edges] /\ g.nodes \in [Nodes(g) -> Node]
        /\ o.id \in Nodes(g) /\ o.pos \in Pos
    BY <1>6 DEF GraphType, Accepts, GraphOp
  <2>2. [g.nodes[o.id] EXCEPT !.pos = o.pos] \in Node
    BY <2>1 DEF Node
  <2>3. /\ h = [nodes |-> h.nodes, edges |-> g.edges]
        /\ h.nodes = [g.nodes EXCEPT ![o.id] = [g.nodes[o.id] EXCEPT !.pos = o.pos]]
    BY <2>1
  <2>4. h.nodes \in [Nodes(g) -> Node]
    BY <2>1, <2>2, <2>3
  <2>5. Applied(g, o) = h
    BY <1>6 DEF Applied
  <2> HIDE DEF h
  <2> QED BY <2>3, <2>4, <2>5, SetKeeps
<1> QED BY <1>1, <1>2, <1>3, <1>4, <1>5, <1>6 DEF Accepts

-----------------------------------------------------------------------------

(* Whatever is edited, registered, invalidated and evaluated, the graph has its
   type, no loose wire, no input with two wires and no cycle. *)
THEOREM StaysWellFormed == EvaluatorSpec => []GraphStaysWellFormed
<1> DEFINE Inv == GraphType(given) /\ WellFormed(given)
<1>1. EvaluatorInit => Inv
  BY StartAssumption DEF EvaluatorInit
<1>2. Inv /\ [EvaluatorNext]_evaluatorVars => Inv'
  <2> SUFFICES ASSUME Inv, [EvaluatorNext]_evaluatorVars PROVE Inv'
    OBVIOUS
  <2>1. ASSUME NEW o \in GraphEdits, Edit(o) PROVE Inv'
    <3>1. o \in GraphOp /\ Accepts(given, o) /\ given' = Applied(given, o)
      BY <2>1, EditAssumption DEF Edit
    <3> QED BY <3>1, AppliedKeeps
  <2>2. ASSUME given' = given PROVE Inv'
    BY <2>2
  <2> QED BY <2>1, <2>2 DEF EvaluatorNext, Register, Invalidate, InvalidateCache, EvaluateGraph, evaluatorVars
<1>3. Inv => GraphStaysWellFormed
  BY DEF GraphStaysWellFormed
<1> HIDE DEF Inv
<1> QED BY <1>1, <1>2, <1>3, PTL DEF EvaluatorSpec

-----------------------------------------------------------------------------

(* A set of naturals that is not empty has a least element. *)
LEMMA Least ==
  ASSUME NEW T, T \subseteq Nat, T # {}
  PROVE  \E x \in T : \A y \in T : ~(y < x)
<1>1. IsWellFoundedOn(OpToRel(<, Nat), Nat)
  BY NatLessThanWellFounded DEF OpToRel
<1>2. \E x \in T : \A y \in T : ~(<<y, x>> \in OpToRel(<, Nat))
  BY <1>1, WFMin DEF OpToRel
<1> QED BY <1>2 DEF OpToRel

(* Induction: a set that holds zero and, with a number, the next one holds
   every natural. *)
LEMMA Counting ==
  ASSUME NEW S, 0 \in S, \A n \in Nat : n \in S => n + 1 \in S
  PROVE  Nat \subseteq S
<1> SUFFICES ASSUME Nat \ S # {} PROVE FALSE
  OBVIOUS
<1>1. PICK x \in Nat \ S : \A y \in Nat \ S : ~(y < x)
  BY Least
<1>2. x # 0 /\ x - 1 \in Nat
  BY <1>1
<1>3. x - 1 \in S
  BY <1>1, <1>2
<1>4. x \in S
  BY <1>2, <1>3
<1> QED BY <1>1, <1>4

(* Induction over sequences, from the front: a set of sequences that holds the
   empty one and, with a sequence, every longer one holds them all. *)
LEMMA SeqCounting ==
  ASSUME NEW S, NEW Q, << >> \in Q,
         \A s \in Seq(S), e \in S : s \in Q => Append(s, e) \in Q
  PROVE  Seq(S) \subseteq Q
<1> DEFINE L == {n \in Nat : \A s \in Seq(S) : Len(s) = n => s \in Q}
<1>1. 0 \in L
  <2> SUFFICES ASSUME NEW s \in Seq(S), Len(s) = 0 PROVE s \in Q
    OBVIOUS
  <2>1. s = << >>
    BY EmptySeq
  <2> QED BY <2>1
<1>2. ASSUME NEW n \in Nat, n \in L PROVE n + 1 \in L
  <2> SUFFICES ASSUME NEW s \in Seq(S), Len(s) = n + 1 PROVE s \in Q
    OBVIOUS
  <2>1. s # << >>
    BY EmptySeq
  <2>2. PICK t \in Seq(S), e \in S : s = Append(t, e)
    BY <2>1, SequenceEmptyOrAppend
  <2>3. Len(t) = n
    BY <2>2
  <2> QED BY <1>2, <2>2, <2>3
<1> HIDE DEF L
<1>3. Nat \subseteq L
  BY <1>1, <1>2, Counting
<1> QED BY <1>3 DEF L

-----------------------------------------------------------------------------

(* The graphs a batch goes through. *)
RunsOps(f, g, ops, n) ==
  f = [i \in 0..n |-> IF i = 0 THEN g ELSE Apply(f[i - 1], ops[i])]

(* There is such a function for a batch of any length: the one ApplyAll
   chooses exists. *)
LEMMA RunExists ==
  ASSUME NEW g, NEW ops, NEW n \in Nat
  PROVE  \E f : RunsOps(f, g, ops, n)
<1> DEFINE S == {k \in Nat : \E f : RunsOps(f, g, ops, k)}
<1>1. 0 \in S
  <2>1. RunsOps([i \in 0..0 |-> g], g, ops, 0)
    BY DEF RunsOps
  <2> QED BY <2>1
<1>2. ASSUME NEW k \in Nat, k \in S PROVE k + 1 \in S
  <2>1. PICK f : RunsOps(f, g, ops, k)
    BY <1>2
  <2> DEFINE h == [i \in 0..k + 1 |-> IF i = k + 1 THEN Apply(f[k], ops[k + 1]) ELSE f[i]]
  <2>2. \A i \in 0..k : h[i] = f[i]
    OBVIOUS
  <2>3. ASSUME NEW i \in 0..k + 1 PROVE h[i] = IF i = 0 THEN g ELSE Apply(h[i - 1], ops[i])
    <3>1. CASE i = k + 1
      BY <3>1, <2>2
    <3>2. CASE i \in 0..k
      <4>1. f[i] = IF i = 0 THEN g ELSE Apply(f[i - 1], ops[i])
        BY <2>1, <3>2 DEF RunsOps
      <4>2. i # 0 => h[i - 1] = f[i - 1]
        BY <2>2, <3>2
      <4> HIDE DEF h
      <4> QED BY <2>2, <3>2, <4>1, <4>2
    <3> QED BY <3>1, <3>2
  <2>4. h = [i \in 0..k + 1 |-> h[i]]
    OBVIOUS
  <2> HIDE DEF h
  <2>5. RunsOps(h, g, ops, k + 1)
    BY <2>3, <2>4 DEF RunsOps
  <2> QED BY <2>5
<1> HIDE DEF S
<1>3. Nat \subseteq S
  BY <1>1, <1>2, Counting
<1> QED BY <1>3 DEF S

(* ApplyAll is where the run of the batch ends. *)
LEMMA ApplyAllRuns ==
  ASSUME NEW g, NEW ops, Len(ops) \in Nat
  PROVE  \E f : RunsOps(f, g, ops, Len(ops)) /\ ApplyAll(g, ops) = f[Len(ops)]
<1> DEFINE F == CHOOSE f : f = [i \in 0..Len(ops) |-> IF i = 0 THEN g ELSE Apply(f[i - 1], ops[i])]
<1>1. \E f : RunsOps(f, g, ops, Len(ops))
  BY RunExists
<1>2. RunsOps(F, g, ops, Len(ops))
  BY <1>1 DEF RunsOps
<1>3. ApplyAll(g, ops) = F[Len(ops)]
  BY DEF ApplyAll
<1> QED BY <1>2, <1>3

(* An empty batch changes nothing. *)
LEMMA ApplyAllNone ==
  ASSUME NEW g PROVE ApplyAll(g, << >>) = g
<1>1. PICK f : RunsOps(f, g, << >>, 0) /\ ApplyAll(g, << >>) = f[0]
  BY ApplyAllRuns
<1> QED BY <1>1 DEF RunsOps

(* One operation more is applied to what the others gave. *)
LEMMA ApplyAllAppend ==
  ASSUME NEW g, NEW S, NEW ops \in Seq(S), NEW o \in S
  PROVE  ApplyAll(g, Append(ops, o)) = Apply(ApplyAll(g, ops), o)
<1> DEFINE n == Len(ops)
           more == Append(ops, o)
<1>1. n \in Nat /\ Len(more) = n + 1 /\ more[n + 1] = o /\ \A i \in 1..n : more[i] = ops[i]
  OBVIOUS
<1>2. PICK f : RunsOps(f, g, ops, n) /\ ApplyAll(g, ops) = f[n]
  BY <1>1, ApplyAllRuns
<1> HIDE DEF n, more
<1>3. PICK h : RunsOps(h, g, more, n + 1) /\ ApplyAll(g, more) = h[n + 1]
  <2>1. Len(more) \in Nat
    BY <1>1
  <2> QED BY <1>1, <2>1, ApplyAllRuns
<1> DEFINE Same == {i \in Nat : i <= n => h[i] = f[i]}
<1>4. \A i \in 0..n : f[i] = IF i = 0 THEN g ELSE Apply(f[i - 1], ops[i])
  BY <1>2 DEF RunsOps
<1>5. \A i \in 0..n + 1 : h[i] = IF i = 0 THEN g ELSE Apply(h[i - 1], more[i])
  BY <1>3 DEF RunsOps
<1>6. 0 \in Same
  BY <1>1, <1>4, <1>5
<1>7. ASSUME NEW i \in Nat, i \in Same PROVE i + 1 \in Same
  <2> SUFFICES ASSUME i + 1 <= n PROVE h[i + 1] = f[i + 1]
    OBVIOUS
  <2>1. h[i] = f[i]
    BY <1>7, <1>1
  <2>2. i + 1 \in 1..n /\ i + 1 \in 0..n /\ i + 1 \in 0..n + 1 /\ (i + 1) - 1 = i
    BY <1>1
  <2>3. more[i + 1] = ops[i + 1]
    BY <1>1, <2>2
  <2>4. h[i + 1] = Apply(h[i], more[i + 1]) /\ f[i + 1] = Apply(f[i], ops[i + 1])
    BY <1>4, <1>5, <2>2
  <2> QED BY <2>1, <2>3, <2>4
<1> HIDE DEF Same
<1>8. Nat \subseteq Same
  BY <1>6, <1>7, Counting
<1>9. h[n] = f[n]
  BY <1>1, <1>8 DEF Same
<1>10. h[n + 1] = Apply(h[n], more[n + 1])
  BY <1>1, <1>5
<1> QED BY <1>1, <1>2, <1>3, <1>9, <1>10 DEF n, more

(* Two batches one after the other are one batch. *)
LEMMA ApplyAllConcat ==
  ASSUME NEW g, NEW S, NEW a \in Seq(S), NEW b \in Seq(S)
  PROVE  ApplyAll(g, a \o b) = ApplyAll(ApplyAll(g, a), b)
<1> DEFINE Q == {s \in Seq(S) : ApplyAll(g, a \o s) = ApplyAll(ApplyAll(g, a), s)}
<1>1. << >> \in Q
  <2>1. a \o << >> = a
    BY ConcatEmptySeq
  <2> QED BY <2>1, ApplyAllNone
<1>2. ASSUME NEW s \in Seq(S), NEW e \in S, s \in Q PROVE Append(s, e) \in Q
  <2>1. a \o Append(s, e) = Append(a \o s, e) /\ a \o s \in Seq(S) /\ Append(s, e) \in Seq(S)
    OBVIOUS
  <2>2. ApplyAll(g, Append(a \o s, e)) = Apply(ApplyAll(g, a \o s), e)
    <3> DEFINE t == a \o s
    <3>1. t \in Seq(S)
      BY <2>1
    <3> HIDE DEF t
    <3>2. ApplyAll(g, Append(t, e)) = Apply(ApplyAll(g, t), e)
      BY <3>1, ApplyAllAppend
    <3> QED BY <3>2 DEF t
  <2>3. ApplyAll(ApplyAll(g, a), Append(s, e)) = Apply(ApplyAll(ApplyAll(g, a), s), e)
    BY ApplyAllAppend
  <2> QED BY <1>2, <2>1, <2>2, <2>3
<1> HIDE DEF Q
<1>3. Seq(S) \subseteq Q
  BY <1>1, <1>2, SeqCounting
<1> QED BY <1>3 DEF Q

(* A batch of one operation is that operation. *)
LEMMA ApplyAllOne ==
  ASSUME NEW g, NEW o PROVE ApplyAll(g, <<o>>) = Apply(g, o)
<1>1. <<o>> = Append(<< >>, o) /\ << >> \in Seq({o})
  OBVIOUS
<1>2. ApplyAll(g, Append(<< >>, o)) = Apply(ApplyAll(g, << >>), o)
  BY <1>1, ApplyAllAppend
<1> QED BY <1>1, <1>2, ApplyAllNone

-----------------------------------------------------------------------------

(* A graph the program can hold. *)
GraphOk(g) == GraphType(g) /\ WellFormed(g) /\ IsFiniteSet(Nodes(g))

(* A graph is never the mark of a batch that was refused. *)
LEMMA GraphIsNotRefused ==
  ASSUME NEW g, GraphType(g) PROVE g # Refused
<1>1. g = [nodes |-> g.nodes, edges |-> g.edges]
  BY DEF GraphType
<1>2. DOMAIN [nodes |-> g.nodes, edges |-> g.edges] = {"nodes", "edges"}
  OBVIOUS
<1>3. DOMAIN Refused = {"refused"}
  BY DEF Refused
<1> QED BY <1>1, <1>2, <1>3

(* The empty graph is one the program can hold. *)
LEMMA EmptyIsOk == GraphOk(EmptyGraph)
<1>1. EmptyGraph.nodes = << >> /\ EmptyGraph.edges = {} /\ Nodes(EmptyGraph) = {}
  BY DEF EmptyGraph, Nodes
<1>2. EmptyGraph = [nodes |-> EmptyGraph.nodes, edges |-> EmptyGraph.edges]
  BY DEF EmptyGraph
<1>3. << >> \in [{} -> Node]
  OBVIOUS
<1>4. GraphType(EmptyGraph)
  BY <1>1, <1>2, <1>3 DEF GraphType
<1>5. WellFormed(EmptyGraph)
  BY <1>1 DEF WellFormed, NoLooseWires, OneWirePerInput, Acyclic
<1> QED BY <1>1, <1>4, <1>5, FS_EmptySet DEF GraphOk

(* An operation adds at most one node. *)
LEMMA AppliedNodes ==
  ASSUME NEW g, GraphType(g), NEW o \in GraphOp, Accepts(g, o)
  PROVE  Nodes(Applied(g, o)) \subseteq Nodes(g) \cup {IF o.op \in {"Connect", "Disconnect"} THEN 0 ELSE o.id}
<1>1. g = [nodes |-> g.nodes, edges |-> g.edges]
  BY DEF GraphType
<1>2. CASE o.op = "AddNode"
  <2>1. Nodes(Added(g, o)) = Nodes(g) \cup {o.id}
    BY <1>1 DEF Added, Nodes
  <2> QED BY <1>2, <2>1 DEF Applied
<1>3. CASE o.op = "RemoveNode"
  <2>1. Nodes(Removed(g, o)) = Nodes(g) \ {o.id}
    BY DEF Removed, Nodes
  <2> QED BY <1>3, <2>1 DEF Applied
<1>4. CASE o.op = "Connect"
  <2>1. Nodes(Connected(g, o)) = Nodes(g)
    BY <1>1 DEF Connected, Nodes
  <2> QED BY <1>4, <2>1 DEF Applied
<1>5. CASE o.op = "Disconnect"
  <2>1. Nodes(Disconnected(g, o)) = Nodes(g)
    BY <1>1 DEF Disconnected, Nodes
  <2> QED BY <1>5, <2>1 DEF Applied
<1>6. CASE o.op = "SetParam"
  <2>1. Nodes([g EXCEPT !.nodes[o.id].value = o.value]) = Nodes(g)
    BY <1>1 DEF Nodes
  <2> QED BY <1>6, <2>1 DEF Applied
<1>7. CASE o.op = "MoveNode"
  <2>1. Nodes([g EXCEPT !.nodes[o.id].pos = o.pos]) = Nodes(g)
    BY <1>1 DEF Nodes
  <2> QED BY <1>7, <2>1 DEF Applied
<1> QED BY <1>2, <1>3, <1>4, <1>5, <1>6, <1>7 DEF Accepts

(* An operation on a graph is refused or gives a graph. *)
LEMMA ApplyOk ==
  ASSUME NEW g, g = Refused \/ GraphOk(g), NEW o \in GraphOp
  PROVE  Apply(g, o) = Refused \/ GraphOk(Apply(g, o))
<1> SUFFICES ASSUME g # Refused, Accepts(g, o) PROVE GraphOk(Applied(g, o))
  BY DEF Apply
<1>1. GraphType(g) /\ WellFormed(g) /\ IsFiniteSet(Nodes(g))
  BY DEF GraphOk
<1>2. PICK x : Nodes(Applied(g, o)) \subseteq Nodes(g) \cup {x}
  BY <1>1, AppliedNodes
<1>3. IsFiniteSet(Nodes(g) \cup {x})
  BY <1>1, FS_AddElement
<1>4. IsFiniteSet(Nodes(Applied(g, o)))
  BY <1>2, <1>3, FS_Subset
<1> QED BY <1>1, <1>4, AppliedKeeps DEF GraphOk

(* A batch on a graph is refused or gives a graph. *)
LEMMA ApplyAllOk ==
  ASSUME NEW g, g = Refused \/ GraphOk(g), NEW ops \in Seq(GraphOp)
  PROVE  ApplyAll(g, ops) = Refused \/ GraphOk(ApplyAll(g, ops))
<1> DEFINE Ok(h) == h = Refused \/ GraphOk(h)
           Q == {s \in Seq(GraphOp) : Ok(ApplyAll(g, s))}
<1>1. << >> \in Q
  BY ApplyAllNone
<1>2. ASSUME NEW s \in Seq(GraphOp), NEW e \in GraphOp, s \in Q PROVE Append(s, e) \in Q
  <2>1. ApplyAll(g, Append(s, e)) = Apply(ApplyAll(g, s), e)
    BY ApplyAllAppend
  <2>2. Ok(ApplyAll(g, s))
    BY <1>2
  <2>3. Ok(Apply(ApplyAll(g, s), e))
    BY <2>2, ApplyOk
  <2> QED BY <2>1, <2>3
<1> HIDE DEF Q
<1>3. Seq(GraphOp) \subseteq Q
  BY <1>1, <1>2, SeqCounting
<1> QED BY <1>3 DEF Q

-----------------------------------------------------------------------------

(* The graphs a chain goes through. *)
Replays(f, blocks, n) ==
  f = [j \in 0..n |-> IF j = 0 THEN EmptyGraph ELSE ApplyAll(f[j - 1], blocks[j].ops)]

(* There is such a function for a chain of any length. *)
LEMMA ReplayExists ==
  ASSUME NEW blocks, NEW n \in Nat
  PROVE  \E f : Replays(f, blocks, n)
<1> DEFINE S == {k \in Nat : \E f : Replays(f, blocks, k)}
<1>1. 0 \in S
  <2>1. Replays([j \in 0..0 |-> EmptyGraph], blocks, 0)
    BY DEF Replays
  <2> QED BY <2>1
<1>2. ASSUME NEW k \in Nat, k \in S PROVE k + 1 \in S
  <2>1. PICK f : Replays(f, blocks, k)
    BY <1>2
  <2> DEFINE h == [j \in 0..k + 1 |-> IF j = k + 1 THEN ApplyAll(f[k], blocks[k + 1].ops) ELSE f[j]]
  <2>2. \A j \in 0..k : h[j] = f[j]
    OBVIOUS
  <2>3. ASSUME NEW j \in 0..k + 1
        PROVE  h[j] = IF j = 0 THEN EmptyGraph ELSE ApplyAll(h[j - 1], blocks[j].ops)
    <3>1. CASE j = k + 1
      BY <3>1, <2>2
    <3>2. CASE j \in 0..k
      <4>1. f[j] = IF j = 0 THEN EmptyGraph ELSE ApplyAll(f[j - 1], blocks[j].ops)
        BY <2>1, <3>2 DEF Replays
      <4>2. j # 0 => h[j - 1] = f[j - 1]
        BY <2>2, <3>2
      <4> HIDE DEF h
      <4> QED BY <2>2, <3>2, <4>1, <4>2
    <3> QED BY <3>1, <3>2
  <2>4. h = [j \in 0..k + 1 |-> h[j]]
    OBVIOUS
  <2> HIDE DEF h
  <2>5. Replays(h, blocks, k + 1)
    BY <2>3, <2>4 DEF Replays
  <2> QED BY <2>5
<1> HIDE DEF S
<1>3. Nat \subseteq S
  BY <1>1, <1>2, Counting
<1> QED BY <1>3 DEF S

(* Replay is where the run of the chain ends. *)
LEMMA ReplayRuns ==
  ASSUME NEW blocks, NEW n \in Nat
  PROVE  \E f : Replays(f, blocks, n) /\ Replay(blocks, n) = f[n]
<1> DEFINE F == CHOOSE f : f = [j \in 0..n |-> IF j = 0 THEN EmptyGraph ELSE ApplyAll(f[j - 1], blocks[j].ops)]
<1>1. Replays(F, blocks, n)
  BY ReplayExists DEF Replays
<1>2. Replay(blocks, n) = F[n]
  BY DEF Replay
<1> QED BY <1>1, <1>2

(* Before the first block the graph is empty. *)
LEMMA ReplayNone ==
  ASSUME NEW blocks PROVE Replay(blocks, 0) = EmptyGraph
<1>1. PICK f : Replays(f, blocks, 0) /\ Replay(blocks, 0) = f[0]
  BY ReplayRuns
<1> QED BY <1>1 DEF Replays

(* Replay through a block is replay through the one before it, and its batch;
   what comes after does not matter. *)
LEMMA ReplayOn ==
  ASSUME NEW blocks, NEW more, NEW n \in Nat, \A i \in 1..n : more[i] = blocks[i]
  PROVE  Replay(more, n + 1) = ApplyAll(Replay(blocks, n), more[n + 1].ops)
<1>2. PICK f : Replays(f, blocks, n) /\ Replay(blocks, n) = f[n]
  BY ReplayRuns
<1>3. PICK h : Replays(h, more, n + 1) /\ Replay(more, n + 1) = h[n + 1]
  BY ReplayRuns
<1> DEFINE Same == {i \in Nat : i <= n => h[i] = f[i]}
<1>4. \A i \in 0..n : f[i] = IF i = 0 THEN EmptyGraph ELSE ApplyAll(f[i - 1], blocks[i].ops)
  BY <1>2 DEF Replays
<1>5. \A i \in 0..n + 1 : h[i] = IF i = 0 THEN EmptyGraph ELSE ApplyAll(h[i - 1], more[i].ops)
  BY <1>3 DEF Replays
<1>6. 0 \in Same
  BY <1>4, <1>5
<1>7. ASSUME NEW i \in Nat, i \in Same PROVE i + 1 \in Same
  <2> SUFFICES ASSUME i + 1 <= n PROVE h[i + 1] = f[i + 1]
    OBVIOUS
  <2>1. h[i] = f[i]
    BY <1>7
  <2>2. i + 1 \in 1..n /\ i + 1 \in 0..n /\ i + 1 \in 0..n + 1 /\ (i + 1) - 1 = i
    OBVIOUS
  <2>3. h[i + 1] = ApplyAll(h[i], more[i + 1].ops) /\ f[i + 1] = ApplyAll(f[i], blocks[i + 1].ops)
    BY <1>4, <1>5, <2>2
  <2> QED BY <2>1, <2>2, <2>3
<1> HIDE DEF Same
<1>8. Nat \subseteq Same
  BY <1>6, <1>7, Counting
<1>9. h[n] = f[n]
  BY <1>8 DEF Same
<1>10. h[n + 1] = ApplyAll(h[n], more[n + 1].ops)
  BY <1>5
<1> QED BY <1>2, <1>3, <1>9, <1>10

(* One block more applies its batch to what the chain gave. *)
LEMMA ReplayAppend ==
  ASSUME NEW blocks \in Seq(Block), NEW b \in Block
  PROVE  Replay(Append(blocks, b), Len(Append(blocks, b))) = ApplyAll(Replay(blocks, Len(blocks)), b.ops)
<1> DEFINE n == Len(blocks)
           more == Append(blocks, b)
<1>1. n \in Nat /\ Len(more) = n + 1 /\ more[n + 1] = b /\ \A i \in 1..n : more[i] = blocks[i]
  OBVIOUS
<1> HIDE DEF n, more
<1>2. Replay(more, n + 1) = ApplyAll(Replay(blocks, n), more[n + 1].ops)
  BY <1>1, ReplayOn
<1> QED BY <1>1, <1>2 DEF n, more

(* Any chain of blocks is refused or gives a graph. *)
LEMMA ReplayOk ==
  ASSUME NEW blocks \in Seq(Block)
  PROVE  Replay(blocks, Len(blocks)) = Refused \/ GraphOk(Replay(blocks, Len(blocks)))
<1> DEFINE Ok(h) == h = Refused \/ GraphOk(h)
           Q == {s \in Seq(Block) : Ok(Replay(s, Len(s)))}
<1>1. << >> \in Q
  BY ReplayNone, EmptyIsOk
<1>2. ASSUME NEW s \in Seq(Block), NEW e \in Block, s \in Q PROVE Append(s, e) \in Q
  <2>1. Replay(Append(s, e), Len(Append(s, e))) = ApplyAll(Replay(s, Len(s)), e.ops)
    BY ReplayAppend
  <2>2. e.ops \in Seq(GraphOp)
    BY DEF Block
  <2>3. Ok(ApplyAll(Replay(s, Len(s)), e.ops))
    BY <1>2, <2>2, ApplyAllOk
  <2> QED BY <2>1, <2>3
<1> HIDE DEF Q
<1>3. Seq(Block) \subseteq Q
  BY <1>1, <1>2, SeqCounting
<1> QED BY <1>3 DEF Q

-----------------------------------------------------------------------------

(* What a merge makes of the pending operations, one by one. *)
RebaseStep(step, o) ==
  LET next == Apply(step.graph, o)
  IN IF next = Refused THEN [step EXCEPT !.lost = Append(@, o)]
     ELSE [step EXCEPT !.graph = next, !.kept = Append(@, o)]

(* The fold over the pending operations, up to the n-th. *)
RebaseRuns(f, base, ops, n) ==
  f = [i \in 0..n |-> IF i = 0 THEN [graph |-> base, kept |-> << >>, lost |-> << >>]
                      ELSE RebaseStep(f[i - 1], ops[i])]

(* There is such a function for pending operations of any number. *)
LEMMA RebaseExists ==
  ASSUME NEW base, NEW ops, NEW n \in Nat
  PROVE  \E f : RebaseRuns(f, base, ops, n)
<1> DEFINE S == {k \in Nat : \E f : RebaseRuns(f, base, ops, k)}
           start == [graph |-> base, kept |-> << >>, lost |-> << >>]
<1>1. 0 \in S
  <2>1. RebaseRuns([i \in 0..0 |-> start], base, ops, 0)
    BY DEF RebaseRuns
  <2> QED BY <2>1
<1>2. ASSUME NEW k \in Nat, k \in S PROVE k + 1 \in S
  <2>1. PICK f : RebaseRuns(f, base, ops, k)
    BY <1>2
  <2> DEFINE h == [i \in 0..k + 1 |-> IF i = k + 1 THEN RebaseStep(f[k], ops[k + 1]) ELSE f[i]]
  <2>2. \A i \in 0..k : h[i] = f[i]
    OBVIOUS
  <2>3. ASSUME NEW i \in 0..k + 1
        PROVE  h[i] = IF i = 0 THEN start ELSE RebaseStep(h[i - 1], ops[i])
    <3>1. CASE i = k + 1
      BY <3>1, <2>2
    <3>2. CASE i \in 0..k
      <4>1. f[i] = IF i = 0 THEN start ELSE RebaseStep(f[i - 1], ops[i])
        BY <2>1, <3>2 DEF RebaseRuns
      <4>2. i # 0 => h[i - 1] = f[i - 1]
        BY <2>2, <3>2
      <4> HIDE DEF h
      <4> QED BY <2>2, <3>2, <4>1, <4>2
    <3> QED BY <3>1, <3>2
  <2>4. h = [i \in 0..k + 1 |-> h[i]]
    OBVIOUS
  <2> HIDE DEF h
  <2>5. RebaseRuns(h, base, ops, k + 1)
    BY <2>3, <2>4 DEF RebaseRuns
  <2> QED BY <2>5
<1> HIDE DEF S
<1>3. Nat \subseteq S
  BY <1>1, <1>2, Counting
<1> QED BY <1>3 DEF S

(* The edits a merge keeps give its graph; it keeps and puts aside operations
   of the user, and its graph is one that was accepted. *)
LEMMA RebasedReplays ==
  ASSUME NEW base, GraphOk(base), Settled \in Seq(GraphOp)
  PROVE  /\ Rebased(base).kept \in Seq(GraphOp) /\ Rebased(base).lost \in Seq(GraphOp)
         /\ Rebased(base).graph = ApplyAll(base, Rebased(base).kept)
         /\ GraphOk(Rebased(base).graph)
<1> DEFINE n == Len(Settled)
           F == CHOOSE f : f = [i \in 0..n |->
                  IF i = 0 THEN [graph |-> base, kept |-> << >>, lost |-> << >>]
                  ELSE LET step == f[i - 1]
                           next == Apply(step.graph, Settled[i])
                       IN IF next = Refused
                          THEN [step EXCEPT !.lost = Append(@, Settled[i])]
                          ELSE [step EXCEPT !.graph = next, !.kept = Append(@, Settled[i])]]
<1>1. n \in Nat
  OBVIOUS
<1>2. RebaseRuns(F, base, Settled, n)
  <2>1. \E f : RebaseRuns(f, base, Settled, n)
    BY <1>1, RebaseExists
  <2> QED BY <2>1 DEF RebaseRuns, RebaseStep
<1>3. Rebased(base) = F[n]
  BY DEF Rebased
<1> DEFINE FitsAt(step) == /\ step = [graph |-> step.graph, kept |-> step.kept, lost |-> step.lost]
                         /\ step.kept \in Seq(GraphOp) /\ step.lost \in Seq(GraphOp)
                         /\ step.graph = ApplyAll(base, step.kept) /\ GraphOk(step.graph)
           S == {i \in Nat : i <= n => FitsAt(F[i])}
<1> HIDE DEF F
<1>4. \A i \in 0..n : F[i] = IF i = 0 THEN [graph |-> base, kept |-> << >>, lost |-> << >>]
                                      ELSE RebaseStep(F[i - 1], Settled[i])
  BY <1>2 DEF RebaseRuns
<1>5. 0 \in S
  <2>1. F[0] = [graph |-> base, kept |-> << >>, lost |-> << >>]
    BY <1>1, <1>4
  <2>2. F[0].graph = base /\ F[0].kept = << >> /\ F[0].lost = << >>
    BY <2>1
  <2>3. ApplyAll(base, << >>) = base
    BY ApplyAllNone
  <2>4. << >> \in Seq(GraphOp)
    OBVIOUS
  <2>5. FitsAt(F[0])
    BY <2>1, <2>2, <2>3, <2>4
  <2> QED BY <2>5
<1>6. ASSUME NEW i \in Nat, i \in S PROVE i + 1 \in S
  <2> SUFFICES ASSUME i + 1 <= n PROVE FitsAt(F[i + 1])
    OBVIOUS
  <2> DEFINE step == F[i]
             o == Settled[i + 1]
             next == Apply(step.graph, o)
  <2>1. FitsAt(step)
    BY <1>1, <1>6
  <2>2. o \in GraphOp
    BY <1>1
  <2>3. F[i + 1] = RebaseStep(step, o)
    BY <1>1, <1>4
  <2> HIDE DEF step, o
  <2>4. CASE next = Refused
    <3>1. F[i + 1] = [graph |-> step.graph, kept |-> step.kept, lost |-> Append(step.lost, o)]
      BY <2>1, <2>3, <2>4 DEF RebaseStep
    <3> QED BY <2>1, <2>2, <3>1
  <2>5. CASE next # Refused
    <3>1. F[i + 1] = [graph |-> next, kept |-> Append(step.kept, o), lost |-> step.lost]
      BY <2>1, <2>3, <2>5 DEF RebaseStep
    <3>2. ApplyAll(base, Append(step.kept, o)) = next
      BY <2>1, <2>2, ApplyAllAppend
    <3>3. GraphOk(next)
      BY <2>1, <2>2, <2>5, ApplyOk
    <3> QED BY <2>1, <2>2, <3>1, <3>2, <3>3
  <2> QED BY <2>4, <2>5
<1> HIDE DEF S, n
<1>7. Nat \subseteq S
  BY <1>5, <1>6, Counting
<1>8. FitsAt(F[n])
  BY <1>1, <1>7 DEF S
<1> QED BY <1>3, <1>8

-----------------------------------------------------------------------------

(* The sequence chosen for a finite set lists it. *)
LEMMA SetToSeqCovers ==
  ASSUME NEW M, IsFiniteSet(M)
  PROVE  SetToSeq(M) \in Seq(M) /\ {SetToSeq(M)[i] : i \in 1..Len(SetToSeq(M))} = M
<1> DEFINE n == Cardinality(M)
           s == SetToSeq(M)
<1>1. n \in Nat /\ \E f : f \in [1..n -> M] /\ IsInjective(f)
  <2>1. n \in Nat /\ ExistsBijection(1..n, M)
    BY FS_CardinalityType
  <2> HIDE DEF n
  <2>2. PICK f : f \in Bijection(1..n, M)
    BY <2>1 DEF ExistsBijection
  <2>3. f \in [1..n -> M] /\ IsInjective(f)
    BY <2>2 DEF Bijection, Injection, IsInjective
  <2> QED BY <2>1, <2>3
<1>2. s \in [1..n -> M] /\ IsInjective(s)
  BY <1>1 DEF SetToSeq
<1> HIDE DEF n, s
<1>3. IsFiniteSet(1..n) /\ Cardinality(1..n) = n
  BY <1>1, FS_Interval
<1>4. s \in Injection(1..n, M)
  BY <1>2 DEF Injection, IsInjective
<1>5. s \in Surjection(1..n, M)
  BY <1>3, <1>4, FS_Injection DEF n
<1>6. \A m \in M : \E i \in 1..n : s[i] = m
  BY <1>5 DEF Surjection
<1>7. s \in Seq(M) /\ Len(s) = n
  BY <1>1, <1>2
<1> QED BY <1>2, <1>6, <1>7 DEF s

-----------------------------------------------------------------------------

(* The graph with some of its nodes at new places. *)
Placed(g, to, S) ==
  [nodes |-> [n \in Nodes(g) |-> IF n \in S THEN [g.nodes[n] EXCEPT !.pos = to[n]] ELSE g.nodes[n]],
   edges |-> g.edges]

(* One more node moves, or one of them moves on. *)
LEMMA PlacedAgain ==
  ASSUME NEW g, GraphType(g), NEW to, NEW next, NEW S, NEW n \in Nodes(g),
         \A m \in S \ {n} : next[m] = to[m]
  PROVE  Apply(Placed(g, to, S), MoveNode(n, next[n])) = Placed(g, next, S \cup {n})
<1> DEFINE h == Placed(g, to, S)
           o == MoveNode(n, next[n])
           k == Placed(g, next, S \cup {n})
<1>1. h # Refused
  <2>1. DOMAIN h = {"nodes", "edges"}
    BY DEF Placed
  <2>2. DOMAIN Refused = {"refused"}
    BY DEF Refused
  <2> HIDE DEF h
  <2> QED BY <2>1, <2>2
<1>2. /\ h = [nodes |-> h.nodes, edges |-> g.edges] /\ Nodes(h) = Nodes(g)
      /\ h.nodes = [m \in Nodes(g) |-> IF m \in S THEN [g.nodes[m] EXCEPT !.pos = to[m]] ELSE g.nodes[m]]
  BY DEF Placed, Nodes
<1>3. /\ k = [nodes |-> k.nodes, edges |-> g.edges]
      /\ k.nodes = [m \in Nodes(g) |-> IF m \in S \cup {n} THEN [g.nodes[m] EXCEPT !.pos = next[m]] ELSE g.nodes[m]]
  BY DEF Placed
<1>4. o.op = "MoveNode" /\ o.id = n /\ o.pos = next[n]
  BY DEF MoveNode
<1>5. g.nodes[n] = [kind |-> g.nodes[n].kind, value |-> g.nodes[n].value, pos |-> g.nodes[n].pos]
  BY DEF GraphType, Node
<1> HIDE DEF h, o, k
<1>6. Apply(h, o) = [h EXCEPT !.nodes[n].pos = next[n]]
  <2>1. Accepts(h, o)
    BY <1>2, <1>4 DEF Accepts
  <2>2. Applied(h, o) = [h EXCEPT !.nodes[n].pos = next[n]]
    BY <1>4 DEF Applied
  <2> QED BY <1>1, <2>1, <2>2 DEF Apply
<1> DEFINE at == [h.nodes[n] EXCEPT !.pos = next[n]]
<1>7. [h EXCEPT !.nodes[n].pos = next[n]] = [nodes |-> [h.nodes EXCEPT ![n] = at], edges |-> g.edges]
  BY <1>2
<1>8. at = [g.nodes[n] EXCEPT !.pos = next[n]]
  <2>1. CASE n \in S
    <3>1. h.nodes[n] = [g.nodes[n] EXCEPT !.pos = to[n]]
      BY <1>2, <2>1
    <3> QED BY <3>1, <1>5
  <2>2. CASE n \notin S
    BY <1>2, <2>2
  <2> QED BY <2>1, <2>2
<1> HIDE DEF at
<1>9. [h.nodes EXCEPT ![n] = at] = k.nodes
  <2>1. ASSUME NEW m \in Nodes(g) PROVE [h.nodes EXCEPT ![n] = at][m] = k.nodes[m]
    <3>1. CASE m = n
      BY <1>2, <1>3, <1>8, <3>1
    <3>2. CASE m # n
      BY <1>2, <1>3, <3>2
    <3> QED BY <3>1, <3>2
  <2> QED BY <1>2, <1>3, <2>1
<1> QED BY <1>3, <1>6, <1>7, <1>9 DEF h, o, k

(* The nodes that a list of moves names. *)
Ids(s) == {s[i].id : i \in 1..Len(s)}

(* Moves of nodes to their places, in any order and number. *)
LEMMA MovesPlace ==
  ASSUME NEW g, GraphType(g), NEW to, NEW T, T \subseteq Nodes(g),
         NEW s \in Seq({MoveNode(n, to[n]) : n \in T})
  PROVE  ApplyAll(g, s) = Placed(g, to, Ids(s))
<1> DEFINE M == {MoveNode(n, to[n]) : n \in T}
           Q == {t \in Seq(M) : ApplyAll(g, t) = Placed(g, to, Ids(t))}
<1>1. << >> \in Q
  <2>1. Ids(<< >>) = {}
    BY DEF Ids
  <2>2. g = [nodes |-> g.nodes, edges |-> g.edges] /\ g.nodes = [n \in Nodes(g) |-> g.nodes[n]]
    BY DEF GraphType
  <2>3. Placed(g, to, {}) = g
    BY <2>2 DEF Placed
  <2>4. ApplyAll(g, << >>) = g
    BY ApplyAllNone
  <2>5. << >> \in Seq(M)
    OBVIOUS
  <2> HIDE DEF M
  <2> QED BY <2>1, <2>3, <2>4, <2>5
<1>2. ASSUME NEW t \in Seq(M), NEW e \in M, t \in Q PROVE Append(t, e) \in Q
  <2>1. PICK n \in T : e = MoveNode(n, to[n])
    OBVIOUS
  <2>2. ApplyAll(g, Append(t, e)) = Apply(ApplyAll(g, t), e)
    BY ApplyAllAppend
  <2>3. ApplyAll(g, t) = Placed(g, to, Ids(t))
    BY <1>2
  <2>4. Apply(Placed(g, to, Ids(t)), e) = Placed(g, to, Ids(t) \cup {n})
    BY <2>1, PlacedAgain
  <2>5. Ids(Append(t, e)) = Ids(t) \cup {n}
    <3>1. Append(t, e) \in Seq(M) /\ Len(Append(t, e)) = Len(t) + 1 /\ Len(t) \in Nat
      OBVIOUS
    <3>2. Append(t, e)[Len(t) + 1].id = n
      BY <2>1 DEF MoveNode
    <3>3. \A i \in 1..Len(t) : Append(t, e)[i] = t[i]
      OBVIOUS
    <3>4. 1..(Len(t) + 1) = 1..Len(t) \cup {Len(t) + 1}
      BY <3>1
    <3> DEFINE u == Append(t, e)
               l == Len(t)
    <3>5. Ids(u) = {u[i].id : i \in 1..l \cup {l + 1}}
      BY <3>1, <3>4 DEF Ids
    <3>6. {u[i].id : i \in 1..l} = Ids(t)
      BY <3>3 DEF Ids
    <3> HIDE DEF u, l
    <3>7. {u[i].id : i \in 1..l \cup {l + 1}} = {u[i].id : i \in 1..l} \cup {u[l + 1].id}
      OBVIOUS
    <3> QED BY <3>2, <3>5, <3>6, <3>7 DEF u, l
  <2>6. Append(t, e) \in Seq(M)
    OBVIOUS
  <2> HIDE DEF M
  <2> QED BY <2>2, <2>3, <2>4, <2>5, <2>6
<1> HIDE DEF Q, M
<1>3. Seq(M) \subseteq Q
  BY <1>1, <1>2, SeqCounting
<1> QED BY <1>3 DEF Q, M

-----------------------------------------------------------------------------

(* The graph without the drag in flight. *)
Base == ApplyAll(Committed, pending)

(* A value is dragged from the one in Base. *)
DragFits ==
  /\ gesture = Drag(gesture.id, gesture.start, gesture.last)
  /\ gesture.id \in NodeId /\ gesture.last \in Value
  /\ gesture.id \in Nodes(Base) =>
       /\ gesture.start = Base.nodes[gesture.id].value
       /\ graph = Applied(Base, SetParam(gesture.id, gesture.last))
  /\ gesture.id \notin Nodes(Base) => graph = Base

(* Where the nodes are now. *)
Places == [n \in Nodes(graph) |-> graph.nodes[n].pos]

(* Nodes are moved from where they are in Base. *)
MoveFits ==
  /\ gesture = Move(gesture.start)
  /\ DOMAIN gesture.start \subseteq Nodes(Base)
  /\ \A n \in DOMAIN gesture.start : gesture.start[n] = Base.nodes[n].pos /\ Places[n] \in Pos
  /\ graph = Placed(Base, Places, DOMAIN gesture.start)

(* What the drag in flight adds to the pending operations. *)
GestureFits ==
  \/ gesture = Still /\ graph = Base
  \/ gesture.kind = "param" /\ DragFits
  \/ gesture.kind = "move" /\ MoveFits

(* The operation that ends a drag of a value gives the graph on the screen;
   where nothing is recorded, the graph is the one before the drag. *)
LEMMA DragGives ==
  ASSUME GraphOk(Base), gesture.kind = "param", DragFits
  PROVE  GestureOps \in Seq(GraphOp) /\ ApplyAll(Base, GestureOps) = graph
<1> DEFINE n == gesture.id
           v == gesture.last
           o == SetParam(n, v)
<1>1. GraphType(Base) /\ Base # Refused
  BY GraphIsNotRefused DEF GraphOk
<1>2. o \in GraphOp /\ o.op = "SetParam" /\ o.id = n /\ o.value = v
  BY DEF DragFits, SetParam, GraphOp
<1>3. GestureOps = IF n \in Nodes(graph) /\ gesture.start # v THEN <<o>> ELSE << >>
  BY DEF GestureOps
<1>4. Base = [nodes |-> Base.nodes, edges |-> Base.edges] /\ Base.nodes \in [Nodes(Base) -> Node]
  BY <1>1 DEF GraphType
<1>5. GestureOps \in Seq(GraphOp)
  BY <1>2, <1>3
<1>6. CASE n \notin Nodes(Base)
  <2>1. graph = Base
    BY <1>6 DEF DragFits
  <2>2. GestureOps = << >>
    BY <1>3, <1>6, <2>1
  <2> QED BY <1>5, <2>1, <2>2, ApplyAllNone
<1>7. CASE n \in Nodes(Base)
  <2> DEFINE h == [Base EXCEPT !.nodes[n].value = v]
  <2>1. graph = Applied(Base, o) /\ gesture.start = Base.nodes[n].value
    BY <1>7 DEF DragFits
  <2>2. Applied(Base, o) = h
    BY <1>2 DEF Applied
  <2>3. Apply(Base, o) = Applied(Base, o)
    BY <1>1, <1>2, <1>7 DEF Apply, Accepts
  <2>4. h = [nodes |-> [Base.nodes EXCEPT ![n] = [Base.nodes[n] EXCEPT !.value = v]], edges |-> Base.edges]
    BY <1>4
  <2>5. Nodes(h) = Nodes(Base)
    BY <2>4 DEF Nodes
  <2>6. CASE gesture.start # v
    <3>1. GestureOps = <<o>>
      BY <1>3, <1>7, <2>1, <2>2, <2>5, <2>6
    <3> QED BY <1>5, <2>1, <2>3, <3>1, ApplyAllOne
  <2>7. CASE gesture.start = v
    <3>1. GestureOps = << >>
      BY <1>3, <2>7
    <3>2. Base.nodes[n] = [kind |-> Base.nodes[n].kind, value |-> v, pos |-> Base.nodes[n].pos]
      BY <1>4, <1>7, <2>1, <2>7 DEF Node
    <3>3. [Base.nodes[n] EXCEPT !.value = v] = Base.nodes[n]
      BY <3>2
    <3>4. [Base.nodes EXCEPT ![n] = Base.nodes[n]] = Base.nodes
      BY <1>4
    <3>5. h = Base
      BY <1>4, <2>4, <3>3, <3>4
    <3> QED BY <1>5, <2>1, <2>2, <3>1, <3>5, ApplyAllNone
  <2> QED BY <2>6, <2>7
<1> QED BY <1>6, <1>7

(* Placing nodes changes no other node and adds none. *)
LEMMA PlacedNodes ==
  ASSUME NEW g, NEW to, NEW S
  PROVE  /\ Nodes(Placed(g, to, S)) = Nodes(g)
         /\ \A n \in Nodes(g) : Placed(g, to, S).nodes[n] =
              IF n \in S THEN [g.nodes[n] EXCEPT !.pos = to[n]] ELSE g.nodes[n]
BY DEF Placed, Nodes

(* The operations that end a move of nodes give the graph on the screen, in
   whatever order they are listed. *)
LEMMA MoveGives ==
  ASSUME GraphOk(Base), gesture.kind = "move", MoveFits
  PROVE  GestureOps \in Seq(GraphOp) /\ ApplyAll(Base, GestureOps) = graph
<1> DEFINE D == DOMAIN gesture.start
           moved == {n \in D \cap Nodes(graph) : graph.nodes[n].pos # gesture.start[n]}
           M == {MoveNode(n, graph.nodes[n].pos) : n \in moved}
           s == SetToSeq(M)
<1>1. GraphType(Base) /\ IsFiniteSet(Nodes(Base)) /\ D \subseteq Nodes(Base) /\ Nodes(Base) \subseteq NodeId
  BY DEF GraphOk, MoveFits, GraphType
<1>2. GestureOps = s
  BY DEF GestureOps
<1>3. Nodes(graph) = Nodes(Base)
  BY PlacedNodes DEF MoveFits
<1>4. \A n \in Nodes(graph) : Places[n] = graph.nodes[n].pos
  BY DEF Places
<1>5. \A n \in D : Places[n] \in Pos /\ gesture.start[n] = Base.nodes[n].pos
  BY DEF MoveFits
<1>6. moved \subseteq D /\ moved \subseteq Nodes(Base)
      /\ \A n \in D : n \notin moved => Places[n] = Base.nodes[n].pos
  BY <1>1, <1>3, <1>4, <1>5
<1>7. M = {MoveNode(n, Places[n]) : n \in moved}
  BY <1>3, <1>4
<1>8. graph = Placed(Base, Places, D)
  BY DEF MoveFits
<1> HIDE DEF moved, D
<1>9. IsFiniteSet(moved)
  BY <1>1, <1>6, FS_Subset
<1>10. IsFiniteSet(M)
  <2> DEFINE f == [n \in moved |-> MoveNode(n, Places[n])]
  <2>1. f \in Surjection(moved, M)
    BY <1>7 DEF Surjection
  <2> QED BY <1>9, <2>1, FS_Surjection
<1> HIDE DEF M
<1>11. s \in Seq(M) /\ {s[i] : i \in 1..Len(s)} = M
  BY <1>10, SetToSeqCovers
<1> HIDE DEF s
<1>12. Ids(s) = moved
  <2>1. Ids(s) = {m.id : m \in M}
    BY <1>11 DEF Ids
  <2>2. \A n : MoveNode(n, Places[n]).id = n
    BY DEF MoveNode
  <2>3. ASSUME NEW n \in moved PROVE n \in {m.id : m \in M}
    <3>1. MoveNode(n, Places[n]) \in M
      BY <1>7
    <3> QED BY <2>2, <3>1
  <2>4. ASSUME NEW m \in M PROVE m.id \in moved
    BY <1>7, <2>2
  <2> QED BY <2>1, <2>3, <2>4
<1>13. ApplyAll(Base, s) = Placed(Base, Places, moved)
  BY <1>1, <1>6, <1>7, <1>11, <1>12, MovesPlace
<1>14. Placed(Base, Places, moved) = Placed(Base, Places, D)
  <2>1. ASSUME NEW n \in Nodes(Base)
        PROVE  (IF n \in moved THEN [Base.nodes[n] EXCEPT !.pos = Places[n]] ELSE Base.nodes[n])
             = (IF n \in D THEN [Base.nodes[n] EXCEPT !.pos = Places[n]] ELSE Base.nodes[n])
    <3>1. Base.nodes[n] = [kind |-> Base.nodes[n].kind, value |-> Base.nodes[n].value, pos |-> Base.nodes[n].pos]
      BY <1>1 DEF GraphType, Node
    <3>2. CASE n \in D /\ n \notin moved
      <4>1. Places[n] = Base.nodes[n].pos
        BY <1>6, <3>2
      <4>2. [Base.nodes[n] EXCEPT !.pos = Places[n]] = Base.nodes[n]
        BY <3>1, <4>1
      <4> QED BY <3>2, <4>2
    <3> QED BY <1>6, <3>2
  <2> QED BY <2>1 DEF Placed
<1>15. M \subseteq GraphOp
  BY <1>1, <1>5, <1>6, <1>7 DEF MoveNode, GraphOp
<1>16. s \in Seq(GraphOp)
  BY <1>11, <1>15, SeqMonotonic
<1> QED BY <1>2, <1>8, <1>13, <1>14, <1>16

(* What ending the gesture records turns the pending operations into the graph
   on the screen. *)
LEMMA GestureGives ==
  ASSUME GraphOk(Base), GestureFits
  PROVE  GestureOps \in Seq(GraphOp) /\ ApplyAll(Base, GestureOps) = graph
<1>1. CASE gesture = Still /\ graph = Base
  <2>1. GestureOps = << >>
    BY <1>1 DEF GestureOps, Still
  <2> QED BY <1>1, <2>1, ApplyAllNone
<1> QED BY <1>1, DragGives, MoveGives DEF GestureFits

(* The pending operations, with those of the gesture ended, give the graph on
   the screen. *)
LEMMA SettledGives ==
  ASSUME GraphOk(Base), GestureFits, pending \in Seq(GraphOp)
  PROVE  Settled \in Seq(GraphOp) /\ ApplyAll(Committed, Settled) = graph
<1>1. GestureOps \in Seq(GraphOp) /\ ApplyAll(Base, GestureOps) = graph
  BY GestureGives
<1>2. ApplyAll(Committed, pending \o GestureOps) = ApplyAll(ApplyAll(Committed, pending), GestureOps)
  BY <1>1, ApplyAllConcat
<1> QED BY <1>1, <1>2, ConcatProperties DEF Settled, Base

-----------------------------------------------------------------------------

(* One list and then another. *)
Joined(a, b) == a \o b

(* The recursion of FlattenSeq, up to the n-th list. *)
FlatRuns(f, s, n) == f = [i \in 1..n |-> IF i = 1 THEN s[i] ELSE Joined(f[i - 1], s[i])]

(* There is such a function for batches of any number. *)
LEMMA FlatExists ==
  ASSUME NEW s, NEW n \in Nat
  PROVE  \E f : FlatRuns(f, s, n)
<1> DEFINE S == {k \in Nat : \E f : FlatRuns(f, s, k)}
<1>1. 0 \in S
  <2>1. FlatRuns([i \in 1..0 |-> s], s, 0)
    BY DEF FlatRuns
  <2> QED BY <2>1
<1>2. ASSUME NEW k \in Nat, k \in S PROVE k + 1 \in S
  <2>1. PICK f : FlatRuns(f, s, k)
    BY <1>2
  <2> DEFINE h == [i \in 1..k + 1 |-> IF i = k + 1 THEN (IF i = 1 THEN s[i] ELSE Joined(f[k], s[k + 1])) ELSE f[i]]
  <2>2. \A i \in 1..k : h[i] = f[i]
    OBVIOUS
  <2>3. ASSUME NEW i \in 1..k + 1 PROVE h[i] = IF i = 1 THEN s[i] ELSE Joined(h[i - 1], s[i])
    <3>1. CASE i = k + 1
      <4>1. h[i] = IF i = 1 THEN s[i] ELSE Joined(f[k], s[k + 1])
        BY <3>1
      <4>2. i # 1 => h[i - 1] = f[k]
        BY <2>2, <3>1
      <4> HIDE DEF h
      <4> QED BY <3>1, <4>1, <4>2
    <3>2. CASE i \in 1..k
      <4>1. f[i] = IF i = 1 THEN s[i] ELSE Joined(f[i - 1], s[i])
        BY <2>1, <3>2 DEF FlatRuns
      <4>2. i # 1 => h[i - 1] = f[i - 1]
        BY <2>2, <3>2
      <4> HIDE DEF h
      <4> QED BY <2>2, <3>2, <4>1, <4>2
    <3> QED BY <3>1, <3>2
  <2>4. h = [i \in 1..k + 1 |-> h[i]]
    OBVIOUS
  <2> HIDE DEF h
  <2>5. FlatRuns(h, s, k + 1)
    BY <2>3, <2>4 DEF FlatRuns
  <2> QED BY <2>5
<1> HIDE DEF S
<1>3. Nat \subseteq S
  BY <1>1, <1>2, Counting
<1> QED BY <1>3 DEF S

(* FlattenSeq is where the joining of the batches ends. *)
LEMMA FlattenRuns ==
  ASSUME NEW s, Len(s) \in Nat, Len(s) # 0
  PROVE  \E f : FlatRuns(f, s, Len(s)) /\ FlattenSeq(s) = f[Len(s)]
<1> DEFINE F == CHOOSE f : f = [i \in 1..Len(s) |-> IF i = 1 THEN s[i] ELSE f[i - 1] \o s[i]]
<1>1. FlatRuns(F, s, Len(s))
  BY FlatExists DEF FlatRuns, Joined
<1>2. FlattenSeq(s) = F[Len(s)]
  BY DEF FlattenSeq
<1> QED BY <1>1, <1>2

(* No batches hold no operations. *)
LEMMA FlattenNone == FlattenSeq(<< >>) = << >>
BY DEF FlattenSeq

(* The operations of the first batch come first. *)
LEMMA FlattenFirst ==
  ASSUME NEW X, NEW u \in Seq(X), NEW s \in Seq(Seq(X))
  PROVE  FlattenSeq(s) \in Seq(X) /\ FlattenSeq(<<u>> \o s) = u \o FlattenSeq(s)
<1> DEFINE n == Len(s)
           t == <<u>> \o s
<1>1. n \in Nat /\ Len(t) = n + 1 /\ t[1] = u /\ \A i \in 1..n : t[i + 1] = s[i] /\ s[i] \in Seq(X)
  OBVIOUS
<1> HIDE DEF t
<1>2. Len(t) \in Nat /\ Len(t) # 0
  BY <1>1
<1>3. PICK h : FlatRuns(h, t, n + 1) /\ FlattenSeq(t) = h[n + 1]
  BY <1>1, <1>2, FlattenRuns
<1>4. \A i \in 1..n + 1 : h[i] = IF i = 1 THEN t[i] ELSE Joined(h[i - 1], t[i])
  BY <1>3 DEF FlatRuns
<1>5. CASE n = 0
  <2>1. s = << >>
    BY <1>5, EmptySeq
  <2>2. FlattenSeq(t) = u
    BY <1>1, <1>3, <1>4, <1>5
  <2>3. FlattenSeq(s) = << >> /\ << >> \in Seq(X) /\ u \o << >> = u
    BY <2>1, FlattenNone, ConcatEmptySeq
  <2> QED BY <2>2, <2>3 DEF t
<1>6. CASE n # 0
  <2>1. PICK f : FlatRuns(f, s, n) /\ FlattenSeq(s) = f[n]
    BY <1>1, <1>6, FlattenRuns
  <2> DEFINE S == {k \in Nat : k + 1 <= n => f[k + 1] \in Seq(X) /\ h[k + 2] = u \o f[k + 1]}
  <2> HIDE DEF n
  <2>2. \A i \in 1..n : f[i] = IF i = 1 THEN s[i] ELSE Joined(f[i - 1], s[i])
    BY <2>1 DEF FlatRuns
  <2>3. 0 \in S
    <3>1. 1 \in 1..n /\ 2 \in 1..n + 1
      BY <1>1, <1>6
    <3>2. f[1] = s[1] /\ h[2] = Joined(h[1], t[2]) /\ h[1] = t[1] /\ t[2] = s[1] /\ s[1] \in Seq(X)
      BY <1>1, <1>4, <2>2, <3>1
    <3>3. f[1] \in Seq(X) /\ h[2] = u \o f[1]
      BY <1>1, <3>2 DEF Joined
    <3>4. 0 + 1 = 1 /\ 0 + 2 = 2
      OBVIOUS
    <3> QED BY <3>3, <3>4
  <2>4. ASSUME NEW k \in Nat, k \in S PROVE k + 1 \in S
    <3>0. (k + 1) + 1 = k + 2 /\ (k + 1) + 2 = k + 3 /\ k + 1 \in Nat
      OBVIOUS
    <3> SUFFICES ASSUME k + 2 <= n PROVE f[k + 2] \in Seq(X) /\ h[k + 3] = u \o f[k + 2]
      BY <3>0, Zenon
    <3>1. f[k + 1] \in Seq(X) /\ h[k + 2] = u \o f[k + 1]
      BY <1>1, <2>4
    <3>2. k + 2 \in 1..n /\ k + 3 \in 1..n + 1 /\ (k + 2) - 1 = k + 1 /\ (k + 3) - 1 = k + 2 /\ (k + 2) + 1 = k + 3
      BY <1>1
    <3>3. f[k + 2] = Joined(f[k + 1], s[k + 2])
      BY <2>2, <3>2
    <3>4. h[k + 3] = Joined(h[k + 2], t[k + 3])
      BY <1>4, <3>2
    <3>5. t[k + 3] = s[k + 2] /\ s[k + 2] \in Seq(X)
      BY <1>1, <3>2
    <3>6. \A x, y \in Seq(X) : x \o y \in Seq(X) /\ (u \o x) \o y = u \o (x \o y)
      BY ConcatAssociative, ConcatProperties
    <3>7. /\ Joined(f[k + 1], s[k + 2]) \in Seq(X)
          /\ Joined(u \o f[k + 1], s[k + 2]) = u \o Joined(f[k + 1], s[k + 2])
      BY <3>1, <3>5, <3>6 DEF Joined
    <3> QED BY <3>1, <3>3, <3>4, <3>5, <3>7
  <2> HIDE DEF S
  <2>5. Nat \subseteq S
    BY <2>3, <2>4, Counting
  <2>6. n - 1 \in S
    BY <1>1, <1>6, <2>5
  <2>7. f[n] \in Seq(X) /\ h[n + 1] = u \o f[n]
    <3>1. (n - 1) + 1 = n /\ (n - 1) + 2 = n + 1 /\ n <= n
      BY <1>1
    <3> QED BY <2>6, <3>1 DEF S
  <2> QED BY <1>3, <2>1, <2>7 DEF t, n
<1> QED BY <1>5, <1>6

(* The operations of the batches undone, in the order they would be redone. *)
Again(batches) == FlattenSeq(Reverse(batches))

(* With nothing undone, nothing is redone. *)
LEMMA AgainNone == Again(<< >>) = << >>
<1>1. Reverse(<< >>) = << >>
  BY DEF Reverse
<1> QED BY <1>1, FlattenNone DEF Again

(* The batch undone last is redone first. *)
LEMMA AgainAppend ==
  ASSUME NEW X, NEW u \in Seq(X), NEW r \in Seq(Seq(X))
  PROVE  Again(r) \in Seq(X) /\ Again(Append(r, u)) = u \o Again(r)
<1> DEFINE n == Len(r)
           a == Append(r, u)
<1>1. n \in Nat /\ Len(a) = n + 1 /\ a[n + 1] = u /\ \A i \in 1..n : a[i] = r[i] /\ r[i] \in Seq(X)
  OBVIOUS
<1>2. Reverse(r) \in Seq(Seq(X)) /\ Len(Reverse(r)) = n /\ \A i \in 1..n : Reverse(r)[i] = r[(n - i) + 1]
  BY <1>1 DEF Reverse
<1> HIDE DEF n, a
<1>3. Reverse(a) \in Seq(Seq(X)) /\ Len(Reverse(a)) = n + 1 /\ \A i \in 1..n + 1 : Reverse(a)[i] = a[(n - i) + 2]
  <2>1. Reverse(a) = [i \in 1..n + 1 |-> a[(n - i) + 2]]
    BY <1>1 DEF Reverse
  <2>2. \A i \in 1..n + 1 : (n - i) + 2 \in 1..n + 1 
    BY <1>1
  <2>3. \A i \in 1..n + 1 : a[i] \in Seq(X)
    BY <1>1
  <2> QED BY <1>1, <2>1, <2>2, <2>3
<1>4. Reverse(a) = <<u>> \o Reverse(r)
  <2> DEFINE w == <<u>> \o Reverse(r)
  <2>1. w \in Seq(Seq(X)) /\ Len(w) = n + 1 /\ w[1] = u /\ \A i \in 2..n + 1 : w[i] = Reverse(r)[i - 1]
    BY <1>1, <1>2
  <2>2. ASSUME NEW i \in 1..n + 1 PROVE Reverse(a)[i] = w[i]
    <3>1. CASE i = 1
      <4>1. (n - i) + 2 = n + 1
        BY <1>1, <3>1
      <4> QED BY <1>1, <1>3, <2>1, <3>1, <4>1
    <3>2. CASE i \in 2..n + 1
      <4>1. (n - i) + 2 \in 1..n /\ (n - (i - 1)) + 1 = (n - i) + 2 /\ i - 1 \in 1..n
        BY <1>1, <3>2
      <4>2. Reverse(a)[i] = a[(n - i) + 2]
        BY <1>3
      <4>3. Reverse(r)[i - 1] = r[(n - i) + 2]
        BY <1>2, <4>1
      <4>4. a[(n - i) + 2] = r[(n - i) + 2]
        BY <1>1, <4>1
      <4> HIDE DEF w
      <4>5. w[i] = Reverse(r)[i - 1]
        BY <2>1, <3>2
      <4> QED BY <4>2, <4>3, <4>4, <4>5
    <3>3. i = 1 \/ i \in 2..n + 1
      BY <1>1
    <3> QED BY <3>1, <3>2, <3>3
  <2> HIDE DEF w
  <2>3. Reverse(a) = w
    BY <1>3, <2>1, <2>2, SeqEqual
  <2> QED BY <2>3 DEF w
<1> QED BY <1>2, <1>4, FlattenFirst DEF Again, a

-----------------------------------------------------------------------------

(* Where undo goes back to rises, and is short of the end. *)
UndoFits(lengths, n) ==
  /\ \A i \in DOMAIN lengths : lengths[i] < n
  /\ \A i, j \in DOMAIN lengths : i < j => lengths[i] < lengths[j]

(* The batches undone can all be redone, one after the other. *)
RedoFits(base, ops, batches) ==
  /\ \A i \in DOMAIN batches : batches[i] # << >>
  /\ ApplyAll(base, ops \o Again(batches)) # Refused

(* The drag in flight is told apart from the edits recorded, and what is
   recorded, undone and to be redone replays. *)
DocumentInv ==
  /\ chain \in Seq(Block)
  /\ pending \in Seq(GraphOp) /\ recovery \in Seq(GraphOp)
  /\ undo \in Seq(Nat) /\ redo \in Seq(Seq(GraphOp))
  /\ GraphOk(Base)
  /\ GestureFits
  /\ UndoFits(undo, Len(pending))
  /\ RedoFits(Committed, pending, redo)

(* What a chain and operations after it replay to is a graph, unless they were
   refused. *)
LEMMA ReplaysOk ==
  ASSUME NEW c \in Seq(Block), NEW p \in Seq(GraphOp), ApplyAll(Replay(c, Len(c)), p) # Refused
  PROVE  GraphOk(ApplyAll(Replay(c, Len(c)), p))
BY ReplayOk, ApplyAllOk

(* Where undo goes back to stays within the pending operations when they
   grow, and so does one more such place, the end they had. *)
LEMMA UndoMore ==
  ASSUME NEW u \in Seq(Nat), NEW n \in Nat, UndoFits(u, n)
  PROVE  /\ \A k \in Nat : k >= n => UndoFits(u, k)
         /\ \A k \in Nat : k > n => Append(u, n) \in Seq(Nat) /\ UndoFits(Append(u, n), k)
<1>1. ASSUME NEW k \in Nat, k >= n PROVE UndoFits(u, k)
  BY <1>1 DEF UndoFits
<1>2. ASSUME NEW k \in Nat, k > n PROVE Append(u, n) \in Seq(Nat) /\ UndoFits(Append(u, n), k)
  <2> DEFINE a == Append(u, n)
             l == Len(u)
  <2>1. l \in Nat /\ a \in Seq(Nat) /\ DOMAIN u = 1..l /\ DOMAIN a = 1..l + 1 /\ a[l + 1] = n
        /\ \A i \in 1..l : a[i] = u[i] /\ u[i] \in Nat
    OBVIOUS
  <2> HIDE DEF a, l
  <2>2. \A i \in 1..l : a[i] < n
    BY <2>1 DEF UndoFits
  <2>3. \A i \in DOMAIN a : a[i] < k
    BY <1>2, <2>1, <2>2
  <2>4. ASSUME NEW i \in DOMAIN a, NEW j \in DOMAIN a, i < j PROVE a[i] < a[j]
    <3>1. CASE j = l + 1
      <4>1. i \in 1..l
        BY <2>1, <2>4, <3>1
      <4> QED BY <2>1, <2>2, <3>1, <4>1
    <3>2. CASE j \in 1..l
      <4>1. i \in 1..l
        BY <2>1, <2>4, <3>2
      <4> QED BY <2>1, <2>4, <3>2, <4>1 DEF UndoFits
    <3> QED BY <2>1, <3>1, <3>2
  <2>5. UndoFits(a, k)
    BY <2>3, <2>4 DEF UndoFits
  <2> QED BY <2>1, <2>5 DEF a
<1> QED BY <1>1, <1>2

(* The ledger of a gesture that ended. *)
LEMMA SettledFits ==
  ASSUME DocumentInv
  PROVE  /\ Settled \in Seq(GraphOp) /\ ApplyAll(Committed, Settled) = graph
         /\ GraphOk(graph) /\ graph # Refused
         /\ SettledUndo \in Seq(Nat) /\ UndoFits(SettledUndo, Len(Settled))
         /\ SettledRedo \in Seq(Seq(GraphOp)) /\ RedoFits(Committed, Settled, SettledRedo)
<1>1. Settled \in Seq(GraphOp) /\ ApplyAll(Committed, Settled) = graph
  BY SettledGives DEF DocumentInv
<1>2. GestureOps \in Seq(GraphOp) /\ ApplyAll(Base, GestureOps) = graph /\ pending \in Seq(GraphOp)
  BY GestureGives DEF DocumentInv
<1>3. undo \in Seq(Nat) /\ UndoFits(undo, Len(pending)) /\ redo \in Seq(Seq(GraphOp))
      /\ RedoFits(Committed, pending, redo) /\ GraphOk(Base)
  BY DEF DocumentInv
<1>4. GestureOps = << >> => Settled = pending
  BY <1>2, ConcatEmptySeq DEF Settled
<1>5. graph # Refused
  <2>1. CASE GestureOps = << >>
    BY <1>2, <1>3, <2>1, ApplyAllNone, GraphIsNotRefused DEF GraphOk
  <2>2. CASE GestureFits /\ gesture.kind = "param" /\ DragFits
    <3>1. GraphType(Base)
      BY <1>3 DEF GraphOk
    <3>2. gesture.id \in Nodes(Base) => GraphType(graph)
      <4> SUFFICES ASSUME gesture.id \in Nodes(Base) PROVE GraphType(Applied(Base, SetParam(gesture.id, gesture.last)))
        BY <2>2 DEF DragFits
      <4>1. SetParam(gesture.id, gesture.last) \in GraphOp /\ Accepts(Base, SetParam(gesture.id, gesture.last))
        BY <2>2 DEF DragFits, SetParam, GraphOp, Accepts
      <4> QED BY <1>3, <4>1, AppliedKeeps DEF GraphOk
    <3>3. gesture.id \notin Nodes(Base) => GraphType(graph)
      BY <2>2, <3>1 DEF DragFits
    <3> QED BY <3>2, <3>3, GraphIsNotRefused
  <2>3. CASE GestureFits /\ gesture.kind = "move" /\ MoveFits
    <3>1. DOMAIN graph = {"nodes", "edges"}
      BY <2>3 DEF MoveFits, Placed
    <3>2. DOMAIN Refused = {"refused"}
      BY DEF Refused
    <3> QED BY <3>1, <3>2
  <2>4. CASE gesture = Still
    <3>1. GestureOps = << >>
      BY <2>4 DEF GestureOps, Still
    <3> QED BY <2>1, <3>1
  <2> QED BY <2>2, <2>3, <2>4 DEF DocumentInv, GestureFits
<1>6. GraphOk(graph)
  BY <1>2, <1>3, <1>5, ApplyAllOk
<1>7. SettledUndo \in Seq(Nat) /\ UndoFits(SettledUndo, Len(Settled))
  <2>1. CASE GestureOps = << >>
    BY <1>3, <1>4, <2>1 DEF SettledUndo
  <2>2. CASE GestureOps # << >>
    <3>1. Len(pending) \in Nat /\ Len(GestureOps) \in Nat \ {0} /\ Len(Settled) = Len(pending) + Len(GestureOps)
      BY <1>2, <2>2, EmptySeq, ConcatProperties DEF Settled
    <3>2. SettledUndo = Append(undo, Len(pending))
      BY <2>2 DEF SettledUndo
    <3>3. Len(Settled) \in Nat /\ Len(Settled) > Len(pending)
      BY <3>1
    <3> QED BY <1>3, <3>1, <3>2, <3>3, UndoMore
  <2> QED BY <2>1, <2>2
<1>8. SettledRedo \in Seq(Seq(GraphOp)) /\ RedoFits(Committed, Settled, SettledRedo)
  <2>1. CASE GestureOps = << >>
    BY <1>3, <1>4, <2>1 DEF SettledRedo
  <2>2. CASE GestureOps # << >>
    <3>1. SettledRedo = << >>
      BY <2>2 DEF SettledRedo
    <3>2. Settled \o Again(<< >>) = Settled
      BY <1>1, AgainNone, ConcatEmptySeq
    <3>3. DOMAIN SettledRedo = {} /\ SettledRedo \in Seq(Seq(GraphOp))
      BY <3>1
    <3> QED BY <1>1, <1>5, <3>1, <3>2, <3>3 DEF RedoFits
  <2> QED BY <2>1, <2>2
<1> QED BY <1>1, <1>5, <1>6, <1>7, <1>8

-----------------------------------------------------------------------------

(* A document whose edits replay to its graph, with no drag in flight and
   nothing to undo or redo. *)
LEMMA FreshDocument ==
  ASSUME chain' \in Seq(Block), pending' \in Seq(GraphOp), recovery' \in Seq(GraphOp),
         undo' = << >>, redo' = << >>, gesture' = Still,
         graph' = Base', graph' # Refused
  PROVE  DocumentInv'
<1>1. GraphOk(Base')
  BY ReplaysOk DEF Base, Committed
<1>2. GestureFits'
  BY DEF GestureFits
<1>3. << >> \in Seq(Nat) /\ << >> \in Seq(Seq(GraphOp)) /\ DOMAIN << >> = {}
  OBVIOUS
<1>4. pending' \o Again(<< >>) = pending'
  BY AgainNone, ConcatEmptySeq
<1>5. RedoFits(Committed', pending', redo')
  BY <1>3, <1>4 DEF RedoFits, Base
<1>6. UndoFits(undo', Len(pending'))
  BY <1>3 DEF UndoFits
<1> QED BY <1>1, <1>2, <1>3, <1>5, <1>6 DEF DocumentInv

(* A batch recorded after the gesture ended. *)
LEMMA RecordKeeps ==
  ASSUME DocumentInv, NEW ops \in Seq(GraphOp), Record(ops), chain' = chain,
         ApplyAll(graph, ops) # Refused
  PROVE  /\ Committed' = Committed
         /\ pending' \in Seq(GraphOp) /\ undo' \in Seq(Nat) /\ redo' \in Seq(Seq(GraphOp))
         /\ Base' = ApplyAll(graph, ops) /\ GraphOk(Base')
         /\ UndoFits(undo', Len(pending')) /\ RedoFits(Committed', pending', redo')
<1>1. /\ Settled \in Seq(GraphOp) /\ ApplyAll(Committed, Settled) = graph /\ GraphOk(graph)
      /\ SettledUndo \in Seq(Nat) /\ UndoFits(SettledUndo, Len(Settled))
      /\ SettledRedo \in Seq(Seq(GraphOp)) /\ RedoFits(Committed, Settled, SettledRedo)
  BY SettledFits
<1>2. /\ pending' = Settled \o ops
      /\ undo' = IF ops = << >> THEN SettledUndo ELSE Append(SettledUndo, Len(Settled))
      /\ redo' = IF ops = << >> THEN SettledRedo ELSE << >>
  BY DEF Record
<1>3. Committed' = Committed
  BY DEF Committed
<1>4. pending' \in Seq(GraphOp)
  BY <1>1, <1>2, ConcatProperties
<1>5. Base' = ApplyAll(graph, ops)
  BY <1>1, <1>2, <1>3, ApplyAllConcat DEF Base
<1>6. GraphOk(Base')
  BY <1>1, <1>5, ApplyAllOk
<1>7. CASE ops = << >>
  <2>1. pending' = Settled /\ undo' = SettledUndo /\ redo' = SettledRedo
    BY <1>1, <1>2, <1>7, ConcatEmptySeq
  <2> QED BY <1>1, <1>3, <1>4, <1>5, <1>6, <2>1
<1>8. CASE ops # << >>
  <2>1. Len(Settled) \in Nat /\ Len(ops) \in Nat \ {0} /\ Len(pending') = Len(Settled) + Len(ops)
    BY <1>1, <1>2, <1>8, EmptySeq, ConcatProperties
  <2>2. undo' = Append(SettledUndo, Len(Settled)) /\ redo' = << >>
    BY <1>2, <1>8
  <2>3. Len(pending') \in Nat /\ Len(pending') > Len(Settled)
    BY <2>1
  <2>4. undo' \in Seq(Nat) /\ UndoFits(undo', Len(pending'))
    BY <1>1, <2>1, <2>2, <2>3, UndoMore
  <2>5. pending' \o Again(<< >>) = pending'
    BY <1>4, AgainNone, ConcatEmptySeq
  <2>6. ApplyAll(Committed', pending') # Refused
    BY <1>6, GraphIsNotRefused DEF GraphOk, Base
  <2>7. redo' \in Seq(Seq(GraphOp)) /\ DOMAIN redo' = {}
    BY <2>2
  <2>8. RedoFits(Committed', pending', redo')
    BY <2>2, <2>5, <2>6, <2>7 DEF RedoFits
  <2> QED BY <1>3, <1>4, <1>5, <1>6, <2>4, <2>7, <2>8
<1> QED BY <1>7, <1>8

(* The gesture ended, and nothing else was done. *)
LEMMA RefuseKeeps ==
  ASSUME DocumentInv, Refuse, chain' = chain, recovery' = recovery, graph' = graph
  PROVE  DocumentInv'
<1>1. << >> \in Seq(GraphOp) /\ ApplyAll(graph, << >>) = graph /\ graph # Refused
  BY ApplyAllNone, SettledFits
<1>2. /\ pending' \in Seq(GraphOp) /\ undo' \in Seq(Nat) /\ redo' \in Seq(Seq(GraphOp))
      /\ Base' = graph /\ GraphOk(Base')
      /\ UndoFits(undo', Len(pending')) /\ RedoFits(Committed', pending', redo')
  BY <1>1, RecordKeeps DEF Refuse
<1>3. GestureFits'
  BY <1>2 DEF GestureFits, Refuse
<1> QED BY <1>2, <1>3 DEF DocumentInv

(* State::apply: a batch is recorded whole, or not at all. *)
LEMMA ApplyOpsKeeps ==
  ASSUME DocumentInv, NEW ops \in Seq(GraphOp), ApplyOps(ops)
  PROVE  DocumentInv'
<1>1. chain' = chain /\ recovery' = recovery
  BY DEF ApplyOps
<1>2. CASE ApplyAll(graph, ops) # Refused /\ Record(ops) /\ gesture' = Still /\ graph' = ApplyAll(graph, ops)
  <2>1. /\ pending' \in Seq(GraphOp) /\ undo' \in Seq(Nat) /\ redo' \in Seq(Seq(GraphOp))
        /\ Base' = ApplyAll(graph, ops) /\ GraphOk(Base')
        /\ UndoFits(undo', Len(pending')) /\ RedoFits(Committed', pending', redo')
    BY <1>1, <1>2, RecordKeeps
  <2>2. GestureFits'
    BY <1>2, <2>1 DEF GestureFits
  <2> QED BY <1>1, <2>1, <2>2 DEF DocumentInv
<1>3. CASE Refuse /\ graph' = graph
  BY <1>1, <1>3, RefuseKeeps
<1> QED BY <1>2, <1>3 DEF ApplyOps

(* The operations a merge put aside are recorded as a batch of their own. *)
LEMMA RetryKeeps ==
  ASSUME DocumentInv, RetryRecovery
  PROVE  DocumentInv'
<1>1. /\ chain' = chain /\ recovery' = << >> /\ recovery \in Seq(GraphOp)
      /\ ApplyAll(graph, recovery) # Refused /\ Record(recovery) /\ gesture' = Still
      /\ graph' = ApplyAll(graph, recovery)
  BY DEF RetryRecovery, DocumentInv
<1>2. /\ pending' \in Seq(GraphOp) /\ undo' \in Seq(Nat) /\ redo' \in Seq(Seq(GraphOp))
      /\ Base' = ApplyAll(graph, recovery) /\ GraphOk(Base')
      /\ UndoFits(undo', Len(pending')) /\ RedoFits(Committed', pending', redo')
  BY <1>1, RecordKeeps
<1>3. GestureFits'
  BY <1>1, <1>2 DEF GestureFits
<1>4. recovery' \in Seq(GraphOp)
  BY <1>1
<1> QED BY <1>1, <1>2, <1>3, <1>4 DEF DocumentInv

-----------------------------------------------------------------------------

(* A value on a value. *)
LEMMA SetAgain ==
  ASSUME NEW g, GraphType(g), NEW n \in Nodes(g), NEW v, NEW w
  PROVE  Apply(Applied(g, SetParam(n, v)), SetParam(n, w)) = Applied(g, SetParam(n, w))
<1> DEFINE h == Applied(g, SetParam(n, v))
<1>1. g = [nodes |-> g.nodes, edges |-> g.edges] /\ g.nodes = [m \in Nodes(g) |-> g.nodes[m]]
      /\ g.nodes[n] = [kind |-> g.nodes[n].kind, value |-> g.nodes[n].value, pos |-> g.nodes[n].pos]
  BY DEF GraphType, Node
<1>2. \A k, x : Applied(k, SetParam(n, x)) = [k EXCEPT !.nodes[n].value = x]
  BY DEF Applied, SetParam
<1>3. \A k, x : Accepts(k, SetParam(n, x)) <=> n \in Nodes(k)
  BY DEF Accepts, SetParam
<1>4. h = [nodes |-> [g.nodes EXCEPT ![n] = [g.nodes[n] EXCEPT !.value = v]], edges |-> g.edges]
  BY <1>1, <1>2
<1>5. Nodes(h) = Nodes(g) /\ h # Refused
  <2>1. Nodes(h) = Nodes(g)
    BY <1>4 DEF Nodes
  <2>2. DOMAIN h = {"nodes", "edges"}
    BY <1>4
  <2>3. DOMAIN Refused = {"refused"}
    BY DEF Refused
  <2> HIDE DEF h
  <2> QED BY <2>1, <2>2, <2>3
<1> HIDE DEF h
<1>6. Apply(h, SetParam(n, w)) = [h EXCEPT !.nodes[n].value = w]
  BY <1>2, <1>3, <1>5 DEF Apply
<1>7. [h EXCEPT !.nodes[n].value = w]
       = [nodes |-> [h.nodes EXCEPT ![n] = [h.nodes[n] EXCEPT !.value = w]], edges |-> g.edges]
  BY <1>4
<1>8. h.nodes[n] = [g.nodes[n] EXCEPT !.value = v]
  BY <1>1, <1>4 DEF Nodes
<1>9. [h.nodes[n] EXCEPT !.value = w] = [g.nodes[n] EXCEPT !.value = w]
  BY <1>1, <1>8
<1> DEFINE a == [g.nodes[n] EXCEPT !.value = v]
           b == [g.nodes[n] EXCEPT !.value = w]
<1>10. h.nodes = [g.nodes EXCEPT ![n] = a]
  BY <1>4
<1> HIDE DEF a, b
<1>11. [h.nodes EXCEPT ![n] = b] = [g.nodes EXCEPT ![n] = b]
  BY <1>1, <1>10
<1>12. Applied(g, SetParam(n, w)) = [nodes |-> [g.nodes EXCEPT ![n] = b], edges |-> g.edges]
  BY <1>1, <1>2 DEF b
<1> QED BY <1>6, <1>7, <1>9, <1>11, <1>12 DEF h, b

(* A drag of a value goes on, or starts and ends the gesture before it. *)
LEMMA ParamDragKeeps ==
  ASSUME DocumentInv, NEW n \in NodeId, NEW v \in Value, ParamDrag(n, v)
  PROVE  DocumentInv'
<1> DEFINE o == SetParam(n, v)
           start == IF n \in Nodes(graph) THEN graph.nodes[n].value ELSE Unset
<1>1. chain' = chain /\ recovery' = recovery /\ Committed' = Committed
  BY DEF ParamDrag, Committed
<1>2. /\ GraphOk(graph) /\ GraphOk(Base) /\ GraphType(graph) /\ GraphType(Base) /\ graph # Refused /\ GestureFits
      /\ pending \in Seq(GraphOp) /\ undo \in Seq(Nat) /\ redo \in Seq(Seq(GraphOp))
      /\ chain \in Seq(Block) /\ recovery \in Seq(GraphOp)
      /\ UndoFits(undo, Len(pending)) /\ RedoFits(Committed, pending, redo)
  BY SettledFits DEF DocumentInv, GraphOk
<1>3. o \in GraphOp /\ o.op = "SetParam" /\ o.id = n
  BY DEF SetParam, GraphOp
<1> HIDE DEF o
<1>4. n \in Nodes(graph) => Apply(graph, o) = Applied(graph, o) /\ GraphType(Applied(graph, o)) /\ Applied(graph, o) # Refused
  <2> SUFFICES ASSUME n \in Nodes(graph) PROVE Accepts(graph, o)
    BY <1>2, <1>3, AppliedKeeps, GraphIsNotRefused DEF Apply, GraphOk
  <2> QED BY <1>3 DEF Accepts
<1>5. n \notin Nodes(graph) => Apply(graph, o) = Refused
  BY <1>3 DEF Apply, Accepts
<1>6. /\ n \in Nodes(graph) => graph' = Applied(graph, o)
      /\ n \notin Nodes(graph) => graph' = graph
  BY <1>4, <1>5 DEF ParamDrag, o
<1>7. CASE gesture.kind = "param" /\ gesture.id = n /\ gesture' = [gesture EXCEPT !.last = v]
           /\ UNCHANGED <<pending, history, revised>>
  <2>1. Base' = Base /\ undo' = undo /\ redo' = redo /\ pending' = pending
    BY <1>1, <1>7 DEF Base, history
  <2>2. DragFits
    BY <1>2, <1>7 DEF GestureFits, MoveFits, Still
  <2>3. gesture = Drag(n, gesture.start, gesture.last)
    BY <1>7, <2>2 DEF DragFits
  <2>4. gesture' = Drag(n, gesture.start, v)
    BY <1>7, <2>3 DEF Drag
  <2>5. gesture'.kind = "param" /\ gesture'.id = n /\ gesture'.start = gesture.start /\ gesture'.last = v
    BY <2>4 DEF Drag
  <2>6. CASE n \in Nodes(Base)
    <3>1. graph = Applied(Base, SetParam(n, gesture.last)) /\ gesture.start = Base.nodes[n].value
      BY <1>7, <2>2, <2>6 DEF DragFits
    <3>2. Apply(graph, o) = Applied(Base, o)
      BY <1>2, <2>6, <3>1, SetAgain DEF o
    <3>3. n \in Nodes(graph)
      <4>1. Applied(Base, SetParam(n, gesture.last)) = [Base EXCEPT !.nodes[n].value = gesture.last]
        BY DEF Applied, SetParam
      <4>2. Base = [nodes |-> Base.nodes, edges |-> Base.edges]
        BY <1>2 DEF GraphType
      <4> QED BY <2>6, <3>1, <4>1, <4>2 DEF Nodes
    <3>4. graph' = Applied(Base, o)
      BY <1>4, <1>6, <3>2, <3>3
    <3>5. GestureFits'
      BY <2>1, <2>4, <2>5, <2>6, <3>1, <3>4 DEF GestureFits, DragFits, o
    <3> QED BY <1>1, <1>2, <2>1, <3>5 DEF DocumentInv
  <2>7. CASE n \notin Nodes(Base)
    <3>1. graph = Base
      BY <1>7, <2>2, <2>7 DEF DragFits
    <3>2. graph' = Base
      BY <1>6, <2>7, <3>1
    <3>3. GestureFits'
      BY <2>1, <2>4, <2>5, <2>7, <3>2 DEF GestureFits, DragFits
    <3> QED BY <1>1, <1>2, <2>1, <3>3 DEF DocumentInv
  <2> QED BY <2>6, <2>7
<1>8. CASE Record(<< >>) /\ gesture' = Drag(n, start, v)
  <2>1. << >> \in Seq(GraphOp) /\ ApplyAll(graph, << >>) = graph
    BY ApplyAllNone
  <2>2. /\ pending' \in Seq(GraphOp) /\ undo' \in Seq(Nat) /\ redo' \in Seq(Seq(GraphOp))
        /\ Base' = graph /\ GraphOk(Base')
        /\ UndoFits(undo', Len(pending')) /\ RedoFits(Committed', pending', redo')
    BY <1>1, <1>2, <1>8, <2>1, RecordKeeps
  <2>3. gesture'.kind = "param" /\ gesture'.id = n /\ gesture'.start = start /\ gesture'.last = v
        /\ gesture' = Drag(n, start, v)
    BY <1>8 DEF Drag
  <2>4. GestureFits'
    <3>1. n \in Nodes(graph) => start = graph.nodes[n].value
      OBVIOUS
    <3> HIDE DEF start
    <3>2. DragFits'
      BY <1>6, <2>2, <2>3, <3>1 DEF DragFits, o
    <3> QED BY <2>3, <3>2 DEF GestureFits
  <2> QED BY <1>1, <1>2, <2>2, <2>4 DEF DocumentInv
<1> QED BY <1>7, <1>8 DEF ParamDrag

-----------------------------------------------------------------------------

(* A move starts where its nodes are, and ends the gesture before it. *)
LEMMA BeginMoveKeeps ==
  ASSUME DocumentInv, NEW ids \in SUBSET NodeId, BeginMove(ids)
  PROVE  DocumentInv'
<1> DEFINE there == ids \cap Nodes(graph)
           start == [n \in there |-> graph.nodes[n].pos]
<1>1. chain' = chain /\ recovery' = recovery /\ graph' = graph /\ Record(<< >>)
      /\ gesture' = IF there = {} THEN Still ELSE Move(start)
  BY DEF BeginMove
<1>2. GraphOk(graph) /\ GraphType(graph) /\ graph # Refused /\ chain \in Seq(Block) /\ recovery \in Seq(GraphOp)
  BY SettledFits DEF DocumentInv, GraphOk
<1>3. << >> \in Seq(GraphOp) /\ ApplyAll(graph, << >>) = graph
  BY ApplyAllNone
<1>4. /\ pending' \in Seq(GraphOp) /\ undo' \in Seq(Nat) /\ redo' \in Seq(Seq(GraphOp))
      /\ Base' = graph /\ GraphOk(Base')
      /\ UndoFits(undo', Len(pending')) /\ RedoFits(Committed', pending', redo')
  BY <1>1, <1>2, <1>3, RecordKeeps
<1>5. GestureFits'
  <2>1. CASE there = {}
    BY <1>1, <1>4, <2>1 DEF GestureFits
  <2>2. CASE there # {}
    <3>1. gesture' = Move(start) /\ gesture'.kind = "move" /\ gesture'.start = start
      BY <1>1, <2>2 DEF Move
    <3>2. DOMAIN start = there /\ there \subseteq Nodes(graph)
      OBVIOUS
    <3>3. \A n \in there : start[n] = graph.nodes[n].pos /\ graph.nodes[n].pos \in Pos /\ Places'[n] = graph.nodes[n].pos
      BY <1>1, <1>2 DEF GraphType, Node, Places
    <3>4. Placed(graph, Places', there) = graph
      <4>1. graph = [nodes |-> graph.nodes, edges |-> graph.edges] /\ graph.nodes = [n \in Nodes(graph) |-> graph.nodes[n]]
        BY <1>2 DEF GraphType
      <4>2. ASSUME NEW n \in there PROVE [graph.nodes[n] EXCEPT !.pos = Places'[n]] = graph.nodes[n]
        <5>1. graph.nodes[n] = [kind |-> graph.nodes[n].kind, value |-> graph.nodes[n].value, pos |-> graph.nodes[n].pos]
          BY <1>2 DEF GraphType, Node
        <5> QED BY <3>3, <5>1
      <4> HIDE DEF there
      <4> QED BY <4>1, <4>2 DEF Placed
    <3> HIDE DEF start, there
    <3>5. MoveFits'
      BY <1>1, <1>4, <3>1, <3>2, <3>3, <3>4 DEF MoveFits
    <3> QED BY <3>1, <3>5 DEF GestureFits
  <2> QED BY <2>1, <2>2
<1> QED BY <1>1, <1>2, <1>4, <1>5 DEF DocumentInv

(* A node of the move in flight goes on. *)
LEMMA MoveLiveKeeps ==
  ASSUME DocumentInv, NEW n \in NodeId, NEW p \in Pos, MoveLive(n, p)
  PROVE  DocumentInv'
<1> DEFINE D == DOMAIN gesture.start
           next == [m \in Nodes(graph) |-> IF m = n THEN p ELSE Places[m]]
<1>1. /\ gesture.kind = "move" /\ n \in D /\ n \in Nodes(graph)
      /\ graph' = Apply(graph, MoveNode(n, p))
      /\ UNCHANGED <<chain, pending, recovery, undo, redo, gesture>>
  BY DEF MoveLive, ledger, history
<1>2. Base' = Base /\ Committed' = Committed
  BY <1>1 DEF Base, Committed
<1>3. /\ GraphOk(Base) /\ GraphType(Base) /\ GestureFits
      /\ pending \in Seq(GraphOp) /\ undo \in Seq(Nat) /\ redo \in Seq(Seq(GraphOp))
      /\ chain \in Seq(Block) /\ recovery \in Seq(GraphOp)
      /\ UndoFits(undo, Len(pending)) /\ RedoFits(Committed, pending, redo)
  BY DEF DocumentInv, GraphOk
<1>4. MoveFits
  BY <1>1, <1>3 DEF GestureFits, Still
<1>5. /\ D \subseteq Nodes(Base) /\ graph = Placed(Base, Places, D)
      /\ \A m \in D : gesture.start[m] = Base.nodes[m].pos /\ Places[m] \in Pos
  BY <1>4 DEF MoveFits
<1>6. Nodes(graph) = Nodes(Base)
  BY <1>5, PlacedNodes
<1>7. next[n] = p /\ \A m \in D : next[m] = (IF m = n THEN p ELSE Places[m])
  BY <1>1, <1>5, <1>6
<1> HIDE DEF D, next
<1>8. graph' = Placed(Base, next, D)
  <2>1. Apply(Placed(Base, Places, D), MoveNode(n, next[n])) = Placed(Base, next, D \cup {n})
    <3>1. n \in Nodes(Base) /\ \A m \in D \ {n} : next[m] = Places[m]
      BY <1>1, <1>6, <1>7
    <3> QED BY <1>3, <3>1, PlacedAgain
  <2>2. D \cup {n} = D
    BY <1>1
  <2> QED BY <1>1, <1>5, <1>7, <2>1, <2>2
<1>9. Nodes(graph') = Nodes(Base)
  BY <1>8, PlacedNodes
<1>10. \A m \in D : Places'[m] = next[m]
  <2> SUFFICES ASSUME NEW m \in D PROVE Places'[m] = next[m]
    OBVIOUS
  <2>1. m \in Nodes(Base)
    BY <1>5
  <2>2. Places'[m] = graph'.nodes[m].pos
    BY <1>9, <2>1 DEF Places
  <2>3. graph'.nodes[m] = [Base.nodes[m] EXCEPT !.pos = next[m]]
    BY <1>8, <2>1, PlacedNodes
  <2>4. Base.nodes[m] = [kind |-> Base.nodes[m].kind, value |-> Base.nodes[m].value, pos |-> Base.nodes[m].pos]
    BY <1>3, <2>1 DEF GraphType, Node
  <2> QED BY <2>2, <2>3, <2>4
<1>11. Placed(Base, next, D) = Placed(Base, Places', D)
  BY <1>10 DEF Placed
<1>12. MoveFits'
  <2>1. gesture' = Move(gesture'.start)
    BY <1>1, <1>4 DEF MoveFits
  <2>2. DOMAIN gesture'.start = D /\ gesture'.start = gesture.start
    BY <1>1 DEF D
  <2>3. \A m \in D : gesture.start[m] = Base.nodes[m].pos /\ Places'[m] \in Pos
    BY <1>5, <1>7, <1>10
  <2>4. graph' = Placed(Base', Places', D)
    BY <1>2, <1>8, <1>11
  <2> QED BY <1>2, <1>5, <2>1, <2>2, <2>3, <2>4 DEF MoveFits
<1>13. GestureFits'
  BY <1>1, <1>12 DEF GestureFits
<1> QED BY <1>1, <1>2, <1>3, <1>13 DEF DocumentInv

(* The gesture ends. *)
LEMMA EndGestureKeeps ==
  ASSUME DocumentInv, EndGesture PROVE DocumentInv'
BY RefuseKeeps DEF EndGesture

(* Another version is shown: the gesture ends. *)
LEMMA SetViewKeeps ==
  ASSUME DocumentInv, NEW i, SetView(i) PROVE DocumentInv'
BY RefuseKeeps DEF SetView

(* A step that leaves the ledger, the history, the graph and the gesture. *)
LEMMA UnchangedKeeps ==
  ASSUME DocumentInv, UNCHANGED <<chain, pending, undo, redo, graph, gesture>>,
         recovery' \in Seq(GraphOp)
  PROVE  DocumentInv'
<1>1. Base' = Base /\ Committed' = Committed /\ Places' = Places
  BY DEF Base, Committed, Places
<1>2. GestureFits'
  BY <1>1 DEF DocumentInv, GestureFits, DragFits, MoveFits
<1> QED BY <1>1, <1>2 DEF DocumentInv

(* The pending operations become a block. *)
LEMMA CommitKeeps ==
  ASSUME DocumentInv, Commit PROVE DocumentInv'
<1>1. Settled \in Seq(GraphOp) /\ ApplyAll(Committed, Settled) = graph /\ graph # Refused
      /\ chain \in Seq(Block) /\ recovery \in Seq(GraphOp)
  BY SettledFits DEF DocumentInv
<1>2. gesture' = Still /\ recovery' = recovery /\ graph' = graph
  BY DEF Commit
<1> DEFINE block == [by |-> "local", ops |-> Settled]
<1>3. CASE chain' = Append(chain, block) /\ pending' = << >> /\ undo' = << >> /\ redo' = << >>
  <2>1. block \in Block /\ block.ops = Settled
    BY <1>1 DEF Block
  <2> HIDE DEF block
  <2>2. Committed' = ApplyAll(Committed, Settled)
    BY <1>1, <1>3, <2>1, ReplayAppend DEF Committed
  <2>3. Base' = graph
    BY <1>1, <1>3, <2>2, ApplyAllNone DEF Base
  <2>4. chain' \in Seq(Block) /\ pending' \in Seq(GraphOp)
    BY <1>1, <1>3, <2>1
  <2> QED BY <1>1, <1>2, <1>3, <2>3, <2>4, FreshDocument
<1>4. CASE Refuse /\ chain' = chain
  BY <1>2, <1>4, RefuseKeeps
<1> QED BY <1>3, <1>4 DEF Commit

(* A pulled block comes under the pending operations, and those that no longer
   apply are put aside. *)
LEMMA MergeKeeps ==
  ASSUME DocumentInv, NEW ops \in Pulled, MergeRemote(ops) PROVE DocumentInv'
<1> DEFINE base == ApplyAll(Committed, ops)
           block == [by |-> "remote", ops |-> ops]
           result == Rebased(base)
<1>1. /\ Settled \in Seq(GraphOp) /\ chain \in Seq(Block) /\ recovery \in Seq(GraphOp)
      /\ ops \in Seq(GraphOp) /\ gesture' = Still
  BY SettledFits, DocumentAssumption DEF DocumentInv, MergeRemote
<1>2. CASE /\ base # Refused /\ chain' = Append(chain, block)
           /\ graph' = result.graph /\ pending' = result.kept /\ PutAside(result.lost)
           /\ undo' = << >> /\ redo' = << >>
  <2>1. block \in Block /\ block.ops = ops
    BY <1>1 DEF Block
  <2>2. Committed' = base
    <3> HIDE DEF block
    <3> QED BY <1>1, <1>2, <2>1, ReplayAppend DEF Committed
  <2>3. GraphOk(base)
    BY <1>1, <1>2, ReplayOk, ApplyAllOk DEF Committed
  <2> HIDE DEF base
  <2>4. /\ result.kept \in Seq(GraphOp) /\ result.lost \in Seq(GraphOp)
        /\ result.graph = ApplyAll(base, result.kept) /\ GraphOk(result.graph)
    BY <1>1, <2>3, RebasedReplays
  <2> HIDE DEF result
  <2>5. Base' = graph' /\ graph' # Refused
    BY <1>2, <2>2, <2>4, GraphIsNotRefused DEF Base, GraphOk
  <2>6. chain' \in Seq(Block)
    <3> HIDE DEF block
    <3> QED BY <1>1, <1>2, <2>1
  <2>7. recovery' \in Seq(GraphOp)
    BY <1>1, <1>2, <2>4, ConcatProperties DEF PutAside
  <2>8. pending' \in Seq(GraphOp) /\ undo' = << >> /\ redo' = << >>
    BY <1>2, <2>4
  <2> QED BY <1>1, <2>5, <2>6, <2>7, <2>8, FreshDocument
<1>3. CASE Refuse /\ UNCHANGED <<chain, recovery, graph>>
  BY <1>3, RefuseKeeps
<1> QED BY <1>2, <1>3 DEF MergeRemote

(* A pulled chain takes the place of the one here, and of what was pending. *)
LEMMA AdoptKeeps ==
  ASSUME DocumentInv, NEW ops \in Pulled, AdoptRemote(ops) PROVE DocumentInv'
<1> DEFINE block == [by |-> "remote", ops |-> ops]
<1>1. recovery \in Seq(GraphOp) /\ recovery' = recovery /\ ops \in Seq(GraphOp) /\ gesture' = Still
  BY DocumentAssumption DEF DocumentInv, AdoptRemote
<1>2. CASE /\ ApplyAll(EmptyGraph, ops) # Refused /\ chain' = <<block>>
           /\ graph' = ApplyAll(EmptyGraph, ops) /\ pending' = << >> /\ undo' = << >> /\ redo' = << >>
  <2>1. block \in Block /\ block.ops = ops
    BY <1>1 DEF Block
  <2> HIDE DEF block
  <2>2. << >> \in Seq(Block) /\ Len(<< >>) = 0 /\ <<block>> = Append(<< >>, block) /\ <<block>> \in Seq(Block)
    BY <2>1
  <2>3. Replay(<<block>>, Len(<<block>>)) = ApplyAll(Replay(<< >>, 0), ops)
    BY <2>1, <2>2, ReplayAppend
  <2>4. Committed' = graph'
    BY <1>2, <2>3, ReplayNone DEF Committed
  <2>5. Base' = graph'
    BY <1>2, <2>4, ApplyAllNone DEF Base
  <2>6. chain' \in Seq(Block) /\ pending' \in Seq(GraphOp)
    BY <1>2, <2>2
  <2> QED BY <1>1, <1>2, <2>5, <2>6, FreshDocument
<1>3. CASE Refuse /\ UNCHANGED <<chain, graph>>
  BY <1>1, <1>3, RefuseKeeps
<1> QED BY <1>2, <1>3 DEF AdoptRemote

-----------------------------------------------------------------------------

(* A sequence that is not empty is its front and its last element. *)
LEMMA LastApart ==
  ASSUME NEW X, NEW s \in Seq(X), s # << >>
  PROVE  /\ Len(s) \in Nat \ {0} /\ Last(s) \in X /\ Front(s) \in Seq(X)
         /\ s = Append(Front(s), Last(s)) /\ Len(Front(s)) = Len(s) - 1
         /\ \A i \in 1..Len(s) - 1 : Front(s)[i] = s[i]
<1>1. Len(s) \in Nat \ {0}
  BY EmptySeq
<1>2. Last(s) \in X
  BY <1>1 DEF Last
<1>3. /\ Front(s) \in Seq(X) /\ Len(Front(s)) = Len(s) - 1
      /\ \A i \in 1..Len(s) - 1 : Front(s)[i] = s[i]
  <2> DEFINE l == Len(s) - 1
  <2>1. l \in Nat /\ \A i \in 1..l : s[i] \in X
    BY <1>1
  <2> HIDE DEF l
  <2>2. /\ SubSeq(s, 1, l) \in Seq(X) /\ Len(SubSeq(s, 1, l)) = IF 1 <= l THEN l - 1 + 1 ELSE 0
        /\ \A i \in 1..l - 1 + 1 : SubSeq(s, 1, l)[i] = s[1 + i - 1]
    BY <2>1, SubSeqProperties
  <2>3. Len(SubSeq(s, 1, l)) = l /\ \A i \in 1..l : SubSeq(s, 1, l)[i] = s[i]
    BY <2>1, <2>2
  <2>4. Front(s) = SubSeq(s, 1, l)
    BY DEF Front, l
  <2> QED BY <2>2, <2>3, <2>4 DEF l
<1>4. Append(Front(s), Last(s)) \in Seq(X) /\ Len(Append(Front(s), Last(s))) = Len(s)
  BY <1>1, <1>2, <1>3
<1>5. ASSUME NEW i \in 1..Len(s) PROVE s[i] = Append(Front(s), Last(s))[i]
  <2> DEFINE f == Front(s)
             e == Last(s)
             l == Len(s)
  <2>1. f \in Seq(X) /\ e \in X /\ e = s[l] /\ Len(f) = l - 1 /\ l \in Nat \ {0}
        /\ \A j \in 1..l - 1 : f[j] = s[j]
    BY <1>1, <1>2, <1>3 DEF Last
  <2> HIDE DEF f, e, l
  <2>2. Append(f, e)[Len(f) + 1] = e /\ \A j \in 1..Len(f) : Append(f, e)[j] = f[j]
    BY <2>1, AppendProperties
  <2>3. s[i] = Append(f, e)[i]
    <3>1. i = l \/ i \in 1..l - 1
      BY <2>1 DEF l
    <3>2. Len(f) + 1 = l
      BY <2>1
    <3> QED BY <2>1, <2>2, <3>1, <3>2
  <2> QED BY <2>3 DEF f, e
<1>6. s = Append(Front(s), Last(s))
  BY <1>4, <1>5, SeqEqual
<1> QED BY <1>1, <1>2, <1>3, <1>6

(* Concatenation may be grouped either way. *)
LEMMA Regroup ==
  ASSUME NEW X, NEW a \in Seq(X), NEW b \in Seq(X), NEW c \in Seq(X),
         NEW ab, ab = a \o b, NEW bc, bc = b \o c
  PROVE  ab \o c = a \o bc
BY ConcatAssociative

(* A sequence cut in two is its two parts. *)
LEMMA CutApart ==
  ASSUME NEW X, NEW s \in Seq(X), NEW k \in Nat, k < Len(s)
  PROVE  /\ SubSeq(s, 1, k) \in Seq(X) /\ Len(SubSeq(s, 1, k)) = k
         /\ SubSeq(s, k + 1, Len(s)) \in Seq(X) /\ SubSeq(s, k + 1, Len(s)) # << >>
         /\ SubSeq(s, 1, k) \o SubSeq(s, k + 1, Len(s)) = s
<1> DEFINE n == Len(s)
           cut == SubSeq(s, k + 1, n)
<1>1. n \in Nat /\ k < n /\ \A i \in 1..n : s[i] \in X
  OBVIOUS
<1> HIDE DEF n
<1>2. SubSeq(s, 1, k) \in Seq(X) /\ Len(SubSeq(s, 1, k)) = k
  BY <1>1 DEF n
<1>3. cut \in Seq(X) /\ Len(cut) = n - k
  <2>1. k + 1 \in Int /\ n \in Int /\ k + 1 <= n /\ n - (k + 1) + 1 = n - k
    BY <1>1
  <2>2. \A i \in k + 1..n : s[i] \in X
    BY <1>1
  <2> QED BY <2>1, <2>2, SubSeqProperties
<1> HIDE DEF cut
<1>4. SubSeq(s, 1, k) \o cut = SubSeq(s, 1, n)
  <2>1. 1 \in 1..n + 1 /\ k \in 1 - 1..n /\ n \in k..n
    BY <1>1
  <2> QED BY <2>1, ConcatAdjacentSubSeq DEF n, cut
<1>5. SubSeq(s, 1, n) = s
  BY SubSeqFull DEF n
<1>6. cut # << >>
  BY <1>1, <1>3
<1> QED BY <1>2, <1>3, <1>4, <1>5, <1>6 DEF cut, n

(* What undo keeps and what it cuts off are the ledger. *)
LEMMA UndoneApart ==
  ASSUME DocumentInv, SettledUndo # << >>, NEW k, k = Last(SettledUndo)
  PROVE  /\ k \in Nat /\ SubSeq(Settled, 1, k) \in Seq(GraphOp) /\ Len(SubSeq(Settled, 1, k)) = k
         /\ SubSeq(Settled, k + 1, Len(Settled)) \in Seq(GraphOp)
         /\ SubSeq(Settled, k + 1, Len(Settled)) # << >>
         /\ SubSeq(Settled, 1, k) \o SubSeq(Settled, k + 1, Len(Settled)) = Settled
<1> DEFINE l == Len(SettledUndo)
           n == Len(Settled)
<1>1. Settled \in Seq(GraphOp) /\ SettledUndo \in Seq(Nat) /\ UndoFits(SettledUndo, n)
  BY SettledFits
<1>2. l \in Nat \ {0} /\ k \in Nat /\ k = SettledUndo[l] /\ DOMAIN SettledUndo = 1..l
  <2>1. DOMAIN SettledUndo = 1..l /\ k = SettledUndo[l]
    BY <1>1 DEF Last
  <2> QED BY <1>1, <2>1, LastApart
<1> HIDE DEF l, n
<1>3. k < n
  <2>1. l \in DOMAIN SettledUndo
    BY <1>2
  <2>2. SettledUndo[l] < n
    BY <1>1, <2>1 DEF UndoFits
  <2> QED BY <1>2, <2>2
<1>4. k < Len(Settled)
  BY <1>3 DEF n
<1> QED BY <1>1, <1>2, <1>4, CutApart

(* Undo cuts the pending operations at the last place it goes back to, and what
   it cuts off is redone first. *)
LEMMA UndoKeeps ==
  ASSUME DocumentInv, UndoPending PROVE DocumentInv'
<1> DEFINE kept == IF SettledUndo = << >> THEN Settled ELSE SubSeq(Settled, 1, Last(SettledUndo))
           undone == SubSeq(Settled, Len(kept) + 1, Len(Settled))
<1>1. /\ Settled \in Seq(GraphOp) /\ SettledUndo \in Seq(Nat) /\ UndoFits(SettledUndo, Len(Settled))
      /\ SettledRedo \in Seq(Seq(GraphOp)) /\ RedoFits(Committed, Settled, SettledRedo)
      /\ chain \in Seq(Block) /\ recovery \in Seq(GraphOp)
  BY SettledFits DEF DocumentInv
<1>2. chain' = chain /\ recovery' = recovery /\ gesture' = Still /\ Committed' = Committed
  BY DEF UndoPending, Committed
<1>3. CASE /\ SettledUndo # << >> /\ ApplyAll(Committed, kept) # Refused
           /\ graph' = ApplyAll(Committed, kept) /\ pending' = kept
           /\ undo' = Front(SettledUndo) /\ redo' = Append(SettledRedo, undone)
  <2> DEFINE k == Last(SettledUndo)
             l == Len(SettledUndo)
             n == Len(Settled)
  <2>1. /\ l \in Nat \ {0} /\ k \in Nat /\ k = SettledUndo[l]
        /\ Front(SettledUndo) \in Seq(Nat) /\ Len(Front(SettledUndo)) = l - 1
        /\ \A i \in 1..l - 1 : Front(SettledUndo)[i] = SettledUndo[i]
        /\ DOMAIN SettledUndo = 1..l
    <3>1. DOMAIN SettledUndo = 1..l /\ k = SettledUndo[l]
      BY <1>1 DEF Last
    <3> HIDE DEF kept, undone
    <3>2. SettledUndo # << >>
      BY <1>3
    <3> QED BY <1>1, <3>1, <3>2, LastApart
  <2>2. /\ SubSeq(Settled, 1, k) \in Seq(GraphOp) /\ Len(SubSeq(Settled, 1, k)) = k
        /\ SubSeq(Settled, k + 1, n) \in Seq(GraphOp) /\ SubSeq(Settled, k + 1, n) # << >>
        /\ SubSeq(Settled, 1, k) \o SubSeq(Settled, k + 1, n) = Settled
    <3> HIDE DEF kept, undone
    <3>1. SettledUndo # << >>
      BY <1>3
    <3> QED BY <3>1, UndoneApart
  <2>3. kept = SubSeq(Settled, 1, k)
    BY <1>3
  <2> HIDE DEF k, l, n, kept
  <2>4. kept \in Seq(GraphOp) /\ Len(kept) = k
    BY <2>2, <2>3
  <2>5. undone \in Seq(GraphOp) /\ undone # << >> /\ kept \o undone = Settled
    <3>1. undone = SubSeq(Settled, k + 1, n)
      BY <2>4 DEF n
    <3> QED BY <2>2, <2>3, <3>1
  <2> HIDE DEF undone
  <2>6. Base' = graph' /\ GraphOk(Base')
    BY <1>1, <1>2, <1>3, <2>4, ReplaysOk DEF Base, Committed
  <2>7. GestureFits'
    BY <1>2, <2>6 DEF GestureFits
  <2>8. UndoFits(undo', Len(pending'))
    <3> DEFINE u == Front(SettledUndo)
    <3>1. u \in Seq(Nat) /\ Len(u) = l - 1 /\ \A i \in 1..l - 1 : u[i] = SettledUndo[i]
      BY <2>1
    <3> HIDE DEF u
    <3>2. DOMAIN u = 1..l - 1
      BY <3>1
    <3>3. ASSUME NEW i \in 1..l - 1 PROVE u[i] < k
      <4>1. i \in DOMAIN SettledUndo /\ l \in DOMAIN SettledUndo /\ i < l
        BY <2>1
      <4>2. SettledUndo[i] < SettledUndo[l]
        BY <1>1, <4>1 DEF UndoFits
      <4> QED BY <2>1, <3>1, <4>2
    <3>4. ASSUME NEW i \in 1..l - 1, NEW j \in 1..l - 1, i < j PROVE u[i] < u[j]
      <4>1. i \in DOMAIN SettledUndo /\ j \in DOMAIN SettledUndo
        BY <2>1
      <4>2. SettledUndo[i] < SettledUndo[j]
        BY <1>1, <3>4, <4>1 DEF UndoFits
      <4> QED BY <3>1, <4>2
    <3>5. UndoFits(u, k)
      BY <3>2, <3>3, <3>4 DEF UndoFits
    <3> QED BY <1>3, <2>4, <3>5 DEF u
  <2>9. redo' \in Seq(Seq(GraphOp)) /\ RedoFits(Committed', pending', redo')
    <3> DEFINE r == Append(SettledRedo, undone)
               m == Len(SettledRedo)
    <3>1. m \in Nat /\ DOMAIN SettledRedo = 1..m /\ r \in Seq(Seq(GraphOp)) /\ DOMAIN r = 1..m + 1
          /\ r[m + 1] = undone /\ \A i \in 1..m : r[i] = SettledRedo[i]
      BY <1>1, <2>5
    <3>2. Again(SettledRedo) \in Seq(GraphOp) /\ Again(r) = undone \o Again(SettledRedo)
      BY <1>1, <2>5, AgainAppend
    <3> HIDE DEF r, m
    <3>3. kept \o Again(r) = Settled \o Again(SettledRedo)
      <4> DEFINE A == Again(SettledRedo)
                 B == Again(r)
      <4>1. A \in Seq(GraphOp) /\ B = undone \o A /\ Settled = kept \o undone
            /\ kept \in Seq(GraphOp) /\ undone \in Seq(GraphOp)
        BY <2>4, <2>5, <3>2
      <4> HIDE DEF A, B
      <4>2. Settled \o A = kept \o B
        BY <4>1, Regroup
      <4> QED BY <4>2 DEF A, B
    <3>4. \A i \in DOMAIN r : r[i] # << >>
      <4> SUFFICES ASSUME NEW i \in 1..m + 1 PROVE r[i] # << >>
        BY <3>1
      <4>1. CASE i = m + 1
        BY <2>5, <3>1, <4>1
      <4>2. CASE i \in 1..m
        BY <1>1, <3>1, <4>2 DEF RedoFits
      <4> QED BY <3>1, <4>1, <4>2
    <3>5. RedoFits(Committed, kept, r)
      BY <1>1, <3>3, <3>4 DEF RedoFits
    <3> QED BY <1>2, <1>3, <3>1, <3>5 DEF r
  <2> QED BY <1>1, <1>2, <1>3, <2>1, <2>4, <2>6, <2>7, <2>8, <2>9 DEF DocumentInv
<1>4. CASE Refuse /\ graph' = graph
  BY <1>2, <1>4, RefuseKeeps
<1> QED BY <1>3, <1>4 DEF UndoPending

(* Redo brings back the batch that was undone last, at the end it was cut from. *)
LEMMA RedoKeeps ==
  ASSUME DocumentInv, RedoPending PROVE DocumentInv'
<1> DEFINE again == IF SettledRedo = << >> THEN Settled ELSE Settled \o Last(SettledRedo)
<1>1. /\ Settled \in Seq(GraphOp) /\ SettledUndo \in Seq(Nat) /\ UndoFits(SettledUndo, Len(Settled))
      /\ SettledRedo \in Seq(Seq(GraphOp)) /\ RedoFits(Committed, Settled, SettledRedo)
      /\ chain \in Seq(Block) /\ recovery \in Seq(GraphOp)
  BY SettledFits DEF DocumentInv
<1>2. chain' = chain /\ recovery' = recovery /\ gesture' = Still /\ Committed' = Committed
  BY DEF RedoPending, Committed
<1>3. CASE /\ SettledRedo # << >> /\ ApplyAll(Committed, again) # Refused
           /\ graph' = ApplyAll(Committed, again) /\ pending' = again
           /\ undo' = Append(SettledUndo, Len(Settled)) /\ redo' = Front(SettledRedo)
  <2> DEFINE last == Last(SettledRedo)
             rest == Front(SettledRedo)
             m == Len(SettledRedo)
  <2>1. /\ m \in Nat \ {0} /\ last \in Seq(GraphOp) /\ rest \in Seq(Seq(GraphOp))
        /\ SettledRedo = Append(rest, last) /\ Len(rest) = m - 1
        /\ \A i \in 1..m - 1 : rest[i] = SettledRedo[i]
    BY <1>1, <1>3, LastApart
  <2>2. last # << >>
    <3>1. m \in DOMAIN SettledRedo
      BY <1>1, <2>1
    <3> QED BY <1>1, <3>1 DEF RedoFits, Last
  <2>3. again = Settled \o last
    BY <1>3
  <2>4. DOMAIN rest = 1..m - 1 /\ DOMAIN SettledRedo = 1..m
    BY <1>1, <2>1
  <2> HIDE DEF last, rest, m, again
  <2>5. /\ again \in Seq(GraphOp) /\ Len(Settled) \in Nat /\ Len(again) \in Nat
        /\ Len(again) > Len(Settled)
    <3>1. Len(last) \in Nat \ {0} /\ Len(Settled) \in Nat
      BY <1>1, <2>1, <2>2, EmptySeq
    <3>2. again \in Seq(GraphOp) /\ Len(again) = Len(Settled) + Len(last)
      BY <1>1, <2>1, <2>3, ConcatProperties
    <3> QED BY <3>1, <3>2
  <2>6. Base' = graph' /\ GraphOk(Base')
    BY <1>1, <1>2, <1>3, <2>5, ReplaysOk DEF Base, Committed
  <2>7. GestureFits'
    BY <1>2, <2>6 DEF GestureFits
  <2>8. undo' \in Seq(Nat) /\ UndoFits(undo', Len(pending'))
    BY <1>1, <1>3, <2>5, UndoMore
  <2>9. RedoFits(Committed', pending', redo')
    <3>1. Again(rest) \in Seq(GraphOp) /\ Again(SettledRedo) = last \o Again(rest)
      BY <2>1, AgainAppend
    <3>2. again \o Again(rest) = Settled \o Again(SettledRedo)
      <4> DEFINE A == Again(rest)
                 B == Again(SettledRedo)
      <4>1. A \in Seq(GraphOp) /\ B = last \o A /\ again = Settled \o last
            /\ Settled \in Seq(GraphOp) /\ last \in Seq(GraphOp)
        BY <1>1, <2>1, <2>3, <3>1
      <4> HIDE DEF A, B
      <4>2. again \o A = Settled \o B
        BY <4>1, Regroup
      <4> QED BY <4>2 DEF A, B
    <3>3. \A i \in DOMAIN rest : rest[i] # << >>
      <4> SUFFICES ASSUME NEW i \in 1..m - 1 PROVE rest[i] # << >>
        BY <2>4
      <4>1. i \in DOMAIN SettledRedo
        BY <2>1, <2>4
      <4>2. SettledRedo[i] # << >>
        BY <1>1, <4>1 DEF RedoFits
      <4> QED BY <2>1, <4>2
    <3>4. RedoFits(Committed, again, rest)
      BY <1>1, <3>2, <3>3 DEF RedoFits
    <3> QED BY <1>2, <1>3, <3>4 DEF rest
  <2>10. redo' \in Seq(Seq(GraphOp))
    BY <1>3, <2>1 DEF rest
  <2> QED BY <1>1, <1>2, <1>3, <2>5, <2>6, <2>7, <2>8, <2>9, <2>10 DEF DocumentInv
<1>4. CASE Refuse /\ graph' = graph
  BY <1>2, <1>4, RefuseKeeps
<1> QED BY <1>3, <1>4 DEF RedoPending

-----------------------------------------------------------------------------

(* A snapshot on disk that opens. *)
SnapshotOpens(snapshot) ==
  /\ snapshot.chain \in Seq(Block)
  /\ snapshot.pending \in Seq(GraphOp) /\ snapshot.recovery \in Seq(GraphOp)
  /\ Restored(snapshot) # Refused

(* The invariant of the document and of the file it is saved in. *)
WorkspaceInv == DocumentInv /\ SnapshotOpens(saved)

(* A snapshot that opens is opened as a document with nothing to undo. *)
LEMMA RestoreKeeps ==
  ASSUME NEW snapshot, SnapshotOpens(snapshot), Restore(snapshot)
  PROVE  DocumentInv'
<1>1. /\ chain' = snapshot.chain /\ pending' = snapshot.pending /\ recovery' = snapshot.recovery
      /\ graph' = Restored(snapshot) /\ undo' = << >> /\ redo' = << >> /\ gesture' = Still
  BY DEF Restore
<1>2. Base' = graph'
  BY <1>1 DEF Base, Committed, Restored
<1> QED BY <1>1, <1>2, FreshDocument DEF SnapshotOpens

(* What is saved of a document at any time, or left by it, opens. *)
LEMMA DocumentOpens ==
  ASSUME DocumentInv PROVE SnapshotOpens(Snapshot) /\ SnapshotOpens(Left)
<1>1. /\ chain \in Seq(Block) /\ pending \in Seq(GraphOp) /\ recovery \in Seq(GraphOp)
      /\ Base # Refused
  BY GraphIsNotRefused DEF DocumentInv, GraphOk
<1>2. Settled \in Seq(GraphOp) /\ ApplyAll(Committed, Settled) # Refused
  BY SettledFits
<1>3. SnapshotOpens(Snapshot)
  BY <1>1 DEF Snapshot, SnapshotOpens, Restored, Base, Committed
<1>4. SnapshotOpens(Left)
  BY <1>1, <1>2 DEF Left, Snapshot, SnapshotOpens, Restored, Committed
<1> QED BY <1>3, <1>4

(* Whatever the user, the remote and the timers do, one step at a time. *)
LEMMA NextKeeps ==
  ASSUME DocumentInv, Next PROVE DocumentInv'
<1>1. ASSUME NEW ops \in Edits, ApplyOps(ops) PROVE DocumentInv'
  BY <1>1, ApplyOpsKeeps, DocumentAssumption
<1>2. ASSUME NEW n \in NodeId, NEW v \in Value, ParamDrag(n, v) PROVE DocumentInv'
  BY <1>2, ParamDragKeeps
<1>3. ASSUME NEW ids \in SUBSET NodeId, BeginMove(ids) PROVE DocumentInv'
  BY <1>3, BeginMoveKeeps
<1>4. ASSUME NEW n \in NodeId, NEW p \in Pos, MoveLive(n, p) PROVE DocumentInv'
  BY <1>4, MoveLiveKeeps
<1>5. CASE EndGesture
  BY <1>5, EndGestureKeeps
<1>6. CASE UndoPending
  BY <1>6, UndoKeeps
<1>7. CASE RedoPending
  BY <1>7, RedoKeeps
<1>8. ASSUME NEW i \in 0..MaxBlocks, SetView(i) PROVE DocumentInv'
  BY <1>8, SetViewKeeps
<1>9. CASE Commit
  BY <1>9, CommitKeeps
<1>10. ASSUME NEW ops \in Pulled, MergeRemote(ops) PROVE DocumentInv'
  BY <1>10, MergeKeeps
<1>11. ASSUME NEW ops \in Pulled, AdoptRemote(ops) PROVE DocumentInv'
  BY <1>11, AdoptKeeps
<1>12. CASE RetryRecovery
  BY <1>12, RetryKeeps
<1>13. CASE ClearRecovery
  <2>1. recovery' \in Seq(GraphOp)
    BY <1>13 DEF ClearRecovery
  <2> QED BY <1>13, <2>1, UnchangedKeeps DEF ClearRecovery, history
<1>14. CASE Evaluate
  <2>1. recovery' \in Seq(GraphOp)
    BY <1>14 DEF Evaluate, ledger, DocumentInv
  <2> QED BY <1>14, <2>1, UnchangedKeeps DEF Evaluate, ledger, history
<1>15. CASE Frame
  <2>1. recovery' \in Seq(GraphOp)
    BY <1>15 DEF Frame, ledger, DocumentInv
  <2> QED BY <1>15, <2>1, UnchangedKeeps DEF Frame, ledger, history
<1> QED BY <1>1, <1>2, <1>3, <1>4, <1>5, <1>6, <1>7, <1>8, <1>9, <1>10, <1>11, <1>12, <1>13, <1>14, <1>15 DEF Next

(* The invariant: the drag in flight is told apart from what is recorded, what
   is recorded, undone and to be redone replays, and the file on disk opens. *)
THEOREM WorkspaceInvariant == WorkspaceSpec => []WorkspaceInv
<1>1. OpenWorkspace => WorkspaceInv
  <2> SUFFICES ASSUME OpenWorkspace PROVE WorkspaceInv
    OBVIOUS
  <2>1. /\ chain = << >> /\ pending = << >> /\ recovery = << >> /\ undo = << >> /\ redo = << >>
        /\ graph = EmptyGraph /\ gesture = Still /\ saved = Snapshot
    BY DEF OpenWorkspace, Init
  <2>2. Committed = EmptyGraph /\ Base = EmptyGraph
    BY <2>1, ReplayNone, ApplyAllNone DEF Base, Committed
  <2>3. /\ << >> \in Seq(Block) /\ << >> \in Seq(GraphOp) /\ << >> \in Seq(Nat)
        /\ << >> \in Seq(Seq(GraphOp)) /\ DOMAIN << >> = {}
    OBVIOUS
  <2>4. GraphOk(EmptyGraph) /\ EmptyGraph # Refused
    BY EmptyIsOk, GraphIsNotRefused DEF GraphOk
  <2>5. << >> \o Again(<< >>) = << >>
    BY AgainNone, ConcatEmptySeq
  <2>6. UndoFits(undo, Len(pending))
    BY <2>1, <2>3 DEF UndoFits
  <2>7. RedoFits(Committed, pending, redo)
    BY <2>1, <2>2, <2>3, <2>4, <2>5, ApplyAllNone DEF RedoFits
  <2>8. GestureFits
    BY <2>1, <2>2 DEF GestureFits
  <2>9. DocumentInv
    BY <2>1, <2>2, <2>3, <2>4, <2>6, <2>7, <2>8 DEF DocumentInv
  <2> QED BY <2>1, <2>9, DocumentOpens DEF WorkspaceInv
<1>2. WorkspaceInv /\ [Step]_workspaceVars => WorkspaceInv'
  <2> SUFFICES ASSUME WorkspaceInv, [Step]_workspaceVars PROVE WorkspaceInv'
    OBVIOUS
  <2>1. DocumentInv /\ SnapshotOpens(saved) /\ SnapshotOpens(Snapshot) /\ SnapshotOpens(Left)
    BY DocumentOpens DEF WorkspaceInv
  <2>2. ASSUME saved' = saved PROVE SnapshotOpens(saved)'
    BY <2>1, <2>2 DEF SnapshotOpens, Restored
  <2>3. CASE Next /\ UNCHANGED saved
    BY <2>1, <2>2, <2>3, NextKeeps DEF WorkspaceInv
  <2>4. CASE Autosave
    <3>1. UNCHANGED <<chain, pending, undo, redo, graph, gesture>> /\ recovery' = recovery /\ saved' = Snapshot
      BY <2>4 DEF Autosave, ledger, history
    <3>2. DocumentInv'
      BY <2>1, <3>1, UnchangedKeeps DEF DocumentInv
    <3>3. SnapshotOpens(saved)'
      BY <2>1, <3>1 DEF SnapshotOpens, Restored
    <3> QED BY <3>2, <3>3 DEF WorkspaceInv
  <2>5. CASE Crash
    BY <2>1, <2>2, <2>5, RestoreKeeps DEF Crash, WorkspaceInv
  <2>6. CASE Reopen
    <3>1. DocumentInv'
      BY <2>1, <2>6, RestoreKeeps DEF Reopen
    <3>2. SnapshotOpens(saved)'
      BY <2>1, <2>6 DEF Reopen, SnapshotOpens, Restored
    <3> QED BY <3>1, <3>2 DEF WorkspaceInv
  <2>7. CASE UNCHANGED workspaceVars
    <3>1. UNCHANGED <<chain, pending, undo, redo, graph, gesture>> /\ recovery' = recovery /\ saved' = saved
      BY <2>7 DEF workspaceVars, vars, ledger, history
    <3>2. DocumentInv'
      BY <2>1, <3>1, UnchangedKeeps DEF DocumentInv
    <3> QED BY <2>2, <3>1, <3>2 DEF WorkspaceInv
  <2> QED BY <2>3, <2>4, <2>5, <2>6, <2>7 DEF Step
<1> QED BY <1>1, <1>2, PTL DEF WorkspaceSpec

(* The graph on the screen is at every moment what the blocks and the pending
   operations, with those of the gesture in flight, replay to:
   a commit or a save at that moment writes what is drawn. *)
THEOREM LedgerIsTheModel == WorkspaceSpec => []LedgerGivesGraph
<1>1. WorkspaceInv => LedgerGivesGraph
  BY SettledFits DEF WorkspaceInv, LedgerGivesGraph
<1> QED BY <1>1, WorkspaceInvariant, PTL

(* Undo goes back to ever earlier ends of the pending operations, and the batches
   undone can all be redone, in order, after any edits, merges and restarts. *)
THEOREM UndoAndRedoWork == WorkspaceSpec => []HistoryReplays
<1>1. WorkspaceInv => HistoryReplays
  <2> SUFFICES ASSUME WorkspaceInv PROVE HistoryReplays
    OBVIOUS
  <2>1. RedoFits(Committed, Settled, SettledRedo) /\ RedoFits(Committed, pending, redo)
        /\ UndoFits(undo, Len(pending))
    BY SettledFits DEF WorkspaceInv, DocumentInv
  <2> QED BY <2>1 DEF HistoryReplays, RedoFits, UndoFits, Again
<1> QED BY <1>1, WorkspaceInvariant, PTL

(* The file that autosave left replays whenever the program starts again, after
   a crash at any moment. *)
THEOREM SavedAlwaysOpens == WorkspaceSpec => []SavedOpens
<1>1. WorkspaceInv => SavedOpens
  BY DEF WorkspaceInv, SnapshotOpens, SavedOpens
<1> QED BY <1>1, WorkspaceInvariant, PTL

(* The graph the user edits has no loose wire, no input with two wires and no
   cycle, whatever is applied, dragged, undone, merged, adopted or reopened. *)
THEOREM DocumentStaysWellFormed == WorkspaceSpec => []WellFormed(graph)
<1>1. WorkspaceInv => WellFormed(graph)
  BY SettledFits DEF WorkspaceInv, GraphOk
<1> QED BY <1>1, WorkspaceInvariant, PTL

-----------------------------------------------------------------------------

(* How often an operation occurs in an empty list, and in one more. *)
LEMMA CountNone ==
  ASSUME NEW o PROVE Count(o, << >>) = 0
<1>1. {i \in DOMAIN << >> : << >>[i] = o} = {}
  OBVIOUS
<1> QED BY <1>1, FS_EmptySet DEF Count

(* An element more counts once, if it is the one that is counted. *)
LEMMA CountAppend ==
  ASSUME NEW X, NEW s \in Seq(X), NEW e \in X, NEW o
  PROVE  /\ Count(o, s) \in Nat
         /\ Count(o, Append(s, e)) = IF e = o THEN Count(o, s) + 1 ELSE Count(o, s)
<1> DEFINE n == Len(s)
           a == Append(s, e)
           A == {i \in 1..n : s[i] = o}
           B == {i \in 1..n + 1 : a[i] = o}
<1>1. n \in Nat /\ DOMAIN s = 1..n /\ DOMAIN a = 1..n + 1 /\ a[n + 1] = e /\ \A i \in 1..n : a[i] = s[i]
  OBVIOUS
<1> HIDE DEF n, a
<1>2. IsFiniteSet(1..n)
  BY <1>1, FS_Interval
<1>3. IsFiniteSet(A)
  BY <1>2, FS_Subset
<1>4. Cardinality(A) \in Nat
  BY <1>3, FS_CardinalityType
<1>5. n + 1 \notin A /\ B = IF e = o THEN A \cup {n + 1} ELSE A
  BY <1>1
<1> HIDE DEF A, B
<1>6. Cardinality(A \cup {n + 1}) = Cardinality(A) + 1
  BY <1>3, <1>5, FS_AddElement
<1>7. Count(o, s) = Cardinality(A) /\ Count(o, a) = Cardinality(B)
  BY <1>1 DEF Count, A, B
<1> QED BY <1>4, <1>5, <1>6, <1>7 DEF a

(* Two lists one after the other hold what each holds. *)
LEMMA CountConcat ==
  ASSUME NEW X, NEW s \in Seq(X), NEW t \in Seq(X), NEW o
  PROVE  /\ Count(o, s) \in Nat /\ Count(o, t) \in Nat
         /\ Count(o, s \o t) = Count(o, s) + Count(o, t)
<1> DEFINE Q == {q \in Seq(X) : /\ Count(o, q) \in Nat
                                /\ Count(o, s \o q) = Count(o, s) + Count(o, q)}
           N == {q \in Seq(X) : Count(o, q) \in Nat}
<1>1. Seq(X) \subseteq N
  <2>1. << >> \in N
    BY CountNone
  <2>2. ASSUME NEW q \in Seq(X), NEW e \in X, q \in N PROVE Append(q, e) \in N
    <3>1. Append(q, e) \in Seq(X)
      OBVIOUS
    <3> QED BY <3>1, CountAppend
  <2> HIDE DEF N
  <2> QED BY <2>1, <2>2, SeqCounting
<1>2. Count(o, s) \in Nat
  BY <1>1
<1>3. << >> \in Q
  BY <1>2, CountNone, ConcatEmptySeq
<1>4. ASSUME NEW q \in Seq(X), NEW e \in X, q \in Q PROVE Append(q, e) \in Q
  <2>1. s \o Append(q, e) = Append(s \o q, e) /\ s \o q \in Seq(X) /\ Append(q, e) \in Seq(X)
    OBVIOUS
  <2>2. Count(o, Append(s \o q, e)) = IF e = o THEN Count(o, s \o q) + 1 ELSE Count(o, s \o q)
    BY <2>1, CountAppend
  <2>3. Count(o, Append(q, e)) = IF e = o THEN Count(o, q) + 1 ELSE Count(o, q)
    BY CountAppend
  <2>4. Count(o, s \o q) = Count(o, s) + Count(o, q) /\ Count(o, q) \in Nat
    BY <1>4
  <2>5. Count(o, Append(q, e)) \in Nat
    BY <2>3, <2>4
  <2>6. Count(o, Append(s \o q, e)) = Count(o, s) + Count(o, Append(q, e))
    BY <1>2, <2>2, <2>3, <2>4
  <2> QED BY <2>1, <2>5, <2>6
<1> HIDE DEF Q
<1>5. Seq(X) \subseteq Q
  BY <1>3, <1>4, SeqCounting
<1> QED BY <1>2, <1>5 DEF Q

(* The operations of the last batch come last. *)
LEMMA FlattenLast ==
  ASSUME NEW X, NEW u \in Seq(X), NEW s \in Seq(Seq(X))
  PROVE  FlattenSeq(s) \in Seq(X) /\ FlattenSeq(Append(s, u)) = FlattenSeq(s) \o u
<1> DEFINE n == Len(s)
           t == Append(s, u)
<1>1. n \in Nat /\ Len(t) = n + 1 /\ t[n + 1] = u /\ \A i \in 1..n : t[i] = s[i]
  OBVIOUS
<1>2. FlattenSeq(s) \in Seq(X)
  BY FlattenFirst
<1> HIDE DEF t
<1>3. Len(t) \in Nat /\ Len(t) # 0
  BY <1>1
<1>4. PICK h : FlatRuns(h, t, n + 1) /\ FlattenSeq(t) = h[n + 1]
  BY <1>1, <1>3, FlattenRuns
<1>5. \A i \in 1..n + 1 : h[i] = IF i = 1 THEN t[i] ELSE Joined(h[i - 1], t[i])
  BY <1>4 DEF FlatRuns
<1>6. CASE n = 0
  <2>1. s = << >>
    BY <1>6, EmptySeq
  <2>2. FlattenSeq(t) = u
    BY <1>1, <1>4, <1>5, <1>6
  <2>3. FlattenSeq(s) = << >> /\ << >> \o u = u
    BY <2>1, FlattenNone, ConcatEmptySeq
  <2> QED BY <1>2, <2>2, <2>3 DEF t
<1>7. CASE n # 0
  <2>1. PICK f : FlatRuns(f, s, n) /\ FlattenSeq(s) = f[n]
    BY <1>1, <1>7, FlattenRuns
  <2> HIDE DEF n
  <2> DEFINE S == {k \in Nat : k + 1 <= n => h[k + 1] = f[k + 1]}
  <2>2. \A i \in 1..n : f[i] = IF i = 1 THEN s[i] ELSE Joined(f[i - 1], s[i])
    BY <2>1 DEF FlatRuns
  <2>3. 0 \in S
    <3>1. 1 \in 1..n /\ 1 \in 1..n + 1
      BY <1>1, <1>7
    <3>2. h[1] = t[1] /\ f[1] = s[1] /\ t[1] = s[1]
      BY <1>1, <1>5, <2>2, <3>1
    <3> QED BY <3>2
  <2>4. ASSUME NEW k \in Nat, k \in S PROVE k + 1 \in S
    <3>1. (k + 1) + 1 = k + 2 /\ k + 1 \in Nat
      OBVIOUS
    <3> SUFFICES ASSUME k + 2 <= n PROVE h[k + 2] = f[k + 2]
      BY <3>1, Zenon
    <3>2. k + 2 \in 1..n /\ k + 2 \in 1..n + 1 /\ (k + 2) - 1 = k + 1 /\ k + 1 <= n /\ k + 2 # 1
      BY <1>1
    <3>3. h[k + 1] = f[k + 1]
      BY <2>4, <3>2
    <3>4. h[k + 2] = Joined(h[k + 1], t[k + 2]) /\ f[k + 2] = Joined(f[k + 1], s[k + 2])
      BY <1>5, <2>2, <3>2
    <3> QED BY <1>1, <3>2, <3>3, <3>4
  <2> HIDE DEF S
  <2>5. Nat \subseteq S
    BY <2>3, <2>4, Counting
  <2>6. h[n] = f[n]
    <3>1. n - 1 \in Nat /\ (n - 1) + 1 = n /\ n <= n
      BY <1>1, <1>7
    <3>2. n - 1 \in S
      BY <2>5, <3>1
    <3> QED BY <3>1, <3>2 DEF S
  <2>7. h[n + 1] = Joined(h[n], t[n + 1])
    <3>1. n + 1 \in 1..n + 1 /\ n + 1 # 1 /\ (n + 1) - 1 = n
      BY <1>1, <1>7
    <3> QED BY <1>5, <3>1
  <2>8. FlattenSeq(t) = FlattenSeq(s) \o u
    BY <1>1, <1>4, <2>1, <2>6, <2>7 DEF Joined
  <2> QED BY <1>2, <2>8 DEF t
<1> QED BY <1>6, <1>7

-----------------------------------------------------------------------------

(* The operations of the blocks that were signed here. *)
Own(blocks) ==
  FlattenSeq([i \in DOMAIN blocks |-> IF blocks[i].by = "local" THEN blocks[i].ops ELSE << >>])

(* No blocks hold no operations. *)
LEMMA OwnNone == Own(<< >>) = << >>
<1>1. [i \in DOMAIN << >> |-> IF << >>[i].by = "local" THEN << >>[i].ops ELSE << >>] = << >>
  OBVIOUS
<1> QED BY <1>1, FlattenNone DEF Own

(* One block more adds its operations, if it was signed here. *)
LEMMA OwnAppend ==
  ASSUME NEW c \in Seq(Block), NEW b \in Block
  PROVE  /\ Own(c) \in Seq(GraphOp)
         /\ Own(Append(c, b)) = Own(c) \o (IF b.by = "local" THEN b.ops ELSE << >>)
<1> DEFINE of(x) == IF x.by = "local" THEN x.ops ELSE << >>
           n == Len(c)
           a == Append(c, b)
           s == [i \in DOMAIN c |-> of(c[i])]
           t == [i \in DOMAIN a |-> of(a[i])]
<1>1. /\ n \in Nat /\ DOMAIN c = 1..n /\ DOMAIN a = 1..n + 1 /\ a[n + 1] = b
      /\ \A i \in 1..n : a[i] = c[i] /\ c[i] \in Block
  OBVIOUS
<1>2. \A x \in Block : of(x) \in Seq(GraphOp)
  BY DEF Block
<1> HIDE DEF n, a, of
<1>3. s \in Seq(Seq(GraphOp)) /\ Len(s) = n /\ of(b) \in Seq(GraphOp)
  BY <1>1, <1>2
<1>4. t \in Seq(Seq(GraphOp)) /\ Len(t) = n + 1
  BY <1>1, <1>2
<1>5. t = Append(s, of(b))
  <2>1. Append(s, of(b)) \in Seq(Seq(GraphOp)) /\ Len(Append(s, of(b))) = n + 1
    BY <1>1, <1>3
  <2>2. ASSUME NEW i \in 1..n + 1 PROVE t[i] = Append(s, of(b))[i]
    <3>1. CASE i = n + 1
      BY <1>1, <1>3, <3>1
    <3>2. CASE i \in 1..n
      BY <1>1, <1>3, <3>2
    <3>3. i = n + 1 \/ i \in 1..n
      BY <1>1
    <3> QED BY <3>1, <3>2, <3>3
  <2> HIDE DEF s, t
  <2> QED BY <1>4, <2>1, <2>2, SeqEqual
<1>6. FlattenSeq(s) \in Seq(GraphOp) /\ FlattenSeq(t) = FlattenSeq(s) \o of(b)
  BY <1>3, <1>5, FlattenLast
<1>7. Own(c) = FlattenSeq(s) /\ Own(a) = FlattenSeq(t)
  BY DEF Own, of
<1> QED BY <1>6, <1>7 DEF a, of

(* What was authored is counted where it is. *)
LEMMA CountAuthored ==
  ASSUME NEW c \in Seq(Block), NEW p \in Seq(GraphOp), NEW r \in Seq(GraphOp), NEW o
  PROVE  /\ Own(c) \in Seq(GraphOp) /\ Authored(c, p, r) \in Seq(GraphOp)
         /\ Count(o, Own(c)) \in Nat /\ Count(o, p) \in Nat /\ Count(o, r) \in Nat
         /\ Count(o, Authored(c, p, r)) = Count(o, Own(c)) + Count(o, p) + Count(o, r)
<1> DEFINE own == Own(c)
<1>1. own \in Seq(GraphOp)
  <2> DEFINE of(i) == IF c[i].by = "local" THEN c[i].ops ELSE << >>
             s == [i \in DOMAIN c |-> of(i)]
  <2>1. \A i \in DOMAIN c : of(i) \in Seq(GraphOp)
    <3> SUFFICES ASSUME NEW i \in DOMAIN c PROVE of(i) \in Seq(GraphOp)
      OBVIOUS
    <3>1. c[i] \in Block
      OBVIOUS
    <3>2. c[i].ops \in Seq(GraphOp) /\ << >> \in Seq(GraphOp)
      BY <3>1 DEF Block
    <3> QED BY <3>2
  <2> HIDE DEF of
  <2>2. s \in Seq(Seq(GraphOp)) /\ << >> \in Seq(GraphOp)
    BY <2>1
  <2> HIDE DEF s
  <2>3. FlattenSeq(s) \in Seq(GraphOp)
    BY <2>2, FlattenFirst
  <2> QED BY <2>3 DEF Own, of, s
<1>2. Authored(c, p, r) = own \o p \o r
  BY DEF Authored, Own
<1> HIDE DEF own
<1>3. Count(o, own \o p) = Count(o, own) + Count(o, p) /\ Count(o, own) \in Nat /\ Count(o, p) \in Nat
  BY <1>1, CountConcat
<1>4. own \o p \in Seq(GraphOp)
  BY <1>1, ConcatProperties
<1>5. Count(o, (own \o p) \o r) = Count(o, own \o p) + Count(o, r) /\ Count(o, r) \in Nat
  BY <1>4, CountConcat
<1>6. (own \o p) \o r \in Seq(GraphOp)
  BY <1>4, ConcatProperties
<1> QED BY <1>1, <1>2, <1>3, <1>5, <1>6 DEF own

(* A merge keeps every pending operation, or puts it aside. *)
LEMMA RebasedCounts ==
  ASSUME NEW base, Settled \in Seq(GraphOp), NEW o
  PROVE  Count(o, Settled) = Count(o, Rebased(base).kept) + Count(o, Rebased(base).lost)
<1> DEFINE n == Len(Settled)
           F == CHOOSE f : f = [i \in 0..n |->
                  IF i = 0 THEN [graph |-> base, kept |-> << >>, lost |-> << >>]
                  ELSE LET step == f[i - 1]
                           next == Apply(step.graph, Settled[i])
                       IN IF next = Refused
                          THEN [step EXCEPT !.lost = Append(@, Settled[i])]
                          ELSE [step EXCEPT !.graph = next, !.kept = Append(@, Settled[i])]]
<1>1. n \in Nat
  OBVIOUS
<1>2. RebaseRuns(F, base, Settled, n)
  <2>1. \E f : RebaseRuns(f, base, Settled, n)
    BY <1>1, RebaseExists
  <2> QED BY <2>1 DEF RebaseRuns, RebaseStep
<1>3. Rebased(base) = F[n]
  BY DEF Rebased
<1> DEFINE FitsAt(step, i) ==
             /\ step = [graph |-> step.graph, kept |-> step.kept, lost |-> step.lost]
             /\ step.kept \in Seq(GraphOp) /\ step.lost \in Seq(GraphOp)
             /\ Count(o, SubSeq(Settled, 1, i)) = Count(o, step.kept) + Count(o, step.lost)
           S == {i \in Nat : i <= n => FitsAt(F[i], i)}
<1> HIDE DEF F
<1>4. \A i \in 0..n : F[i] = IF i = 0 THEN [graph |-> base, kept |-> << >>, lost |-> << >>]
                                      ELSE RebaseStep(F[i - 1], Settled[i])
  BY <1>2 DEF RebaseRuns
<1>5. 0 \in S
  <2>1. F[0] = [graph |-> base, kept |-> << >>, lost |-> << >>]
    BY <1>1, <1>4
  <2>2. F[0].graph = base /\ F[0].kept = << >> /\ F[0].lost = << >>
    BY <2>1
  <2>3. << >> \in Seq(GraphOp) /\ SubSeq(Settled, 1, 0) = << >>
    OBVIOUS
  <2>4. Count(o, SubSeq(Settled, 1, 0)) = 0 /\ Count(o, F[0].kept) = 0 /\ Count(o, F[0].lost) = 0
    BY <2>2, <2>3, CountNone
  <2>5. Count(o, SubSeq(Settled, 1, 0)) = Count(o, F[0].kept) + Count(o, F[0].lost)
    BY <2>4
  <2>6. FitsAt(F[0], 0)
    BY <2>1, <2>2, <2>3, <2>5
  <2> QED BY <2>6
<1>6. ASSUME NEW i \in Nat, i \in S PROVE i + 1 \in S
  <2> SUFFICES ASSUME i + 1 <= n PROVE FitsAt(F[i + 1], i + 1)
    OBVIOUS
  <2> DEFINE step == F[i]
             e == Settled[i + 1]
             next == Apply(step.graph, e)
             prior == SubSeq(Settled, 1, i)
             now == SubSeq(Settled, 1, i + 1)
  <2>1. FitsAt(step, i)
    BY <1>1, <1>6
  <2>2. e \in GraphOp
    BY <1>1
  <2>3. F[i + 1] = RebaseStep(step, e)
    BY <1>1, <1>4
  <2>4. prior \in Seq(GraphOp) /\ now = Append(prior, e)
    <3>1. prior \in Seq(GraphOp) /\ Len(prior) = i /\ \A j \in 1..i : prior[j] = Settled[j]
      BY <1>1
    <3>2. now \in Seq(GraphOp) /\ Len(now) = i + 1 /\ \A j \in 1..i + 1 : now[j] = Settled[j]
      BY <1>1
    <3> HIDE DEF prior, now, e
    <3>3. Append(prior, e) \in Seq(GraphOp) /\ Len(Append(prior, e)) = i + 1
          /\ Append(prior, e)[i + 1] = e /\ \A j \in 1..i : Append(prior, e)[j] = prior[j]
      BY <2>2, <3>1
    <3>4. \A j \in 1..i + 1 : now[j] = Append(prior, e)[j]
      BY <3>1, <3>2, <3>3 DEF e
    <3> QED BY <3>1, <3>2, <3>3, <3>4, SeqEqual
  <2> HIDE DEF step, e, prior, now
  <2>5. /\ Count(o, prior) \in Nat
        /\ Count(o, now) = IF e = o THEN Count(o, prior) + 1 ELSE Count(o, prior)
    BY <2>2, <2>4, CountAppend
  <2>6. Count(o, prior) = Count(o, step.kept) + Count(o, step.lost)
    BY <2>1 DEF prior
  <2>7. /\ Count(o, step.kept) \in Nat /\ Count(o, step.lost) \in Nat
        /\ Count(o, Append(step.kept, e)) = IF e = o THEN Count(o, step.kept) + 1 ELSE Count(o, step.kept)
        /\ Count(o, Append(step.lost, e)) = IF e = o THEN Count(o, step.lost) + 1 ELSE Count(o, step.lost)
    BY <2>1, <2>2, CountAppend
  <2>8. CASE next = Refused
    <3>1. F[i + 1] = [graph |-> step.graph, kept |-> step.kept, lost |-> Append(step.lost, e)]
      BY <2>1, <2>3, <2>8 DEF RebaseStep
    <3>2. Count(o, now) = Count(o, step.kept) + Count(o, Append(step.lost, e))
      BY <2>5, <2>6, <2>7
    <3> QED BY <2>1, <2>2, <3>1, <3>2 DEF now
  <2>9. CASE next # Refused
    <3>1. F[i + 1] = [graph |-> next, kept |-> Append(step.kept, e), lost |-> step.lost]
      BY <2>1, <2>3, <2>9 DEF RebaseStep
    <3>2. Count(o, now) = Count(o, Append(step.kept, e)) + Count(o, step.lost)
      BY <2>5, <2>6, <2>7
    <3> QED BY <2>1, <2>2, <3>1, <3>2 DEF now
  <2> QED BY <2>8, <2>9
<1> HIDE DEF S, n
<1>7. Nat \subseteq S
  BY <1>5, <1>6, Counting
<1>8. FitsAt(F[n], n)
  BY <1>1, <1>7 DEF S
<1>9. SubSeq(Settled, 1, n) = Settled
  BY DEF n
<1> QED BY <1>3, <1>8, <1>9

-----------------------------------------------------------------------------

(* How often an operation is signed here, pending and put aside. *)
Carried(o, blocks, p, r) == Count(o, Own(blocks)) + Count(o, p) + Count(o, r)

(* A document where each operation is held as often as before, what can be
   redone counted, has lost none of those authored. *)
LEMMA HeldIsKept ==
  ASSUME NEW p \in Seq(GraphOp), chain \in Seq(Block), recovery \in Seq(GraphOp),
         chain' \in Seq(Block), Settled' \in Seq(GraphOp), recovery' \in Seq(GraphOp),
         redo' \in Seq(Seq(GraphOp)),
         \A o : Carried(o, chain, p, recovery)
                  <= Carried(o, chain', Settled', recovery') + Count(o, FlattenSeq(redo'))
  PROVE  KeepsAuthored(p)
<1> DEFINE prior == Authored(chain, p, recovery)
           held == Authored(chain', Settled', recovery')
           again == FlattenSeq(redo')
           after == held \o again
<1>1. ASSUME NEW o PROVE Count(o, prior) <= Count(o, after)
  <2>1. Count(o, prior) = Carried(o, chain, p, recovery)
    BY CountAuthored DEF Carried
  <2>2. held \in Seq(GraphOp) /\ Count(o, held) = Carried(o, chain', Settled', recovery')
    BY CountAuthored DEF Carried
  <2>3. again \in Seq(GraphOp)
    BY FlattenFirst
  <2>4. Carried(o, chain, p, recovery) <= Carried(o, chain', Settled', recovery') + Count(o, again)
    OBVIOUS
  <2> HIDE DEF prior, held, again
  <2>5. Count(o, held \o again) = Count(o, held) + Count(o, again)
    BY <2>2, <2>3, CountConcat
  <2> QED BY <2>1, <2>2, <2>4, <2>5
<1> HIDE DEF prior, after
<1>2. \A i \in DOMAIN prior : Count(prior[i], prior) <= Count(prior[i], after)
  BY <1>1
<1> QED BY <1>2 DEF KeepsAuthored, prior, after

(* The counts are numbers. *)
LEMMA HeldNumbers ==
  ASSUME NEW c \in Seq(Block), NEW p \in Seq(GraphOp), NEW r \in Seq(GraphOp),
         NEW z \in Seq(Seq(GraphOp)), NEW o
  PROVE  /\ Count(o, Own(c)) \in Nat /\ Count(o, p) \in Nat /\ Count(o, r) \in Nat
         /\ Carried(o, c, p, r) \in Nat
         /\ FlattenSeq(z) \in Seq(GraphOp) /\ Count(o, FlattenSeq(z)) \in Nat
<1>1. Count(o, Own(c)) \in Nat /\ Count(o, p) \in Nat /\ Count(o, r) \in Nat
  BY CountAuthored
<1>2. FlattenSeq(z) \in Seq(GraphOp)
  BY FlattenFirst
<1>3. Count(o, FlattenSeq(z)) \in Nat
  BY <1>2, CountConcat
<1> QED BY <1>1, <1>2, <1>3 DEF Carried

(* Recording more loses nothing: the batch may be what was put aside. *)
LEMMA RecordingKeeps ==
  ASSUME DocumentInv, DocumentInv', NEW p \in Seq(GraphOp), NEW x \in Seq(GraphOp),
         chain' = chain, Settled' = p \o x,
         recovery' = recovery \/ (recovery' = << >> /\ x = recovery)
  PROVE  KeepsAuthored(p)
<1>1. /\ chain \in Seq(Block) /\ recovery \in Seq(GraphOp) /\ chain' \in Seq(Block)
      /\ recovery' \in Seq(GraphOp) /\ redo' \in Seq(Seq(GraphOp))
  BY DEF DocumentInv
<1>2. Settled' \in Seq(GraphOp)
  BY ConcatProperties
<1>3. ASSUME NEW o
      PROVE  Carried(o, chain, p, recovery) <= Carried(o, chain', Settled', recovery') + Count(o, FlattenSeq(redo'))
  <2>1. Count(o, Settled') = Count(o, p) + Count(o, x) /\ Count(o, x) \in Nat
    BY CountConcat
  <2>2. Count(o, Own(chain)) \in Nat /\ Count(o, p) \in Nat /\ Count(o, recovery) \in Nat
    BY <1>1, HeldNumbers
  <2>3. Count(o, FlattenSeq(redo')) \in Nat
    BY <1>1, <1>2, HeldNumbers
  <2>4. Carried(o, chain', Settled', recovery') = Count(o, Own(chain)) + Count(o, Settled') + Count(o, recovery')
    BY DEF Carried
  <2>5. Carried(o, chain, p, recovery) = Count(o, Own(chain)) + Count(o, p) + Count(o, recovery)
    BY DEF Carried
  <2>6. Count(o, recovery') \in Nat /\ Count(o, recovery) <= Count(o, x) + Count(o, recovery')
    <3>1. CASE recovery' = recovery
      BY <2>1, <2>2, <3>1
    <3>2. CASE recovery' = << >> /\ x = recovery
      <4>1. Count(o, recovery') = 0
        BY <3>2, CountNone
      <4> QED BY <2>1, <2>2, <3>2, <4>1
    <3> QED BY <3>1, <3>2
  <2> QED BY <2>1, <2>2, <2>3, <2>4, <2>5, <2>6
<1> QED BY <1>1, <1>2, <1>3, HeldIsKept

(* With no drag in flight, the ledger is what is recorded. *)
LEMMA StillSettled ==
  ASSUME DocumentInv', gesture' = Still
  PROVE  Settled' = pending' /\ pending' \in Seq(GraphOp)
<1>1. GestureOps' = << >>
  BY DEF GestureOps, Still
<1>2. pending' \in Seq(GraphOp)
  BY DEF DocumentInv
<1>3. Settled' = pending' \o << >>
  BY <1>1 DEF Settled
<1> QED BY <1>2, <1>3, ConcatEmptySeq

(* The ledger with the drag in flight, once it ended. *)
LEMMA SettledNow ==
  ASSUME DocumentInv PROVE Settled \in Seq(GraphOp) /\ Settled = pending \o GestureOps
                           /\ GestureOps \in Seq(GraphOp) /\ pending \in Seq(GraphOp)
<1>1. Settled \in Seq(GraphOp)
  BY SettledFits
<1>2. GestureOps \in Seq(GraphOp)
  BY GestureGives DEF DocumentInv
<1> QED BY <1>1, <1>2 DEF Settled, DocumentInv

-----------------------------------------------------------------------------

(* A batch recorded at the end of the ledger loses nothing. *)
LEMMA RecordedStays ==
  ASSUME DocumentInv, DocumentInv', NEW ops \in Seq(GraphOp), Record(ops), gesture' = Still,
         chain' = chain, recovery' = recovery \/ (recovery' = << >> /\ ops = recovery)
  PROVE  KeepsAuthored(Settled)
<1>1. Settled \in Seq(GraphOp) /\ Settled' = Settled \o ops
  BY SettledNow, StillSettled DEF Record
<1> QED BY <1>1, RecordingKeeps

(* A handler that only ends the gesture loses nothing. *)
LEMMA RefusedStays ==
  ASSUME DocumentInv, DocumentInv', Refuse, chain' = chain, recovery' = recovery
  PROVE  KeepsAuthored(Settled)
<1>1. << >> \in Seq(GraphOp) /\ Record(<< >>) /\ gesture' = Still
  BY DEF Refuse
<1> QED BY <1>1, RecordedStays

(* What the drag in flight records is operations. *)
RecordsOps == GestureOps \in Seq(GraphOp)

(* Whatever is dragged, now and after a step. *)
LEMMA GestureRecords == DocumentInv => RecordsOps
BY GestureGives DEF DocumentInv, RecordsOps

(* The same after a step. *)
LEMMA NextGestureRecords == DocumentInv' => RecordsOps'
BY GestureRecords, PTL

(* Ending the gesture and starting another one loses nothing. *)
LEMMA NewGestureStays ==
  ASSUME DocumentInv, DocumentInv', Record(<< >>), chain' = chain, recovery' = recovery
  PROVE  KeepsAuthored(Settled)
<1>1. Settled \in Seq(GraphOp)
  BY SettledNow
<1>2. pending' = Settled \o << >>
  BY DEF Record
<1>3. Settled' = pending' \o GestureOps' /\ GestureOps' \in Seq(GraphOp)
  <2>1. GestureOps' \in Seq(GraphOp)
    BY NextGestureRecords DEF RecordsOps
  <2> QED BY <2>1 DEF Settled
<1>4. Settled' = Settled \o GestureOps'
  BY <1>1, <1>2, <1>3, ConcatEmptySeq
<1> QED BY <1>1, <1>3, <1>4, RecordingKeeps

(* A frame of a drag keeps what was recorded before the drag. *)
LEMMA FrameStays ==
  ASSUME DocumentInv, DocumentInv', pending' = pending, chain' = chain, recovery' = recovery
  PROVE  KeepsAuthored(pending)
<1>1. pending \in Seq(GraphOp)
  BY DEF DocumentInv
<1>2. Settled' = pending \o GestureOps' /\ GestureOps' \in Seq(GraphOp)
  <2>1. GestureOps' \in Seq(GraphOp)
    BY NextGestureRecords DEF RecordsOps
  <2> QED BY <2>1 DEF Settled
<1> QED BY <1>1, <1>2, RecordingKeeps

(* A step that leaves the ledger and the gesture loses nothing. *)
LEMMA SameStays ==
  ASSUME DocumentInv, DocumentInv', UNCHANGED <<chain, pending, recovery, graph, gesture>>
  PROVE  KeepsAuthored(Settled)
<1>1. Settled \in Seq(GraphOp) /\ << >> \in Seq(GraphOp)
  BY SettledNow
<1>2. Settled' = Settled
  BY DEF Settled, GestureOps
<1>3. Settled' = Settled \o << >>
  BY <1>1, <1>2, ConcatEmptySeq
<1> QED BY <1>1, <1>3, RecordingKeeps

(* Undo keeps what it cuts off to be redone. *)
LEMMA UndoStays ==
  ASSUME DocumentInv, DocumentInv', UndoPending
  PROVE  KeepsAuthored(Settled)
<1> DEFINE kept == IF SettledUndo = << >> THEN Settled ELSE SubSeq(Settled, 1, Last(SettledUndo))
           undone == SubSeq(Settled, Len(kept) + 1, Len(Settled))
<1>1. chain' = chain /\ recovery' = recovery /\ gesture' = Still
  BY DEF UndoPending
<1>2. CASE /\ SettledUndo # << >> /\ pending' = kept /\ redo' = Append(SettledRedo, undone)
  <2> DEFINE k == Last(SettledUndo)
             cut == SubSeq(Settled, k + 1, Len(Settled))
             first == SubSeq(Settled, 1, k)
  <2>1. first \in Seq(GraphOp) /\ Len(first) = k /\ cut \in Seq(GraphOp) /\ first \o cut = Settled
    <3> HIDE DEF k, kept, undone
    <3>1. k = Last(SettledUndo)
      BY DEF k
    <3>2. SettledUndo # << >>
      BY <1>2
    <3> QED BY <3>1, <3>2, UndoneApart
  <2>2. kept = first
    BY <1>2
  <2> HIDE DEF k, kept
  <2>3. undone = cut
    BY <2>1, <2>2
  <2> HIDE DEF first, cut, undone
  <2>4. /\ chain \in Seq(Block) /\ recovery \in Seq(GraphOp) /\ chain' \in Seq(Block)
        /\ recovery' \in Seq(GraphOp) /\ redo' \in Seq(Seq(GraphOp)) /\ SettledRedo \in Seq(Seq(GraphOp))
        /\ Settled \in Seq(GraphOp)
    BY SettledFits DEF DocumentInv
  <2>5. Settled' = first /\ Settled' \in Seq(GraphOp)
    BY <1>1, <1>2, <2>1, <2>2, StillSettled
  <2>6. ASSUME NEW o
        PROVE  Carried(o, chain, Settled, recovery) <= Carried(o, chain', Settled', recovery') + Count(o, FlattenSeq(redo'))
    <3>1. Count(o, first \o cut) = Count(o, first) + Count(o, cut) /\ Count(o, cut) \in Nat
          /\ Count(o, first) \in Nat
      BY <2>1, CountConcat
    <3>2. FlattenSeq(SettledRedo) \in Seq(GraphOp)
          /\ FlattenSeq(Append(SettledRedo, cut)) = FlattenSeq(SettledRedo) \o cut
      BY <2>1, <2>4, FlattenLast
    <3>3. Count(o, FlattenSeq(SettledRedo) \o cut) = Count(o, FlattenSeq(SettledRedo)) + Count(o, cut)
          /\ Count(o, FlattenSeq(SettledRedo)) \in Nat
      BY <2>1, <3>2, CountConcat
    <3>4. redo' = Append(SettledRedo, cut)
      BY <1>2, <2>3
    <3>5. Count(o, FlattenSeq(redo')) = Count(o, FlattenSeq(SettledRedo)) + Count(o, cut)
      BY <3>2, <3>3, <3>4
    <3>6. Count(o, Settled) = Count(o, Settled') + Count(o, cut) /\ Count(o, Settled') \in Nat
      BY <2>1, <2>5, <3>1
    <3>7. Count(o, Own(chain)) \in Nat /\ Count(o, recovery) \in Nat
      BY <2>4, HeldNumbers
    <3>8. Carried(o, chain, Settled, recovery) = Count(o, Own(chain)) + Count(o, Settled) + Count(o, recovery)
      BY DEF Carried
    <3>9. Carried(o, chain', Settled', recovery') = Count(o, Own(chain)) + Count(o, Settled') + Count(o, recovery)
      BY <1>1 DEF Carried
    <3> QED BY <3>1, <3>3, <3>5, <3>6, <3>7, <3>8, <3>9
  <2> QED BY <2>4, <2>5, <2>6, HeldIsKept
<1>3. CASE Refuse
  BY <1>1, <1>3, RefusedStays
<1> QED BY <1>2, <1>3 DEF UndoPending

(* Redo brings a batch back to the end of the ledger. *)
LEMMA RedoStays ==
  ASSUME DocumentInv, DocumentInv', RedoPending
  PROVE  KeepsAuthored(Settled)
<1>1. chain' = chain /\ recovery' = recovery /\ gesture' = Still
      /\ Settled \in Seq(GraphOp) /\ SettledRedo \in Seq(Seq(GraphOp))
  BY SettledFits DEF RedoPending
<1>2. CASE SettledRedo # << >> /\ pending' = Settled \o Last(SettledRedo)
  <2>1. Last(SettledRedo) \in Seq(GraphOp)
    BY <1>1, <1>2, LastApart
  <2>2. Settled' = Settled \o Last(SettledRedo)
    BY <1>1, <1>2, StillSettled
  <2> QED BY <1>1, <2>1, <2>2, RecordingKeeps
<1>3. CASE Refuse
  BY <1>1, <1>3, RefusedStays
<1> QED BY <1>2, <1>3 DEF RedoPending

(* A commit moves the pending operations into a block signed here. *)
LEMMA CommitStays ==
  ASSUME DocumentInv, DocumentInv', Commit
  PROVE  KeepsAuthored(Settled)
<1>1. gesture' = Still /\ recovery' = recovery /\ Settled \in Seq(GraphOp)
  BY SettledNow DEF Commit
<1> DEFINE block == [by |-> "local", ops |-> Settled]
<1>2. CASE chain' = Append(chain, block) /\ pending' = << >> /\ redo' = << >>
  <2>1. /\ chain \in Seq(Block) /\ recovery \in Seq(GraphOp) /\ chain' \in Seq(Block)
        /\ recovery' \in Seq(GraphOp) /\ redo' \in Seq(Seq(GraphOp))
    BY DEF DocumentInv
  <2>2. block \in Block /\ block.ops = Settled /\ block.by = "local"
    BY <1>1 DEF Block
  <2> HIDE DEF block
  <2>3. Own(chain) \in Seq(GraphOp) /\ Own(chain') = Own(chain) \o Settled
    BY <1>2, <2>1, <2>2, OwnAppend
  <2>4. Settled' = << >> /\ Settled' \in Seq(GraphOp)
    BY <1>1, <1>2, StillSettled
  <2>5. ASSUME NEW o
        PROVE  Carried(o, chain, Settled, recovery) <= Carried(o, chain', Settled', recovery') + Count(o, FlattenSeq(redo'))
    <3>1. Count(o, Own(chain')) = Count(o, Own(chain)) + Count(o, Settled)
          /\ Count(o, Own(chain)) \in Nat /\ Count(o, Settled) \in Nat
      BY <1>1, <2>3, CountConcat
    <3>2. Count(o, Settled') = 0
      BY <2>4, CountNone
    <3>3. Count(o, recovery) \in Nat /\ Count(o, FlattenSeq(redo')) \in Nat
      BY <1>1, <2>1, HeldNumbers
    <3>4. Carried(o, chain, Settled, recovery) = Count(o, Own(chain)) + Count(o, Settled) + Count(o, recovery)
      BY DEF Carried
    <3>5. Carried(o, chain', Settled', recovery') = Count(o, Own(chain')) + Count(o, Settled') + Count(o, recovery)
      BY <1>1 DEF Carried
    <3> QED BY <3>1, <3>2, <3>3, <3>4, <3>5
  <2> QED BY <1>1, <2>1, <2>4, <2>5, HeldIsKept
<1>3. CASE Refuse /\ chain' = chain
  BY <1>1, <1>3, RefusedStays
<1> QED BY <1>2, <1>3 DEF Commit

(* A merge puts aside what it cannot replay. *)
LEMMA MergeStays ==
  ASSUME DocumentInv, DocumentInv', NEW ops \in Pulled, MergeRemote(ops)
  PROVE  KeepsAuthored(Settled)
<1>1. gesture' = Still /\ Settled \in Seq(GraphOp) /\ ops \in Seq(GraphOp)
  BY SettledNow, DocumentAssumption DEF MergeRemote
<1> DEFINE base == ApplyAll(Committed, ops)
           block == [by |-> "remote", ops |-> ops]
           result == Rebased(base)
<1>2. CASE base # Refused /\ chain' = Append(chain, block) /\ pending' = result.kept
           /\ recovery' = recovery \o result.lost
  <2>1. /\ chain \in Seq(Block) /\ recovery \in Seq(GraphOp) /\ chain' \in Seq(Block)
        /\ recovery' \in Seq(GraphOp) /\ redo' \in Seq(Seq(GraphOp))
    BY DEF DocumentInv
  <2>2. block \in Block /\ block.by = "remote"
    BY <1>1 DEF Block
  <2>3. GraphOk(base)
    BY <1>1, <1>2, <2>1, ReplayOk, ApplyAllOk DEF Committed
  <2> HIDE DEF block, base
  <2>4. result.kept \in Seq(GraphOp) /\ result.lost \in Seq(GraphOp)
    BY <1>1, <2>3, RebasedReplays
  <2>5. Own(chain) \in Seq(GraphOp) /\ Own(chain') = Own(chain)
    <3>1. "local" # "remote"
      OBVIOUS
    <3>2. Own(chain) \in Seq(GraphOp) /\ Own(chain') = Own(chain) \o << >>
      BY <1>2, <2>1, <2>2, <3>1, OwnAppend
    <3> QED BY <3>2, ConcatEmptySeq
  <2>6. Settled' = result.kept
    BY <1>1, <1>2, StillSettled
  <2>7. ASSUME NEW o
        PROVE  Carried(o, chain, Settled, recovery) <= Carried(o, chain', Settled', recovery') + Count(o, FlattenSeq(redo'))
    <3>1. Count(o, Settled) = Count(o, result.kept) + Count(o, result.lost)
      BY <1>1, RebasedCounts
    <3> HIDE DEF result
    <3>2. Count(o, recovery') = Count(o, recovery) + Count(o, result.lost)
          /\ Count(o, recovery) \in Nat /\ Count(o, result.lost) \in Nat
      BY <1>2, <2>1, <2>4, CountConcat
    <3>3. Count(o, Own(chain)) \in Nat /\ Count(o, result.kept) \in Nat /\ Count(o, FlattenSeq(redo')) \in Nat
      BY <2>1, <2>4, HeldNumbers
    <3>4. Carried(o, chain, Settled, recovery) = Count(o, Own(chain)) + Count(o, Settled) + Count(o, recovery)
      BY DEF Carried
    <3>5. Carried(o, chain', Settled', recovery') = Count(o, Own(chain)) + Count(o, result.kept) + Count(o, recovery')
      BY <2>5, <2>6 DEF Carried
    <3> QED BY <3>1, <3>2, <3>3, <3>4, <3>5
  <2> HIDE DEF result
  <2>8. Settled' \in Seq(GraphOp)
    BY <2>4, <2>6
  <2> QED BY <1>1, <2>1, <2>7, <2>8, HeldIsKept
<1>3. CASE Refuse /\ chain' = chain /\ recovery' = recovery
  BY <1>3, RefusedStays
<1> QED BY <1>2, <1>3 DEF MergeRemote, PutAside

(* A pulled history takes the place of a document in which nothing was authored
   but what was put aside, which stays. *)
LEMMA AdoptStays ==
  ASSUME DocumentInv, DocumentInv', NEW ops \in Pulled, AdoptRemote(ops)
  PROVE  KeepsAuthored(Settled)
<1>1. gesture' = Still /\ recovery' = recovery /\ Settled \in Seq(GraphOp) /\ ops \in Seq(GraphOp)
  BY SettledNow, DocumentAssumption DEF AdoptRemote
<1> DEFINE block == [by |-> "remote", ops |-> ops]
<1>2. CASE IsPristine /\ chain' = <<block>> /\ pending' = << >>
  <2>1. /\ chain \in Seq(Block) /\ recovery \in Seq(GraphOp) /\ chain' \in Seq(Block)
        /\ recovery' \in Seq(GraphOp) /\ redo' \in Seq(Seq(GraphOp))
    BY DEF DocumentInv
  <2>2. block \in Block /\ block.by = "remote"
    BY <1>1 DEF Block
  <2> HIDE DEF block
  <2>3. chain = << >> /\ Settled = << >>
    BY <1>2 DEF IsPristine
  <2>4. Own(chain) = << >> /\ Own(chain') = << >>
    <3>1. << >> \in Seq(Block) /\ <<block>> = Append(<< >>, block)
      BY <2>2
    <3>2. Own(<<block>>) = Own(<< >>) \o << >>
      BY <2>2, <3>1, OwnAppend
    <3>3. Own(<<block>>) = << >>
      BY <3>2, OwnNone
    <3> QED BY <1>2, <2>3, <3>3, OwnNone
  <2>5. Settled' = << >> /\ Settled' \in Seq(GraphOp)
    BY <1>1, <1>2, StillSettled
  <2>6. ASSUME NEW o
        PROVE  Carried(o, chain, Settled, recovery) <= Carried(o, chain', Settled', recovery') + Count(o, FlattenSeq(redo'))
    <3>1. Carried(o, chain, Settled, recovery) = Carried(o, chain', Settled', recovery')
      BY <1>1, <2>3, <2>4, <2>5 DEF Carried
    <3>2. Carried(o, chain', Settled', recovery') \in Nat /\ Count(o, FlattenSeq(redo')) \in Nat
      BY <2>1, <2>5, HeldNumbers
    <3> QED BY <3>1, <3>2
  <2> QED BY <1>1, <2>1, <2>5, <2>6, HeldIsKept
<1>3. CASE Refuse /\ chain' = chain
  BY <1>1, <1>3, RefusedStays
<1> QED BY <1>2, <1>3 DEF AdoptRemote

(* No step of the document loses what was authored, but clearing the recovery
   list does. *)
LEMMA NextStays ==
  ASSUME DocumentInv, DocumentInv', Next
  PROVE  ClearRecovery \/ LosesNothing
<1>1. ASSUME NEW ops \in Edits, ApplyOps(ops) PROVE KeepsAuthored(Settled)
  <2>1. ops \in Seq(GraphOp) /\ chain' = chain /\ recovery' = recovery
    BY <1>1, DocumentAssumption DEF ApplyOps
  <2>2. CASE Record(ops) /\ gesture' = Still
    BY <2>1, <2>2, RecordedStays
  <2>3. CASE Refuse
    BY <2>1, <2>3, RefusedStays
  <2> QED BY <1>1, <2>2, <2>3 DEF ApplyOps
<1>2. ASSUME NEW n \in NodeId, NEW v \in Value, ParamDrag(n, v) PROVE LosesNothing
  <2>1. chain' = chain /\ recovery' = recovery
    BY <1>2 DEF ParamDrag
  <2>2. CASE pending' = pending
    <3>1. KeepsAuthored(pending)
      BY <2>1, <2>2, FrameStays
    <3>2. DragFrame
      BY <1>2 DEF DragFrame
    <3> QED BY <3>1, <3>2 DEF LosesNothing
  <2>3. CASE Record(<< >>)
    BY <2>1, <2>3, NewGestureStays DEF LosesNothing
  <2> QED BY <1>2, <2>2, <2>3 DEF ParamDrag
<1>3. ASSUME NEW ids \in SUBSET NodeId, BeginMove(ids) PROVE KeepsAuthored(Settled)
  BY <1>3, NewGestureStays DEF BeginMove
<1>4. ASSUME NEW n \in NodeId, NEW p \in Pos, MoveLive(n, p) PROVE LosesNothing
  <2>1. KeepsAuthored(pending)
    BY <1>4, FrameStays DEF MoveLive, ledger
  <2>2. DragFrame
    BY <1>4 DEF DragFrame
  <2> QED BY <2>1, <2>2 DEF LosesNothing
<1>5. CASE EndGesture
  BY <1>5, RefusedStays DEF EndGesture, LosesNothing
<1>6. CASE UndoPending
  BY <1>6, UndoStays DEF LosesNothing
<1>7. CASE RedoPending
  BY <1>7, RedoStays DEF LosesNothing
<1>8. ASSUME NEW i \in 0..MaxBlocks, SetView(i) PROVE KeepsAuthored(Settled)
  BY <1>8, RefusedStays DEF SetView
<1>9. CASE Commit
  BY <1>9, CommitStays DEF LosesNothing
<1>10. ASSUME NEW ops \in Pulled, MergeRemote(ops) PROVE KeepsAuthored(Settled)
  BY <1>10, MergeStays
<1>11. ASSUME NEW ops \in Pulled, AdoptRemote(ops) PROVE KeepsAuthored(Settled)
  BY <1>11, AdoptStays
<1>12. CASE RetryRecovery
  <2>1. recovery \in Seq(GraphOp) /\ Record(recovery) /\ gesture' = Still /\ chain' = chain
        /\ recovery' = << >>
    BY <1>12 DEF RetryRecovery, DocumentInv
  <2> QED BY <2>1, RecordedStays DEF LosesNothing
<1>13. CASE Evaluate
  BY <1>13, SameStays DEF Evaluate, ledger, LosesNothing
<1>14. CASE Frame
  BY <1>14, SameStays DEF Frame, ledger, LosesNothing
<1> QED BY <1>1, <1>2, <1>3, <1>4, <1>5, <1>6, <1>7, <1>8, <1>9, <1>10, <1>11, <1>12, <1>13, <1>14
        DEF Next, LosesNothing

(* No step but clearing the recovery list, and a program that dies, loses an
   operation the user authored: a commit, a merge that conflicts, an undo, a
   retry, an adoption or an exit in the middle of a drag keeps each of them as
   often as it was there, in a block, pending, put aside or to be redone. *)
THEOREM NothingIsLost == WorkspaceSpec => ExitLosesNothing
<1>1. WorkspaceInv /\ WorkspaceInv' /\ [Step]_workspaceVars
        => [ClearRecovery \/ Crash \/ LosesNothing]_workspaceVars
  <2> SUFFICES ASSUME WorkspaceInv, WorkspaceInv', Step
               PROVE  ClearRecovery \/ Crash \/ LosesNothing
    OBVIOUS
  <2>1. DocumentInv /\ DocumentInv'
    BY DEF WorkspaceInv
  <2>2. CASE Next
    BY <2>1, <2>2, NextStays
  <2>3. CASE Autosave
    BY <2>1, <2>3, SameStays DEF Autosave, ledger, LosesNothing
  <2>4. CASE Reopen
    <3>1. chain' = chain /\ pending' = Settled /\ recovery' = recovery /\ gesture' = Still
      BY <2>4 DEF Reopen, Restore, Left, Snapshot
    <3>2. Settled \in Seq(GraphOp) /\ << >> \in Seq(GraphOp)
      BY <2>1, SettledNow
    <3>3. Settled' = Settled \o << >>
      BY <2>1, <3>1, <3>2, StillSettled, ConcatEmptySeq
    <3>4. KeepsAuthored(Settled)
      BY <2>1, <3>1, <3>2, <3>3, RecordingKeeps
    <3> QED BY <3>4 DEF LosesNothing
  <2> QED BY <2>2, <2>3, <2>4 DEF Step
<1> QED BY <1>1, WorkspaceInvariant, PTL DEF WorkspaceSpec, ExitLosesNothing

-----------------------------------------------------------------------------

(* What is in a list. *)
Items(s) == {s[i] : i \in DOMAIN s}

(* The lists topo_order goes through. *)
Orders(f, g, n) == f = [i \in 0..n |-> IF i = 0 THEN << >> ELSE WithNext(g, f[i - 1])]

(* They exist for any number of steps. *)
LEMMA OrdersExist ==
  ASSUME NEW g, NEW n \in Nat
  PROVE  \E f : Orders(f, g, n)
<1> DEFINE S == {k \in Nat : \E f : Orders(f, g, k)}
<1>1. 0 \in S
  <2>1. Orders([i \in 0..0 |-> << >>], g, 0)
    BY DEF Orders
  <2> QED BY <2>1
<1>2. ASSUME NEW k \in Nat, k \in S PROVE k + 1 \in S
  <2>1. PICK f : Orders(f, g, k)
    BY <1>2
  <2> DEFINE h == [i \in 0..k + 1 |-> IF i = k + 1 THEN WithNext(g, f[k]) ELSE f[i]]
  <2>2. \A i \in 0..k : h[i] = f[i]
    OBVIOUS
  <2>3. ASSUME NEW i \in 0..k + 1 PROVE h[i] = IF i = 0 THEN << >> ELSE WithNext(g, h[i - 1])
    <3>1. CASE i = k + 1
      BY <3>1, <2>2
    <3>2. CASE i \in 0..k
      <4>1. f[i] = IF i = 0 THEN << >> ELSE WithNext(g, f[i - 1])
        BY <2>1, <3>2 DEF Orders
      <4>2. i # 0 => h[i - 1] = f[i - 1]
        BY <2>2, <3>2
      <4> HIDE DEF h
      <4> QED BY <2>2, <3>2, <4>1, <4>2
    <3> QED BY <3>1, <3>2
  <2>4. h = [i \in 0..k + 1 |-> h[i]]
    OBVIOUS
  <2> HIDE DEF h
  <2>5. Orders(h, g, k + 1)
    BY <2>3, <2>4 DEF Orders
  <2> QED BY <2>5
<1> HIDE DEF S
<1>3. Nat \subseteq S
  BY <1>1, <1>2, Counting
<1> QED BY <1>3 DEF S

(* Nodes one after the other, each once and after its sources. *)
SortedOrder(g, s) ==
  /\ s \in Seq(Nodes(g))
  /\ \A i, j \in 1..Len(s) : s[i] = s[j] => i = j
  /\ \A i \in 1..Len(s) : \A e \in Incoming(g, s[i]) : \E j \in 1..i - 1 : s[j] = e.from[1]

(* A step keeps the order, and adds a node if one is ready. *)
LEMMA NextSorts ==
  ASSUME NEW g, Nodes(g) \subseteq Nat, NEW s, SortedOrder(g, s), IsFiniteSet(Items(s)),
         Cardinality(Items(s)) = Len(s)
  PROVE  /\ SortedOrder(g, WithNext(g, s))
         /\ IsFiniteSet(Items(WithNext(g, s)))
         /\ Cardinality(Items(WithNext(g, s))) = Len(WithNext(g, s))
         /\ IF Ready(g, Items(s)) = {} THEN WithNext(g, s) = s ELSE Len(WithNext(g, s)) = Len(s) + 1
<1> DEFINE ready == Ready(g, Items(s))
           next == CHOOSE n \in ready : \A k \in ready : n <= k
<1>1. CASE ready = {}
  <2>1. WithNext(g, s) = s
    BY <1>1 DEF WithNext, Items
  <2> QED BY <1>1, <2>1
<1>2. CASE ready # {}
  <2>1. WithNext(g, s) = Append(s, next)
    BY <1>2 DEF WithNext, Items
  <2>2. ready \subseteq Nat
    BY DEF Ready
  <2>3. next \in ready
    <3> HIDE DEF ready
    <3>1. \E x \in ready : \A y \in ready : ~(y < x)
      BY <1>2, <2>2, Least
    <3>2. \E x \in ready : \A y \in ready : x <= y
      BY <2>2, <3>1
    <3> QED BY <3>2
  <2>4. next \in Nodes(g) /\ next \notin Items(s) /\ \A e \in Incoming(g, next) : e.from[1] \in Items(s)
    BY <2>3 DEF Ready
  <2> HIDE DEF next, ready
  <2> DEFINE t == Append(s, next)
             n == Len(s)
  <2>5. /\ n \in Nat /\ DOMAIN s = 1..n /\ \A i \in 1..n : s[i] \in Nodes(g)
        /\ s \in Seq(Nodes(g))
    BY DEF SortedOrder
  <2>6. t \in Seq(Nodes(g)) /\ Len(t) = n + 1 /\ DOMAIN t = 1..n + 1 /\ t[n + 1] = next
        /\ \A i \in 1..n : t[i] = s[i]
    BY <2>4, <2>5
  <2>7. \A i, j \in 1..n : s[i] = s[j] => i = j
    BY DEF SortedOrder
  <2>8. \A i \in 1..n : \A e \in Incoming(g, s[i]) : \E j \in 1..i - 1 : s[j] = e.from[1]
    BY DEF SortedOrder
  <2>9. \A i \in 1..n : s[i] \in Items(s)
    BY <2>5 DEF Items
  <2> HIDE DEF t, n
  <2>10. ASSUME NEW i \in 1..n + 1, NEW j \in 1..n + 1, t[i] = t[j] PROVE i = j
    <3>1. (i = n + 1 \/ i \in 1..n) /\ (j = n + 1 \/ j \in 1..n)
      BY <2>5
    <3>2. CASE i \in 1..n /\ j \in 1..n
      BY <2>6, <2>7, <2>10, <3>2
    <3>3. CASE i = n + 1 /\ j \in 1..n
      BY <2>4, <2>6, <2>9, <2>10, <3>3
    <3>4. CASE j = n + 1 /\ i \in 1..n
      BY <2>4, <2>6, <2>9, <2>10, <3>4
    <3> QED BY <3>1, <3>2, <3>3, <3>4
  <2>11. ASSUME NEW i \in 1..n + 1, NEW e \in Incoming(g, t[i])
         PROVE  \E j \in 1..i - 1 : t[j] = e.from[1]
    <3>1. i = n + 1 \/ i \in 1..n
      BY <2>5
    <3>2. CASE i = n + 1
      <4>1. PICK j \in 1..n : s[j] = e.from[1]
        BY <2>4, <2>5, <2>6, <3>2 DEF Items
      <4>2. t[j] = e.from[1] /\ j \in 1..i - 1
        BY <2>5, <2>6, <3>2, <4>1
      <4> QED BY <4>2
    <3>3. CASE i \in 1..n
      <4>1. PICK j \in 1..i - 1 : s[j] = e.from[1]
        BY <2>6, <2>8, <3>3
      <4>2. j \in 1..n
        BY <2>5, <3>3, <4>1
      <4> QED BY <2>6, <4>1, <4>2
    <3> QED BY <3>1, <3>2, <3>3
  <2>12. SortedOrder(g, t)
    BY <2>6, <2>10, <2>11 DEF SortedOrder
  <2>13. Items(t) = Items(s) \cup {next}
    <3>1. Items(t) = {t[i] : i \in 1..n + 1} /\ Items(s) = {s[i] : i \in 1..n}
      BY <2>5, <2>6 DEF Items
    <3>2. ASSUME NEW x \in Items(t) PROVE x \in Items(s) \cup {next}
      <4>1. PICK i \in 1..n + 1 : x = t[i]
        BY <3>1
      <4>2. i = n + 1 \/ i \in 1..n
        BY <2>5
      <4> QED BY <2>6, <2>9, <4>1, <4>2
    <3>3. ASSUME NEW x \in Items(s) PROVE x \in Items(t)
      <4>1. PICK i \in 1..n : x = s[i]
        BY <3>1
      <4>2. i \in 1..n + 1 /\ t[i] = x
        BY <2>5, <2>6, <4>1
      <4> QED BY <3>1, <4>2
    <3>4. next \in Items(t)
      <4>1. n + 1 \in 1..n + 1
        BY <2>5
      <4> QED BY <2>6, <3>1, <4>1
    <3> QED BY <3>2, <3>3, <3>4
  <2>14. IsFiniteSet(Items(t)) /\ Cardinality(Items(t)) = n + 1
    BY <2>4, <2>13, FS_AddElement DEF n
  <2> QED BY <1>2, <2>1, <2>6, <2>12, <2>14 DEF t, n, ready
<1> QED BY <1>1, <1>2

(* The order of evaluation holds every node, once, after its sources. *)
LEMMA TopoOrderSorts ==
  ASSUME NEW g, WellFormed(g), IsFiniteSet(Nodes(g)), Nodes(g) \subseteq Nat
  PROVE  SortedOrder(g, TopoOrder(g)) /\ Items(TopoOrder(g)) = Nodes(g)
<1> DEFINE n == Cardinality(Nodes(g))
           F == CHOOSE f : f = [i \in 0..n |-> IF i = 0 THEN << >> ELSE WithNext(g, f[i - 1])]
<1>1. n \in Nat
  BY FS_CardinalityType
<1>2. Orders(F, g, n)
  <2>1. \E f : Orders(f, g, n)
    BY <1>1, OrdersExist
  <2> QED BY <2>1 DEF Orders
<1>3. TopoOrder(g) = F[n]
  BY DEF TopoOrder
<1> HIDE DEF F
<1>4. \A i \in 0..n : F[i] = IF i = 0 THEN << >> ELSE WithNext(g, F[i - 1])
  BY <1>2 DEF Orders
<1> DEFINE Good(s, i) ==
             /\ SortedOrder(g, s) /\ IsFiniteSet(Items(s)) /\ Cardinality(Items(s)) = Len(s)
             /\ Len(s) = i \/ Ready(g, Items(s)) = {}
           S == {i \in Nat : i <= n => Good(F[i], i)}
<1>5. 0 \in S
  <2>1. F[0] = << >>
    BY <1>1, <1>4
  <2>2. Items(<< >>) = {}
    BY DEF Items
  <2>3. Len(<< >>) = 0 /\ << >> \in Seq(Nodes(g)) /\ 1..0 = {}
    OBVIOUS
  <2>4. SortedOrder(g, << >>)
    BY <2>3 DEF SortedOrder
  <2>5. Good(<< >>, 0)
    BY <2>2, <2>3, <2>4, FS_EmptySet
  <2> QED BY <2>1, <2>5
<1>6. ASSUME NEW i \in Nat, i \in S PROVE i + 1 \in S
  <2> SUFFICES ASSUME i + 1 <= n PROVE Good(F[i + 1], i + 1)
    OBVIOUS
  <2> DEFINE s == F[i]
  <2>1. Good(s, i)
    BY <1>1, <1>6
  <2>2. F[i + 1] = WithNext(g, s)
    BY <1>1, <1>4
  <2> HIDE DEF s
  <2> DEFINE t == WithNext(g, s)
  <2>3. /\ SortedOrder(g, t) /\ IsFiniteSet(Items(t)) /\ Cardinality(Items(t)) = Len(t)
        /\ IF Ready(g, Items(s)) = {} THEN t = s ELSE Len(t) = Len(s) + 1
    BY <2>1, NextSorts
  <2> HIDE DEF t
  <2>4. Len(t) = i + 1 \/ Ready(g, Items(t)) = {}
    BY <2>1, <2>3
  <2> QED BY <2>2, <2>3, <2>4 DEF t
<1> HIDE DEF S
<1>7. Nat \subseteq S
  BY <1>1, <1>5, <1>6, Counting
<1>8. Good(F[n], n)
  BY <1>1, <1>7 DEF S
<1> DEFINE o == F[n]
<1>9. SortedOrder(g, o) /\ IsFiniteSet(Items(o)) /\ Cardinality(Items(o)) = Len(o)
      /\ (Len(o) = n \/ Ready(g, Items(o)) = {})
  BY <1>8
<1> HIDE DEF o
<1>10. Items(o) \subseteq Nodes(g)
  <2>1. o \in Seq(Nodes(g))
    BY <1>9 DEF SortedOrder
  <2>2. \A i \in DOMAIN o : o[i] \in Nodes(g)
    BY <2>1
  <2> QED BY <2>2 DEF Items
<1>11. Items(o) = Nodes(g)
  <2>1. CASE Len(o) = n
    BY <1>9, <1>10, <2>1, FS_Subset
  <2>2. CASE Ready(g, Items(o)) = {}
    <3> DEFINE T == Nodes(g) \ Items(o)
    <3>1. ASSUME NEW m \in T PROVE \E e \in g.edges : e.to[1] = m /\ e.from[1] \in T
      <4>1. PICK e \in Incoming(g, m) : e.from[1] \notin Items(o)
        BY <2>2 DEF Ready
      <4>2. e \in g.edges /\ e.to[1] = m
        BY DEF Incoming
      <4>3. e.from[1] \in Nodes(g)
        BY <4>2 DEF WellFormed, NoLooseWires
      <4> QED BY <4>1, <4>2, <4>3
    <3>2. T \in SUBSET Nodes(g)
      OBVIOUS
    <3> HIDE DEF T
    <3>3. T = {}
      BY <3>1, <3>2 DEF WellFormed, Acyclic
    <3> QED BY <1>10, <3>3 DEF T
  <2> QED BY <1>9, <2>1, <2>2
<1> QED BY <1>3, <1>9, <1>11 DEF o

-----------------------------------------------------------------------------

(* What running a component from a signature gives, on the results f of the
   nodes it is wired to. *)
RunFrom(s, c, f) ==
  LET ports == DOMAIN Defaults[s.kind]
      WiredTo(i) == {t \in s.incoming : t[1] = i}
      Source(i) == CHOOSE t \in WiredTo(i) : TRUE
      DefaultAt(i) == Defaults[s.kind][i]
      inputs == [i \in ports |-> IF WiredTo(i) # {} THEN f[Source(i)[2]].value ELSE DefaultAt(i)]
      result == Compute(s.kind, c, s.value, inputs)
  IN IF \E t \in s.incoming : t[1] \notin ports THEN Error("input port out of range")
     ELSE IF \E t \in s.incoming : t[3] # 1 THEN Error("output port out of range")
     ELSE IF \E i \in ports : WiredTo(i) = {} /\ DefaultAt(i) = NoDefault THEN Error("input missing")
     ELSE IF result = Fails THEN Error("component") ELSE Output(result)

(* The wires of a signature that are looked at. *)
Looked(s) == {t \in s.incoming : t[1] \in DOMAIN Defaults[s.kind]}

(* The wires into a node, and what its signature says of them. *)
LEMMA WiresSigned ==
  ASSUME NEW g, GraphType(g), NEW n \in Nodes(g)
  PROVE  LET in == Signature(g, n).incoming
         IN /\ \A e \in Incoming(g, n) : <<e.to[2], e.from[1], e.from[2]>> \in in
            /\ \A t \in in : \E e \in Incoming(g, n) :
                 t[1] = e.to[2] /\ t[2] = e.from[1] /\ t[3] = e.from[2]
            /\ \A e \in Incoming(g, n) : e \in IncomingAt(g, <<n, e.to[2]>>)
            /\ \A i : \A e \in IncomingAt(g, <<n, i>>) : e \in Incoming(g, n) /\ e.to[2] = i
<1>1. ASSUME NEW e \in g.edges PROVE e.to = <<e.to[1], e.to[2]>>
  BY DEF GraphType, Edge, InPort
<1>2. Signature(g, n).incoming = {<<e.to[2], e.from[1], e.from[2]>> : e \in Incoming(g, n)}
  BY DEF Signature
<1>3. \A e \in Incoming(g, n) : <<e.to[2], e.from[1], e.from[2]>> \in Signature(g, n).incoming
  BY <1>2
<1>4. ASSUME NEW t \in Signature(g, n).incoming
      PROVE  \E e \in Incoming(g, n) : t[1] = e.to[2] /\ t[2] = e.from[1] /\ t[3] = e.from[2]
  BY <1>2
<1>5. \A e \in Incoming(g, n) : e \in IncomingAt(g, <<n, e.to[2]>>)
  BY <1>1 DEF Incoming, IncomingAt
<1>6. \A i : \A e \in IncomingAt(g, <<n, i>>) : e \in Incoming(g, n) /\ e.to[2] = i
  BY DEF Incoming, IncomingAt
<1> QED BY <1>3, <1>4, <1>5, <1>6

(* A node's run depends on its signature, its component and the results of the
   nodes it looks at. *)
LEMMA RunBySignature ==
  ASSUME NEW g, GraphType(g), OneWirePerInput(g), NEW n \in Nodes(g), NEW ready, NEW f,
         \A e \in Watched(g, n) : ready[e.from[1]] = f[e.from[1]]
  PROVE  RunNode(g, n, ready) = RunFrom(Signature(g, n), Component(g, n), f)
<1> DEFINE s == Signature(g, n)
           in == s.incoming
           ports == Ports(g, n)
           WiredG(i) == IncomingAt(g, <<n, i>>)
           SourceG(i) == CHOOSE e \in WiredG(i) : TRUE
           WiredS(i) == {t \in in : t[1] = i}
           SourceS(i) == CHOOSE t \in WiredS(i) : TRUE
           DefaultAt(i) == Defaults[g.nodes[n].kind][i]
           inputsG == [i \in ports |-> IF WiredG(i) # {} THEN ready[SourceG(i).from[1]].value ELSE DefaultAt(i)]
           inputsS == [i \in ports |-> IF WiredS(i) # {} THEN f[SourceS(i)[2]].value ELSE DefaultAt(i)]
<1>1. s.kind = g.nodes[n].kind /\ s.value = g.nodes[n].value /\ ports = DOMAIN Defaults[s.kind]
  BY DEF Signature, Ports
<1>2. /\ \A e \in Incoming(g, n) : <<e.to[2], e.from[1], e.from[2]>> \in in
      /\ \A t \in in : \E e \in Incoming(g, n) : t[1] = e.to[2] /\ t[2] = e.from[1] /\ t[3] = e.from[2]
      /\ \A e \in Incoming(g, n) : e \in WiredG(e.to[2])
      /\ \A i : \A e \in WiredG(i) : e \in Incoming(g, n) /\ e.to[2] = i
  BY WiresSigned
<1>3. \A i : \A e, d \in WiredG(i) : e = d
  BY DEF OneWirePerInput, IncomingAt
<1> HIDE DEF s, in, WiredG
<1>4. ASSUME NEW i
      PROVE  /\ WiredS(i) = {} <=> WiredG(i) = {}
             /\ WiredG(i) # {} => SourceG(i) \in WiredG(i) /\ SourceS(i)[2] = SourceG(i).from[1]
  <2>1. WiredG(i) # {} => WiredS(i) # {}
    <3> SUFFICES ASSUME NEW e \in WiredG(i) PROVE WiredS(i) # {}
      OBVIOUS
    <3>1. e \in Incoming(g, n) /\ e.to[2] = i
      BY <1>2
    <3>2. <<e.to[2], e.from[1], e.from[2]>> \in in
      BY <1>2, <3>1
    <3>3. <<i, e.from[1], e.from[2]>> \in in
      BY <3>1, <3>2
    <3>4. <<i, e.from[1], e.from[2]>>[1] = i
      OBVIOUS
    <3> QED BY <3>3, <3>4
  <2>2. ASSUME NEW t \in WiredS(i)
        PROVE  \E e \in WiredG(i) : t[2] = e.from[1]
    <3>1. PICK e \in Incoming(g, n) : t[1] = e.to[2] /\ t[2] = e.from[1]
      BY <1>2
    <3>2. e \in WiredG(i)
      BY <1>2, <3>1
    <3> QED BY <3>1, <3>2
  <2>3. ASSUME WiredG(i) # {}
        PROVE  SourceG(i) \in WiredG(i) /\ SourceS(i)[2] = SourceG(i).from[1]
    <3>1. SourceG(i) \in WiredG(i)
      BY <2>3
    <3>2. SourceS(i) \in WiredS(i)
      BY <2>1, <2>3
    <3> HIDE DEF SourceG, SourceS
    <3>3. PICK e \in WiredG(i) : SourceS(i)[2] = e.from[1]
      BY <2>2, <3>2
    <3>4. e = SourceG(i)
      BY <1>3, <3>1
    <3> QED BY <3>1, <3>3, <3>4
  <2>4. WiredS(i) = {} <=> WiredG(i) = {}
    BY <2>1, <2>2
  <2> HIDE DEF SourceG, SourceS, WiredS
  <2> QED BY <2>3, <2>4
<1> HIDE DEF WiredS, SourceG, SourceS
<1>5. inputsG = inputsS
  <2>1. ASSUME NEW i \in ports, WiredG(i) # {}
        PROVE  ready[SourceG(i).from[1]].value = f[SourceS(i)[2]].value
    <3>1. SourceG(i) \in Incoming(g, n) /\ SourceG(i).to[2] = i
      BY <1>2, <1>4, <2>1
    <3>2. SourceG(i) \in Watched(g, n)
      BY <3>1 DEF Watched
    <3> QED BY <1>4, <2>1, <3>2
  <2> HIDE DEF ports, DefaultAt
  <2> QED BY <1>4, <2>1
<1> HIDE DEF inputsG, inputsS
<1> DEFINE A == \E e \in Incoming(g, n) : e.to[2] \notin ports
           B == \E e \in Incoming(g, n) : e.from[2] # 1
           C == \E i \in ports : WiredG(i) = {} /\ DefaultAt(i) = NoDefault
           result == Compute(g.nodes[n].kind, Component(g, n), g.nodes[n].value, inputsG)
           last == IF result = Fails THEN Error("component") ELSE Output(result)
           it == IF A THEN Error("input port out of range")
                 ELSE IF B THEN Error("output port out of range")
                 ELSE IF C THEN Error("input missing") ELSE last
<1>6. RunNode(g, n, ready) = it
  <2>1. RunNode(g, n, ready) =
          CASE A -> Error("input port out of range")
            [] (\A e \in Incoming(g, n) : e.to[2] \in ports)
               /\ (\E e \in Incoming(g, n) : e.from[2] # 1) -> Error("output port out of range")
            [] (\A e \in Incoming(g, n) : e.to[2] \in ports /\ e.from[2] = 1)
               /\ (\E i \in ports : WiredG(i) = {} /\ DefaultAt(i) = NoDefault) -> Error("input missing")
            [] OTHER -> last
    BY DEF RunNode, inputsG, SourceG, WiredG
  <2>2. (\A e \in Incoming(g, n) : e.to[2] \in ports) <=> ~A
    OBVIOUS
  <2>3. (\A e \in Incoming(g, n) : e.to[2] \in ports /\ e.from[2] = 1) <=> ~A /\ ~B
    OBVIOUS
  <2> HIDE DEF A, last, ports
  <2>4. CASE A
    BY <2>1, <2>2, <2>3, <2>4
  <2>5. CASE ~A /\ B
    BY <2>1, <2>2, <2>3, <2>5
  <2>6. CASE ~A /\ ~B /\ C
    BY <2>1, <2>2, <2>3, <2>6
  <2>7. CASE ~A /\ ~B /\ ~C
    BY <2>1, <2>2, <2>3, <2>7
  <2> QED BY <2>4, <2>5, <2>6, <2>7
<1>7. RunFrom(s, Component(g, n), f) = it
  <2> DEFINE A2 == \E t \in in : t[1] \notin ports
             B2 == \E t \in in : t[3] # 1
             C2 == \E i \in ports : WiredS(i) = {} /\ DefaultAt(i) = NoDefault
             result2 == Compute(s.kind, Component(g, n), s.value, inputsS)
  <2>1. RunFrom(s, Component(g, n), f) =
          IF A2 THEN Error("input port out of range")
          ELSE IF B2 THEN Error("output port out of range")
          ELSE IF C2 THEN Error("input missing")
          ELSE IF result2 = Fails THEN Error("component") ELSE Output(result2)
    BY <1>1 DEF RunFrom, inputsS, SourceS, WiredS, in
  <2>2. A2 <=> A
    <3>1. ASSUME NEW e \in Incoming(g, n), e.to[2] \notin ports PROVE A2
      <4>1. <<e.to[2], e.from[1], e.from[2]>> \in in /\ <<e.to[2], e.from[1], e.from[2]>>[1] = e.to[2]
        BY <1>2
      <4> HIDE DEF ports
      <4> QED BY <3>1, <4>1
    <3> QED BY <1>2, <3>1
  <2>3. B2 <=> B
    <3>1. ASSUME NEW e \in Incoming(g, n), e.from[2] # 1 PROVE B2
      <4>1. <<e.to[2], e.from[1], e.from[2]>> \in in /\ <<e.to[2], e.from[1], e.from[2]>>[3] = e.from[2]
        BY <1>2
      <4> QED BY <3>1, <4>1
    <3> QED BY <1>2, <3>1
  <2>4. C2 <=> C
    BY <1>4
  <2>5. result2 = result
    BY <1>1, <1>5
  <2> HIDE DEF A, B, C, A2, B2, C2, result, result2
  <2> QED BY <2>1, <2>2, <2>3, <2>4, <2>5
<1> HIDE DEF it
<1> QED BY <1>6, <1>7 DEF s

(* Results that agree where a node looks give the same run. *)
LEMMA RunAgrees ==
  ASSUME NEW g, GraphType(g), OneWirePerInput(g), NEW n \in Nodes(g), NEW h, NEW f,
         \A e \in Watched(g, n) : h[e.from[1]] = f[e.from[1]]
  PROVE  RunFrom(Signature(g, n), Component(g, n), h) = RunFrom(Signature(g, n), Component(g, n), f)
<1>1. RunNode(g, n, h) = RunFrom(Signature(g, n), Component(g, n), f)
  BY RunBySignature
<1>2. RunNode(g, n, h) = RunFrom(Signature(g, n), Component(g, n), h)
  BY RunBySignature
<1> QED BY <1>1, <1>2

(* What an evaluation answers for a node, given the answers f for those it is
   wired to. *)
Answer(g, n, f) ==
  IF Component(g, n) = Unknown THEN Error("unknown component")
  ELSE IF \E e \in Watched(g, n) : ~HasOutput(f[e.from[1]]) THEN Error("upstream error")
  ELSE RunFrom(Signature(g, n), Component(g, n), f)

(* An error is no output. *)
LEMMA OutputOrError ==
  /\ \A v : HasOutput(Output(v))
  /\ \A w : ~HasOutput(Error(w))
<1>1. \A v : DOMAIN [value |-> v] = {"value"}
  OBVIOUS
<1>2. \A w : DOMAIN [error |-> w] = {"error"} /\ "value" # "error"
  OBVIOUS
<1> QED BY <1>1, <1>2 DEF HasOutput, Output, Error

(* Answers for its sources that agree give the same answer for a node. *)
LEMMA AnswerAgrees ==
  ASSUME NEW g, GraphType(g), OneWirePerInput(g), NEW n \in Nodes(g), NEW h, NEW f,
         \A e \in Watched(g, n) : h[e.from[1]] = f[e.from[1]]
  PROVE  Answer(g, n, h) = Answer(g, n, f)
<1>1. RunFrom(Signature(g, n), Component(g, n), h) = RunFrom(Signature(g, n), Component(g, n), f)
  BY RunAgrees
<1> QED BY <1>1 DEF Answer

(* Results that are each the answer given the others are what a fresh
   evaluation gives: where two such results differ at a node they differ at a
   source of it, and there are no cycles. *)
LEMMA AnswersAreFresh ==
  ASSUME GraphType(given), WellFormed(given), NEW f, f = [n \in Nodes(given) |-> f[n]],
         \A n \in Nodes(given) : f[n] = Answer(given, n, f)
  PROVE  f = Fresh
<1> DEFINE Look(h, n) == [m \in {e.from[1] : e \in Watched(given, n)} |-> h[m]]
           Says(h, n) ==
             CASE Component(given, n) = Unknown -> Error("unknown component")
               [] Component(given, n) # Unknown
                  /\ (\E e \in Watched(given, n) : ~HasOutput(h[e.from[1]])) ->
                    Error("upstream error")
               [] OTHER -> RunNode(given, n, Look(h, n))
<1>1. ASSUME NEW h, NEW n \in Nodes(given) PROVE Says(h, n) = Answer(given, n, h)
  <2>1. \A e \in Watched(given, n) : Look(h, n)[e.from[1]] = h[e.from[1]]
    OBVIOUS
  <2> HIDE DEF Look
  <2>2. RunNode(given, n, Look(h, n)) = RunFrom(Signature(given, n), Component(given, n), h)
    BY <2>1, RunBySignature DEF WellFormed
  <2> QED BY <2>2 DEF Answer
<1>2. Fresh = CHOOSE h : h = [n \in Nodes(given) |-> Says(h, n)]
  BY DEF Fresh
<1> HIDE DEF Says
<1>3. f = [n \in Nodes(given) |-> Says(f, n)]
  BY <1>1
<1>4. Fresh = [n \in Nodes(given) |-> Says(Fresh, n)]
  BY <1>2, <1>3
<1>5. \A n \in Nodes(given) : Fresh[n] = Answer(given, n, Fresh)
  BY <1>1, <1>4
<1> DEFINE T == {n \in Nodes(given) : Fresh[n] # f[n]}
<1>6. ASSUME NEW n \in T PROVE \E e \in given.edges : e.to[1] = n /\ e.from[1] \in T
  <2>1. PICK e \in Watched(given, n) : Fresh[e.from[1]] # f[e.from[1]]
    <3>1. CASE \A e \in Watched(given, n) : Fresh[e.from[1]] = f[e.from[1]]
      <4>1. Answer(given, n, Fresh) = Answer(given, n, f)
        BY <3>1, AnswerAgrees DEF WellFormed
      <4> QED BY <1>5, <4>1
    <3> QED BY <3>1
  <2>2. e \in given.edges /\ e.to[1] = n
    BY DEF Watched, Incoming
  <2>3. e.from[1] \in Nodes(given)
    BY <2>2 DEF WellFormed, NoLooseWires
  <2> QED BY <2>1, <2>2, <2>3
<1>7. T \in SUBSET Nodes(given)
  OBVIOUS
<1> HIDE DEF T
<1>8. T = {}
  BY <1>6, <1>7 DEF WellFormed, Acyclic
<1>9. \A n \in Nodes(given) : Fresh[n] = f[n]
  BY <1>8 DEF T
<1> QED BY <1>4, <1>9

-----------------------------------------------------------------------------

(* An entry of a cache: what running its component from its signature gave, on
   the outputs of its sources as long as they are in the cache too. *)
EntryFits(c, n) ==
  /\ c[n] = [signature |-> c[n].signature, component |-> c[n].component, output |-> c[n].output]
  /\ HasOutput(c[n].output)
  /\ (\A t \in Looked(c[n].signature) : t[2] \in DOMAIN c) =>
       c[n].output = RunFrom(c[n].signature, c[n].component, [m \in DOMAIN c |-> c[m].output])

CacheFits(c) ==
  /\ c = [n \in DOMAIN c |-> c[n]]
  /\ \A n \in DOMAIN c : EntryFits(c, n)

(* Results that agree where a signature looks give the same run. *)
LEMMA LookedRuns ==
  ASSUME NEW s, NEW c, NEW h, NEW f, \A t \in Looked(s) : h[t[2]] = f[t[2]]
  PROVE  RunFrom(s, c, h) = RunFrom(s, c, f)
<1> DEFINE ports == DOMAIN Defaults[s.kind]
           WiredTo(i) == {t \in s.incoming : t[1] = i}
           Source(i) == CHOOSE t \in WiredTo(i) : TRUE
           DefaultAt(i) == Defaults[s.kind][i]
           inputsH == [i \in ports |-> IF WiredTo(i) # {} THEN h[Source(i)[2]].value ELSE DefaultAt(i)]
           inputsF == [i \in ports |-> IF WiredTo(i) # {} THEN f[Source(i)[2]].value ELSE DefaultAt(i)]
<1>1. ASSUME NEW i \in ports, WiredTo(i) # {} PROVE h[Source(i)[2]] = f[Source(i)[2]]
  <2>1. Source(i) \in WiredTo(i)
    BY <1>1
  <2> HIDE DEF Source
  <2>2. Source(i) \in Looked(s)
    BY <2>1 DEF Looked
  <2> QED BY <2>2
<1> HIDE DEF ports, WiredTo, Source, DefaultAt
<1>2. inputsH = inputsF
  BY <1>1
<1> HIDE DEF inputsH, inputsF
<1> DEFINE Run(inputs) ==
             IF \E t \in s.incoming : t[1] \notin ports THEN Error("input port out of range")
             ELSE IF \E t \in s.incoming : t[3] # 1 THEN Error("output port out of range")
             ELSE IF \E i \in ports : WiredTo(i) = {} /\ DefaultAt(i) = NoDefault THEN Error("input missing")
             ELSE IF Compute(s.kind, c, s.value, inputs) = Fails THEN Error("component")
             ELSE Output(Compute(s.kind, c, s.value, inputs))
<1>3. RunFrom(s, c, h) = Run(inputsH)
  BY DEF RunFrom, inputsH, ports, WiredTo, Source, DefaultAt
<1>4. RunFrom(s, c, f) = Run(inputsF)
  BY DEF RunFrom, inputsF, ports, WiredTo, Source, DefaultAt
<1> HIDE DEF Run
<1> QED BY <1>2, <1>3, <1>4

(* A cache that loses entries still fits. *)
LEMMA ForgetFits ==
  ASSUME NEW c, CacheFits(c), NEW S PROVE CacheFits(Forget(c, S)) /\ DOMAIN Forget(c, S) = DOMAIN c \ S
<1> DEFINE d == Forget(c, S)
<1>1. DOMAIN d = DOMAIN c \ S /\ \A n \in DOMAIN d : d[n] = c[n]
  BY DEF Forget
<1>2. d = [n \in DOMAIN d |-> d[n]]
  BY DEF Forget
<1> HIDE DEF d
<1>3. ASSUME NEW n \in DOMAIN d PROVE EntryFits(d, n)
  <2>1. EntryFits(c, n) /\ d[n] = c[n]
    BY <1>1 DEF CacheFits
  <2>2. ASSUME \A t \in Looked(d[n].signature) : t[2] \in DOMAIN d
        PROVE  d[n].output = RunFrom(d[n].signature, d[n].component, [m \in DOMAIN d |-> d[m].output])
    <3>1. \A t \in Looked(c[n].signature) : t[2] \in DOMAIN c
      BY <1>1, <2>1, <2>2
    <3>2. c[n].output = RunFrom(c[n].signature, c[n].component, [m \in DOMAIN c |-> c[m].output])
      BY <2>1, <3>1 DEF EntryFits
    <3> DEFINE O(k) == [m \in DOMAIN k |-> k[m].output]
    <3>3. \A t \in Looked(c[n].signature) : O(d)[t[2]] = O(c)[t[2]]
      <4> SUFFICES ASSUME NEW t \in Looked(c[n].signature) PROVE O(d)[t[2]] = O(c)[t[2]]
        OBVIOUS
      <4>1. t[2] \in DOMAIN d /\ t[2] \in DOMAIN c /\ d[t[2]] = c[t[2]]
        BY <1>1, <2>1, <2>2
      <4> QED BY <4>1
    <3> HIDE DEF O
    <3>4. RunFrom(c[n].signature, c[n].component, O(d)) = RunFrom(c[n].signature, c[n].component, O(c))
      BY <3>3, LookedRuns
    <3> QED BY <2>1, <3>2, <3>4 DEF O
  <2> QED BY <2>1, <2>2 DEF EntryFits
<1> QED BY <1>1, <1>2, <1>3 DEF CacheFits, d

-----------------------------------------------------------------------------

(* What is known in a pass when the nodes of done have been visited, and c0 was
   the cache it started from: each has its answer, and an entry if that is an
   output; the others have the entries they had; and a node that did not count
   as changed has the output it had. *)
PassFits(pass, c0, done) ==
  /\ pass = [results |-> pass.results, cache |-> pass.cache, changed |-> pass.changed]
  /\ pass.results = [n \in done |-> pass.results[n]]
  /\ pass.cache = [n \in DOMAIN pass.cache |-> pass.cache[n]]
  /\ \A n \in done : \A e \in Incoming(given, n) : e.from[1] \in done
  /\ \A n \in done : pass.results[n] = Answer(given, n, pass.results)
  /\ \A n \in done :
       /\ n \in DOMAIN pass.cache <=> HasOutput(pass.results[n])
       /\ n \in DOMAIN pass.cache =>
            pass.cache[n] = [signature |-> Signature(given, n), component |-> Component(given, n),
                             output |-> pass.results[n]]
       /\ n \notin pass.changed =>
            HasOutput(pass.results[n]) /\ n \in DOMAIN c0 /\ c0[n].output = pass.results[n]
  /\ DOMAIN pass.cache \subseteq Nodes(given)
  /\ \A n \in Nodes(given) \ done :
       /\ n \in DOMAIN pass.cache <=> n \in DOMAIN c0
       /\ n \in DOMAIN c0 => pass.cache[n] = c0[n]

(* What a visit of n that gives r makes of the pass. *)
Visited(pass, next, c0, n, r) ==
  /\ next = [results |-> next.results, cache |-> next.cache, changed |-> next.changed]
  /\ next.results = Put(pass.results, n, r)
  /\ \/ /\ HasOutput(r)
        /\ DOMAIN next.cache = DOMAIN pass.cache \cup {n}
        /\ next.cache[n] = [signature |-> Signature(given, n), component |-> Component(given, n),
                            output |-> r]
     \/ ~HasOutput(r) /\ DOMAIN next.cache = DOMAIN pass.cache \ {n}
  /\ \A m \in DOMAIN pass.cache : m # n => next.cache[m] = pass.cache[m]
  /\ next.cache = [m \in DOMAIN next.cache |-> next.cache[m]]
  /\ \A m : m # n => (m \in next.changed <=> m \in pass.changed)
  /\ n \notin next.changed => HasOutput(r) /\ n \in DOMAIN c0 /\ c0[n].output = r

(* A visit answers for the node, whether it runs it or takes what was cached. *)
LEMMA VisitAnswers ==
  ASSUME GraphType(given), WellFormed(given), NEW c0, CacheFits(c0), NEW done, done \subseteq Nodes(given),
         NEW pass, PassFits(pass, c0, done), NEW n \in Nodes(given) \ done,
         \A e \in Incoming(given, n) : e.from[1] \in done
  PROVE  Visited(pass, Visit(pass, given, n), c0, n, Answer(given, n, pass.results))
<1> DEFINE next == Visit(pass, given, n)
           r == Answer(given, n, pass.results)
           R == pass.results
           entry == [signature |-> Signature(given, n), component |-> Component(given, n), output |-> r]
           unknown == Component(given, n) = Unknown
           blocked == ~unknown /\ Upstream(given, n, R) # {}
           run == IF unknown THEN Error("unknown component")
                  ELSE IF blocked THEN Error("upstream error") ELSE RunNode(given, n, R)
<1>1. /\ n \in DOMAIN pass.cache <=> n \in DOMAIN c0
      /\ n \in DOMAIN c0 => pass.cache[n] = c0[n]
      /\ pass = [results |-> pass.results, cache |-> pass.cache, changed |-> pass.changed]
      /\ pass.cache = [m \in DOMAIN pass.cache |-> pass.cache[m]]
  BY DEF PassFits
<1>2. blocked <=> ~unknown /\ \E e \in Watched(given, n) : ~HasOutput(R[e.from[1]])
  BY DEF Upstream
<1>3. RunNode(given, n, R) = RunFrom(Signature(given, n), Component(given, n), R)
  BY RunBySignature DEF WellFormed
<1>4. run = r
  BY <1>2, <1>3 DEF Answer
<1>5. CASE ~unknown /\ ~Needs(pass, given, n)
  <2> DEFINE old == pass.cache[n]
  <2>1. next = [pass EXCEPT !.results = Put(@, n, old.output)]
    BY <1>5 DEF Visit
  <2>2. next = [results |-> Put(R, n, old.output), cache |-> pass.cache, changed |-> pass.changed]
    BY <1>1, <2>1
  <2>3. /\ n \in DOMAIN pass.cache /\ old.signature = Signature(given, n) /\ old.component = Component(given, n)
        /\ \A e \in Watched(given, n) : e.from[1] \notin pass.changed /\ HasOutput(R[e.from[1]])
    BY <1>5 DEF Needs, Upstream
  <2>4. n \in DOMAIN c0 /\ c0[n] = old
    BY <1>1, <2>3
  <2>5. /\ old = [signature |-> old.signature, component |-> old.component, output |-> old.output]
        /\ HasOutput(old.output)
        /\ (\A t \in Looked(old.signature) : t[2] \in DOMAIN c0) =>
             old.output = RunFrom(old.signature, old.component, [m \in DOMAIN c0 |-> c0[m].output])
    BY <2>4 DEF CacheFits, EntryFits
  <2>6. ASSUME NEW t \in Looked(old.signature)
        PROVE  t[2] \in DOMAIN c0 /\ c0[t[2]].output = R[t[2]]
    <3>1. t \in Signature(given, n).incoming /\ t[1] \in Ports(given, n)
      BY <2>3 DEF Looked, Ports, Signature
    <3>2. PICK e \in Incoming(given, n) : t[1] = e.to[2] /\ t[2] = e.from[1]
      BY <3>1, WiresSigned
    <3>3. e \in Watched(given, n)
      BY <3>1, <3>2 DEF Watched
    <3>4. t[2] \in done /\ t[2] \notin pass.changed
      BY <2>3, <3>2, <3>3
    <3> QED BY <3>4 DEF PassFits
  <2>7. old.output = RunFrom(Signature(given, n), Component(given, n), R)
    <3> DEFINE O == [m \in DOMAIN c0 |-> c0[m].output]
    <3>1. \A t \in Looked(old.signature) : O[t[2]] = R[t[2]]
      BY <2>6
    <3>2. old.output = RunFrom(old.signature, old.component, O)
      BY <2>5, <2>6
    <3> HIDE DEF O, old
    <3>3. RunFrom(old.signature, old.component, O) = RunFrom(old.signature, old.component, R)
      BY <3>1, LookedRuns
    <3> QED BY <2>3, <3>2, <3>3
  <2>8. r = old.output
    BY <1>2, <1>5, <2>3, <2>7 DEF Answer
  <2>9. HasOutput(r) /\ c0[n].output = r
    BY <2>4, <2>5, <2>8
  <2>10. pass.cache[n] = entry
    BY <2>3, <2>5, <2>8
  <2>11. DOMAIN pass.cache = DOMAIN pass.cache \cup {n}
    BY <2>3
  <2>12. next.results = Put(R, n, r) /\ next.cache = pass.cache /\ next.changed = pass.changed
         /\ next = [results |-> next.results, cache |-> next.cache, changed |-> next.changed]
    BY <2>2, <2>8
  <2> HIDE DEF next, r, R, old
  <2> QED BY <1>1, <2>4, <2>9, <2>10, <2>11, <2>12 DEF next, r, R, entry, Visited
<1>6. CASE unknown \/ Needs(pass, given, n)
  <2> DEFINE kept == HasOutput(r) /\ Unchanged(pass, n, r)
             cache2 == IF HasOutput(r) THEN Put(pass.cache, n, entry) ELSE Forget(pass.cache, {n})
             changed2 == IF kept THEN pass.changed ELSE pass.changed \cup {n}
  <2>1. next = [results |-> Put(R, n, run),
                cache |-> IF HasOutput(run)
                          THEN Put(pass.cache, n, [signature |-> Signature(given, n),
                                                   component |-> Component(given, n), output |-> run])
                          ELSE Forget(pass.cache, {n}),
                changed |-> IF HasOutput(run) /\ Unchanged(pass, n, run)
                            THEN pass.changed ELSE pass.changed \cup {n}]
    BY <1>6 DEF Visit
  <2>2. next = [results |-> Put(R, n, r), cache |-> cache2, changed |-> changed2]
    <3> HIDE DEF run, r, next
    <3> QED BY <1>4, <2>1
  <2>3. next.results = Put(R, n, r) /\ next.cache = cache2 /\ next.changed = changed2
        /\ next = [results |-> next.results, cache |-> next.cache, changed |-> next.changed]
    <3> HIDE DEF cache2, changed2, r
    <3> QED BY <2>2
  <2> HIDE DEF r, R, next, entry
  <2>4. /\ \/ HasOutput(r) /\ DOMAIN cache2 = DOMAIN pass.cache \cup {n} /\ cache2[n] = entry
           \/ ~HasOutput(r) /\ DOMAIN cache2 = DOMAIN pass.cache \ {n}
        /\ \A m \in DOMAIN pass.cache : m # n => cache2[m] = pass.cache[m]
        /\ cache2 = [m \in DOMAIN cache2 |-> cache2[m]]
    <3> DEFINE base == pass.cache
               more == Put(base, n, entry)
               less == Forget(base, {n})
    <3>1. /\ DOMAIN more = DOMAIN base \cup {n} /\ more[n] = entry
          /\ \A m \in DOMAIN base : m # n => more[m] = base[m]
          /\ more = [m \in DOMAIN base \cup {n} |-> more[m]]
      <4> HIDE DEF base
      <4> HIDE DEF entry
      <4> QED BY DEF Put
    <3>2. /\ DOMAIN less = DOMAIN base \ {n}
          /\ \A m \in DOMAIN base \ {n} : less[m] = base[m]
          /\ less = [m \in DOMAIN base \ {n} |-> less[m]]
      <4> HIDE DEF base
      <4> QED BY DEF Forget
    <3>3. cache2 = IF HasOutput(r) THEN more ELSE less
      OBVIOUS
    <3> HIDE DEF cache2, more, less, base
    <3>4. CASE HasOutput(r)
      <4>1. cache2 = more
        BY <3>3, <3>4
      <4> QED BY <3>1, <3>4, <4>1 DEF base
    <3>5. CASE ~HasOutput(r)
      <4>1. cache2 = less
        BY <3>3, <3>5
      <4>2. \A m \in DOMAIN base : m # n => cache2[m] = base[m]
        BY <3>2, <4>1
      <4> QED BY <3>2, <3>5, <4>1, <4>2 DEF base
    <3> QED BY <3>4, <3>5
  <2>5. \A m : m # n => (m \in changed2 <=> m \in pass.changed)
    OBVIOUS
  <2>6. n \notin changed2 => HasOutput(r) /\ n \in DOMAIN c0 /\ c0[n].output = r
    BY <1>1 DEF Unchanged
  <2> HIDE DEF cache2, changed2
  <2> QED BY <2>3, <2>4, <2>5, <2>6 DEF next, r, R, entry, Visited
<1> QED BY <1>5, <1>6

-----------------------------------------------------------------------------

(* A visit keeps what is known of the pass, and adds the node. *)
LEMMA VisitKeeps ==
  ASSUME GraphType(given), WellFormed(given), NEW c0, CacheFits(c0), NEW done, done \subseteq Nodes(given),
         NEW pass, PassFits(pass, c0, done), NEW n \in Nodes(given) \ done,
         \A e \in Incoming(given, n) : e.from[1] \in done
  PROVE  PassFits(Visit(pass, given, n), c0, done \cup {n})
<1> DEFINE next == Visit(pass, given, n)
           r == Answer(given, n, pass.results)
           R == pass.results
           X == next.results
           entry == [signature |-> Signature(given, n), component |-> Component(given, n), output |-> r]
           both == done \cup {n}
<1>1. /\ next = [results |-> next.results, cache |-> next.cache, changed |-> next.changed]
      /\ X = Put(R, n, r)
      /\ \/ HasOutput(r) /\ DOMAIN next.cache = DOMAIN pass.cache \cup {n} /\ next.cache[n] = entry
         \/ ~HasOutput(r) /\ DOMAIN next.cache = DOMAIN pass.cache \ {n}
      /\ \A m \in DOMAIN pass.cache : m # n => next.cache[m] = pass.cache[m]
      /\ next.cache = [m \in DOMAIN next.cache |-> next.cache[m]]
      /\ \A m : m # n => (m \in next.changed <=> m \in pass.changed)
      /\ n \notin next.changed => HasOutput(r) /\ n \in DOMAIN c0 /\ c0[n].output = r
  <2>1. Visited(pass, next, c0, n, r)
    BY VisitAnswers
  <2> HIDE DEF next, r
  <2> QED BY <2>1 DEF Visited
<1> HIDE DEF next
<1>2. /\ R = [m \in done |-> R[m]]
      /\ \A m \in done : \A e \in Incoming(given, m) : e.from[1] \in done
      /\ \A m \in done : R[m] = Answer(given, m, R)
      /\ DOMAIN pass.cache \subseteq Nodes(given)
  BY DEF PassFits
<1>3. n \notin done
  OBVIOUS
<1>4. DOMAIN R = done
  <2> HIDE DEF R
  <2> QED BY <1>2
<1>5. X = [m \in both |-> X[m]] /\ X[n] = r /\ \A m \in done : X[m] = R[m]
  <2> HIDE DEF R, r, X
  <2>1. X = Put(R, n, r)
    BY <1>1
  <2>2. X = [m \in both |-> IF m = n THEN r ELSE R[m]]
    BY <1>4, <2>1 DEF Put
  <2> QED BY <1>3, <2>2
<1> HIDE DEF X
<1>6. ASSUME NEW m \in both PROVE \A e \in Incoming(given, m) : e.from[1] \in done
  BY <1>2
<1>7. ASSUME NEW m \in both PROVE Answer(given, m, X) = Answer(given, m, R)
  <2>1. \A e \in Watched(given, m) : X[e.from[1]] = R[e.from[1]]
    BY <1>5, <1>6 DEF Watched
  <2>2. m \in Nodes(given)
    OBVIOUS
  <2> HIDE DEF both, R
  <2> QED BY <2>1, <2>2, AnswerAgrees DEF WellFormed
<1>8. \A m \in both : X[m] = Answer(given, m, X)
  BY <1>2, <1>5, <1>7
<1>9. ASSUME NEW m \in both
      PROVE  /\ m \in DOMAIN next.cache <=> HasOutput(X[m])
             /\ m \in DOMAIN next.cache =>
                  next.cache[m] = [signature |-> Signature(given, m), component |-> Component(given, m),
                                   output |-> X[m]]
             /\ m \notin next.changed =>
                  HasOutput(X[m]) /\ m \in DOMAIN c0 /\ c0[m].output = X[m]
  <2>1. CASE m = n
    <3>1. X[m] = r
      BY <1>5, <2>1
    <3>2. n \in DOMAIN next.cache <=> HasOutput(r)
      <4> HIDE DEF r, entry
      <4> QED BY <1>1
    <3>3. n \in DOMAIN next.cache => next.cache[n] = entry
      <4> HIDE DEF r, entry
      <4> QED BY <1>1
    <3> HIDE DEF r
    <3> QED BY <1>1, <2>1, <3>1, <3>2, <3>3
  <2>2. CASE m \in done
    <3>1. m # n /\ X[m] = R[m]
      BY <1>3, <1>5, <2>2
    <3>2. /\ m \in DOMAIN pass.cache <=> HasOutput(R[m])
          /\ m \in DOMAIN pass.cache =>
               pass.cache[m] = [signature |-> Signature(given, m), component |-> Component(given, m),
                                output |-> R[m]]
          /\ m \notin pass.changed => HasOutput(R[m]) /\ m \in DOMAIN c0 /\ c0[m].output = R[m]
      BY <2>2 DEF PassFits
    <3>3. m \in DOMAIN next.cache <=> m \in DOMAIN pass.cache
      <4> HIDE DEF r, entry
      <4> QED BY <1>1, <3>1
    <3>4. m \in DOMAIN pass.cache => next.cache[m] = pass.cache[m]
      BY <1>1, <3>1
    <3>5. m \in next.changed <=> m \in pass.changed
      BY <1>1, <3>1
    <3> HIDE DEF R
    <3> QED BY <3>1, <3>2, <3>3, <3>4, <3>5
  <2> QED BY <2>1, <2>2
<1>10. DOMAIN next.cache \subseteq Nodes(given)
  <2> HIDE DEF r, entry
  <2> QED BY <1>1, <1>2
<1>11. ASSUME NEW m \in Nodes(given) \ both
       PROVE  /\ m \in DOMAIN next.cache <=> m \in DOMAIN c0
              /\ m \in DOMAIN c0 => next.cache[m] = c0[m]
  <2>1. m \in Nodes(given) \ done /\ m # n
    OBVIOUS
  <2>2. /\ m \in DOMAIN pass.cache <=> m \in DOMAIN c0
        /\ m \in DOMAIN c0 => pass.cache[m] = c0[m]
    BY <2>1 DEF PassFits
  <2>3. m \in DOMAIN next.cache <=> m \in DOMAIN pass.cache
    <3> HIDE DEF r, entry
    <3> QED BY <1>1, <2>1
  <2> QED BY <1>1, <2>1, <2>2, <2>3
<1>12. next.results = X /\ next.cache = [m \in DOMAIN next.cache |-> next.cache[m]]
       /\ next = [results |-> next.results, cache |-> next.cache, changed |-> next.changed]
  BY <1>1 DEF X
<1> HIDE DEF both
<1>13. \A m \in both : \A e \in Incoming(given, m) : e.from[1] \in both
  BY <1>6 DEF both
<1>14. PassFits(next, c0, both)
  <2>1. next.results = [m \in both |-> next.results[m]]
    BY <1>5, <1>12
  <2>2. \A m \in both : next.results[m] = Answer(given, m, next.results)
    BY <1>8, <1>12
  <2>3. \A m \in both :
          /\ m \in DOMAIN next.cache <=> HasOutput(next.results[m])
          /\ m \in DOMAIN next.cache =>
               next.cache[m] = [signature |-> Signature(given, m), component |-> Component(given, m),
                                output |-> next.results[m]]
          /\ m \notin next.changed =>
               HasOutput(next.results[m]) /\ m \in DOMAIN c0 /\ c0[m].output = next.results[m]
    BY <1>9, <1>12
  <2> QED BY <1>10, <1>11, <1>12, <1>13, <2>1, <2>2, <2>3 DEF PassFits
<1> QED BY <1>14 DEF next, both

(* The visits of a pass, in order. *)
Passes(f, start, order, n) == f = [i \in 0..n |-> IF i = 0 THEN start ELSE Visit(f[i - 1], given, order[i])]

(* They exist for any number of nodes. *)
LEMMA PassesExist ==
  ASSUME NEW start, NEW order, NEW n \in Nat
  PROVE  \E f : Passes(f, start, order, n)
<1> DEFINE S == {k \in Nat : \E f : Passes(f, start, order, k)}
<1>1. 0 \in S
  <2>1. Passes([i \in 0..0 |-> start], start, order, 0)
    BY DEF Passes
  <2> QED BY <2>1
<1>2. ASSUME NEW k \in Nat, k \in S PROVE k + 1 \in S
  <2>1. PICK f : Passes(f, start, order, k)
    BY <1>2
  <2> DEFINE h == [i \in 0..k + 1 |-> IF i = k + 1 THEN Visit(f[k], given, order[k + 1]) ELSE f[i]]
  <2>2. \A i \in 0..k : h[i] = f[i]
    OBVIOUS
  <2>3. ASSUME NEW i \in 0..k + 1 PROVE h[i] = IF i = 0 THEN start ELSE Visit(h[i - 1], given, order[i])
    <3>1. CASE i = k + 1
      BY <3>1, <2>2
    <3>2. CASE i \in 0..k
      <4>1. f[i] = IF i = 0 THEN start ELSE Visit(f[i - 1], given, order[i])
        BY <2>1, <3>2 DEF Passes
      <4>2. i # 0 => h[i - 1] = f[i - 1]
        BY <2>2, <3>2
      <4> HIDE DEF h
      <4> QED BY <2>2, <3>2, <4>1, <4>2
    <3> QED BY <3>1, <3>2
  <2>4. h = [i \in 0..k + 1 |-> h[i]]
    OBVIOUS
  <2> HIDE DEF h
  <2>5. Passes(h, start, order, k + 1)
    BY <2>3, <2>4 DEF Passes
  <2> QED BY <2>5
<1> HIDE DEF S
<1>3. Nat \subseteq S
  BY <1>1, <1>2, Counting
<1> QED BY <1>3 DEF S

(* The cache a pass starts from fits, and holds nodes of the graph only. *)
LEMMA StartFits ==
  ASSUME CacheFits(cache)
  PROVE  CacheFits(StartCache) /\ DOMAIN StartCache \subseteq Nodes(given)
<1>1. CASE dirtyAll
  <2>1. StartCache = << >>
    BY <1>1 DEF StartCache
  <2>2. DOMAIN << >> = {} /\ << >> = [n \in DOMAIN << >> |-> << >>[n]]
    OBVIOUS
  <2> QED BY <2>1, <2>2 DEF CacheFits
<1>2. CASE ~dirtyAll
  <2> DEFINE S == DOMAIN cache \ Nodes(given)
  <2>1. StartCache = Forget(cache, S)
    BY <1>2 DEF StartCache
  <2>2. DOMAIN cache \ S \subseteq Nodes(given)
    OBVIOUS
  <2> HIDE DEF S
  <2>3. CacheFits(Forget(cache, S)) /\ DOMAIN Forget(cache, S) = DOMAIN cache \ S
    BY ForgetFits
  <2> QED BY <2>1, <2>2, <2>3
<1> QED BY <1>1, <1>2

(* When every node was visited the results are the fresh ones, and the cache
   fits again. *)
LEMMA PassFitsAll ==
  ASSUME GraphType(given), WellFormed(given), NEW c0, NEW pass, PassFits(pass, c0, Nodes(given))
  PROVE  pass.results = Fresh /\ CacheFits(pass.cache)
<1> DEFINE R == pass.results
           c == pass.cache
<1>1. R = [n \in Nodes(given) |-> R[n]] /\ \A n \in Nodes(given) : R[n] = Answer(given, n, R)
  BY DEF PassFits
<1>2. /\ c = [n \in DOMAIN c |-> c[n]] /\ DOMAIN c \subseteq Nodes(given)
      /\ \A n \in Nodes(given) :
           /\ n \in DOMAIN c <=> HasOutput(R[n])
           /\ n \in DOMAIN c =>
                c[n] = [signature |-> Signature(given, n), component |-> Component(given, n),
                        output |-> R[n]]
  BY DEF PassFits
<1> HIDE DEF R, c
<1>3. R = Fresh
  BY <1>1, AnswersAreFresh
<1>4. ASSUME NEW n \in DOMAIN c PROVE EntryFits(c, n)
  <2> DEFINE s == Signature(given, n)
             k == Component(given, n)
             O == [m \in DOMAIN c |-> c[m].output]
  <2>1. n \in Nodes(given) /\ HasOutput(R[n]) /\ c[n] = [signature |-> s, component |-> k, output |-> R[n]]
    BY <1>2
  <2>2. R[n] = Answer(given, n, R)
    BY <1>1, <2>1
  <2>3. R[n] = RunFrom(s, k, R)
    <3>1. \A w : ~HasOutput(Error(w))
      BY OutputOrError
    <3> QED BY <2>1, <2>2, <3>1 DEF Answer
  <2> HIDE DEF s, k
  <2>4. c[n].signature = s /\ c[n].component = k /\ c[n].output = R[n]
        /\ c[n] = [signature |-> c[n].signature, component |-> c[n].component, output |-> c[n].output]
    BY <2>1
  <2>5. ASSUME \A t \in Looked(s) : t[2] \in DOMAIN c PROVE R[n] = RunFrom(s, k, O)
    <3>1. ASSUME NEW m \in DOMAIN c PROVE c[m].output = R[m]
      <4>1. c[m] = [signature |-> Signature(given, m), component |-> Component(given, m), output |-> R[m]]
        BY <1>2
      <4> QED BY <4>1
    <3>2. \A t \in Looked(s) : O[t[2]] = R[t[2]]
      BY <2>5, <3>1
    <3> HIDE DEF O
    <3>3. RunFrom(s, k, O) = RunFrom(s, k, R)
      BY <3>2, LookedRuns
    <3> QED BY <2>3, <3>3
  <2> QED BY <2>1, <2>4, <2>5 DEF EntryFits
<1>5. CacheFits(c)
  BY <1>2, <1>4 DEF CacheFits
<1> QED BY <1>3, <1>5 DEF R, c

(* A whole pass gives the fresh results, and leaves a cache that fits. *)
LEMMA PassIsFresh ==
  ASSUME GraphOk(given), Nodes(given) \subseteq Nat, CacheFits(cache)
  PROVE  Pass.results = Fresh /\ CacheFits(Pass.cache)
<1> DEFINE order == TopoOrder(given)
           c0 == StartCache
           start == [results |-> << >>, cache |-> c0, changed |-> {}]
           n == Len(order)
           F == CHOOSE f : f = [i \in 0..n |-> IF i = 0 THEN start ELSE Visit(f[i - 1], given, order[i])]
<1>1. GraphType(given) /\ WellFormed(given) /\ IsFiniteSet(Nodes(given))
  BY DEF GraphOk
<1>2. SortedOrder(given, order) /\ Items(order) = Nodes(given)
  BY <1>1, TopoOrderSorts
<1>3. CacheFits(c0) /\ DOMAIN c0 \subseteq Nodes(given)
  BY StartFits
<1>4. Pass = F[n]
  BY DEF Pass
<1> HIDE DEF order, c0
<1>5. /\ n \in Nat /\ DOMAIN order = 1..n /\ \A i \in 1..n : order[i] \in Nodes(given)
  BY <1>2 DEF SortedOrder
<1> HIDE DEF n
<1>6. Passes(F, start, order, n)
  <2>1. \E f : Passes(f, start, order, n)
    BY <1>5, PassesExist
  <2> HIDE DEF start
  <2> QED BY <2>1 DEF Passes
<1> HIDE DEF F
<1>7. \A i \in 0..n : F[i] = IF i = 0 THEN start ELSE Visit(F[i - 1], given, order[i])
  <2> HIDE DEF start
  <2> QED BY <1>6 DEF Passes
<1> DEFINE Before(i) == {order[j] : j \in 1..i}
           S == {i \in Nat : i <= n => PassFits(F[i], c0, Before(i))}
<1>8. 0 \in S
  <2>1. F[0] = start
    <3> HIDE DEF start
    <3> QED BY <1>5, <1>7
  <2>2. Before(0) = {}
    OBVIOUS
  <2>3. c0 = [m \in DOMAIN c0 |-> c0[m]]
    BY <1>3 DEF CacheFits
  <2>4. start.results = << >> /\ start.cache = c0 /\ start.changed = {}
        /\ start = [results |-> start.results, cache |-> start.cache, changed |-> start.changed]
    OBVIOUS
  <2>5. << >> = [m \in {} |-> << >>[m]]
    OBVIOUS
  <2> HIDE DEF start
  <2>6. PassFits(start, c0, {})
    BY <1>3, <2>3, <2>4, <2>5 DEF PassFits
  <2> QED BY <2>1, <2>2, <2>6
<1>9. ASSUME NEW i \in Nat, i \in S PROVE i + 1 \in S
  <2> SUFFICES ASSUME i + 1 <= n PROVE PassFits(F[i + 1], c0, Before(i + 1))
    OBVIOUS
  <2> DEFINE m == order[i + 1]
             done == Before(i)
             pass == F[i]
  <2>1. PassFits(pass, c0, done)
    BY <1>5, <1>9
  <2>2. i + 1 \in 1..n /\ i + 1 \in 0..n /\ i + 1 # 0 /\ (i + 1) - 1 = i /\ 1..i \subseteq 1..n
    BY <1>5
  <2>3. F[i + 1] = Visit(pass, given, m)
    <3> HIDE DEF start
    <3> QED BY <1>7, <2>2
  <2>4. m \in Nodes(given) /\ done \subseteq Nodes(given)
    BY <1>5, <2>2
  <2>5. m \notin done
    <3> SUFFICES ASSUME NEW j \in 1..i, order[j] = m PROVE FALSE
      OBVIOUS
    <3>1. j = i + 1
      BY <1>2, <2>2 DEF SortedOrder, n
    <3> QED BY <3>1
  <2>6. \A e \in Incoming(given, m) : e.from[1] \in done
    <3> SUFFICES ASSUME NEW e \in Incoming(given, m) PROVE e.from[1] \in done
      OBVIOUS
    <3>1. PICK j \in 1..(i + 1) - 1 : order[j] = e.from[1]
      BY <1>2, <2>2 DEF SortedOrder, n
    <3> QED BY <2>2, <3>1
  <2>7. Before(i + 1) = done \cup {m}
    <3>1. \A j : j \in 1..i + 1 <=> j = i + 1 \/ j \in 1..i
      OBVIOUS
    <3> QED BY <3>1
  <2> HIDE DEF done, m, pass
  <2>8. PassFits(Visit(pass, given, m), c0, done \cup {m})
    BY <1>1, <1>3, <2>1, <2>4, <2>5, <2>6, VisitKeeps
  <2> QED BY <2>3, <2>7, <2>8
<1> HIDE DEF S
<1>10. Nat \subseteq S
  BY <1>8, <1>9, Counting
<1>11. PassFits(F[n], c0, Before(n))
  <2> HIDE DEF Before
  <2> QED BY <1>5, <1>10 DEF S
<1>12. Before(n) = Nodes(given)
  BY <1>2, <1>5 DEF Items
<1>13. PassFits(Pass, c0, Nodes(given))
  BY <1>4, <1>11, <1>12
<1> QED BY <1>1, <1>13, PassFitsAll

-----------------------------------------------------------------------------

(* What the evaluator keeps: the entries of its cache fit each other, and what
   it last answered is fresh while nothing was edited since. *)
EvaluatorInv ==
  /\ GraphOk(given)
  /\ CacheFits(cache)
  /\ CachedIsFresh

(* The ids of a graph's nodes are numbers. *)
LEMMA NodesAreIds == ASSUME NEW g, GraphType(g) PROVE Nodes(g) \subseteq Nat
BY IdAssumption DEF GraphType, Nodes

(* Whatever was edited, registered and invalidated in between, an evaluation
   that takes what it can from the cache answers what a fresh one would. *)

(* What a fresh evaluation answers depends on the graph and the registry. *)
LEMMA FreshStays ==
  ASSUME given' = given, registry' = registry PROVE Fresh' = Fresh
BY DEF Fresh, Component, RunNode

(* Whatever was edited, registered and invalidated in between, an evaluation
   that takes what it can from the cache answers what a fresh one would. *)
THEOREM EvaluationIsFresh == EvaluatorSpec => []CachedIsFresh
<1>1. EvaluatorInit => EvaluatorInv
  <2> SUFFICES ASSUME EvaluatorInit PROVE EvaluatorInv
    OBVIOUS
  <2>1. GraphOk(given)
    BY StartAssumption DEF EvaluatorInit, GraphOk
  <2>2. CacheFits(cache)
    <3>1. DOMAIN << >> = {} /\ << >> = [n \in DOMAIN << >> |-> << >>[n]]
      OBVIOUS
    <3> QED BY <3>1 DEF EvaluatorInit, CacheFits
  <2> QED BY <2>1, <2>2 DEF EvaluatorInit, EvaluatorInv, CachedIsFresh
<1>2. EvaluatorInv /\ [EvaluatorNext]_evaluatorVars => EvaluatorInv'
  <2> SUFFICES ASSUME EvaluatorInv, [EvaluatorNext]_evaluatorVars PROVE EvaluatorInv'
    OBVIOUS
  <2>1. GraphOk(given) /\ CacheFits(cache) /\ (current => out = Fresh)
    BY DEF EvaluatorInv, CachedIsFresh
  <2>2. GraphOk(given') /\ CacheFits(cache') /\ (current' => out' = Fresh') => EvaluatorInv'
    BY DEF EvaluatorInv, CachedIsFresh
  <2>3. ASSUME NEW o \in GraphEdits, Edit(o) PROVE EvaluatorInv'
    <3>1. o \in GraphOp /\ Accepts(given, o) /\ given' = Applied(given, o) /\ cache' = cache /\ current' = FALSE
      BY <2>3, EditAssumption DEF Edit
    <3>2. GraphType(given') /\ GraphType(given)
      BY <2>1, <3>1, AppliedKeeps DEF GraphOk
    <3>3. Apply(given, o) = given'
      BY <3>1, <3>2, GraphIsNotRefused DEF Apply
    <3>4. GraphOk(given')
      BY <2>1, <3>1, <3>2, <3>3, ApplyOk, GraphIsNotRefused
    <3> QED BY <2>1, <2>2, <3>1, <3>4
  <2>4. ASSUME NEW k \in Kind, NEW v \in Version, Register(k, v) PROVE EvaluatorInv'
    BY <2>1, <2>2, <2>4 DEF Register
  <2>5. ASSUME given' = given, registry' = registry, out' = out, current' = current, CacheFits(cache')
        PROVE  EvaluatorInv'
    BY <2>1, <2>2, <2>5, FreshStays
  <2>6. ASSUME NEW n \in NodeId, Invalidate(n) PROVE EvaluatorInv'
    BY <2>1, <2>5, <2>6, ForgetFits DEF Invalidate
  <2>7. ASSUME InvalidateCache PROVE EvaluatorInv'
    <3>1. DOMAIN << >> = {} /\ << >> = [n \in DOMAIN << >> |-> << >>[n]]
      OBVIOUS
    <3>2. CacheFits(<< >>)
      BY <3>1 DEF CacheFits
    <3> QED BY <2>5, <2>7, <3>2 DEF InvalidateCache
  <2>8. ASSUME EvaluateGraph PROVE EvaluatorInv'
    <3>1. out' = Pass.results /\ cache' = Pass.cache /\ given' = given /\ registry' = registry
      BY <2>8 DEF EvaluateGraph
    <3>2. Nodes(given) \subseteq Nat
      BY <2>1, NodesAreIds DEF GraphOk
    <3>3. Pass.results = Fresh /\ CacheFits(Pass.cache)
      BY <2>1, <3>2, PassIsFresh
    <3>4. Fresh' = Fresh
      BY <3>1, FreshStays
    <3> QED BY <2>1, <2>2, <3>1, <3>3, <3>4
  <2>9. ASSUME UNCHANGED evaluatorVars PROVE EvaluatorInv'
    BY <2>1, <2>5, <2>9 DEF evaluatorVars
  <2> QED BY <2>3, <2>4, <2>6, <2>7, <2>8, <2>9 DEF EvaluatorNext
<1>3. EvaluatorInv => CachedIsFresh
  BY DEF EvaluatorInv
<1> QED BY <1>1, <1>2, <1>3, PTL DEF EvaluatorSpec

-----------------------------------------------------------------------------
(* The window.                                                              *)

(* A part of a finite set that is not all of it is smaller. *)
LEMMA FewerOf ==
  ASSUME NEW S, IsFiniteSet(S), NEW T, T \subseteq S
  PROVE  /\ IsFiniteSet(T) /\ Cardinality(T) \in Nat /\ Cardinality(S) \in Nat
         /\ Cardinality(T) <= Cardinality(S)
         /\ T # S => Cardinality(T) < Cardinality(S)
<1>1. IsFiniteSet(T) /\ Cardinality(T) <= Cardinality(S)
  BY FS_Subset
<1>2. Cardinality(S) = Cardinality(T) => S = T
  BY FS_Subset
<1>3. Cardinality(S) \in Nat /\ Cardinality(T) \in Nat
  BY <1>1, FS_CardinalityType
<1> QED BY <1>1, <1>2, <1>3

(* A finite set that a relation orders: the elements are told apart by how many
   come before each, and there is one for each such number. *)
LEMMA RankOnto ==
  ASSUME NEW S, IsFiniteSet(S), NEW R,
         \A x \in S : <<x, x>> \notin R,
         \A x, y, z \in S : <<x, y>> \in R /\ <<y, z>> \in R => <<x, z>> \in R,
         \A x, y \in S : x = y \/ <<x, y>> \in R \/ <<y, x>> \in R
  PROVE  \A i \in 1..Cardinality(S) :
           \E n \in S : Cardinality({m \in S : <<m, n>> \in R}) = i - 1
<1> DEFINE under(n) == {m \in S : <<m, n>> \in R}
           rank == [n \in S |-> Cardinality(under(n))]
           places == 0..Cardinality(S) - 1
<1>1. Cardinality(S) \in Nat
  BY FS_CardinalityType
<1>2. ASSUME NEW n \in S
      PROVE  IsFiniteSet(under(n)) /\ rank[n] \in Nat /\ rank[n] < Cardinality(S)
  <2>1. under(n) \subseteq S /\ under(n) # S
    OBVIOUS
  <2> HIDE DEF under
  <2>2. IsFiniteSet(under(n)) /\ Cardinality(under(n)) < Cardinality(S)
        /\ Cardinality(under(n)) \in Nat
    BY <2>1, FewerOf
  <2> QED BY <2>2
<1>3. ASSUME NEW x \in S, NEW y \in S, <<x, y>> \in R PROVE rank[x] < rank[y]
  <2>1. under(x) \subseteq under(y) /\ x \in under(y) /\ x \notin under(x)
    BY <1>3
  <2>2. IsFiniteSet(under(y)) /\ under(x) # under(y)
    BY <1>2, <2>1
  <2> HIDE DEF under
  <2>3. Cardinality(under(x)) < Cardinality(under(y))
    BY <2>1, <2>2, FewerOf
  <2> QED BY <2>3
<1>5. rank \in [S -> places]
  BY <1>1, <1>2
<1> HIDE DEF rank
<1>4. \A x, y \in S : x # y => rank[x] # rank[y]
  <2> SUFFICES ASSUME NEW x \in S, NEW y \in S, x # y PROVE rank[x] # rank[y]
    OBVIOUS
  <2>1. rank[x] \in Nat /\ rank[y] \in Nat
    BY <1>2
  <2>2. rank[x] < rank[y] \/ rank[y] < rank[x]
    BY <1>3
  <2> QED BY <2>1, <2>2
<1> DEFINE image == {rank[n] : n \in S}
<1>6. IsFiniteSet(image) /\ Cardinality(image) = Cardinality(S)
  <2>1. rank \in Injection(S, image)
    BY <1>4, <1>5 DEF Injection, IsInjective
  <2>2. rank \in Surjection(S, image)
    BY <1>5 DEF Surjection
  <2>3. rank \in Bijection(S, image)
    BY <2>1, <2>2 DEF Bijection
  <2>4. ExistsBijection(S, image)
    BY <2>3 DEF ExistsBijection
  <2> HIDE DEF image
  <2> QED BY <2>4, FS_Bijection
<1>7. IsFiniteSet(places) /\ Cardinality(places) = Cardinality(S)
  <2> DEFINE k == Cardinality(S) - 1
  <2>1. k \in Int /\ 0 \in Int
    BY <1>1
  <2> HIDE DEF k
  <2>2. IsFiniteSet(0..k) /\ Cardinality(0..k) = IF 0 > k THEN 0 ELSE k - 0 + 1
    BY <2>1, FS_Interval
  <2> QED BY <1>1, <2>2 DEF k
<1>8. image \subseteq places
  BY <1>5
<1>9. image = places
  <2> HIDE DEF image, places
  <2>1. image # places => Cardinality(image) < Cardinality(places)
    BY <1>7, <1>8, FewerOf
  <2> QED BY <1>1, <1>6, <1>7, <2>1
<1>10. ASSUME NEW i \in 1..Cardinality(S)
       PROVE  \E n \in S : Cardinality({m \in S : <<m, n>> \in R}) = i - 1
  <2>0. i - 1 \in places
    BY <1>1
  <2>1. i - 1 \in image
    BY <2>0, <1>9
  <2>2. PICK n \in S : rank[n] = i - 1
    BY <2>1
  <2> QED BY <2>2 DEF rank
<1> QED BY <1>10

(* Sorted lists the numbers of a finite set. *)
LEMMA SortedLists ==
  ASSUME NEW S, S \subseteq Int, IsFiniteSet(S)
  PROVE  Sorted(S) \in Seq(S) /\ Len(Sorted(S)) = Cardinality(S)
<1> DEFINE R == {r \in S \X S : r[1] < r[2]}
           below(n) == {m \in S : m < n}
           k == Cardinality(S)
<1>1. \A n \in S : {m \in S : <<m, n>> \in R} = below(n)
  OBVIOUS
<1>2. /\ \A x \in S : <<x, x>> \notin R
      /\ \A x, y, z \in S : <<x, y>> \in R /\ <<y, z>> \in R => <<x, z>> \in R
      /\ \A x, y \in S : x = y \/ <<x, y>> \in R \/ <<y, x>> \in R
  OBVIOUS
<1> HIDE DEF R
<1>3. \A i \in 1..k : \E n \in S : Cardinality({m \in S : <<m, n>> \in R}) = i - 1
  BY <1>2, RankOnto
<1>4. \A i \in 1..k : \E n \in S : Cardinality(below(n)) = i - 1
  BY <1>1, <1>3
<1>5. k \in Nat
  BY FS_CardinalityType
<1> HIDE DEF k
<1>6. \A i \in 1..k : (CHOOSE n \in S : Cardinality(below(n)) = i - 1) \in S
  BY <1>4
<1>7. Sorted(S) = [i \in 1..k |-> CHOOSE n \in S : Cardinality(below(n)) = i - 1]
  BY DEF Sorted, k
<1>8. Sorted(S) \in [1..k -> S]
  BY <1>6, <1>7
<1> QED BY <1>5, <1>8 DEF k

(* Ordered lists the nodes of the graph that are in a finite set. *)
LEMMA OrderedLists ==
  ASSUME NEW S, GraphOk(graph), S \subseteq Nodes(graph), IsFiniteSet(S)
  PROVE  Ordered(S) \in Seq(S) /\ Len(Ordered(S)) = Cardinality(S)
<1> DEFINE R == {r \in S \X S : Above(r[1], r[2])}
           above(n) == {m \in S : Above(m, n)}
           k == Cardinality(S)
<1>0. \A n \in S : n \in Int /\ graph.nodes[n].pos \in Int
  BY InterfaceAssumption DEF GraphOk, GraphType, Node
<1>1. \A n \in S : {m \in S : <<m, n>> \in R} = above(n)
  OBVIOUS
<1>2. /\ \A x \in S : <<x, x>> \notin R
      /\ \A x, y, z \in S : <<x, y>> \in R /\ <<y, z>> \in R => <<x, z>> \in R
      /\ \A x, y \in S : x = y \/ <<x, y>> \in R \/ <<y, x>> \in R
  BY <1>0 DEF Above
<1> HIDE DEF R
<1>3. \A i \in 1..k : \E n \in S : Cardinality({m \in S : <<m, n>> \in R}) = i - 1
  BY <1>2, RankOnto
<1>4. \A i \in 1..k : \E n \in S : Cardinality(above(n)) = i - 1
  BY <1>1, <1>3
<1>5. k \in Nat
  BY FS_CardinalityType
<1> HIDE DEF k
<1>6. \A i \in 1..k : (CHOOSE n \in S : Cardinality(above(n)) = i - 1) \in S
  BY <1>4
<1>7. Ordered(S) = [i \in 1..k |-> CHOOSE n \in S : Cardinality(above(n)) = i - 1]
  BY DEF Ordered, k
<1>8. Ordered(S) \in [1..k -> S]
  BY <1>6, <1>7
<1> QED BY <1>5, <1>8 DEF k

(* A finite set of numbers has a least one. *)
LEMMA MinIsLeast ==
  ASSUME NEW S, S \subseteq Int, IsFiniteSet(S), S # {}
  PROVE  Min(S) \in S /\ \A m \in S : Min(S) <= m
<1> DEFINE R == {r \in S \X S : r[1] < r[2]}
           k == Cardinality(S)
<1>1. /\ \A x \in S : <<x, x>> \notin R
      /\ \A x, y, z \in S : <<x, y>> \in R /\ <<y, z>> \in R => <<x, z>> \in R
      /\ \A x, y \in S : x = y \/ <<x, y>> \in R \/ <<y, x>> \in R
  OBVIOUS
<1>2. \A m, n \in S : m < n => <<m, n>> \in R
  OBVIOUS
<1> HIDE DEF R
<1>3. \A i \in 1..k : \E n \in S : Cardinality({m \in S : <<m, n>> \in R}) = i - 1
  BY <1>1, RankOnto
<1>4. k \in Nat /\ k # 0
  BY FS_CardinalityType, FS_EmptySet
<1>5. PICK n \in S : Cardinality({m \in S : <<m, n>> \in R}) = 0
  <2>1. 1 \in 1..k /\ 1 - 1 = 0
    BY <1>4
  <2> QED BY <1>3, <2>1
<1>6. {m \in S : <<m, n>> \in R} = {}
  <2>1. IsFiniteSet({m \in S : <<m, n>> \in R})
    BY FS_Subset
  <2> QED BY <1>5, <2>1, FS_EmptySet
<1>7. ASSUME NEW m \in S PROVE n <= m
  <2>1. ~(m < n)
    BY <1>2, <1>6
  <2>2. m \in Int /\ n \in Int
    OBVIOUS
  <2> QED BY <2>1, <2>2
<1> QED BY <1>5, <1>7 DEF Min

(* Where a node is added is a place. *)
LEMMA MaxIsPlace == Max(Pos) \in Pos
<1>1. \E p \in Pos : \A q \in Pos : p >= q
  BY InterfaceAssumption
<1> QED BY <1>1 DEF Max

(* The ids to give to new nodes are ids of no node. *)
LEMMA FreshLists ==
  FreshIds \in Seq(NodeId \ Nodes(graph)) /\ \A i \in 1..Len(FreshIds) : FreshIds[i] \in NodeId
<1>1. NodeId \ Nodes(graph) \subseteq Int /\ IsFiniteSet(NodeId \ Nodes(graph))
  BY InterfaceAssumption, FS_Subset
<1>2. FreshIds \in Seq(NodeId \ Nodes(graph))
  BY <1>1, SortedLists DEF FreshIds
<1> QED BY <1>2

-----------------------------------------------------------------------------

(* What Undo leaves of the operations. *)
UndoneTo == SubSeq(Settled, 1, Last(SettledUndo))

(* What a step does to the edits of the user: none is made and what the last
   one would be undone to stays, one is made, or at least one is undone. *)
EditsKept ==
  /\ chain' = chain /\ SettledUndo' = SettledUndo
  /\ SettledUndo # << >> => UndoneTo' = UndoneTo
EditMade ==
  /\ chain' = chain /\ Len(SettledUndo') = Len(SettledUndo) + 1
  /\ UndoneTo' = Settled
EditsUndone == chain' = chain /\ Len(SettledUndo') < Len(SettledUndo)
HistoryStep == EditsKept \/ EditMade \/ EditsUndone \/ chain' # chain

(* The beginning of a list that was added to is the list. *)
LEMMA CutAtSeam ==
  ASSUME NEW X, NEW s \in Seq(X), NEW t \in Seq(X)
  PROVE  SubSeq(s \o t, 1, Len(s)) = s
<1>1. /\ s \o t \in Seq(X) /\ Len(s \o t) = Len(s) + Len(t) /\ Len(s) \in Nat /\ Len(t) \in Nat
      /\ \A i \in 1..Len(s) : (s \o t)[i] = s[i]
  BY ConcatProperties
<1>2. SubSeq(s \o t, 1, Len(s)) = [i \in 1..Len(s) |-> (s \o t)[i]]
  BY <1>1 DEF SubSeq
<1>3. s = [i \in 1..Len(s) |-> s[i]]
  OBVIOUS
<1> QED BY <1>1, <1>2, <1>3

(* The last of a list that was added to. *)
LEMMA LastAdded ==
  ASSUME NEW X, NEW s \in Seq(X), NEW e \in X
  PROVE  Append(s, e) # << >> /\ Last(Append(s, e)) = e /\ Len(Append(s, e)) = Len(s) + 1
<1>1. Len(Append(s, e)) = Len(s) + 1 /\ Append(s, e)[Len(s) + 1] = e /\ Len(s) \in Nat
  BY AppendProperties
<1>2. Len(<< >>) = 0
  OBVIOUS
<1> QED BY <1>1, <1>2 DEF Last

(* Operations recorded after all there are make one edit, or none. *)
LEMMA GrowsByAnEdit ==
  ASSUME DocumentInv, chain' = chain, NEW x \in Seq(GraphOp),
         Settled' = Settled \o x,
         SettledUndo' = IF x = << >> THEN SettledUndo ELSE Append(SettledUndo, Len(Settled))
  PROVE  HistoryStep
<1>1. Settled \in Seq(GraphOp) /\ SettledUndo \in Seq(Nat)
  BY SettledFits
<1>2. CASE x = << >>
  <2>1. Settled' = Settled
    BY <1>1, <1>2, ConcatEmptySeq
  <2>2. SettledUndo' = SettledUndo
    BY <1>2
  <2> QED BY <2>1, <2>2 DEF HistoryStep, EditsKept, UndoneTo
<1>3. CASE x # << >>
  <2> DEFINE k == Len(Settled)
  <2>1. k \in Nat /\ SettledUndo' = Append(SettledUndo, k)
    BY <1>1, <1>3
  <2> HIDE DEF k
  <2>2. Last(SettledUndo') = k /\ Len(SettledUndo') = Len(SettledUndo) + 1
    BY <1>1, <2>1, LastAdded
  <2>3. SubSeq(Settled \o x, 1, Len(Settled)) = Settled
    BY <1>1, CutAtSeam
  <2>4. UndoneTo' = Settled
    BY <2>2, <2>3 DEF UndoneTo, k
  <2> QED BY <2>2, <2>4 DEF HistoryStep, EditMade
<1> QED BY <1>2, <1>3

(* With no gesture in flight nothing is left to be recorded. *)
LEMMA StillUndo ==
  ASSUME gesture' = Still
  PROVE  GestureOps' = << >> /\ SettledUndo' = undo'
<1>1. GestureOps' = << >>
  BY DEF GestureOps, Still
<1> QED BY <1>1 DEF SettledUndo

(* A batch recorded is an edit, unless it is empty; a gesture that begins may
   be one by itself. *)
LEMMA RecordEdits ==
  ASSUME DocumentInv, DocumentInv', NEW ops \in Seq(GraphOp), Record(ops), chain' = chain,
         gesture' = Still \/ ops = << >>
  PROVE  HistoryStep
<1>1. Settled \in Seq(GraphOp) /\ SettledUndo \in Seq(Nat)
  BY SettledFits
<1>2. /\ pending' = Settled \o ops
      /\ undo' = IF ops = << >> THEN SettledUndo ELSE Append(SettledUndo, Len(Settled))
  BY DEF Record
<1>3. CASE gesture' = Still
  <2>1. Settled' = Settled \o ops
    BY <1>2, <1>3, StillSettled
  <2>2. SettledUndo' = undo'
    BY <1>3, StillUndo
  <2> QED BY <1>2, <2>1, <2>2, GrowsByAnEdit
<1>4. CASE ops = << >>
  <2>1. pending' = Settled /\ undo' = SettledUndo
    BY <1>1, <1>2, <1>4, ConcatEmptySeq
  <2>2. GestureOps' \in Seq(GraphOp)
    BY NextGestureRecords DEF RecordsOps
  <2>3. Settled' = Settled \o GestureOps'
    BY <2>1 DEF Settled
  <2>4. SettledUndo' = IF GestureOps' = << >> THEN SettledUndo ELSE Append(SettledUndo, Len(Settled))
    BY <2>1 DEF SettledUndo
  <2> QED BY <2>2, <2>3, <2>4, GrowsByAnEdit
<1> QED BY <1>3, <1>4

(* A handler that only ends the gesture makes no edit. *)
LEMMA RefuseEdits ==
  ASSUME DocumentInv, DocumentInv', Refuse, chain' = chain
  PROVE  HistoryStep
<1>1. << >> \in Seq(GraphOp) /\ Record(<< >>) /\ gesture' = Still
  BY DEF Refuse
<1> QED BY <1>1, RecordEdits

(* A frame of a drag may begin an edit, change it or take it back. *)
LEMMA FrameEdits ==
  ASSUME DocumentInv, DocumentInv', chain' = chain, pending' = pending, undo' = undo
  PROVE  HistoryStep
<1>1. /\ GestureOps \in Seq(GraphOp) /\ GestureOps' \in Seq(GraphOp)
      /\ pending \in Seq(GraphOp) /\ undo \in Seq(Nat) /\ Len(pending) \in Nat
  BY GestureRecords, NextGestureRecords DEF RecordsOps, DocumentInv
<1>2. Settled = pending \o GestureOps /\ Settled' = pending \o GestureOps'
  BY DEF Settled
<1>3. /\ SettledUndo = IF GestureOps = << >> THEN undo ELSE Append(undo, Len(pending))
      /\ SettledUndo' = IF GestureOps' = << >> THEN undo ELSE Append(undo, Len(pending))
  BY DEF SettledUndo
<1>4. CASE GestureOps = << >>
  <2>1. Settled = pending /\ SettledUndo = undo
    BY <1>1, <1>2, <1>3, <1>4, ConcatEmptySeq
  <2>2. /\ Settled' = Settled \o GestureOps'
        /\ SettledUndo' = IF GestureOps' = << >> THEN SettledUndo ELSE Append(SettledUndo, Len(Settled))
    BY <1>2, <1>3, <2>1
  <2> QED BY <1>1, <2>2, GrowsByAnEdit
<1>5. CASE GestureOps # << >> /\ GestureOps' = << >>
  <2>1. Len(SettledUndo) = Len(undo) + 1 /\ SettledUndo' = undo
    BY <1>1, <1>3, <1>5, LastAdded
  <2> QED BY <1>1, <2>1 DEF HistoryStep, EditsUndone
<1>6. CASE GestureOps # << >> /\ GestureOps' # << >>
  <2>1. SettledUndo = Append(undo, Len(pending)) /\ SettledUndo' = SettledUndo
    BY <1>3, <1>6
  <2>2. Last(SettledUndo) = Len(pending)
    BY <1>1, <2>1, LastAdded
  <2>3. SubSeq(Settled, 1, Len(pending)) = pending /\ SubSeq(Settled', 1, Len(pending)) = pending
    BY <1>1, <1>2, CutAtSeam
  <2> QED BY <2>1, <2>2, <2>3 DEF HistoryStep, EditsKept, UndoneTo
<1> QED BY <1>4, <1>5, <1>6

(* A step that leaves the ledger and the gesture makes no edit. *)
LEMMA SameEdits ==
  ASSUME UNCHANGED <<chain, pending, undo, gesture, graph>>
  PROVE  HistoryStep
<1>1. Settled' = Settled /\ SettledUndo' = SettledUndo
  BY DEF Settled, SettledUndo, GestureOps
<1> QED BY <1>1 DEF HistoryStep, EditsKept, UndoneTo

(* Undo takes the last edit back. *)
LEMMA UndoEdits ==
  ASSUME DocumentInv, DocumentInv', UndoPending
  PROVE  HistoryStep
<1>1. chain' = chain /\ gesture' = Still
  BY DEF UndoPending
<1>2. CASE SettledUndo # << >> /\ undo' = Front(SettledUndo)
  <2>1. SettledUndo \in Seq(Nat)
    BY SettledFits
  <2>2. Len(SettledUndo) \in Nat /\ Len(undo') = Len(SettledUndo) - 1
    BY <1>2, <2>1, LastApart
  <2>3. SettledUndo' = undo'
    BY <1>1, StillUndo
  <2> QED BY <1>1, <2>2, <2>3 DEF HistoryStep, EditsUndone
<1>3. CASE Refuse
  BY <1>1, <1>3, RefuseEdits
<1> QED BY <1>2, <1>3 DEF UndoPending

(* Redo makes the edit undone last again. *)
LEMMA RedoEdits ==
  ASSUME DocumentInv, DocumentInv', RedoPending
  PROVE  HistoryStep
<1>1. chain' = chain /\ gesture' = Still
  BY DEF RedoPending
<1>2. CASE /\ SettledRedo # << >> /\ pending' = Settled \o Last(SettledRedo)
           /\ undo' = Append(SettledUndo, Len(Settled))
  <2>1. SettledRedo \in Seq(Seq(GraphOp)) /\ \A i \in DOMAIN SettledRedo : SettledRedo[i] # << >>
    BY SettledFits DEF RedoFits
  <2>2. Last(SettledRedo) \in Seq(GraphOp) /\ Len(SettledRedo) \in Nat \ {0}
    BY <1>2, <2>1, LastApart
  <2>3. Last(SettledRedo) # << >>
    <3>1. Len(SettledRedo) \in DOMAIN SettledRedo
      BY <2>1, <2>2
    <3> QED BY <2>1, <3>1 DEF Last
  <2>4. Settled' = Settled \o Last(SettledRedo) /\ SettledUndo' = undo'
    BY <1>1, <1>2, StillSettled, StillUndo
  <2> QED BY <1>1, <1>2, <2>2, <2>3, <2>4, GrowsByAnEdit
<1>3. CASE Refuse
  BY <1>1, <1>3, RefuseEdits
<1> QED BY <1>2, <1>3 DEF RedoPending

(* A block merged is no edit, and after it none can be undone. *)
LEMMA MergeEdits ==
  ASSUME DocumentInv, DocumentInv', NEW ops, MergeRemote(ops)
  PROVE  HistoryStep
<1> DEFINE block == [by |-> "remote", ops |-> ops]
<1>1. CASE chain' = Append(chain, block)
  <2>1. chain \in Seq(Block) /\ chain' \in Seq(Block)
    BY DEF DocumentInv
  <2>2. Len(Append(chain, block)) = Len(chain) + 1 /\ Len(chain) \in Nat
    <3> HIDE DEF block
    <3> QED BY <2>1
  <2>3. chain' # chain
    <3> HIDE DEF block
    <3> QED BY <1>1, <2>2
  <2> QED BY <2>3 DEF HistoryStep
<1>2. CASE Refuse /\ chain' = chain
  BY <1>2, RefuseEdits
<1> QED BY <1>1, <1>2 DEF MergeRemote

-----------------------------------------------------------------------------

(* Graphs that differ in the places of the nodes look the same. *)
LEMMA SameShape ==
  ASSUME NEW g, NEW h, Nodes(h) = Nodes(g), h.edges = g.edges,
         \A n \in Nodes(g) : h.nodes[n].kind = g.nodes[n].kind /\ h.nodes[n].value = g.nodes[n].value
  PROVE  Shape(h) = Shape(g)
BY DEF Shape

(* A move is layout only. *)
LEMMA MoveKeepsShape ==
  ASSUME NEW g, GraphType(g), NEW o \in GraphOp, o.op = "MoveNode", Accepts(g, o)
  PROVE  Shape(Applied(g, o)) = Shape(g)
<1>1. o.id \in Nodes(g)
  BY DEF Accepts
<1>2. Applied(g, o) = [g EXCEPT !.nodes[o.id].pos = o.pos]
  BY DEF Applied
<1>3. g = [nodes |-> g.nodes, edges |-> g.edges] /\ g.nodes \in [Nodes(g) -> Node]
  BY DEF GraphType
<1> DEFINE h == Applied(g, o)
<1>4. h.edges = g.edges /\ Nodes(h) = Nodes(g)
  BY <1>2, <1>3 DEF Nodes
<1>5. ASSUME NEW n \in Nodes(g) PROVE h.nodes[n].kind = g.nodes[n].kind /\ h.nodes[n].value = g.nodes[n].value
  <2>1. g.nodes[n] = [kind |-> g.nodes[n].kind, value |-> g.nodes[n].value, pos |-> g.nodes[n].pos]
    BY <1>3 DEF Node
  <2>2. h.nodes = [g.nodes EXCEPT ![o.id].pos = o.pos]
    BY <1>2, <1>3
  <2>3. h.nodes[n] = IF n = o.id THEN [g.nodes[n] EXCEPT !.pos = o.pos] ELSE g.nodes[n]
    BY <1>1, <1>3, <2>2
  <2> QED BY <2>1, <2>3
<1> HIDE DEF h
<1> QED BY <1>4, <1>5 DEF Shape, h

(* An operation on what was refused is refused. *)
LEMMA RefusedOn == ASSUME NEW o PROVE Apply(Refused, o) = Refused
BY DEF Apply

(* Moves change the places of nodes and nothing that is evaluated or drawn. *)
LEMMA MovesKeepShape ==
  ASSUME NEW g, GraphOk(g), NEW ops \in Seq(GraphOp), \A i \in DOMAIN ops : ops[i].op = "MoveNode",
         ApplyAll(g, ops) # Refused
  PROVE  Shape(ApplyAll(g, ops)) = Shape(g)
<1> DEFINE Moves(s) == \A i \in 1..Len(s) : s[i].op = "MoveNode"
           Q == {s \in Seq(GraphOp) : Moves(s) /\ ApplyAll(g, s) # Refused =>
                                        Shape(ApplyAll(g, s)) = Shape(g)}
<1>1. << >> \in Q
  <2>1. ApplyAll(g, << >>) = g
    BY ApplyAllNone
  <2> QED BY <2>1
<1>2. ASSUME NEW s \in Seq(GraphOp), NEW e \in GraphOp, s \in Q PROVE Append(s, e) \in Q
  <2> DEFINE t == Append(s, e)
             h == ApplyAll(g, s)
  <2>1. t \in Seq(GraphOp) /\ Len(t) = Len(s) + 1 /\ Len(s) \in Nat /\ t[Len(s) + 1] = e
        /\ \A i \in 1..Len(s) : t[i] = s[i]
    BY AppendProperties
  <2> SUFFICES ASSUME Moves(t), ApplyAll(g, t) # Refused PROVE Shape(ApplyAll(g, t)) = Shape(g)
    BY <2>1
  <2>2. ApplyAll(g, t) = Apply(h, e)
    BY ApplyAllAppend
  <2>3. Moves(s) /\ e.op = "MoveNode"
    <3>1. \A i \in 1..Len(t) : t[i].op = "MoveNode"
      OBVIOUS
    <3>2. \A i \in 1..Len(s) : i \in 1..Len(t)
      BY <2>1
    <3>3. Len(s) + 1 \in 1..Len(t)
      BY <2>1
    <3> HIDE DEF t
    <3>4. e.op = "MoveNode"
      BY <2>1, <3>1, <3>3
    <3>5. \A i \in 1..Len(s) : s[i].op = "MoveNode"
      BY <2>1, <3>1, <3>2
    <3> QED BY <3>4, <3>5
  <2> HIDE DEF h, t
  <2>4. h # Refused /\ Accepts(h, e) /\ Apply(h, e) = Applied(h, e)
    BY <2>2 DEF Apply
  <2>5. Shape(h) = Shape(g)
    <3>1. s \in Q
      BY <1>2
    <3> HIDE DEF Moves
    <3> QED BY <2>3, <2>4, <3>1 DEF h
  <2>6. GraphType(h)
    BY <2>4, ApplyAllOk DEF h, GraphOk
  <2>7. Shape(Applied(h, e)) = Shape(h)
    BY <2>3, <2>4, <2>6, MoveKeepsShape
  <2> QED BY <2>2, <2>4, <2>5, <2>7
<1> HIDE DEF Q
<1>3. Seq(GraphOp) \subseteq Q
  BY <1>1, <1>2, SeqCounting
<1>4. ops \in Q /\ Moves(ops)
  BY <1>3
<1> QED BY <1>4 DEF Q

-----------------------------------------------------------------------------

(* What is viewed is a graph, of a block there is. *)
Seen ==
  /\ view \in {Latest} \cup 0..Len(chain)
  /\ viewGraph = Working \/ GraphOk(viewGraph)

OpenInv ==
  /\ DocumentInv /\ Seen
  /\ evalDirty \in BOOLEAN /\ sceneDirty \in BOOLEAN

(* What a step does to the screen: it asks for all to be done again, or what is
   evaluated and drawn stays. *)
SceneStep ==
  \/ evalDirty' = TRUE /\ sceneDirty' = TRUE
  \/ evalDirty' = evalDirty /\ sceneDirty' = sceneDirty /\ Shape(Displayed') = Shape(Displayed)

DocumentStep == OpenInv' /\ HistoryStep /\ SceneStep

(* Nothing applies after an operation that is refused. *)
LEMMA RefusedRemains ==
  ASSUME NEW ops \in Seq(GraphOp) PROVE ApplyAll(Refused, ops) = Refused
<1> DEFINE Q == {s \in Seq(GraphOp) : ApplyAll(Refused, s) = Refused}
<1>1. << >> \in Q
  BY ApplyAllNone
<1>2. ASSUME NEW s \in Seq(GraphOp), NEW e \in GraphOp, s \in Q PROVE Append(s, e) \in Q
  <2>1. Append(s, e) \in Seq(GraphOp)
    OBVIOUS
  <2>2. ApplyAll(Refused, Append(s, e)) = Apply(ApplyAll(Refused, s), e)
    BY ApplyAllAppend
  <2> QED BY <1>2, <2>1, <2>2, RefusedOn
<1> HIDE DEF Q
<1>3. Seq(GraphOp) \subseteq Q
  BY <1>1, <1>2, SeqCounting
<1> QED BY <1>3 DEF Q

(* Blocks on which more were chained replay if those do. *)
LEMMA EarlierReplays ==
  ASSUME NEW c \in Seq(Block), Replay(c, Len(c)) # Refused, NEW i \in 0..Len(c)
  PROVE  GraphOk(Replay(c, i))
<1> DEFINE S == {k \in Nat : k <= Len(c) => Replay(c, Len(c) - k) # Refused}
<1>0. Len(c) \in Nat
  OBVIOUS
<1>1. 0 \in S
  BY <1>0
<1>2. ASSUME NEW k \in Nat, k \in S PROVE k + 1 \in S
  <2> SUFFICES ASSUME k + 1 <= Len(c), Replay(c, Len(c) - (k + 1)) = Refused PROVE FALSE
    OBVIOUS
  <2> DEFINE n == Len(c) - (k + 1)
  <2>1. n \in Nat /\ n + 1 = Len(c) - k /\ n + 1 \in 1..Len(c)
    BY <1>0
  <2>2. c[n + 1].ops \in Seq(GraphOp)
    <3> HIDE DEF n
    <3>1. c[n + 1] \in Block
      BY <2>1
    <3> QED BY <3>1 DEF Block
  <2> HIDE DEF n
  <2>3. Replay(c, n + 1) = ApplyAll(Replay(c, n), c[n + 1].ops)
    BY <2>1, ReplayOn
  <2>4. Replay(c, n) = Refused
    BY DEF n
  <2>6. Replay(c, Len(c) - k) = Refused
    BY <2>1, <2>2, <2>3, <2>4, RefusedRemains
  <2>7. k <= Len(c)
    BY <1>0
  <2> QED BY <1>2, <2>6, <2>7
<1> HIDE DEF S
<1>3. Nat \subseteq S
  BY <1>1, <1>2, Counting
<1>4. Replay(c, i) # Refused
  <2> DEFINE k == Len(c) - i
  <2>1. k \in Nat /\ k <= Len(c) /\ Len(c) - k = i
    BY <1>0
  <2> HIDE DEF k
  <2>2. Replay(c, Len(c) - k) # Refused
    BY <1>3, <2>1 DEF S
  <2> QED BY <2>1, <2>2
<1> DEFINE d == SubSeq(c, 1, i)
<1>5. i \in Nat /\ d \in Seq(Block) /\ Len(d) = i /\ \A j \in 1..i : d[j] = c[j]
  BY <1>0
<1> HIDE DEF d
<1>6. Replay(d, i) = Replay(c, i)
  <2>1. CASE i = 0
    BY <2>1, ReplayNone
  <2>2. CASE i # 0
    <3> DEFINE n == i - 1
    <3>1. n \in Nat /\ n + 1 = i
      BY <1>5, <2>2
    <3>2. \A j \in 1..n : d[j] = c[j] /\ c[j] = c[j]
      BY <1>5, <3>1
    <3>3. d[n + 1] = c[n + 1]
      BY <1>5, <3>1, <2>2
    <3> HIDE DEF n
    <3>4. Replay(d, n + 1) = ApplyAll(Replay(c, n), d[n + 1].ops)
      BY <3>1, <3>2, ReplayOn
    <3>5. Replay(c, n + 1) = ApplyAll(Replay(c, n), c[n + 1].ops)
      BY <3>1, ReplayOn
    <3> QED BY <3>1, <3>3, <3>4, <3>5
  <2> QED BY <2>1, <2>2
<1>7. Replay(d, i) = Refused \/ GraphOk(Replay(d, i))
  BY <1>5, ReplayOk
<1> QED BY <1>4, <1>6, <1>7

(* The blocks of a document that is open replay. *)
LEMMA CommittedReplays ==
  ASSUME DocumentInv PROVE chain \in Seq(Block) /\ Committed # Refused /\ GraphOk(Committed)
<1>1. chain \in Seq(Block) /\ pending \in Seq(GraphOp) /\ GraphOk(Base)
  BY DEF DocumentInv
<1>2. Committed = Refused \/ GraphOk(Committed)
  BY <1>1, ReplayOk DEF Committed
<1>3. Base # Refused
  BY <1>1, GraphIsNotRefused DEF GraphOk
<1>4. Committed = Refused => Base = Refused
  BY <1>1, RefusedRemains DEF Base
<1> QED BY <1>1, <1>2, <1>3, <1>4

(* What is viewed stays when nothing but the working document changes. *)
LEMMA SeenStays ==
  ASSUME Seen, UNCHANGED viewing, chain' = chain
  PROVE  Seen'
BY DEF Seen, viewing

(* A batch asks for the scene to be done again, if it is not layout only. *)
LEMMA BatchShows ==
  ASSUME OpenInv, NEW ops \in Seq(GraphOp), Editable, UNCHANGED viewing,
         InvalidateFor(ops), ApplyAll(graph, ops) # Refused, graph' = ApplyAll(graph, ops)
  PROVE  SceneStep /\ evalDirty' \in BOOLEAN /\ sceneDirty' \in BOOLEAN
<1>1. evalDirty \in BOOLEAN /\ sceneDirty \in BOOLEAN /\ GraphOk(graph)
  BY SettledFits DEF OpenInv
<1>2. CASE \E i \in DOMAIN ops : ops[i].op # "MoveNode"
  BY <1>1, <1>2 DEF InvalidateFor, SceneStep
<1>3. CASE \A i \in DOMAIN ops : ops[i].op = "MoveNode"
  <2>1. Shape(graph') = Shape(graph)
    BY <1>1, <1>3, MovesKeepShape
  <2>2. Displayed' = graph' /\ Displayed = graph
    BY DEF Displayed, Editable, viewing
  <2>3. Shape(Displayed') = Shape(Displayed)
    BY <2>1, <2>2
  <2>4. evalDirty' = evalDirty /\ sceneDirty' = sceneDirty
    BY <1>1, <1>3 DEF InvalidateFor
  <2> QED BY <1>1, <2>3, <2>4 DEF SceneStep
<1> QED BY <1>2, <1>3

(* A step that leaves the graph, what is viewed and the screen. *)
LEMMA SameShows ==
  ASSUME OpenInv, UNCHANGED <<graph, viewing, screen>>
  PROVE  SceneStep /\ evalDirty' \in BOOLEAN /\ sceneDirty' \in BOOLEAN
<1>1. Displayed' = Displayed
  BY DEF Displayed, Editable, viewing
<1>2. evalDirty' = evalDirty /\ sceneDirty' = sceneDirty
  BY DEF screen
<1> QED BY <1>1, <1>2 DEF SceneStep, OpenInv

(* A batch that applies asks for a new scene, one that is refused changes none. *)
LEMMA ApplyOpsSteps ==
  ASSUME OpenInv, NEW ops \in Seq(GraphOp), ApplyOps(ops)
  PROVE  DocumentStep
<1>1. DocumentInv /\ Seen /\ DocumentInv'
  BY ApplyOpsKeeps DEF OpenInv
<1>2. chain' = chain /\ UNCHANGED viewing /\ Editable
  BY DEF ApplyOps
<1>3. Seen'
  BY <1>1, <1>2, SeenStays
<1>4. HistoryStep /\ SceneStep /\ evalDirty' \in BOOLEAN /\ sceneDirty' \in BOOLEAN
  <2>1. CASE /\ ApplyAll(graph, ops) # Refused /\ Record(ops) /\ gesture' = Still
             /\ graph' = ApplyAll(graph, ops) /\ InvalidateFor(ops)
    BY <1>1, <1>2, <2>1, RecordEdits, BatchShows
  <2>2. CASE Refuse /\ UNCHANGED <<graph, screen>>
    BY <1>1, <1>2, <2>2, RefuseEdits, SameShows
  <2> QED BY <2>1, <2>2 DEF ApplyOps
<1> QED BY <1>1, <1>3, <1>4 DEF DocumentStep, OpenInv

(* So does the recovery list, applied as one batch. *)
LEMMA RetrySteps ==
  ASSUME OpenInv, RetryRecovery
  PROVE  DocumentStep
<1>1. DocumentInv /\ Seen /\ DocumentInv' /\ recovery \in Seq(GraphOp)
  BY RetryKeeps DEF OpenInv, DocumentInv
<1>2. /\ chain' = chain /\ UNCHANGED viewing /\ Editable /\ ApplyAll(graph, recovery) # Refused
      /\ Record(recovery) /\ gesture' = Still /\ graph' = ApplyAll(graph, recovery)
      /\ InvalidateFor(recovery)
  BY DEF RetryRecovery
<1>3. Seen'
  BY <1>1, <1>2, SeenStays
<1>4. HistoryStep /\ SceneStep /\ evalDirty' \in BOOLEAN /\ sceneDirty' \in BOOLEAN
  BY <1>1, <1>2, RecordEdits, BatchShows
<1> QED BY <1>1, <1>3, <1>4 DEF DocumentStep, OpenInv

(* A value dragged shows at once. *)
LEMMA ParamDragSteps ==
  ASSUME OpenInv, NEW n \in NodeId, NEW v \in Value, ParamDrag(n, v)
  PROVE  DocumentStep
<1>1. DocumentInv /\ Seen /\ DocumentInv'
  BY ParamDragKeeps DEF OpenInv
<1>2. chain' = chain /\ UNCHANGED viewing /\ Editable
  BY DEF ParamDrag
<1>3. Seen'
  BY <1>1, <1>2, SeenStays
<1>4. HistoryStep
  <2>1. CASE pending' = pending /\ undo' = undo
    BY <1>1, <1>2, <2>1, FrameEdits
  <2>2. CASE Record(<< >>)
    <3>1. << >> \in Seq(GraphOp)
      OBVIOUS
    <3> QED BY <1>1, <1>2, <2>2, <3>1, RecordEdits
  <2> QED BY <2>1, <2>2 DEF ParamDrag, history
<1>5. SceneStep /\ evalDirty' \in BOOLEAN /\ sceneDirty' \in BOOLEAN
  <2> DEFINE o == SetParam(n, v)
  <2>1. o \in GraphOp
    BY DEF SetParam, GraphOp
  <2>2. CASE Apply(graph, o) # Refused /\ graph' = Apply(graph, o) /\ InvalidateFor(<<o>>)
    <3> HIDE DEF o
    <3>1. <<o>> \in Seq(GraphOp) /\ ApplyAll(graph, <<o>>) = Apply(graph, o)
      BY <2>1, ApplyAllOne
    <3> QED BY <1>2, <2>2, <3>1, BatchShows
  <2>3. CASE UNCHANGED <<graph, screen>>
    BY <1>2, <2>3, SameShows
  <2> QED BY <2>2, <2>3 DEF ParamDrag
<1> QED BY <1>1, <1>3, <1>4, <1>5 DEF DocumentStep, OpenInv

(* Nodes pressed change nothing that is drawn. *)
LEMMA BeginMoveSteps ==
  ASSUME OpenInv, NEW ids \in SUBSET NodeId, BeginMove(ids)
  PROVE  DocumentStep
<1>1. DocumentInv /\ Seen /\ DocumentInv' /\ << >> \in Seq(GraphOp)
  BY BeginMoveKeeps DEF OpenInv
<1>2. chain' = chain /\ Record(<< >>) /\ UNCHANGED <<graph, viewing, screen>>
  BY DEF BeginMove
<1>3. Seen'
  BY <1>1, <1>2, SeenStays
<1>4. HistoryStep
  BY <1>1, <1>2, RecordEdits
<1>5. SceneStep /\ evalDirty' \in BOOLEAN /\ sceneDirty' \in BOOLEAN
  BY <1>2, SameShows
<1> QED BY <1>1, <1>3, <1>4, <1>5 DEF DocumentStep, OpenInv

(* The end of a gesture records what is already on the screen. *)
LEMMA EndGestureSteps ==
  ASSUME OpenInv, EndGesture
  PROVE  DocumentStep
<1>1. DocumentInv /\ Seen /\ DocumentInv'
  BY EndGestureKeeps DEF OpenInv
<1>2. chain' = chain /\ Refuse /\ UNCHANGED <<graph, viewing, screen>>
  BY DEF EndGesture
<1>3. Seen'
  BY <1>1, <1>2, SeenStays
<1>4. HistoryStep
  BY <1>1, <1>2, RefuseEdits
<1>5. SceneStep /\ evalDirty' \in BOOLEAN /\ sceneDirty' \in BOOLEAN
  BY <1>2, SameShows
<1> QED BY <1>1, <1>3, <1>4, <1>5 DEF DocumentStep, OpenInv

(* An edit undone asks for a new scene. *)
LEMMA UndoSteps ==
  ASSUME OpenInv, UndoPending
  PROVE  DocumentStep
<1>1. DocumentInv /\ Seen /\ DocumentInv'
  BY UndoKeeps DEF OpenInv
<1>2. chain' = chain /\ UNCHANGED viewing
  BY DEF UndoPending
<1>3. Seen'
  BY <1>1, <1>2, SeenStays
<1>4. HistoryStep
  BY <1>1, UndoEdits
<1>5. SceneStep /\ evalDirty' \in BOOLEAN /\ sceneDirty' \in BOOLEAN
  <2>1. CASE InvalidateAll
    BY <2>1 DEF InvalidateAll, SceneStep
  <2>2. CASE UNCHANGED <<graph, screen>>
    BY <1>2, <2>2, SameShows
  <2> QED BY <2>1, <2>2 DEF UndoPending
<1> QED BY <1>1, <1>3, <1>4, <1>5 DEF DocumentStep, OpenInv

(* An edit done again asks for a new scene. *)
LEMMA RedoSteps ==
  ASSUME OpenInv, RedoPending
  PROVE  DocumentStep
<1>1. DocumentInv /\ Seen /\ DocumentInv'
  BY RedoKeeps DEF OpenInv
<1>2. chain' = chain /\ UNCHANGED viewing
  BY DEF RedoPending
<1>3. Seen'
  BY <1>1, <1>2, SeenStays
<1>4. HistoryStep
  BY <1>1, RedoEdits
<1>5. SceneStep /\ evalDirty' \in BOOLEAN /\ sceneDirty' \in BOOLEAN
  <2>1. CASE InvalidateAll
    BY <2>1 DEF InvalidateAll, SceneStep
  <2>2. CASE UNCHANGED <<graph, screen>>
    BY <1>2, <2>2, SameShows
  <2> QED BY <2>1, <2>2 DEF RedoPending
<1> QED BY <1>1, <1>3, <1>4, <1>5 DEF DocumentStep, OpenInv

(* So does what a merge brings. *)
LEMMA MergeSteps ==
  ASSUME OpenInv, NEW ops \in Pulled, MergeRemote(ops)
  PROVE  DocumentStep
<1>1. DocumentInv /\ Seen /\ DocumentInv'
  BY MergeKeeps DEF OpenInv
<1>2. UNCHANGED viewing /\ ops \in Seq(GraphOp)
  BY DocumentAssumption DEF MergeRemote
<1> DEFINE block == [by |-> "remote", ops |-> ops]
<1>3. Seen'
  <2>1. CASE chain' = chain
    BY <1>1, <1>2, <2>1, SeenStays
  <2>2. CASE chain' = Append(chain, block)
    <3>1. block \in Block /\ chain \in Seq(Block)
      BY <1>1, <1>2 DEF Block, DocumentInv
    <3> HIDE DEF block
    <3>2. Len(chain') = Len(chain) + 1 /\ Len(chain) \in Nat
      BY <2>2, <3>1
    <3> QED BY <1>1, <1>2, <3>2 DEF Seen, viewing
  <2> QED BY <2>1, <2>2 DEF MergeRemote
<1>4. HistoryStep
  BY <1>1, MergeEdits
<1>5. SceneStep /\ evalDirty' \in BOOLEAN /\ sceneDirty' \in BOOLEAN
  <2>1. CASE InvalidateAll
    BY <2>1 DEF InvalidateAll, SceneStep
  <2>2. CASE UNCHANGED <<graph, screen>>
    BY <1>2, <2>2, SameShows
  <2> QED BY <2>1, <2>2 DEF MergeRemote
<1> QED BY <1>1, <1>3, <1>4, <1>5 DEF DocumentStep, OpenInv

(* Another block seen, or the head again, asks for a new scene. *)
LEMMA SetViewSteps ==
  ASSUME OpenInv, NEW i \in 0..MaxBlocks, SetView(i)
  PROVE  DocumentStep
<1>1. DocumentInv /\ Seen /\ DocumentInv'
  BY SetViewKeeps DEF OpenInv
<1>2. /\ chain' = chain /\ Refuse /\ view' = Target(i) /\ InvalidateAll
      /\ viewGraph' = IF Target(i) = Latest THEN Working ELSE Replay(chain, i)
  BY DEF SetView
<1>3. Seen'
  <2>1. CASE i < Len(chain)
    <3>1. chain \in Seq(Block) /\ Replay(chain, Len(chain)) # Refused
      BY <1>1, CommittedReplays DEF Committed
    <3>2. i \in 0..Len(chain)
      BY <2>1, <3>1
    <3>3. GraphOk(Replay(chain, i))
      BY <3>1, <3>2, EarlierReplays
    <3>4. Target(i) = i /\ i # Latest
      BY <2>1, <3>2 DEF Target, Latest
    <3> QED BY <1>2, <3>2, <3>3, <3>4 DEF Seen
  <2>2. CASE ~(i < Len(chain))
    <3>1. Target(i) = Latest
      BY <2>2 DEF Target
    <3> QED BY <1>2, <3>1 DEF Seen
  <2> QED BY <2>1, <2>2
<1>4. HistoryStep
  BY <1>1, <1>2, RefuseEdits
<1>5. SceneStep /\ evalDirty' \in BOOLEAN /\ sceneDirty' \in BOOLEAN
  BY <1>2 DEF InvalidateAll, SceneStep
<1> QED BY <1>1, <1>3, <1>4, <1>5 DEF DocumentStep, OpenInv

(* The recovery list is no part of the scene. *)
LEMMA ClearSteps ==
  ASSUME OpenInv, ClearRecovery
  PROVE  DocumentStep
<1>1. DocumentInv /\ Seen
  BY DEF OpenInv
<1>2. UNCHANGED <<chain, pending, undo, redo, graph, gesture, viewing, screen>> /\ recovery' \in Seq(GraphOp)
  BY DEF ClearRecovery, history
<1>3. DocumentInv'
  BY <1>1, <1>2, UnchangedKeeps
<1>4. Seen'
  BY <1>1, <1>2, SeenStays
<1>5. HistoryStep
  BY <1>2, SameEdits
<1>6. SceneStep /\ evalDirty' \in BOOLEAN /\ sceneDirty' \in BOOLEAN
  BY <1>2, SameShows
<1> QED BY <1>3, <1>4, <1>5, <1>6 DEF DocumentStep, OpenInv

(* A document left alone is in order. *)
LEMMA NothingSteps ==
  ASSUME OpenInv, UNCHANGED document
  PROVE  DocumentStep
<1>1. DocumentInv /\ Seen /\ recovery \in Seq(GraphOp)
  BY DEF OpenInv, DocumentInv
<1>2. UNCHANGED <<chain, pending, recovery, undo, redo, graph, gesture, viewing, screen>>
  BY DEF document, ledger, history
<1>3. DocumentInv'
  BY <1>1, <1>2, UnchangedKeeps
<1>4. Seen'
  BY <1>1, <1>2, SeenStays
<1>5. HistoryStep
  BY <1>2, SameEdits
<1>6. SceneStep /\ evalDirty' \in BOOLEAN /\ sceneDirty' \in BOOLEAN
  BY <1>2, SameShows
<1> QED BY <1>3, <1>4, <1>5, <1>6 DEF DocumentStep, OpenInv

(* A frame of the drag of the nodes selected: some of those it began with are
   moved, and nothing else changes. *)
LEMMA DragNodesMoves ==
  ASSUME DocumentInv, NEW M, NEW to,
         M # {} => gesture.kind = "move" /\ M \subseteq Nodes(graph) \cap DOMAIN gesture.start,
         \A n \in M : to[n] \in Pos,
         graph' = [graph EXCEPT !.nodes = [n \in Nodes(graph) |->
           IF n \in M THEN [graph.nodes[n] EXCEPT !.pos = to[n]] ELSE graph.nodes[n]]],
         UNCHANGED <<ledger, history, gesture>>
  PROVE  DocumentInv' /\ Shape(graph') = Shape(graph)
<1> DEFINE D == DOMAIN gesture.start
           moved == [n \in Nodes(graph) |->
                       IF n \in M THEN [graph.nodes[n] EXCEPT !.pos = to[n]] ELSE graph.nodes[n]]
<1>1. /\ GraphOk(graph) /\ GraphType(graph) /\ GraphOk(Base) /\ GraphType(Base) /\ GestureFits
      /\ pending \in Seq(GraphOp) /\ undo \in Seq(Nat) /\ redo \in Seq(Seq(GraphOp))
      /\ chain \in Seq(Block) /\ recovery \in Seq(GraphOp)
      /\ UndoFits(undo, Len(pending)) /\ RedoFits(Committed, pending, redo)
  BY SettledFits DEF DocumentInv, GraphOk
<1>2. /\ UNCHANGED <<chain, pending, recovery, undo, redo, gesture>>
      /\ Base' = Base /\ Committed' = Committed
  BY DEF ledger, history, Base, Committed
<1>3. graph = [nodes |-> graph.nodes, edges |-> graph.edges] /\ graph.nodes \in [Nodes(graph) -> Node]
  BY <1>1 DEF GraphType
<1>4. graph' = [nodes |-> moved, edges |-> graph.edges]
  BY <1>3
<1>5. \A n \in Nodes(graph) : moved[n] = IF n \in M THEN [graph.nodes[n] EXCEPT !.pos = to[n]] ELSE graph.nodes[n]
  OBVIOUS
<1>6. DOMAIN moved = Nodes(graph)
  OBVIOUS
<1> HIDE DEF moved
<1>7. Nodes(graph') = Nodes(graph) /\ graph'.edges = graph.edges /\ graph'.nodes = moved
  <2>1. graph'.edges = graph.edges /\ graph'.nodes = moved
    BY <1>4
  <2>2. Nodes(graph') = DOMAIN graph'.nodes
    BY DEF Nodes
  <2> QED BY <1>6, <2>1, <2>2
<1>8. Shape(graph') = Shape(graph)
  <2>1. ASSUME NEW n \in Nodes(graph)
        PROVE  moved[n].kind = graph.nodes[n].kind /\ moved[n].value = graph.nodes[n].value
    <3>1. graph.nodes[n] = [kind |-> graph.nodes[n].kind, value |-> graph.nodes[n].value, pos |-> graph.nodes[n].pos]
      BY <1>3 DEF Node
    <3> QED BY <1>5, <3>1
  <2>2. \A n \in Nodes(graph) :
          graph'.nodes[n].kind = graph.nodes[n].kind /\ graph'.nodes[n].value = graph.nodes[n].value
    BY <1>7, <2>1
  <2> QED BY <1>7, <2>2, SameShape
<1>9. CASE M = {}
  <2>1. graph' = graph
    <3>1. \A n \in Nodes(graph) : moved[n] = graph.nodes[n]
      BY <1>5, <1>9
    <3>2. moved = graph.nodes
      BY <1>3, <1>6, <3>1 DEF moved
    <3> QED BY <1>3, <1>4, <3>2
  <2> QED BY <1>1, <1>2, <1>8, <2>1, UnchangedKeeps
<1>10. CASE M # {}
  <2>1. gesture.kind = "move" /\ M \subseteq Nodes(graph) /\ M \subseteq D /\ MoveFits
    BY <1>1, <1>10 DEF GestureFits, Still
  <2>2. /\ gesture = Move(gesture.start)
        /\ D \subseteq Nodes(Base) /\ graph = Placed(Base, Places, D)
        /\ \A m \in D : gesture.start[m] = Base.nodes[m].pos /\ Places[m] \in Pos
    BY <2>1 DEF MoveFits
  <2> HIDE DEF D
  <2>3. /\ Nodes(graph) = Nodes(Base)
        /\ \A n \in Nodes(Base) : graph.nodes[n] =
             IF n \in D THEN [Base.nodes[n] EXCEPT !.pos = Places[n]] ELSE Base.nodes[n]
    BY <2>2, PlacedNodes
  <2>4. Places' = [n \in Nodes(graph) |-> moved[n].pos]
    <3>1. Places' = [n \in Nodes(graph') |-> graph'.nodes[n].pos]
      BY DEF Places
    <3> QED BY <1>7, <3>1
  <2>5. ASSUME NEW n \in Nodes(Base)
        PROVE  /\ moved[n] = IF n \in D THEN [Base.nodes[n] EXCEPT !.pos = Places'[n]] ELSE Base.nodes[n]
               /\ n \in D => Places'[n] \in Pos
    <3>1. /\ Base.nodes[n] = [kind |-> Base.nodes[n].kind, value |-> Base.nodes[n].value,
                              pos |-> Base.nodes[n].pos]
      BY <1>1 DEF GraphType, Node
    <3>2. Places'[n] = moved[n].pos
      BY <2>3, <2>4
    <3>3. graph.nodes[n] = IF n \in D THEN [Base.nodes[n] EXCEPT !.pos = Places[n]] ELSE Base.nodes[n]
      BY <2>3
    <3>4. moved[n] = IF n \in M THEN [graph.nodes[n] EXCEPT !.pos = to[n]] ELSE graph.nodes[n]
      BY <1>5, <2>3
    <3>5. CASE n \in M
      <4>1. n \in D /\ to[n] \in Pos
        BY <2>1, <3>5
      <4>2. moved[n] = [Base.nodes[n] EXCEPT !.pos = to[n]]
        BY <3>1, <3>3, <3>4, <3>5, <4>1
      <4>3. moved[n].pos = to[n]
        BY <3>1, <4>2
      <4> QED BY <3>2, <4>1, <4>2, <4>3
    <3>6. CASE n \notin M /\ n \in D
      <4>1. moved[n] = [Base.nodes[n] EXCEPT !.pos = Places[n]]
        BY <3>3, <3>4, <3>6
      <4>2. moved[n].pos = Places[n] /\ Places[n] \in Pos
        BY <2>2, <3>1, <3>6, <4>1
      <4> QED BY <3>2, <3>6, <4>1, <4>2
    <3>7. CASE n \notin D
      BY <2>1, <3>3, <3>4, <3>7
    <3> QED BY <3>5, <3>6, <3>7
  <2>6. graph' = Placed(Base, Places', D)
    <3> DEFINE next == Places'
               P == Placed(Base, next, D)
    <3>1. /\ Nodes(P) = Nodes(Base)
          /\ \A n \in Nodes(Base) : P.nodes[n] =
               IF n \in D THEN [Base.nodes[n] EXCEPT !.pos = next[n]] ELSE Base.nodes[n]
      <4> HIDE DEF next
      <4> QED BY PlacedNodes
    <3>2. P = [nodes |-> P.nodes, edges |-> Base.edges] /\ P.nodes = [n \in Nodes(P) |-> P.nodes[n]]
      <4> HIDE DEF next
      <4>1. Base = [nodes |-> Base.nodes, edges |-> Base.edges]
        BY <1>1 DEF GraphType
      <4> QED BY <4>1 DEF Placed, Nodes
    <3>3. graph.edges = Base.edges
      <4>1. Base = [nodes |-> Base.nodes, edges |-> Base.edges]
        BY <1>1 DEF GraphType
      <4> QED BY <2>2, <4>1 DEF Placed
    <3> HIDE DEF P, next
    <3>4. moved = [n \in Nodes(Base) |-> moved[n]]
      BY <1>6, <2>3 DEF moved
    <3>5. \A n \in Nodes(Base) : moved[n] = P.nodes[n]
      BY <2>5, <3>1 DEF next
    <3>6. moved = P.nodes
      BY <3>1, <3>2, <3>4, <3>5
    <3> QED BY <1>4, <3>2, <3>3, <3>6 DEF P, next
  <2>7. MoveFits'
    <3>1. gesture' = gesture /\ DOMAIN gesture'.start = D
      BY <1>2 DEF D
    <3>2. \A m \in D : gesture.start[m] = Base.nodes[m].pos /\ Places'[m] \in Pos
      BY <2>2, <2>5
    <3> QED BY <1>2, <2>2, <2>6, <3>1, <3>2 DEF MoveFits
  <2>8. GestureFits'
    BY <1>2, <2>1, <2>7 DEF GestureFits
  <2>9. DocumentInv'
    BY <1>1, <1>2, <2>8 DEF DocumentInv
  <2> QED BY <1>8, <2>9
<1> QED BY <1>9, <1>10

(* Nodes dragged change places and nothing that is drawn. *)
LEMMA DragNodesSteps ==
  ASSUME OpenInv, NEW d \in {-1, 1}, DragNodes(d)
  PROVE  DocumentStep
<1> DEFINE M == MovedBy(d)
           to == [n \in Nodes(graph) |-> graph.nodes[n].pos + d]
<1>1. DocumentInv /\ Seen /\ evalDirty \in BOOLEAN /\ sceneDirty \in BOOLEAN
  BY DEF OpenInv
<1>2. /\ UNCHANGED <<ledger, history, gesture, viewing, screen>> /\ Editable
      /\ graph' = [graph EXCEPT !.nodes = [n \in Nodes(graph) |->
           IF n \in M THEN [graph.nodes[n] EXCEPT !.pos = @ + d] ELSE graph.nodes[n]]]
  BY DEF DragNodes
<1>3. /\ M # {} => gesture.kind = "move" /\ M \subseteq Nodes(graph) \cap DOMAIN gesture.start
      /\ \A n \in M : n \in Nodes(graph) /\ graph.nodes[n].pos + d \in Pos
  BY DEF MovedBy
<1> HIDE DEF M
<1>4. \A n \in M : to[n] \in Pos /\ to[n] = graph.nodes[n].pos + d
  BY <1>3
<1> HIDE DEF to
<1>5. \A n \in Nodes(graph) :
        (IF n \in M THEN [graph.nodes[n] EXCEPT !.pos = @ + d] ELSE graph.nodes[n])
          = (IF n \in M THEN [graph.nodes[n] EXCEPT !.pos = to[n]] ELSE graph.nodes[n])
  BY <1>4
<1>6. graph' = [graph EXCEPT !.nodes = [n \in Nodes(graph) |->
        IF n \in M THEN [graph.nodes[n] EXCEPT !.pos = to[n]] ELSE graph.nodes[n]]]
  BY <1>2, <1>5
<1>7. DocumentInv' /\ Shape(graph') = Shape(graph)
  BY <1>1, <1>2, <1>3, <1>4, <1>6, DragNodesMoves
<1>8. chain' = chain /\ pending' = pending /\ undo' = undo
  BY <1>2 DEF ledger, history
<1>9. Seen'
  BY <1>1, <1>2, <1>8, SeenStays
<1>10. HistoryStep
  BY <1>1, <1>7, <1>8, FrameEdits
<1>11. SceneStep /\ evalDirty' \in BOOLEAN /\ sceneDirty' \in BOOLEAN
  <2>1. Displayed' = graph' /\ Displayed = graph
    BY <1>2 DEF Displayed, Editable, viewing
  <2>2. Shape(Displayed') = Shape(Displayed)
    BY <1>7, <2>1
  <2>3. evalDirty' = evalDirty /\ sceneDirty' = sceneDirty
    BY <1>2 DEF screen
  <2> QED BY <1>1, <2>2, <2>3 DEF SceneStep
<1> QED BY <1>7, <1>9, <1>10, <1>11 DEF DocumentStep, OpenInv

-----------------------------------------------------------------------------

(* What the hands hold: a box was begun with nodes of the program's, and a
   pointer pressed on the canvas drags a box or a pan. *)
HandsInv ==
  /\ selection \subseteq NodeId
  /\ canvas = None \/ canvas = Pan
       \/ \E nodes \in SUBSET NodeId, additive \in BOOLEAN : canvas = Box(nodes, additive)
  /\ pointer = "canvas" => canvas # None

(* What was evaluated and drawn last is what is displayed, while nothing asked
   for it to be done again. *)
SceneInv ==
  /\ DOMAIN evaluated.nodes \subseteq NodeId /\ DOMAIN drawn.shape.nodes \subseteq NodeId
  /\ drawn = [shape |-> drawn.shape, selected |-> drawn.selected]
  /\ ~evalDirty => evaluated = Shape(Displayed)
  /\ ~sceneDirty => drawn.shape = Shape(Displayed)
  /\ DrawnIsCurrent

(* The graph noted is the one that the edits before the last user edit give. *)
BeforeInv ==
  before # None =>
    /\ before.edits = Len(SettledUndo) /\ SettledUndo # << >>
    /\ ApplyAll(Committed, UndoneTo) = before.graph

InterfaceInv == OpenInv /\ HandsInv /\ SceneInv /\ BeforeInv

(* The nodes of a graph as it is evaluated and drawn. *)
LEMMA ShapeNodes == ASSUME NEW g PROVE DOMAIN Shape(g).nodes = Nodes(g)
BY DEF Shape

(* What is displayed is a graph. *)
LEMMA DisplayedIsGraph ==
  ASSUME OpenInv PROVE GraphOk(Displayed) /\ Nodes(Displayed) \subseteq NodeId
<1>1. GraphOk(graph) /\ (viewGraph = Working \/ GraphOk(viewGraph))
  BY SettledFits DEF OpenInv, Seen
<1>2. GraphOk(Displayed)
  BY <1>1 DEF Displayed, Editable
<1> QED BY <1>2 DEF GraphOk, GraphType

(* How many edits can be undone, now and after a step. *)
CountsEdits == Len(SettledUndo) \in Nat

(* A document in order has a finite number of edits to undo. *)
LEMMA EditsCounted == DocumentInv => CountsEdits
BY SettledFits DEF CountsEdits

(* So has the one after a step. *)
LEMMA NextEditsCounted == DocumentInv' => CountsEdits'
BY EditsCounted, PTL

(* The graph before an edit is noted as it is made. *)
LEMMA EditNoted ==
  ASSUME OpenInv, OpenInv', HistoryStep, BeforeInv, NoteEdit
  PROVE  BeforeInv'
<1>1. Len(SettledUndo) \in Nat /\ ApplyAll(Committed, Settled) = graph /\ Len(SettledUndo') \in Nat
  BY SettledFits, EditsCounted, NextEditsCounted DEF OpenInv, CountsEdits
<1>2. CASE chain' # chain
  BY <1>2 DEF NoteEdit, BeforeInv
<1>3. CASE EditMade
  <2> DEFINE b == [graph |-> graph, edits |-> Len(SettledUndo')]
  <2>1. chain' = chain /\ Len(SettledUndo') = Len(SettledUndo) + 1 /\ UndoneTo' = Settled
    BY <1>3 DEF EditMade
  <2>2. before' = b
    <3>1. Len(SettledUndo') > Len(SettledUndo)
      BY <1>1, <2>1
    <3> QED BY <2>1, <3>1 DEF NoteEdit
  <2>3. b.graph = graph /\ b.edits = Len(SettledUndo')
    OBVIOUS
  <2>4. SettledUndo' # << >>
    <3>1. Len(<< >>) = 0
      OBVIOUS
    <3> QED BY <1>1, <2>1, <3>1
  <2>5. Committed' = Committed
    BY <2>1 DEF Committed
  <2> HIDE DEF b
  <2>6. ApplyAll(Committed', UndoneTo') = before'.graph
    BY <1>1, <2>1, <2>2, <2>3, <2>5
  <2> QED BY <2>2, <2>3, <2>4, <2>6 DEF BeforeInv
<1>4. CASE EditsUndone
  <2>1. chain' = chain /\ Len(SettledUndo') < Len(SettledUndo)
    BY <1>4 DEF EditsUndone
  <2>2. before' = None
    BY <1>1, <2>1 DEF NoteEdit, BeforeInv
  <2> QED BY <2>2 DEF BeforeInv
<1>5. CASE EditsKept
  <2>1. /\ chain' = chain /\ SettledUndo' = SettledUndo
        /\ SettledUndo # << >> => UndoneTo' = UndoneTo
    BY <1>5 DEF EditsKept
  <2>2. before' = before
    BY <1>1, <2>1 DEF NoteEdit, BeforeInv
  <2>3. Committed' = Committed
    BY <2>1 DEF Committed
  <2> QED BY <2>1, <2>2, <2>3 DEF BeforeInv
<1> QED BY <1>2, <1>3, <1>4, <1>5 DEF HistoryStep

(* A step that makes no edit leaves what was noted. *)
LEMMA NothingNoted ==
  ASSUME BeforeInv, UNCHANGED <<chain, pending, undo, gesture, graph, before>>
  PROVE  BeforeInv'
<1>1. Settled' = Settled /\ SettledUndo' = SettledUndo /\ Committed' = Committed
  BY DEF Settled, SettledUndo, GestureOps, Committed
<1> QED BY <1>1 DEF BeforeInv, UndoneTo

(* Outside of the viewport, what a step of the document asks for keeps the
   scene right. *)
LEMMA SceneKept ==
  ASSUME SceneInv, SceneStep, UNCHANGED shown, phase' # "viewport"
  PROVE  SceneInv'
<1>1. evaluated' = evaluated /\ drawn' = drawn
  BY DEF shown
<1>2. DrawnIsCurrent'
  BY DEF DrawnIsCurrent
<1>3. CASE evalDirty' = TRUE /\ sceneDirty' = TRUE
  BY <1>1, <1>2, <1>3 DEF SceneInv
<1>4. CASE evalDirty' = evalDirty /\ sceneDirty' = sceneDirty /\ Shape(Displayed') = Shape(Displayed)
  BY <1>1, <1>2, <1>4 DEF SceneInv
<1> QED BY <1>3, <1>4 DEF SceneStep

(* An event of the user: what it does to the document, the hands aside. *)
LEMMA EventKeeps ==
  ASSUME InterfaceInv, DocumentStep, HandsInv', UNCHANGED shown, phase' # "viewport", NoteEdit
  PROVE  InterfaceInv'
<1>1. OpenInv /\ OpenInv' /\ HistoryStep /\ SceneStep /\ BeforeInv /\ SceneInv
  BY DEF InterfaceInv, DocumentStep
<1> QED BY <1>1, EditNoted, SceneKept DEF InterfaceInv

(* An event that only selects. *)
LEMMA SelectKeeps ==
  ASSUME InterfaceInv, HandsInv', UNCHANGED <<document, shown, before>>, phase' # "viewport"
  PROVE  InterfaceInv'
<1>1. OpenInv /\ BeforeInv /\ SceneInv
  BY DEF InterfaceInv
<1>2. OpenInv' /\ SceneStep
  BY <1>1, NothingSteps DEF DocumentStep
<1>3. BeforeInv'
  BY <1>1, NothingNoted DEF document, ledger, history
<1>4. SceneInv'
  BY <1>1, <1>2, SceneKept
<1> QED BY <1>2, <1>3, <1>4 DEF InterfaceInv

(* The hands let the canvas be. *)
LEMMA CanvasKept ==
  ASSUME HandsInv, selection' \subseteq NodeId, canvas' = canvas,
         pointer' = pointer \/ pointer' # "canvas"
  PROVE  HandsInv'
BY DEF HandsInv

(* A batch that an event of the user applies, if it can be. *)
LEMMA BatchSteps ==
  ASSUME OpenInv, NEW ops \in Seq(GraphOp), ApplyBatch(ops)
  PROVE  DocumentStep
BY ApplyOpsSteps, NothingSteps DEF ApplyBatch

(* A batch of the user, whatever it is and whatever the pointer holds then. *)
LEMMA UserEditKeeps ==
  ASSUME InterfaceInv, NEW ops \in Seq(GraphOp), UserEdit(ops), HandsInv'
  PROVE  InterfaceInv'
<1>1. ApplyBatch(ops) /\ NoteEdit /\ UNCHANGED shown /\ phase' = "draw"
  BY DEF UserEdit, Event, Then
<1>2. DocumentStep
  BY <1>1, BatchSteps DEF InterfaceInv
<1> QED BY <1>1, <1>2, EventKeeps

(* The operations of the batches are operations. *)
LEMMA OpsTyped ==
  /\ \A n \in NodeId, k \in Kind, p \in Pos : AddNode(n, k, p) \in GraphOp
  /\ \A n \in NodeId : RemoveNode(n) \in GraphOp
  /\ \A a \in OutPort, b \in InPort : Connect(a, b) \in GraphOp /\ Disconnect(a, b) \in GraphOp
  /\ \A n \in NodeId, v \in Value : SetParam(n, v) \in GraphOp
  /\ \A n \in NodeId, p \in Pos : MoveNode(n, p) \in GraphOp
<1>1. \A n \in NodeId, k \in Kind, p \in Pos : AddNode(n, k, p) \in GraphOp
  BY DEF AddNode, GraphOp
<1>2. \A n \in NodeId : RemoveNode(n) \in GraphOp
  BY DEF RemoveNode, GraphOp
<1>3. \A a \in OutPort, b \in InPort : Connect(a, b) \in GraphOp /\ Disconnect(a, b) \in GraphOp
  BY DEF Connect, Disconnect, GraphOp
<1>4. \A n \in NodeId, v \in Value : SetParam(n, v) \in GraphOp
  BY DEF SetParam, GraphOp
<1>5. \A n \in NodeId, p \in Pos : MoveNode(n, p) \in GraphOp
  BY DEF MoveNode, GraphOp
<1> QED BY <1>1, <1>2, <1>3, <1>4, <1>5

(* A node of the graph. *)
LEMMA NodeTyped ==
  ASSUME GraphOk(graph), NEW n \in Nodes(graph)
  PROVE  /\ n \in NodeId /\ graph.nodes[n].kind \in Kind /\ graph.nodes[n].pos \in Pos
         /\ graph.nodes[n].value \in Value \cup {Unset}
BY DEF GraphOk, GraphType, Node

(* What a node shows or hides by is a value. *)
LEMMA TogglesValues ==
  ASSUME GraphOk(graph), NEW n \in Nodes(graph)
  PROVE  Toggled(n) \in Value /\ Hide[graph.nodes[n].value] \in Value
<1> DEFINE v == graph.nodes[n].value
<1>1. v \in Value \cup {Unset}
  BY NodeTyped
<1> HIDE DEF v
<1>2. Hide[v] \in Value
  BY <1>1, InterfaceAssumption
<1>3. Hidden(v) => Show[v] \in Value
  BY <1>1, InterfaceAssumption DEF Hidden
<1> QED BY <1>2, <1>3 DEF Toggled, v

(* A frame that begins evaluates what is displayed, if it must. *)
LEMMA BeginKeeps ==
  ASSUME InterfaceInv, Begin PROVE InterfaceInv'
<1>1. OpenInv /\ HandsInv /\ SceneInv /\ BeforeInv /\ Nodes(Displayed) \subseteq NodeId
      /\ evalDirty \in BOOLEAN
  BY DisplayedIsGraph DEF InterfaceInv, OpenInv
<1>2. /\ phase' = "panels" /\ UNCHANGED <<selection, pointer, canvas, drawn, before>>
      /\ UNCHANGED <<ledger, history, graph, gesture, viewing, sceneDirty>>
  BY DEF Begin, Then, hands, Evaluate, document, screen
<1>3. UNCHANGED <<chain, pending, recovery, undo, redo, graph, gesture, viewing, before>>
  BY <1>2 DEF ledger, history
<1>4. Displayed' = Displayed
  BY <1>2 DEF Displayed, Editable, viewing
<1>5. CASE evalDirty
  <2>1. evalDirty' = FALSE /\ evaluated' = Shape(Displayed)
    BY <1>5 DEF Begin, Evaluate
  <2>2. OpenInv'
    <3>1. DocumentInv /\ Seen /\ recovery' \in Seq(GraphOp)
      BY <1>1, <1>3 DEF OpenInv, DocumentInv
    <3>2. DocumentInv' /\ Seen'
      BY <1>3, <3>1, UnchangedKeeps, SeenStays
    <3> QED BY <1>1, <1>2, <2>1, <3>2 DEF OpenInv
  <2>3. HandsInv'
    BY <1>1, <1>2 DEF HandsInv
  <2>4. BeforeInv'
    BY <1>1, <1>3, NothingNoted
  <2>5. SceneInv'
    <3>1. DOMAIN evaluated'.nodes \subseteq NodeId
      BY <1>1, <2>1, ShapeNodes
    <3>2. DrawnIsCurrent'
      BY <1>2 DEF DrawnIsCurrent
    <3>3. evaluated' = Shape(Displayed')
      BY <1>4, <2>1
    <3> QED BY <1>1, <1>2, <1>4, <3>1, <3>2, <3>3 DEF SceneInv
  <2> QED BY <2>2, <2>3, <2>4, <2>5 DEF InterfaceInv
<1>6. CASE ~evalDirty
  <2>1. UNCHANGED <<document, evaluated>>
    BY <1>6 DEF Begin
  <2>2. UNCHANGED <<document, shown, before>>
    BY <1>2, <2>1 DEF shown
  <2>3. HandsInv'
    BY <1>1, <1>2 DEF HandsInv
  <2> QED BY <1>2, <2>2, <2>3, SelectKeeps
<1> QED BY <1>5, <1>6

(* A frame in which the user does nothing. *)
LEMMA NoEventKeeps ==
  ASSUME InterfaceInv, NoEvent PROVE InterfaceInv'
<1>1. HandsInv'
  BY DEF InterfaceInv, HandsInv, NoEvent, Held
<1>2. UNCHANGED <<document, shown, before>> /\ phase' = "draw"
  BY DEF NoEvent, Selects, Event, Then
<1> QED BY <1>1, <1>2, SelectKeeps

(* A feature selected in the model panel. *)
LEMMA SelectNodeKeeps ==
  ASSUME InterfaceInv, NEW n \in NodeId, NEW additive \in BOOLEAN, SelectNode(n, additive)
  PROVE  InterfaceInv'
<1>1. HandsInv'
  BY DEF InterfaceInv, HandsInv, SelectNode, Held, Picked
<1>2. UNCHANGED <<document, shown, before>> /\ phase' = "draw"
  BY DEF SelectNode, Selects, Event, Then
<1> QED BY <1>1, <1>2, SelectKeeps

(* The preview of a feature switched on or off is an edit of its own. *)
LEMMA SetPreviewKeeps ==
  ASSUME InterfaceInv, NEW n \in NodeId, SetPreview(n)
  PROVE  InterfaceInv'
<1> DEFINE ops == <<SetParam(n, Toggled(n))>>
<1>1. UserEdit(ops) /\ n \in Nodes(graph)
  BY DEF SetPreview
<1>2. ops \in Seq(GraphOp)
  BY <1>1, TogglesValues, OpsTyped, SettledFits DEF InterfaceInv, OpenInv
<1>3. HandsInv'
  BY DEF InterfaceInv, HandsInv, SetPreview, Held
<1> HIDE DEF ops
<1> QED BY <1>1, <1>2, <1>3, UserEditKeeps

(* A slider dragged. *)
LEMMA DragValueKeeps ==
  ASSUME InterfaceInv, NEW n \in NodeId, NEW v \in Value, DragValue(n, v)
  PROVE  InterfaceInv'
<1>1. ParamDrag(n, v) /\ NoteEdit /\ UNCHANGED shown /\ phase' = "draw"
  BY DEF DragValue, Event, Then
<1>2. HandsInv'
  BY DEF InterfaceInv, HandsInv, DragValue
<1>3. DocumentStep
  BY <1>1, ParamDragSteps DEF InterfaceInv
<1> QED BY <1>1, <1>2, <1>3, EventKeeps

(* A slider or a text let go. *)
LEMMA LeaveValueKeeps ==
  ASSUME InterfaceInv, LeaveValue PROVE InterfaceInv'
<1>1. EndGesture /\ NoteEdit /\ UNCHANGED shown /\ phase' = "draw"
  BY DEF LeaveValue, EndParamDrag, Event, Then
<1>2. HandsInv'
  BY DEF InterfaceInv, HandsInv, LeaveValue
<1>3. DocumentStep
  BY <1>1, EndGestureSteps DEF InterfaceInv
<1> QED BY <1>1, <1>2, <1>3, EventKeeps

(* The inspector shows a node that is displayed. *)
LEMMA InspectedIsThere ==
  ASSUME InterfaceInv, Inspected # None
  PROVE  Inspected.node \in selection \cap Nodes(Displayed)
<1> DEFINE there == selection \cap Nodes(Displayed)
<1>1. there \subseteq NodeId /\ there # {}
  BY DEF InterfaceInv, HandsInv, Inspected
<1>2. Inspected = [node |-> Min(there)]
  BY <1>1 DEF Inspected
<1>3. there \subseteq Int /\ IsFiniteSet(there)
  BY <1>1, InterfaceAssumption, FS_Subset
<1> HIDE DEF there
<1>4. Min(there) \in there
  BY <1>1, <1>3, MinIsLeast
<1> QED BY <1>2, <1>4 DEF there

(* The value of an input without a wire is given by a slider and a wire to it. *)
LEMMA EditDefaultKeeps ==
  ASSUME InterfaceInv, NEW p \in Port, NEW v \in Value, EditDefault(p, v)
  PROVE  InterfaceInv'
<1> DEFINE n == Inspected.node
           id == FreshIds[1]
           ops == <<AddNode(id, Slider, graph.nodes[n].pos), SetParam(id, v),
                    Connect(<<id, 1>>, <<n, p>>)>>
<1>1. UserEdit(ops) /\ Inspected # None /\ Editable /\ FreshIds # << >>
  BY DEF EditDefault
<1>2. n \in Nodes(graph) /\ GraphOk(graph)
  <2>1. n \in Nodes(Displayed)
    BY <1>1, InspectedIsThere
  <2> HIDE DEF n
  <2>2. Displayed = graph
    BY <1>1 DEF Displayed
  <2> QED BY <2>1, <2>2, SettledFits DEF InterfaceInv, OpenInv
<1>3. id \in NodeId
  <2>1. FreshIds \in Seq(NodeId \ Nodes(graph)) /\ \A i \in 1..Len(FreshIds) : FreshIds[i] \in NodeId
    BY FreshLists
  <2>2. 1 \in 1..Len(FreshIds)
    BY <1>1, <2>1, EmptySeq
  <2> QED BY <2>1, <2>2
<1> HIDE DEF n, id
<1>4. ops \in Seq(GraphOp)
  <2>1. n \in NodeId /\ graph.nodes[n].pos \in Pos
    BY <1>2, NodeTyped
  <2>2. <<id, 1>> \in OutPort /\ <<n, p>> \in InPort /\ Slider \in Kind
    BY <1>3, <2>1, InterfaceAssumption DEF OutPort, InPort
  <2>3. /\ AddNode(id, Slider, graph.nodes[n].pos) \in GraphOp /\ SetParam(id, v) \in GraphOp
        /\ Connect(<<id, 1>>, <<n, p>>) \in GraphOp
    BY <1>3, <2>1, <2>2, OpsTyped
  <2> QED BY <2>3
<1>5. HandsInv'
  BY DEF InterfaceInv, HandsInv, EditDefault, Held
<1> HIDE DEF ops
<1> QED BY <1>1, <1>4, <1>5, UserEditKeeps

(* A block of the history chosen. *)
LEMMA ViewBlockKeeps ==
  ASSUME InterfaceInv, NEW i \in 0..MaxBlocks, ViewBlock(i)
  PROVE  InterfaceInv'
<1>1. SetView(i) /\ NoteEdit /\ UNCHANGED shown /\ phase' = "draw"
  BY DEF ViewBlock, Event, Then
<1>2. HandsInv'
  BY DEF InterfaceInv, HandsInv, ViewBlock, Held
<1>3. DocumentStep
  BY <1>1, SetViewSteps DEF InterfaceInv
<1> QED BY <1>1, <1>2, <1>3, EventKeeps

(* Undo and Redo end the gesture, which is then the edit undone. *)
LEMMA UndoRedoKeeps ==
  ASSUME InterfaceInv, Undo \/ Redo
  PROVE  InterfaceInv'
<1>1. (UndoPending \/ RedoPending) /\ NoteEdit /\ UNCHANGED shown /\ phase' = "draw"
  BY DEF Undo, Redo, Event, Then
<1>2. HandsInv'
  BY DEF InterfaceInv, HandsInv, Undo, Redo, Held
<1>3. DocumentStep
  BY <1>1, UndoSteps, RedoSteps DEF InterfaceInv
<1> QED BY <1>1, <1>2, <1>3, EventKeeps

-----------------------------------------------------------------------------

(* The events of the canvas that select, or hold a wire. *)
LEMMA PressCanvasKeeps ==
  ASSUME InterfaceInv, NEW mode,
         mode = Pan \/ \E additive \in BOOLEAN : mode = Box(selection, additive),
         PressCanvas(mode)
  PROVE  InterfaceInv'
<1>1. UNCHANGED <<document, shown, before>> /\ phase' = "draw"
  BY DEF PressCanvas, Selects, Event, Then
<1>2. HandsInv'
  <2>1. selection' = selection /\ canvas' = mode /\ selection \subseteq NodeId
    BY DEF PressCanvas, InterfaceInv, HandsInv
  <2>2. mode # None
    BY DEF None, Pan, Box
  <2> QED BY <2>1, <2>2 DEF HandsInv
<1> QED BY <1>1, <1>2, SelectKeeps

(* The box picks nodes, with those picked before it or without. *)
LEMMA DragBoxKeeps ==
  ASSUME InterfaceInv, NEW hit \in SUBSET Nodes(Displayed), DragBox(hit)
  PROVE  InterfaceInv'
<1>1. UNCHANGED <<document, shown, before>> /\ phase' = "draw"
  BY DEF DragBox, Selects, Event, Then
<1>2. /\ pointer = "canvas" /\ (UNCHANGED <<pointer, canvas>> \/ (pointer' = "up" /\ canvas' = None))
      /\ selection' = IF canvas.mode = "select" THEN Boxed(hit) ELSE selection
  BY DEF DragBox
<1>3. hit \subseteq NodeId /\ selection \subseteq NodeId
  BY DisplayedIsGraph DEF InterfaceInv, HandsInv
<1>4. HandsInv'
  <2>1. CASE canvas = Pan
    BY <1>2, <1>3, <2>1 DEF HandsInv, InterfaceInv, Pan
  <2>2. CASE \E nodes \in SUBSET NodeId, additive \in BOOLEAN : canvas = Box(nodes, additive)
    <3>1. PICK nodes \in SUBSET NodeId, additive \in BOOLEAN : canvas = Box(nodes, additive)
      BY <2>2
    <3>2. canvas.before = nodes
      BY <3>1 DEF Box
    <3>3. Boxed(hit) \subseteq NodeId
      BY <1>3, <3>2 DEF Boxed
    <3>4. selection' \subseteq NodeId
      BY <1>2, <1>3, <3>3
    <3> QED BY <1>2, <2>2, <3>4 DEF HandsInv, InterfaceInv
  <2> QED BY <1>2, <2>1, <2>2 DEF InterfaceInv, HandsInv
<1> QED BY <1>1, <1>4, SelectKeeps

(* A box given up selects again what was selected before it. *)
LEMMA CancelBoxKeeps ==
  ASSUME InterfaceInv, CancelBox PROVE InterfaceInv'
<1>1. UNCHANGED <<document, shown, before>> /\ phase' = "draw"
  BY DEF CancelBox, Selects, Event, Then
<1>2. /\ canvas # None /\ canvas' = None /\ pointer' \in {"up", "spent"}
      /\ selection' = IF canvas.mode = "select" THEN canvas.before ELSE selection
  BY DEF CancelBox
<1>3. selection' \subseteq NodeId
  <2>1. CASE canvas = Pan
    BY <1>2, <2>1 DEF HandsInv, InterfaceInv, Pan
  <2>2. CASE \E nodes \in SUBSET NodeId, additive \in BOOLEAN : canvas = Box(nodes, additive)
    <3>1. PICK nodes \in SUBSET NodeId, additive \in BOOLEAN : canvas = Box(nodes, additive)
      BY <2>2
    <3>2. canvas.before = nodes /\ selection \subseteq NodeId
      BY <3>1 DEF Box, InterfaceInv, HandsInv
    <3> QED BY <1>2, <3>2
  <2> QED BY <1>2, <2>1, <2>2 DEF InterfaceInv, HandsInv
<1>4. HandsInv'
  BY <1>2, <1>3 DEF HandsInv
<1> QED BY <1>1, <1>4, SelectKeeps

(* Escape lets go of the wire or else of the selection. *)
LEMMA EscapeKeeps ==
  ASSUME InterfaceInv, Escape PROVE InterfaceInv'
<1>1. HandsInv'
  BY DEF InterfaceInv, HandsInv, Escape
<1>2. UNCHANGED <<document, shown, before>> /\ phase' = "draw"
  BY DEF Escape, Selects, Event, Then
<1> QED BY <1>1, <1>2, SelectKeeps

(* A click beside the nodes. *)
LEMMA ClickCanvasKeeps ==
  ASSUME InterfaceInv, ClickCanvas PROVE InterfaceInv'
<1>1. HandsInv'
  BY DEF InterfaceInv, HandsInv, ClickCanvas
<1>2. UNCHANGED <<document, shown, before>> /\ phase' = "draw"
  BY DEF ClickCanvas, Selects, Event, Then
<1> QED BY <1>1, <1>2, SelectKeeps

(* The pointer released after what it dragged was cut short. *)
LEMMA ReleaseSpentKeeps ==
  ASSUME InterfaceInv, ReleaseSpent PROVE InterfaceInv'
<1>1. HandsInv'
  BY DEF InterfaceInv, HandsInv, ReleaseSpent
<1>2. UNCHANGED <<document, shown, before>> /\ phase' = "draw"
  BY DEF ReleaseSpent, Selects, Event, Then
<1> QED BY <1>1, <1>2, SelectKeeps

(* A wire drawn from an output. *)
LEMMA GrabOutputKeeps ==
  ASSUME InterfaceInv, NEW n, GrabOutput(n) PROVE InterfaceInv'
<1>1. HandsInv'
  BY DEF InterfaceInv, HandsInv, GrabOutput
<1>2. UNCHANGED <<document, shown, before>> /\ phase' = "draw"
  BY DEF GrabOutput, Selects, Event, Then
<1> QED BY <1>1, <1>2, SelectKeeps

-----------------------------------------------------------------------------

(* The events of the canvas that edit. *)
LEMMA ChooseComponentKeeps ==
  ASSUME InterfaceInv, NEW k \in Kind, ChooseComponent(k)
  PROVE  InterfaceInv'
<1> DEFINE id == FreshIds[1]
           ops == <<AddNode(id, k, Max(Pos))>>
<1>1. UserEdit(ops) /\ FreshIds # << >> /\ selection' = {id} /\ Held
  BY DEF ChooseComponent
<1>2. id \in NodeId
  <2>1. FreshIds \in Seq(NodeId \ Nodes(graph)) /\ \A i \in 1..Len(FreshIds) : FreshIds[i] \in NodeId
    BY FreshLists
  <2>2. 1 \in 1..Len(FreshIds)
    BY <1>1, <2>1, EmptySeq
  <2> QED BY <2>1, <2>2
<1> HIDE DEF id
<1>3. ops \in Seq(GraphOp)
  BY <1>2, MaxIsPlace, OpsTyped
<1>4. HandsInv'
  BY <1>1, <1>2 DEF InterfaceInv, HandsInv, Held
<1> HIDE DEF ops
<1> QED BY <1>1, <1>3, <1>4, UserEditKeeps

(* A node pressed, with Shift or without, begins a move. *)
LEMMA PressNodeKeeps ==
  ASSUME InterfaceInv, NEW n \in NodeId, NEW shift \in BOOLEAN, PressNode(n, shift)
  PROVE  InterfaceInv'
<1>1. BeginMove(selection') /\ NoteEdit /\ UNCHANGED shown /\ phase' = "draw"
  BY DEF PressNode, Event, Then
<1>2. selection' \in SUBSET NodeId
  BY DEF InterfaceInv, HandsInv, PressNode
<1>3. HandsInv'
  BY <1>2 DEF InterfaceInv, HandsInv, PressNode
<1>4. DocumentStep
  BY <1>1, <1>2, BeginMoveSteps DEF InterfaceInv
<1> QED BY <1>1, <1>3, <1>4, EventKeeps

(* The nodes pressed move with the pointer. *)
LEMMA DragNodesKeeps ==
  ASSUME InterfaceInv, NEW d \in {-1, 1}, DragNodes(d)
  PROVE  InterfaceInv'
<1>1. NoteEdit /\ UNCHANGED shown /\ phase' = "draw"
  BY DEF DragNodes, Event, Then
<1>2. HandsInv'
  BY DEF InterfaceInv, HandsInv, DragNodes, Held
<1>3. DocumentStep
  BY DragNodesSteps DEF InterfaceInv
<1> QED BY <1>1, <1>2, <1>3, EventKeeps

(* The nodes let go of stay where they are. *)
LEMMA ReleaseNodeKeeps ==
  ASSUME InterfaceInv, ReleaseNode PROVE InterfaceInv'
<1>1. EndMove /\ NoteEdit /\ UNCHANGED shown /\ phase' = "draw"
  BY DEF ReleaseNode, Event, Then
<1>2. HandsInv'
  BY DEF InterfaceInv, HandsInv, ReleaseNode
<1>3. DocumentStep
  BY <1>1, EndGestureSteps, NothingSteps DEF InterfaceInv, EndMove
<1> QED BY <1>1, <1>2, <1>3, EventKeeps

(* A wire taken off an input hangs on the pointer. *)
LEMMA GrabInputKeeps ==
  ASSUME InterfaceInv, NEW n \in NodeId, NEW p \in Port, GrabInput(n, p)
  PROVE  InterfaceInv'
<1>1. PICK e \in IncomingAt(graph, <<n, p>>) : UserEdit(<<Disconnect(e.from, e.to)>>)
  BY DEF GrabInput
<1> DEFINE ops == <<Disconnect(e.from, e.to)>>
<1>2. ops \in Seq(GraphOp)
  <2>1. e \in Edge
    BY SettledFits DEF InterfaceInv, OpenInv, GraphOk, GraphType, IncomingAt
  <2>2. e.from \in OutPort /\ e.to \in InPort
    BY <2>1 DEF Edge
  <2> QED BY <2>2, OpsTyped
<1>3. HandsInv'
  BY DEF InterfaceInv, HandsInv, GrabInput
<1>4. UserEdit(ops)
  BY <1>1
<1> HIDE DEF ops
<1> QED BY <1>2, <1>3, <1>4, UserEditKeeps

(* A wire dropped at an input replaces the one that is there. *)
LEMMA DropWireKeeps ==
  ASSUME InterfaceInv, NEW n \in NodeId, NEW p \in Port, DropWire(n, p)
  PROVE  InterfaceInv'
<1>1. HandsInv'
  <2>1. selection' = selection /\ canvas' = canvas /\ pointer' = "up"
    BY DEF DropWire
  <2> QED BY <2>1, CanvasKept DEF InterfaceInv, HandsInv
<1>2. CASE Selects
  <2>1. UNCHANGED <<document, shown, before>> /\ phase' = "draw"
    BY <1>2 DEF Selects, Event, Then
  <2> QED BY <1>1, <2>1, SelectKeeps
<1> DEFINE ops == <<Connect(<<wire.from, 1>>, <<n, p>>)>>
<1>3. CASE wire.from \in Nodes(graph) /\ Event /\ NoteEdit /\ (ApplyOps(ops) \/ UNCHANGED document)
  <2>1. ops \in Seq(GraphOp)
    <3>1. wire.from \in NodeId
      BY <1>3, SettledFits DEF InterfaceInv, OpenInv, GraphOk, GraphType
    <3>2. <<wire.from, 1>> \in OutPort /\ <<n, p>> \in InPort
      BY <3>1, InterfaceAssumption DEF OutPort, InPort
    <3> QED BY <3>2, OpsTyped
  <2> HIDE DEF ops
  <2>2. DocumentStep
    BY <1>3, <2>1, ApplyOpsSteps, NothingSteps DEF InterfaceInv
  <2>3. NoteEdit /\ UNCHANGED shown /\ phase' = "draw"
    BY <1>3 DEF Event, Then
  <2> QED BY <1>1, <2>2, <2>3, EventKeeps
<1> QED BY <1>2, <1>3 DEF DropWire

(* The nodes selected are deleted, by id, and nothing stays selected. *)
LEMMA DeleteKeeps ==
  ASSUME InterfaceInv, Delete PROVE InterfaceInv'
<1> DEFINE s == Sorted(selection)
           k == Cardinality(selection)
           ops == [i \in 1..k |-> RemoveNode(s[i])]
<1>1. UserEdit(ops) /\ selection' = {} /\ Held
  BY DEF Delete
<1>2. ops \in Seq(GraphOp)
  <2>1. selection \subseteq Int /\ IsFiniteSet(selection) /\ selection \subseteq NodeId
    BY InterfaceAssumption, FS_Subset DEF InterfaceInv, HandsInv
  <2>2. s \in Seq(selection) /\ Len(s) = k
    BY <2>1, SortedLists
  <2> HIDE DEF s, k
  <2>3. ASSUME NEW i \in 1..k PROVE s[i] \in NodeId
    <3>1. i \in 1..Len(s)
      BY <2>2
    <3>2. s[i] \in selection
      BY <2>2, <3>1
    <3> QED BY <2>1, <3>2
  <2>4. \A i \in 1..k : RemoveNode(s[i]) \in GraphOp
    BY <2>3, OpsTyped
  <2>5. k \in Nat
    BY <2>2
  <2> QED BY <2>4, <2>5
<1> HIDE DEF ops
<1>3. HandsInv'
  BY <1>1 DEF InterfaceInv, HandsInv, Held
<1> QED BY <1>1, <1>2, <1>3, UserEditKeeps

-----------------------------------------------------------------------------

(* The scene is built of what is displayed, evaluated anew if need be. *)
LEMMA RebuildKeeps ==
  ASSUME InterfaceInv, Rebuild PROVE InterfaceInv'
<1>1. OpenInv /\ HandsInv /\ SceneInv /\ BeforeInv /\ Nodes(Displayed) \subseteq NodeId
      /\ evalDirty \in BOOLEAN /\ sceneDirty \in BOOLEAN
  BY DisplayedIsGraph DEF InterfaceInv, OpenInv
<1>2. UNCHANGED <<ledger, history, graph, gesture, viewing, selection, pointer, canvas, before>>
  BY DEF Rebuild, hands
<1>3. UNCHANGED <<chain, pending, recovery, undo, redo, graph, gesture, viewing, before>>
  BY <1>2 DEF ledger, history
<1>4. Displayed' = Displayed
  BY <1>2 DEF Displayed, Editable, viewing
<1>5. HandsInv'
  BY <1>1, <1>2 DEF HandsInv
<1>6. BeforeInv'
  BY <1>1, <1>3, NothingNoted
<1>7. CASE sceneDirty \/ selection # drawn.selected
  <2>1. /\ evaluated' = IF evalDirty THEN Shape(Displayed) ELSE evaluated
        /\ drawn' = [shape |-> evaluated', selected |-> selection]
        /\ evalDirty' = FALSE /\ sceneDirty' = FALSE
    BY <1>7 DEF Rebuild
  <2>2. evaluated' = Shape(Displayed)
    BY <1>1, <2>1 DEF SceneInv
  <2>3. drawn' = [shape |-> Shape(Displayed), selected |-> selection]
    BY <2>1, <2>2
  <2>4. drawn'.shape = Shape(Displayed') /\ drawn'.selected = selection'
        /\ evaluated' = Shape(Displayed')
        /\ drawn' = [shape |-> Shape(Displayed'), selected |-> selection']
    BY <1>2, <1>4, <2>2, <2>3
  <2>5. DrawnIsCurrent'
    BY <2>4 DEF DrawnIsCurrent
  <2>6. DOMAIN evaluated'.nodes \subseteq NodeId /\ DOMAIN drawn'.shape.nodes \subseteq NodeId
    BY <1>1, <2>2, <2>3, ShapeNodes
  <2>7. SceneInv'
    BY <2>4, <2>5, <2>6 DEF SceneInv
  <2>8. OpenInv'
    <3>1. DocumentInv /\ Seen /\ recovery' \in Seq(GraphOp)
      BY <1>1, <1>3 DEF OpenInv, DocumentInv
    <3>2. DocumentInv' /\ Seen'
      BY <1>3, <3>1, UnchangedKeeps, SeenStays
    <3> QED BY <2>1, <3>2 DEF OpenInv
  <2> QED BY <1>5, <1>6, <2>7, <2>8 DEF InterfaceInv
<1>8. CASE ~sceneDirty /\ selection = drawn.selected
  <2>1. UNCHANGED <<screen, shown>>
    BY <1>8 DEF Rebuild
  <2>2. evalDirty' = evalDirty /\ sceneDirty' = sceneDirty /\ evaluated' = evaluated /\ drawn' = drawn
    BY <2>1 DEF screen, shown
  <2>3. drawn = [shape |-> Shape(Displayed), selected |-> selection]
    BY <1>1, <1>8 DEF SceneInv
  <2>4. DrawnIsCurrent'
    BY <1>2, <1>4, <2>2, <2>3 DEF DrawnIsCurrent
  <2>5. SceneInv'
    BY <1>1, <1>4, <2>2, <2>4 DEF SceneInv
  <2>6. OpenInv'
    <3>1. DocumentInv /\ Seen /\ recovery' \in Seq(GraphOp)
      BY <1>1, <1>3 DEF OpenInv, DocumentInv
    <3>2. DocumentInv' /\ Seen'
      BY <1>3, <3>1, UnchangedKeeps, SeenStays
    <3> QED BY <1>1, <2>2, <3>2 DEF OpenInv
  <2> QED BY <1>5, <1>6, <2>5, <2>6 DEF InterfaceInv
<1> QED BY <1>7, <1>8

(* A click in the viewport picks nodes and ends the gesture. *)
LEMMA ViewportKeeps ==
  ASSUME InterfaceInv, Viewport PROVE InterfaceInv'
<1>1. (EndGesture \/ UNCHANGED document) /\ NoteEdit /\ UNCHANGED shown /\ phase' = "tools"
      /\ UNCHANGED <<pointer, canvas>>
  BY DEF Viewport, Then, hands
<1>2. selection' \subseteq NodeId
  <2>1. InScene \subseteq NodeId /\ selection \subseteq NodeId
    BY DEF InScene, InterfaceInv, SceneInv, HandsInv
  <2> QED BY <2>1 DEF Viewport, Pick, Picked
<1>3. HandsInv'
  BY <1>1, <1>2 DEF InterfaceInv, HandsInv
<1>4. DocumentStep
  BY <1>1, EndGestureSteps, NothingSteps DEF InterfaceInv
<1> QED BY <1>1, <1>3, <1>4, EventKeeps

(* A pull, the recovery list retried or cleared, or a frame without a click. *)
LEMMA ElsewhereKeeps ==
  ASSUME InterfaceInv, Elsewhere PROVE InterfaceInv'
<1>1. NoteEdit /\ UNCHANGED shown /\ phase' = "begin" /\ UNCHANGED <<selection, pointer, canvas>>
  BY DEF Elsewhere, Then, hands
<1>2. HandsInv'
  BY <1>1 DEF InterfaceInv, HandsInv
<1>3. DocumentStep
  BY MergeSteps, RetrySteps, ClearSteps, NothingSteps DEF InterfaceInv, Elsewhere
<1> QED BY <1>1, <1>2, <1>3, EventKeeps

-----------------------------------------------------------------------------

(* Lists of operations one after the other are operations. *)
LEMMA FlatTyped ==
  ASSUME NEW X, NEW s \in Seq(Seq(X)) PROVE FlattenSeq(s) \in Seq(X)
<1>1. << >> \in Seq(X)
  OBVIOUS
<1> QED BY <1>1, FlattenFirst

(* An id that a command uses is the id of a node. *)
LEMMA FreshTyped ==
  ASSUME NEW i \in Nat, 1 <= i, i <= Len(FreshIds) PROVE FreshIds[i] \in NodeId
<1>1. FreshIds \in Seq(NodeId \ Nodes(graph)) /\ \A j \in 1..Len(FreshIds) : FreshIds[j] \in NodeId
  BY FreshLists
<1>2. i \in 1..Len(FreshIds)
  BY <1>1
<1> QED BY <1>1, <1>2

(* The ids of the results of a command that has ids enough. *)
LEMMA ResultsTyped ==
  ASSUME NEW c \in Commands, NEW from \in Seq(NodeId),
         c.operands # "none" => from # << >>,
         Merges(c, from) + Results(c, from) <= Len(FreshIds)
  PROVE  /\ Results(c, from) \in Nat /\ Merges(c, from) \in Nat
         /\ Merges(c, from) <= Len(FreshIds)
         /\ \A i \in 1..Results(c, from) : ResultId(c, from, i) \in NodeId
<1>1. Len(from) \in Nat /\ (from # << >> => Len(from) >= 1)
  BY EmptySeq
<1>2. Results(c, from) \in Nat /\ Merges(c, from) \in Nat
  BY <1>1 DEF Results, Merges
<1>3. Len(FreshIds) \in Nat
  BY FreshLists
<1>4. ASSUME NEW i \in 1..Results(c, from) PROVE ResultId(c, from, i) \in NodeId
  <2>1. Merges(c, from) + i \in Nat /\ 1 <= Merges(c, from) + i /\ Merges(c, from) + i <= Len(FreshIds)
    BY <1>2, <1>3
  <2> QED BY <2>1, FreshTyped DEF ResultId
<1> QED BY <1>2, <1>3, <1>4

(* The wires of each result come from the nodes selected or merged. *)
LEMMA FeedingTyped ==
  ASSUME NEW c \in Commands, NEW from \in Seq(NodeId),
         c.operands # "none" => from # << >>, c.operands = "pair" => Len(from) = 2,
         Merges(c, from) + Results(c, from) <= Len(FreshIds)
  PROVE  /\ DOMAIN Feeding(c, from) = 1..Results(c, from)
         /\ \A i \in 1..Results(c, from) :
              Feeding(c, from)[i] \in Seq(NodeId) /\ DOMAIN Feeding(c, from)[i] \subseteq Port
<1>1. c.operands \in {"none", "each", "pair", "all"} /\ {1, 2} \subseteq Port
  BY InterfaceAssumption DEF Operands
<1>2. Len(from) \in Nat /\ (from # << >> => Len(from) >= 1) /\ DOMAIN from = 1..Len(from)
  BY EmptySeq
<1>3. CASE c.operands = "none"
  BY <1>3 DEF Feeding, Results
<1>4. CASE c.operands = "each"
  <2>1. Feeding(c, from) = [i \in 1..Len(from) |-> <<from[i]>>] /\ Results(c, from) = Len(from)
    BY <1>2, <1>4 DEF Feeding, Results
  <2>2. ASSUME NEW i \in 1..Len(from)
        PROVE  <<from[i]>> \in Seq(NodeId) /\ DOMAIN <<from[i]>> \subseteq Port
    <3>1. from[i] \in NodeId
      OBVIOUS
    <3>2. DOMAIN <<from[i]>> = {1}
      OBVIOUS
    <3> QED BY <1>1, <3>1, <3>2
  <2> QED BY <2>1, <2>2
<1>5. CASE c.operands = "pair"
  <2>1. Feeding(c, from) = <<from>> /\ Results(c, from) = 1
    BY <1>5 DEF Feeding, Results
  <2>2. DOMAIN from = {1, 2}
    BY <1>2, <1>5
  <2> QED BY <1>1, <2>1, <2>2
<1>6. CASE c.operands = "all"
  <2> DEFINE x == IF Len(from) = 1 THEN from[1] ELSE FreshIds[Len(from) - 1]
  <2>1. Feeding(c, from) = <<<<x>>>> /\ Results(c, from) = 1
    BY <1>6 DEF Feeding, Results
  <2>2. x \in NodeId
    <3>1. Merges(c, from) = Len(from) - 1 /\ Len(from) >= 1
      BY <1>2, <1>6 DEF Merges
    <3>2. CASE Len(from) = 1
      <4>1. 1 \in 1..Len(from)
        BY <1>2, <3>2
      <4>2. from[1] \in NodeId
        BY <4>1
      <4> QED BY <3>2, <4>2
    <3>3. CASE Len(from) # 1
      <4> DEFINE j == Len(from) - 1
      <4>1. j \in Nat /\ 1 <= j /\ j <= Len(FreshIds)
        BY <1>2, <1>6, <3>1, <3>3, ResultsTyped
      <4> HIDE DEF j
      <4>2. FreshIds[j] \in NodeId
        BY <4>1, FreshTyped
      <4> QED BY <3>3, <4>2 DEF j
    <3> QED BY <3>2, <3>3
  <2> HIDE DEF x
  <2>3. <<x>> \in Seq(NodeId) /\ DOMAIN <<x>> = {1}
    BY <2>2
  <2> QED BY <1>1, <2>1, <2>3
<1> QED BY <1>1, <1>3, <1>4, <1>5, <1>6

(* The batch that merges the nodes selected, two at a time. *)
LEMMA MergingTyped ==
  ASSUME NEW c \in Commands, NEW from \in Seq(NodeId), c.operands = "all", from # << >>,
         Merges(c, from) + Results(c, from) <= Len(FreshIds)
  PROVE  FlattenSeq(Merging(from, FreshIds)) \in Seq(GraphOp)
<1> DEFINE k == Len(from) - 1
           left(i) == IF i = 1 THEN from[1] ELSE FreshIds[i - 1]
           part(i) == <<AddNode(FreshIds[i], Merge, Max(Pos)),
                        Connect(<<left(i), 1>>, <<FreshIds[i], 1>>),
                        Connect(<<from[i + 1], 1>>, <<FreshIds[i], 2>>), SetParam(FreshIds[i], Hide[Unset])>>
<1>1. Len(from) \in Nat /\ Len(from) >= 1 /\ k \in Nat /\ k <= Len(FreshIds) /\ Len(FreshIds) \in Nat
  <2>1. Len(from) \in Nat /\ Len(from) >= 1
    BY EmptySeq
  <2>2. Merges(c, from) = k /\ Merges(c, from) <= Len(FreshIds)
    BY ResultsTyped DEF Merges
  <2> QED BY <2>1, <2>2, FreshLists
<1>2. ASSUME NEW i \in 1..k PROVE part(i) \in Seq(GraphOp)
  <2>1. FreshIds[i] \in NodeId
    BY <1>1, FreshTyped
  <2>2. left(i) \in NodeId
    <3>1. CASE i = 1
      BY <1>1, <3>1
    <3>2. CASE i # 1
      <4>1. i - 1 \in Nat /\ 1 <= i - 1 /\ i - 1 <= Len(FreshIds)
        BY <1>1, <3>2
      <4>2. FreshIds[i - 1] \in NodeId
        BY <4>1, FreshTyped
      <4> QED BY <3>2, <4>2
    <3> QED BY <3>1, <3>2
  <2>3. from[i + 1] \in NodeId
    <3>1. i + 1 \in 1..Len(from)
      BY <1>1
    <3> QED BY <3>1
  <2>4. {1, 2} \subseteq Port /\ Merge \in Kind /\ Max(Pos) \in Pos /\ Hide[Unset] \in Value
    BY InterfaceAssumption, MaxIsPlace
  <2> DEFINE a == left(i)
             b == FreshIds[i]
             d == from[i + 1]
  <2>5. a \in NodeId /\ b \in NodeId /\ d \in NodeId
    BY <2>1, <2>2, <2>3
  <2>6. part(i) = <<AddNode(b, Merge, Max(Pos)), Connect(<<a, 1>>, <<b, 1>>),
                    Connect(<<d, 1>>, <<b, 2>>), SetParam(b, Hide[Unset])>>
    OBVIOUS
  <2> HIDE DEF a, b, d
  <2>7. <<a, 1>> \in OutPort /\ <<d, 1>> \in OutPort /\ <<b, 1>> \in InPort /\ <<b, 2>> \in InPort
    BY <2>4, <2>5 DEF OutPort, InPort
  <2>8. /\ AddNode(b, Merge, Max(Pos)) \in GraphOp /\ Connect(<<a, 1>>, <<b, 1>>) \in GraphOp
        /\ Connect(<<d, 1>>, <<b, 2>>) \in GraphOp /\ SetParam(b, Hide[Unset]) \in GraphOp
    BY <2>4, <2>5, <2>7, OpsTyped
  <2> HIDE DEF part
  <2> QED BY <2>6, <2>8
<1>3. Merging(from, FreshIds) = [i \in 1..k |-> part(i)]
  BY DEF Merging
<1> HIDE DEF part, k
<1>4. Merging(from, FreshIds) \in Seq(Seq(GraphOp))
  BY <1>1, <1>2, <1>3
<1> QED BY <1>4, FlatTyped

(* The recipe of a command is operations. *)
LEMMA RecipeTyped ==
  ASSUME GraphOk(graph), NEW c \in Commands, NEW from \in Seq(Nodes(graph)),
         c.operands # "none" => from # << >>, c.operands = "pair" => Len(from) = 2,
         Merges(c, from) + Results(c, from) <= Len(FreshIds)
  PROVE  Recipe(c, from) \in Seq(GraphOp)
<1>1. from \in Seq(NodeId) /\ Nodes(graph) \subseteq NodeId
  BY DEF GraphOk, GraphType
<1> DEFINE into == Feeding(c, from)
           id(i) == ResultId(c, from, i)
           wires(i) == [p \in DOMAIN into[i] |-> Connect(<<into[i][p], 1>>, <<id(i), p>>)]
           making(i) == <<AddNode(id(i), c.result, Max(Pos))>> \o wires(i)
           merging == IF c.operands = "all" THEN FlattenSeq(Merging(from, FreshIds)) ELSE << >>
           results == FlattenSeq([i \in DOMAIN into |-> making(i)])
           hiding == IF c.hides THEN [i \in DOMAIN from |-> HideNode(from[i])] ELSE << >>
<1>2. Recipe(c, from) = (merging \o results) \o hiding
  BY DEF Recipe
<1>3. merging \in Seq(GraphOp)
  <2>1. CASE c.operands = "all"
    BY <1>1, <2>1, MergingTyped
  <2>2. CASE c.operands # "all"
    BY <2>2
  <2> QED BY <2>1, <2>2
<1>4. /\ DOMAIN into = 1..Results(c, from) /\ Results(c, from) \in Nat
      /\ \A i \in 1..Results(c, from) :
           into[i] \in Seq(NodeId) /\ DOMAIN into[i] \subseteq Port /\ id(i) \in NodeId
  BY <1>1, FeedingTyped, ResultsTyped
<1>5. c.result \in Kind /\ Max(Pos) \in Pos /\ 1 \in Port
  BY InterfaceAssumption, MaxIsPlace
<1> HIDE DEF into, id
<1>6. ASSUME NEW i \in DOMAIN into PROVE making(i) \in Seq(GraphOp)
  <2>1. into[i] \in Seq(NodeId) /\ DOMAIN into[i] \subseteq Port /\ id(i) \in NodeId
    BY <1>4
  <2>2. AddNode(id(i), c.result, Max(Pos)) \in GraphOp
    BY <1>5, <2>1, OpsTyped
  <2> DEFINE x == into[i]
             n == Len(x)
  <2>3. n \in Nat /\ DOMAIN x = 1..n /\ \A p \in 1..n : x[p] \in NodeId /\ p \in Port
    BY <2>1
  <2>4. wires(i) = [p \in 1..n |-> Connect(<<x[p], 1>>, <<id(i), p>>)]
    BY <2>3
  <2> HIDE DEF x, n
  <2>5. ASSUME NEW p \in 1..n PROVE Connect(<<x[p], 1>>, <<id(i), p>>) \in GraphOp
    <3>1. <<x[p], 1>> \in OutPort /\ <<id(i), p>> \in InPort
      BY <1>5, <2>1, <2>3 DEF OutPort, InPort
    <3> QED BY <3>1, OpsTyped
  <2> HIDE DEF wires
  <2>6. wires(i) \in Seq(GraphOp)
    BY <2>3, <2>4, <2>5
  <2>7. <<AddNode(id(i), c.result, Max(Pos))>> \in Seq(GraphOp)
    BY <2>2
  <2> DEFINE first == <<AddNode(id(i), c.result, Max(Pos))>>
  <2> HIDE DEF first
  <2>8. first \o wires(i) \in Seq(GraphOp)
    BY <2>6, <2>7, ConcatProperties DEF first
  <2> QED BY <2>8 DEF first
<1> HIDE DEF making
<1>7. results \in Seq(GraphOp)
  <2> DEFINE parts == [i \in DOMAIN into |-> making(i)]
  <2>1. parts \in Seq(Seq(GraphOp))
    BY <1>4, <1>6
  <2> HIDE DEF parts
  <2>2. FlattenSeq(parts) \in Seq(GraphOp)
    BY <2>1, FlatTyped
  <2> QED BY <2>2 DEF parts
<1>8. hiding \in Seq(GraphOp)
  <2>1. ASSUME NEW i \in DOMAIN from PROVE HideNode(from[i]) \in GraphOp
    <3> DEFINE n == from[i]
    <3>1. n \in Nodes(graph) /\ n \in NodeId
      BY <1>1
    <3> HIDE DEF n
    <3>2. Hide[graph.nodes[n].value] \in Value
      BY <3>1, TogglesValues
    <3>3. SetParam(n, Hide[graph.nodes[n].value]) \in GraphOp
      BY <3>1, <3>2, OpsTyped
    <3> QED BY <3>3 DEF HideNode, n
  <2>2. DOMAIN from = 1..Len(from) /\ Len(from) \in Nat
    OBVIOUS
  <2>3. [i \in DOMAIN from |-> HideNode(from[i])] \in Seq(GraphOp)
    BY <2>1, <2>2
  <2> QED BY <2>3
<1> HIDE DEF merging, results, hiding
<1>9. merging \o results \in Seq(GraphOp)
  BY <1>3, <1>7, ConcatProperties
<1>10. (merging \o results) \o hiding \in Seq(GraphOp)
  BY <1>8, <1>9, ConcatProperties
<1> QED BY <1>2, <1>10

(* A command adds its results, wires them and selects them, as one edit. *)
LEMMA CommandKeeps ==
  ASSUME InterfaceInv, NEW c \in Commands, Command(c) PROVE InterfaceInv'
<1> DEFINE from == IF c.operands = "none" THEN << >> ELSE Ordered(selection)
           k == Results(c, from)
<1>1. /\ Takes(c, selection) /\ Merges(c, from) + k <= Len(FreshIds)
      /\ ApplyOps(Recipe(c, from)) /\ selection' = {ResultId(c, from, i) : i \in 1..k}
      /\ NoteEdit /\ UNCHANGED <<pointer, canvas>> /\ UNCHANGED shown /\ phase' = "begin"
  BY DEF Command, Then, hands
<1>2. GraphOk(graph) /\ Nodes(graph) \subseteq NodeId
  BY SettledFits DEF InterfaceInv, OpenInv, GraphOk, GraphType
<1>3. /\ from \in Seq(Nodes(graph)) /\ (c.operands # "none" => from # << >>)
      /\ (c.operands = "pair" => Len(from) = 2)
  <2>1. CASE c.operands = "none"
    BY <2>1
  <2>2. CASE c.operands # "none"
    <3>1. selection # {} /\ selection \subseteq Nodes(graph)
          /\ (c.operands = "pair" => Cardinality(selection) = 2)
      BY <1>1, <2>2 DEF Takes
    <3>2. IsFiniteSet(selection)
      BY <1>2, <3>1, FS_Subset DEF GraphOk
    <3>3. Ordered(selection) \in Seq(selection) /\ Len(Ordered(selection)) = Cardinality(selection)
      BY <1>2, <3>1, <3>2, OrderedLists
    <3>4. Cardinality(selection) # 0
      BY <3>1, <3>2, FS_EmptySet
    <3>5. from = Ordered(selection)
      BY <2>2
    <3> HIDE DEF from
    <3>6. from \in Seq(selection) /\ Len(from) # 0
      BY <3>3, <3>4, <3>5
    <3>7. from \in Seq(Nodes(graph)) /\ from # << >>
      BY <3>1, <3>6
    <3> QED BY <3>1, <3>3, <3>5, <3>7
  <2> QED BY <2>1, <2>2
<1> HIDE DEF from
<1>4. Recipe(c, from) \in Seq(GraphOp)
  BY <1>1, <1>2, <1>3, RecipeTyped
<1>5. selection' \subseteq NodeId
  <2>1. from \in Seq(NodeId)
    BY <1>2, <1>3
  <2>2. \A i \in 1..Results(c, from) : ResultId(c, from, i) \in NodeId
    BY <1>1, <1>3, <2>1, ResultsTyped
  <2> QED BY <1>1, <2>2
<1>6. HandsInv'
  BY <1>1, <1>5 DEF InterfaceInv, HandsInv
<1>7. DocumentStep
  BY <1>1, <1>4, ApplyOpsSteps DEF InterfaceInv
<1> QED BY <1>1, <1>6, <1>7, EventKeeps

(* A document that opens, at its head, with nothing to undo. *)
LEMMA OpensFits ==
  ASSUME NEW s \in Sessions, Opens(s) PROVE DocumentInv
<1>1. /\ chain \in Seq(Block) /\ pending \in Seq(GraphOp) /\ recovery \in Seq(GraphOp)
      /\ undo = << >> /\ redo = << >> /\ gesture = Still /\ graph = Restored(s) /\ graph # Refused
      /\ chain = s.chain /\ pending = s.pending
  BY SessionsAssumption DEF Opens
<1>2. graph = Base /\ GraphOk(Base)
  <2>1. graph = Base
    BY <1>1 DEF Base, Committed, Restored
  <2> QED BY <1>1, <2>1, ReplaysOk DEF Base, Committed
<1>3. GestureFits
  BY <1>1, <1>2 DEF GestureFits
<1>4. << >> \in Seq(Nat) /\ << >> \in Seq(Seq(GraphOp)) /\ DOMAIN << >> = {}
  OBVIOUS
<1>5. pending \o Again(<< >>) = pending
  BY <1>1, AgainNone, ConcatEmptySeq
<1>6. RedoFits(Committed, pending, redo)
  BY <1>1, <1>2, <1>4, <1>5 DEF RedoFits, Base
<1>7. UndoFits(undo, Len(pending))
  BY <1>1, <1>4 DEF UndoFits
<1> QED BY <1>1, <1>2, <1>3, <1>4, <1>6, <1>7 DEF DocumentInv

(* A session begins in good order. *)
LEMMA SessionOpens ==
  ASSUME NEW s \in Sessions, Opens(s) PROVE InterfaceInv
<1>1. DocumentInv
  BY OpensFits
<1>2. /\ view = Latest /\ viewGraph = Working /\ evalDirty = TRUE /\ sceneDirty = TRUE
      /\ phase = "begin" /\ selection = {} /\ pointer = "up" /\ canvas = None
      /\ evaluated = Shape(EmptyGraph) /\ before = None
      /\ drawn = [shape |-> Shape(EmptyGraph), selected |-> {}]
  BY SessionsAssumption DEF Opens
<1>3. OpenInv
  BY <1>1, <1>2 DEF OpenInv, Seen
<1>4. HandsInv
  BY <1>2 DEF HandsInv
<1>5. SceneInv
  <2>1. DOMAIN Shape(EmptyGraph).nodes = {}
    <3>1. Nodes(EmptyGraph) = {}
      BY DEF Nodes, EmptyGraph
    <3> QED BY <3>1, ShapeNodes
  <2> DEFINE e == Shape(EmptyGraph)
             x == {}
  <2> HIDE DEF e, x
  <2>2. drawn.shape = e /\ drawn = [shape |-> drawn.shape, selected |-> drawn.selected]
    <3>1. drawn = [shape |-> e, selected |-> x]
      BY <1>2 DEF e, x
    <3> QED BY <3>1
  <2> QED BY <1>2, <2>1, <2>2 DEF SceneInv, DrawnIsCurrent, e
<1>6. BeforeInv
  BY <1>2 DEF BeforeInv
<1> QED BY <1>3, <1>4, <1>5, <1>6 DEF InterfaceInv

(* A step of the window keeps its invariant. *)
LEMMA InterfaceNextKeeps ==
  ASSUME InterfaceInv, InterfaceNext PROVE InterfaceInv'
<1>1. ASSUME Hands PROVE InterfaceInv'
  <2>1. ASSUME NEW additive \in BOOLEAN, PressCanvas(Box(selection, additive)) PROVE InterfaceInv'
    BY <2>1, PressCanvasKeeps
  <2>2. CASE PressCanvas(Pan)
    BY <2>2, PressCanvasKeeps
  <2>3. ASSUME NEW hit \in SUBSET Nodes(Displayed), DragBox(hit) PROVE InterfaceInv'
    BY <2>3, DragBoxKeeps
  <2>4. CASE CancelBox \/ Escape \/ ClickCanvas
    BY <2>4, CancelBoxKeeps, EscapeKeeps, ClickCanvasKeeps
  <2>5. ASSUME NEW k \in Kind, ChooseComponent(k) PROVE InterfaceInv'
    BY <2>5, ChooseComponentKeeps
  <2>6. ASSUME NEW n \in NodeId, NEW shift \in BOOLEAN, PressNode(n, shift) PROVE InterfaceInv'
    BY <2>6, PressNodeKeeps
  <2>7. ASSUME NEW d \in {-1, 1}, DragNodes(d) PROVE InterfaceInv'
    BY <2>7, DragNodesKeeps
  <2>8. CASE ReleaseNode \/ ReleaseSpent \/ Delete
    BY <2>8, ReleaseNodeKeeps, ReleaseSpentKeeps, DeleteKeeps
  <2>9. ASSUME NEW n \in NodeId, NEW p \in Port, GrabInput(n, p) \/ DropWire(n, p) PROVE InterfaceInv'
    BY <2>9, GrabInputKeeps, DropWireKeeps
  <2>10. ASSUME NEW n \in NodeId, GrabOutput(n) PROVE InterfaceInv'
    BY <2>10, GrabOutputKeeps
  <2> QED BY <1>1, <2>1, <2>2, <2>3, <2>4, <2>5, <2>6, <2>7, <2>8, <2>9, <2>10 DEF Hands
<1>2. CASE Begin \/ NoEvent \/ LeaveValue \/ Undo \/ Redo \/ Rebuild \/ Viewport \/ Elsewhere
  BY <1>2, BeginKeeps, NoEventKeeps, LeaveValueKeeps, UndoRedoKeeps, RebuildKeeps, ViewportKeeps,
     ElsewhereKeeps
<1>3. ASSUME NEW n \in NodeId, NEW additive \in BOOLEAN, SelectNode(n, additive) PROVE InterfaceInv'
  BY <1>3, SelectNodeKeeps
<1>4. ASSUME NEW n \in NodeId, SetPreview(n) PROVE InterfaceInv'
  BY <1>4, SetPreviewKeeps
<1>5. ASSUME NEW n \in NodeId, NEW v \in Value, DragValue(n, v) PROVE InterfaceInv'
  BY <1>5, DragValueKeeps
<1>6. ASSUME NEW p \in Port, NEW v \in Value, EditDefault(p, v) PROVE InterfaceInv'
  BY <1>6, EditDefaultKeeps
<1>7. ASSUME NEW i \in 0..MaxBlocks, ViewBlock(i) PROVE InterfaceInv'
  BY <1>7, ViewBlockKeeps
<1>8. ASSUME NEW c \in Commands, Command(c) PROVE InterfaceInv'
  BY <1>8, CommandKeeps
<1> QED BY <1>1, <1>2, <1>3, <1>4, <1>5, <1>6, <1>7, <1>8 DEF InterfaceNext

(* And so does a step that is none of the window's. *)
LEMMA InterfaceStays ==
  ASSUME InterfaceInv, UNCHANGED interfaceVars PROVE InterfaceInv'
<1>1. UNCHANGED <<document, phase, selection, pointer, canvas, wire, evaluated, drawn, before>>
  BY DEF interfaceVars, interface, hands, shown
<1>2. OpenInv' /\ BeforeInv'
  BY <1>1, NothingSteps, NothingNoted DEF InterfaceInv, DocumentStep, document, ledger, history
<1>3. HandsInv'
  BY <1>1 DEF InterfaceInv, HandsInv
<1>4. SceneInv'
  <2>1. Displayed' = Displayed /\ evalDirty' = evalDirty /\ sceneDirty' = sceneDirty
    BY <1>1 DEF document, viewing, screen, Displayed, Editable
  <2> QED BY <1>1, <2>1 DEF InterfaceInv, SceneInv, DrawnIsCurrent
<1> QED BY <1>2, <1>3, <1>4 DEF InterfaceInv

-----------------------------------------------------------------------------
(* The listing of the model panel.                                          *)

(* The greater of two numbers. *)
LEMMA MaxOfTwo ==
  ASSUME NEW a \in Int, NEW b \in Int
  PROVE  /\ Max({a, b}) \in {a, b} /\ Max({a, b}) >= a /\ Max({a, b}) >= b
<1>1. \E x \in {a, b} : \A y \in {a, b} : x >= y
  OBVIOUS
<1> QED BY <1>1 DEF Max

(* A feature feeds the ones that have it as a source. *)
LEMMA ConsumersFed ==
  ASSUME NEW g, GraphOk(g)
  PROVE  /\ \A n \in Nodes(g) : IsFiniteSet(Sources(g, n)) /\ Sources(g, n) \subseteq Nodes(g)
         /\ \A m \in Nodes(g) : Consumers(g, m) \subseteq Nodes(g)
         /\ \A m, n \in Nodes(g) : n \in Consumers(g, m) <=> m \in Sources(g, n)
<1>1. NoLooseWires(g) /\ IsFiniteSet(Nodes(g))
  BY DEF GraphOk, WellFormed
<1>2. ASSUME NEW n \in Nodes(g) PROVE IsFiniteSet(Sources(g, n)) /\ Sources(g, n) \subseteq Nodes(g)
  <2>1. Sources(g, n) \subseteq Nodes(g)
    BY <1>1 DEF Sources, Incoming, NoLooseWires
  <2> QED BY <1>1, <2>1, FS_Subset
<1>3. ASSUME NEW m \in Nodes(g) PROVE Consumers(g, m) \subseteq Nodes(g)
  BY <1>1 DEF Consumers, NoLooseWires
<1>4. ASSUME NEW m \in Nodes(g), NEW n \in Nodes(g)
      PROVE  n \in Consumers(g, m) <=> m \in Sources(g, n)
  BY DEF Consumers, Sources, Incoming
<1> QED BY <1>2, <1>3, <1>4

(* The features in order so far. *)
Ranked(t) == {t.order[i] : i \in 1..Len(t.order)}

(* They come after their sources; the ready ones are those whose sources are all
   there, and the others wait for the rest of theirs.  A feature is one deeper
   than the deepest of its sources. *)
OrderInv(g, t) ==
  /\ t.order \in Seq(Nodes(g))
  /\ \A i, j \in 1..Len(t.order) : t.order[i] = t.order[j] => i = j
  /\ \A i \in 1..Len(t.order) : Sources(g, t.order[i]) \subseteq {t.order[j] : j \in 1..i - 1}
  /\ \A n \in Nodes(g) : t.waits[n] = Cardinality(Sources(g, n) \ Ranked(t))
  /\ t.ready = {n \in Nodes(g) \ Ranked(t) : Sources(g, n) \subseteq Ranked(t)}

DepthInv(g, t) ==
  /\ \A n \in Nodes(g) : t.depth[n] \in Nat
  /\ \A n \in Nodes(g) : \A m \in Sources(g, n) \cap Ranked(t) : t.depth[n] >= t.depth[m] + 1
  /\ \A n \in Nodes(g) :
       t.depth[n] = 0 \/ \E m \in Sources(g, n) \cap Ranked(t) : t.depth[n] = t.depth[m] + 1
  /\ \A n \in Nodes(g) : t.depth[n] <= Len(t.order)
  /\ \A i \in 1..Len(t.order) : t.depth[t.order[i]] <= i - 1

(* The first features are those without sources. *)
LEMMA NoneOrderedFits ==
  ASSUME NEW g, GraphOk(g)
  PROVE  LET t == NoneOrdered(g) IN OrderInv(g, t) /\ DepthInv(g, t) /\ t.order = << >>
<1> DEFINE t == NoneOrdered(g)
           N == Nodes(g)
<1>1. /\ t.order = << >> /\ t.depth = [n \in N |-> 0] /\ t.waits = Remaining(g)
      /\ t.ready = {n \in N : Remaining(g)[n] = 0}
  BY DEF NoneOrdered
<1> HIDE DEF t
<1>2. Ranked(t) = {}
  BY <1>1 DEF Ranked
<1>3. \A n \in N : Remaining(g)[n] = Cardinality(Sources(g, n))
  BY DEF Remaining
<1>4. \A n \in N : IsFiniteSet(Sources(g, n))
  BY ConsumersFed
<1>5. \A n \in N : Sources(g, n) \ Ranked(t) = Sources(g, n)
  BY <1>2
<1>6. \A n \in N : t.waits[n] = Cardinality(Sources(g, n) \ Ranked(t))
  BY <1>1, <1>3, <1>5
<1>7. t.ready = {n \in N \ Ranked(t) : Sources(g, n) \subseteq Ranked(t)}
  <2>1. \A n \in N : Cardinality(Sources(g, n)) = 0 <=> Sources(g, n) = {}
    BY <1>4, FS_EmptySet
  <2> QED BY <1>1, <1>2, <1>3, <2>1
<1>8. Len(t.order) = 0 /\ t.order \in Seq(N)
  BY <1>1
<1>9. OrderInv(g, t)
  BY <1>6, <1>7, <1>8 DEF OrderInv
<1>10. DepthInv(g, t)
  BY <1>1, <1>2, <1>8 DEF DepthInv
<1> QED BY <1>1, <1>9, <1>10 DEF t

(* The least of the ready ones comes next. *)
LEMMA LeastOrderedFits ==
  ASSUME NEW g, GraphOk(g), NEW t, OrderInv(g, t), DepthInv(g, t), t.ready # {}
  PROVE  LET u == LeastOrdered(g, t)
         IN OrderInv(g, u) /\ DepthInv(g, u) /\ Len(u.order) = Len(t.order) + 1
<1> DEFINE N == Nodes(g)
           D == Ranked(t)
           id == Min(t.ready)
           fed == Consumers(g, id)
           left == [n \in N |-> IF n \in fed THEN t.waits[n] - 1 ELSE t.waits[n]]
           deep == [n \in N |-> IF n \in fed THEN Max({t.depth[n], t.depth[id] + 1}) ELSE t.depth[n]]
           u == LeastOrdered(g, t)
           k == Len(t.order)
           S(n) == Sources(g, n)
<1>1. /\ u.order = Append(t.order, id) /\ u.depth = deep /\ u.waits = left
      /\ u.ready = (t.ready \ {id}) \cup {n \in fed : left[n] = 0}
  BY DEF LeastOrdered
<1>2. id \in t.ready
  <2>1. t.ready \subseteq N
    BY DEF OrderInv
  <2>2. N \subseteq Int /\ IsFiniteSet(N)
    BY InterfaceAssumption DEF GraphOk, GraphType
  <2>3. IsFiniteSet(t.ready) /\ t.ready \subseteq Int
    BY <2>1, <2>2, FS_Subset
  <2> QED BY <2>3, MinIsLeast
<1>3. id \in N /\ id \notin D /\ S(id) \subseteq D
  BY <1>2 DEF OrderInv
<1>4. /\ \A n \in N : IsFiniteSet(S(n)) /\ S(n) \subseteq N
      /\ fed \subseteq N /\ \A n \in N : n \in fed <=> id \in S(n)
  BY <1>3, ConsumersFed
<1> HIDE DEF u, id, fed, S, D
<1>5. /\ t.order \in Seq(N) /\ k \in Nat /\ Len(u.order) = k + 1 /\ u.order[k + 1] = id
      /\ u.order \in Seq(N) /\ \A i \in 1..k : u.order[i] = t.order[i]
  BY <1>1, <1>3 DEF OrderInv
<1>6. D = {t.order[i] : i \in 1..k} /\ Ranked(u) = D \cup {id}
  <2>1. D = {t.order[i] : i \in 1..k}
    BY DEF D, Ranked
  <2>2. 1..k + 1 = 1..k \cup {k + 1}
    BY <1>5
  <2>3. Ranked(u) = {u.order[i] : i \in 1..k + 1}
    BY <1>5 DEF Ranked
  <2> QED BY <1>5, <2>1, <2>2, <2>3
<1>7. D \subseteq N /\ \A n \in D : S(n) \subseteq D
  <2>1. D \subseteq N
    BY <1>5, <1>6
  <2>2. ASSUME NEW i \in 1..k PROVE S(t.order[i]) \subseteq D
    <3>1. S(t.order[i]) \subseteq {t.order[j] : j \in 1..i - 1}
      BY DEF OrderInv, S
    <3>2. \A j \in 1..i - 1 : j \in 1..k
      BY <1>5
    <3> QED BY <1>6, <3>1, <3>2
  <2> QED BY <1>6, <2>1, <2>2
<1>8. fed \cap (D \cup {id}) = {}
  BY <1>3, <1>4, <1>7
<1>9. \A n \in N : t.waits[n] = Cardinality(S(n) \ D)
  BY DEF OrderInv, S, D
<1>10. ASSUME NEW n \in N PROVE left[n] = Cardinality(S(n) \ Ranked(u))
  <2> DEFINE R == S(n) \ D
  <2>1. IsFiniteSet(R)
    BY <1>4, FS_Subset
  <2>2. S(n) \ Ranked(u) = R \ {id}
    BY <1>6
  <2>3. id \in R <=> n \in fed
    BY <1>3, <1>4
  <2> HIDE DEF R
  <2>4. Cardinality(R \ {id}) = IF id \in R THEN Cardinality(R) - 1 ELSE Cardinality(R)
    BY <2>1, FS_RemoveElement
  <2> QED BY <1>9, <2>2, <2>3, <2>4 DEF R
<1>11. u.ready = {n \in N \ Ranked(u) : S(n) \subseteq Ranked(u)}
  <2>1. t.ready = {n \in N \ D : S(n) \subseteq D}
    BY DEF OrderInv, S, D
  <2>2. ASSUME NEW n \in N PROVE left[n] = 0 <=> S(n) \subseteq Ranked(u)
    <3>1. IsFiniteSet(S(n) \ Ranked(u))
      BY <1>4, FS_Subset
    <3>2. Cardinality(S(n) \ Ranked(u)) = 0 <=> S(n) \ Ranked(u) = {}
      BY <3>1, FS_EmptySet
    <3> QED BY <1>10, <3>2
  <2> DEFINE Z == {n \in fed : left[n] = 0}
  <2>3. \A n \in N : n \in Z <=> n \in fed /\ S(n) \subseteq Ranked(u)
    BY <2>2
  <2>4. Z \subseteq N
    BY <1>4
  <2>5. u.ready = (t.ready \ {id}) \cup Z
    BY <1>1
  <2> HIDE DEF Z, left
  <2>6. ASSUME NEW n \in N
        PROVE  n \in u.ready <=> n \notin Ranked(u) /\ S(n) \subseteq Ranked(u)
    <3>1. CASE n \in fed
      <4>1. n \notin Ranked(u) /\ n \notin t.ready
        BY <1>3, <1>4, <1>6, <1>8, <2>1, <3>1
      <4> QED BY <2>3, <2>5, <3>1, <4>1
    <3>2. CASE n \notin fed
      <4>1. n \notin Z /\ id \notin S(n)
        BY <1>4, <2>3, <3>2
      <4> QED BY <1>6, <2>1, <2>5, <4>1
    <3> QED BY <3>1, <3>2
  <2>7. u.ready \subseteq N
    BY <2>1, <2>4, <2>5
  <2> QED BY <2>6, <2>7
<1>12. \A i, j \in 1..k + 1 : u.order[i] = u.order[j] => i = j
  <2>1. \A i, j \in 1..k : t.order[i] = t.order[j] => i = j
    BY DEF OrderInv
  <2>2. \A i \in 1..k : t.order[i] # id
    BY <1>3, <1>6
  <2>3. \A i \in 1..k + 1 : i \in 1..k \/ i = k + 1
    BY <1>5
  <2> QED BY <1>5, <2>1, <2>2, <2>3
<1>13. \A i \in 1..k + 1 : S(u.order[i]) \subseteq {u.order[j] : j \in 1..i - 1}
  <2> SUFFICES ASSUME NEW i \in 1..k + 1 PROVE S(u.order[i]) \subseteq {u.order[j] : j \in 1..i - 1}
    OBVIOUS
  <2>1. {u.order[j] : j \in 1..i - 1} = {t.order[j] : j \in 1..i - 1}
    <3>1. \A j \in 1..i - 1 : j \in 1..k
      BY <1>5
    <3> QED BY <1>5, <3>1
  <2>2. CASE i = k + 1
    BY <1>3, <1>5, <1>6, <2>1, <2>2
  <2>3. CASE i # k + 1
    <3>1. i \in 1..k
      BY <1>5, <2>3
    <3>2. S(t.order[i]) \subseteq {t.order[j] : j \in 1..i - 1}
      BY <3>1 DEF OrderInv, S
    <3> QED BY <1>5, <2>1, <3>1, <3>2
  <2> QED BY <2>2, <2>3
<1>14. OrderInv(g, u)
  BY <1>1, <1>5, <1>10, <1>11, <1>12, <1>13 DEF OrderInv, S
<1>15. /\ \A n \in N : t.depth[n] \in Nat /\ t.depth[n] <= k
       /\ \A n \in N : \A m \in S(n) \cap D : t.depth[n] >= t.depth[m] + 1
       /\ \A n \in N : t.depth[n] = 0 \/ \E m \in S(n) \cap D : t.depth[n] = t.depth[m] + 1
       /\ \A i \in 1..k : t.depth[t.order[i]] <= i - 1
  BY DEF DepthInv, S, D
<1>16. ASSUME NEW n \in N
       PROVE  /\ deep[n] \in Nat /\ deep[n] >= t.depth[n]
              /\ n \notin fed => deep[n] = t.depth[n]
              /\ n \in fed => /\ deep[n] >= t.depth[id] + 1
                              /\ deep[n] = t.depth[n] \/ deep[n] = t.depth[id] + 1
  <2>1. t.depth[n] \in Nat /\ t.depth[id] + 1 \in Nat
    BY <1>3, <1>15
  <2> DEFINE a == t.depth[n]
             b == t.depth[id] + 1
  <2>2. deep[n] = IF n \in fed THEN Max({a, b}) ELSE a
    OBVIOUS
  <2> HIDE DEF a, b, deep
  <2>3. a \in Int /\ b \in Int
    BY <2>1 DEF a, b
  <2>4. Max({a, b}) \in {a, b} /\ Max({a, b}) >= a /\ Max({a, b}) >= b
    BY <2>3, MaxOfTwo
  <2>5. a \in Nat /\ b \in Nat
    BY <2>1 DEF a, b
  <2>6. n \in fed => deep[n] \in {a, b} /\ deep[n] >= a /\ deep[n] >= b
    BY <2>2, <2>4
  <2>7. n \notin fed => deep[n] = a
    BY <2>2
  <2> QED BY <2>5, <2>6, <2>7 DEF a, b
<1> HIDE DEF deep
<1>17. \A n \in D \cup {id} : deep[n] = t.depth[n]
  BY <1>3, <1>7, <1>8, <1>16
<1>18. \A n \in N : \A m \in S(n) \cap Ranked(u) : deep[n] >= deep[m] + 1
  <2> SUFFICES ASSUME NEW n \in N, NEW m \in S(n) \cap Ranked(u) PROVE deep[n] >= deep[m] + 1
    OBVIOUS
  <2>1. deep[m] = t.depth[m] /\ m \in N /\ t.depth[m] \in Nat /\ deep[n] \in Nat
        /\ t.depth[n] \in Nat /\ deep[n] >= t.depth[n]
    BY <1>3, <1>6, <1>7, <1>15, <1>16, <1>17
  <2>2. CASE m = id
    <3>1. n \in fed
      BY <1>4, <2>2
    <3> QED BY <1>16, <2>1, <2>2, <3>1
  <2>3. CASE m # id
    <3>1. t.depth[n] >= t.depth[m] + 1
      BY <1>6, <1>15, <2>3
    <3> QED BY <2>1, <3>1
  <2> QED BY <2>2, <2>3
<1>19. \A n \in N : deep[n] = 0 \/ \E m \in S(n) \cap Ranked(u) : deep[n] = deep[m] + 1
  <2> SUFFICES ASSUME NEW n \in N
               PROVE  deep[n] = 0 \/ \E m \in S(n) \cap Ranked(u) : deep[n] = deep[m] + 1
    OBVIOUS
  <2>1. CASE deep[n] = t.depth[n]
    <3>1. deep[n] = 0 \/ \E m \in S(n) \cap D : deep[n] = t.depth[m] + 1
      BY <1>15, <2>1
    <3>2. \A m \in D : deep[m] = t.depth[m] /\ m \in Ranked(u)
      BY <1>6, <1>17
    <3> QED BY <3>1, <3>2
  <2>2. CASE deep[n] # t.depth[n]
    <3>1. n \in fed /\ deep[n] = t.depth[id] + 1
      BY <1>16, <2>2
    <3>2. id \in S(n) \cap Ranked(u) /\ deep[id] = t.depth[id]
      BY <1>4, <1>6, <1>17, <3>1
    <3> QED BY <3>1, <3>2
  <2> QED BY <2>1, <2>2
<1>20. \A n \in N : deep[n] <= k + 1
  <2> SUFFICES ASSUME NEW n \in N PROVE deep[n] <= k + 1
    OBVIOUS
  <2>1. t.depth[n] \in Nat /\ t.depth[n] <= k /\ t.depth[id] \in Nat /\ t.depth[id] <= k
    BY <1>3, <1>15
  <2>2. deep[n] = t.depth[n] \/ deep[n] = t.depth[id] + 1
    BY <1>16
  <2> QED BY <1>5, <2>1, <2>2
<1>21. \A i \in 1..k + 1 : deep[u.order[i]] <= i - 1
  <2> SUFFICES ASSUME NEW i \in 1..k + 1 PROVE deep[u.order[i]] <= i - 1
    OBVIOUS
  <2>1. CASE i = k + 1
    BY <1>3, <1>5, <1>15, <1>17, <2>1
  <2>2. CASE i # k + 1
    <3>1. i \in 1..k
      BY <1>5, <2>2
    <3>2. u.order[i] = t.order[i] /\ t.order[i] \in D
      BY <1>5, <1>6, <3>1
    <3> QED BY <1>15, <1>17, <3>1, <3>2
  <2> QED BY <2>1, <2>2
<1>22. \A n \in N : deep[n] \in Nat
  BY <1>16
<1>23. DepthInv(g, u)
  BY <1>1, <1>5, <1>18, <1>19, <1>20, <1>21, <1>22 DEF DepthInv, S
<1> QED BY <1>5, <1>14, <1>23 DEF u

(* One round after the other, while a feature is ready. *)
OrderedOn(g, t) == IF t.ready = {} THEN t ELSE LeastOrdered(g, t)

OrderRuns(f, g, n) ==
  \A i \in 0..n : f[i] = IF i = 0 THEN NoneOrdered(g) ELSE OrderedOn(g, f[i - 1])

(* The rounds can be made in turn. *)
LEMMA OrderExists ==
  ASSUME NEW g, NEW n \in Nat
  PROVE  \E f : f = [i \in 0..n |-> IF i = 0 THEN NoneOrdered(g) ELSE OrderedOn(g, f[i - 1])]
<1> DEFINE S == {k \in Nat : \E f : OrderRuns(f, g, k)}
           first == NoneOrdered(g)
<1>1. 0 \in S
  <2>1. OrderRuns([i \in 0..0 |-> first], g, 0)
    BY DEF OrderRuns
  <2> QED BY <2>1
<1>2. ASSUME NEW k \in Nat, k \in S PROVE k + 1 \in S
  <2>1. PICK f : OrderRuns(f, g, k)
    BY <1>2
  <2> DEFINE h == [i \in 0..k + 1 |-> IF i = k + 1 THEN OrderedOn(g, f[k]) ELSE f[i]]
  <2>2. \A i \in 0..k : h[i] = f[i]
    OBVIOUS
  <2>3. h[k + 1] = OrderedOn(g, h[k])
    <3>1. h[k] = f[k] /\ h[k + 1] = OrderedOn(g, f[k])
      BY <2>2
    <3> QED BY <3>1
  <2>4. \A i \in 0..k : f[i] = IF i = 0 THEN first ELSE OrderedOn(g, f[i - 1])
    BY <2>1 DEF OrderRuns
  <2> HIDE DEF h, first
  <2>5. \A i \in 0..k + 1 : h[i] = IF i = 0 THEN first ELSE OrderedOn(g, h[i - 1])
    <3> SUFFICES ASSUME NEW i \in 0..k + 1
                 PROVE  h[i] = IF i = 0 THEN first ELSE OrderedOn(g, h[i - 1])
      OBVIOUS
    <3>1. CASE i = k + 1
      BY <2>3, <3>1
    <3>2. CASE i # k + 1
      <4>1. i \in 0..k /\ (i # 0 => i - 1 \in 0..k)
        BY <3>2
      <4> QED BY <2>2, <2>4, <4>1
    <3> QED BY <3>1, <3>2
  <2>6. OrderRuns(h, g, k + 1)
    BY <2>5 DEF OrderRuns, first
  <2> QED BY <2>6
<1> HIDE DEF S
<1>3. Nat \subseteq S
  BY <1>1, <1>2, Counting
<1>4. PICK f : OrderRuns(f, g, n)
  BY <1>3 DEF S
<1> DEFINE h == [i \in 0..n |-> f[i]]
<1>5. \A i \in 0..n : f[i] = IF i = 0 THEN first ELSE OrderedOn(g, h[i - 1])
  <2> SUFFICES ASSUME NEW i \in 0..n PROVE f[i] = IF i = 0 THEN first ELSE OrderedOn(g, h[i - 1])
    OBVIOUS
  <2>1. CASE i = 0
    BY <1>4, <2>1 DEF OrderRuns
  <2>2. CASE i # 0
    <3>1. i - 1 \in 0..n
      BY <2>2
    <3>2. h[i - 1] = f[i - 1]
      BY <3>1
    <3> QED BY <1>4, <2>2, <3>2 DEF OrderRuns
  <2> QED BY <2>1, <2>2
<1>6. h = [i \in 0..n |-> IF i = 0 THEN first ELSE OrderedOn(g, h[i - 1])]
  BY <1>5
<1> QED BY <1>6

(* A round for every feature leaves none ready. *)
LEMMA AllOrderedFits ==
  ASSUME NEW g, GraphOk(g)
  PROVE  LET t == AllOrdered(g)
         IN  /\ OrderInv(g, t) /\ DepthInv(g, t)
             /\ Len(t.order) = Cardinality(Nodes(g)) \/ t.ready = {}
<1> DEFINE n == Cardinality(Nodes(g))
           first == NoneOrdered(g)
           F == CHOOSE f : f = [i \in 0..n |-> IF i = 0 THEN first ELSE OrderedOn(g, f[i - 1])]
<1>1. n \in Nat
  BY FS_CardinalityType DEF GraphOk
<1>2. AllOrdered(g) = F[n]
  BY DEF AllOrdered, OrderedOn
<1>3. \E f : f = [i \in 0..n |-> IF i = 0 THEN first ELSE OrderedOn(g, f[i - 1])]
  BY <1>1, OrderExists
<1>4. OrderInv(g, first) /\ DepthInv(g, first) /\ first.order = << >>
  BY NoneOrderedFits
<1> HIDE DEF first
<1>5. F = [i \in 0..n |-> IF i = 0 THEN first ELSE OrderedOn(g, F[i - 1])]
  BY <1>3
<1> HIDE DEF F
<1>6. \A i \in 0..n : F[i] = IF i = 0 THEN first ELSE OrderedOn(g, F[i - 1])
  BY <1>5
<1> HIDE DEF n
<1> DEFINE Good(i) == /\ OrderInv(g, F[i]) /\ DepthInv(g, F[i])
                      /\ Len(F[i].order) = i \/ F[i].ready = {}
           S == {i \in Nat : i <= n => Good(i)}
<1>7. 0 \in S
  BY <1>1, <1>4, <1>6
<1>8. ASSUME NEW i \in Nat, i \in S PROVE i + 1 \in S
  <2> SUFFICES ASSUME i + 1 <= n PROVE Good(i + 1)
    OBVIOUS
  <2>1. Good(i)
    BY <1>1, <1>8
  <2>2. i + 1 \in 0..n /\ i + 1 # 0 /\ i + 1 - 1 = i
    BY <1>1
  <2>3. F[i + 1] = OrderedOn(g, F[i])
    BY <1>6, <2>2
  <2> DEFINE t == F[i]
             u == F[i + 1]
  <2>4. OrderInv(g, t) /\ DepthInv(g, t) /\ (Len(t.order) = i \/ t.ready = {})
    BY <2>1
  <2>5. u = OrderedOn(g, t)
    BY <2>3
  <2> HIDE DEF t, u, Good
  <2>6. CASE t.ready = {}
    BY <2>4, <2>5, <2>6 DEF OrderedOn, Good, u
  <2>7. CASE t.ready # {}
    <3>1. u = LeastOrdered(g, t) /\ Len(t.order) = i
      BY <2>4, <2>5, <2>7 DEF OrderedOn
    <3>2. OrderInv(g, u) /\ DepthInv(g, u) /\ Len(u.order) = i + 1
      BY <2>4, <2>7, <3>1, LeastOrderedFits
    <3> QED BY <3>2 DEF Good, u
  <2> QED BY <2>6, <2>7
<1> HIDE DEF S
<1>9. Nat \subseteq S
  BY <1>7, <1>8, Counting
<1> HIDE DEF Good
<1>10. Good(n)
  BY <1>1, <1>9 DEF S
<1> QED BY <1>2, <1>10 DEF Good, n

(* No feature is left over: each of those would have a source left over, and a
   wire never closes a cycle. *)
LEMMA AllRanked ==
  ASSUME NEW g, GraphOk(g), NEW t, OrderInv(g, t),
         Len(t.order) = Cardinality(Nodes(g)) \/ t.ready = {}
  PROVE  Ranked(t) = Nodes(g) /\ Len(t.order) = Cardinality(Nodes(g))
<1> DEFINE N == Nodes(g)
           D == Ranked(t)
           k == Len(t.order)
<1>1. /\ t.order \in Seq(N) /\ k \in Nat
      /\ \A i, j \in 1..k : t.order[i] = t.order[j] => i = j
      /\ t.ready = {n \in N \ D : Sources(g, n) \subseteq D}
  BY DEF OrderInv
<1>2. D = {t.order[i] : i \in 1..k} /\ D \subseteq N
  <2>1. D = {t.order[i] : i \in 1..k}
    BY DEF Ranked
  <2>2. \A i \in 1..k : t.order[i] \in N
    BY <1>1
  <2> HIDE DEF D
  <2> QED BY <2>1, <2>2
<1> HIDE DEF D
<1>3. IsFiniteSet(D) /\ Cardinality(D) = k
  <2> DEFINE f == [i \in 1..k |-> t.order[i]]
  <2>1. f \in Bijection(1..k, D)
    BY <1>1, <1>2 DEF Bijection, Injection, Surjection, IsInjective
  <2>2. IsFiniteSet(1..k) /\ Cardinality(1..k) = k
    <3> HIDE DEF k
    <3>1. 1 \in Int /\ k \in Int /\ k \in Nat
      BY <1>1
    <3>2. IsFiniteSet(1..k) /\ Cardinality(1..k) = IF 1 > k THEN 0 ELSE k - 1 + 1
      BY <3>1, FS_Interval
    <3> QED BY <3>1, <3>2
  <2>3. ExistsBijection(1..k, D)
    BY <2>1 DEF ExistsBijection
  <2> QED BY <2>2, <2>3, FS_Bijection
<1>4. IsFiniteSet(N)
  BY DEF GraphOk
<1>5. D = N
  <2>1. CASE k = Cardinality(N)
    BY <1>2, <1>3, <1>4, <2>1, FS_Subset
  <2>2. CASE t.ready = {}
    <3> DEFINE L == N \ D
    <3>1. ASSUME NEW n \in L PROVE \E e \in g.edges : e.to[1] = n /\ e.from[1] \in L
      <4>1. PICK m \in Sources(g, n) : m \notin D
        BY <1>1, <2>2
      <4>2. PICK e \in g.edges : e.to[1] = n /\ e.from[1] = m
        BY <4>1 DEF Sources, Incoming
      <4>3. m \in N
        BY <4>2 DEF GraphOk, WellFormed, NoLooseWires
      <4> QED BY <4>1, <4>2, <4>3
    <3>2. L \in SUBSET N
      OBVIOUS
    <3>3. Acyclic(g)
      BY DEF GraphOk, WellFormed
    <3> HIDE DEF L
    <3>4. L = {}
      BY <3>1, <3>2, <3>3 DEF Acyclic
    <3> QED BY <1>2, <3>4 DEF L
  <2> QED BY <2>1, <2>2
<1> QED BY <1>3, <1>5 DEF D

(* The listing keeps the order made, which has every feature, and the depths. *)
LEMMA TopologyGives ==
  ASSUME NEW g, GraphOk(g)
  PROVE  \E t : /\ OrderInv(g, t) /\ DepthInv(g, t)
                /\ Ranked(t) = Nodes(g) /\ Len(t.order) = Cardinality(Nodes(g))
                /\ Topology(g).order = t.order /\ Topology(g).depth = t.depth
<1> DEFINE t == AllOrdered(g)
           over == Nodes(g) \ {t.order[i] : i \in DOMAIN t.order}
<1>1. Topology(g).order = t.order \o Sorted(over) /\ Topology(g).depth = t.depth
  BY DEF Topology
<1>2. /\ OrderInv(g, t) /\ DepthInv(g, t)
      /\ Len(t.order) = Cardinality(Nodes(g)) \/ t.ready = {}
  BY AllOrderedFits
<1> HIDE DEF t
<1>3. Ranked(t) = Nodes(g) /\ Len(t.order) = Cardinality(Nodes(g))
  BY <1>2, AllRanked
<1>4. t.order \in Seq(Nodes(g)) /\ DOMAIN t.order = 1..Len(t.order)
  BY <1>2 DEF OrderInv
<1>5. over = {}
  BY <1>3, <1>4 DEF Ranked
<1> HIDE DEF over
<1>6. Sorted(over) = << >>
  <2>1. Cardinality(over) = 0
    BY <1>5, FS_EmptySet
  <2> QED BY <2>1 DEF Sorted
<1>7. Topology(g).order = t.order
  BY <1>1, <1>4, <1>6
<1> QED BY <1>1, <1>2, <1>3, <1>7

(* A way to a feature is no longer than the feature is deep. *)
LEMMA WaysAreShorter ==
  ASSUME NEW g, GraphOk(g), NEW t, DepthInv(g, t), Ranked(t) = Nodes(g),
         NEW k \in Nat, NEW path \in [0..k -> Nodes(g)],
         \A i \in 1..k : path[i - 1] \in Sources(g, path[i])
  PROVE  t.depth[path[k]] >= k
<1> DEFINE S == {i \in Nat : i <= k => t.depth[path[i]] >= i}
<1>1. /\ \A n \in Nodes(g) : t.depth[n] \in Nat
      /\ \A n \in Nodes(g) : \A m \in Sources(g, n) \cap Nodes(g) : t.depth[n] >= t.depth[m] + 1
  BY DEF DepthInv
<1>2. 0 \in S
  <2>1. path[0] \in Nodes(g)
    OBVIOUS
  <2> QED BY <1>1, <2>1
<1>3. ASSUME NEW i \in Nat, i \in S PROVE i + 1 \in S
  <2> SUFFICES ASSUME i + 1 <= k PROVE t.depth[path[i + 1]] >= i + 1
    OBVIOUS
  <2>1. i \in 0..k /\ i + 1 \in 0..k /\ i + 1 \in 1..k /\ i + 1 - 1 = i
    OBVIOUS
  <2>2. path[i] \in Nodes(g) /\ path[i + 1] \in Nodes(g) /\ path[i] \in Sources(g, path[i + 1])
    BY <2>1
  <2>3. t.depth[path[i + 1]] >= t.depth[path[i]] + 1 /\ t.depth[path[i]] >= i
    BY <1>1, <1>3, <2>1, <2>2
  <2> QED BY <1>1, <2>2, <2>3
<1> HIDE DEF S
<1>4. Nat \subseteq S
  BY <1>2, <1>3, Counting
<1> QED BY <1>4 DEF S

(* There is a way to it that is as long. *)
LEMMA DeepWayExists ==
  ASSUME NEW g, GraphOk(g), NEW t, DepthInv(g, t), NEW n \in Nodes(g)
  PROVE  \E path \in [0..t.depth[n] -> Nodes(g)] :
           path[t.depth[n]] = n /\ \A i \in 1..t.depth[n] : path[i - 1] \in Sources(g, path[i])
<1> DEFINE Way(k, m, path) ==
             /\ path \in [0..k -> Nodes(g)] /\ path[k] = m
             /\ \A i \in 1..k : path[i - 1] \in Sources(g, path[i])
           S == {k \in Nat : \A m \in Nodes(g) : t.depth[m] = k => \E path : Way(k, m, path)}
<1>1. 0 \in S
  <2> SUFFICES ASSUME NEW m \in Nodes(g) PROVE \E path : Way(0, m, path)
    OBVIOUS
  <2>1. Way(0, m, [i \in 0..0 |-> m])
    OBVIOUS
  <2> QED BY <2>1
<1>2. ASSUME NEW k \in Nat, k \in S PROVE k + 1 \in S
  <2> SUFFICES ASSUME NEW m \in Nodes(g), t.depth[m] = k + 1 PROVE \E path : Way(k + 1, m, path)
    OBVIOUS
  <2>1. PICK s \in Sources(g, m) \cap Ranked(t) : t.depth[m] = t.depth[s] + 1
    BY DEF DepthInv
  <2>2. s \in Nodes(g)
    BY <2>1, ConsumersFed
  <2>3. t.depth[s] = k
    <3>1. t.depth[s] \in Nat
      BY <2>2 DEF DepthInv
    <3> QED BY <2>1, <3>1
  <2>4. PICK path : Way(k, s, path)
    BY <1>2, <2>2, <2>3
  <2> DEFINE on == [i \in 0..k + 1 |-> IF i = k + 1 THEN m ELSE path[i]]
  <2>5. \A i \in 0..k : on[i] = path[i] /\ path[i] \in Nodes(g)
    BY <2>4
  <2>6. on[k + 1] = m /\ on \in [0..k + 1 -> Nodes(g)]
    BY <2>4
  <2> HIDE DEF on
  <2>7. \A i \in 1..k + 1 : on[i - 1] \in Sources(g, on[i])
    <3> SUFFICES ASSUME NEW i \in 1..k + 1 PROVE on[i - 1] \in Sources(g, on[i])
      OBVIOUS
    <3>1. CASE i = k + 1
      BY <2>1, <2>4, <2>5, <2>6, <3>1
    <3>2. CASE i # k + 1
      <4>1. i \in 1..k /\ i \in 0..k /\ i - 1 \in 0..k
        BY <3>2
      <4> QED BY <2>4, <2>5, <4>1
    <3> QED BY <3>1, <3>2
  <2>8. Way(k + 1, m, on)
    BY <2>6, <2>7
  <2> QED BY <2>8
<1> HIDE DEF S
<1>3. Nat \subseteq S
  BY <1>1, <1>2, Counting
<1>4. t.depth[n] \in Nat
  BY DEF DepthInv
<1> HIDE DEF Way
<1>5. \E path : Way(t.depth[n], n, path)
  BY <1>3, <1>4 DEF S
<1> QED BY <1>5 DEF Way

(* A feature is as deep as the longest way to it. *)
LEMMA DepthIsLongest ==
  ASSUME NEW g, GraphOk(g), NEW t, OrderInv(g, t), DepthInv(g, t), Ranked(t) = Nodes(g),
         Len(t.order) = Cardinality(Nodes(g)), NEW n \in Nodes(g)
  PROVE  t.depth[n] = Longest(g, n)
<1> DEFINE c == Cardinality(Nodes(g))
           d == t.depth[n]
           K == {k \in 0..c - 1 :
                  \E path \in [0..k -> Nodes(g)] :
                    path[k] = n /\ \A i \in 1..k : path[i - 1] \in Sources(g, path[i])}
<1>1. Longest(g, n) = Max(K)
  BY DEF Longest
<1>2. c \in Nat /\ d \in Nat
  BY FS_CardinalityType DEF GraphOk, DepthInv
<1>3. d <= c - 1
  <2>1. PICK i \in 1..Len(t.order) : t.order[i] = n
    BY DEF Ranked
  <2>2. t.depth[t.order[i]] <= i - 1
    BY <2>1 DEF DepthInv
  <2> QED BY <1>2, <2>1, <2>2
<1>4. d \in K
  <2>1. \E path \in [0..d -> Nodes(g)] :
           path[d] = n /\ \A i \in 1..d : path[i - 1] \in Sources(g, path[i])
    BY DeepWayExists
  <2>2. d \in 0..c - 1
    BY <1>2, <1>3
  <2> HIDE DEF d, c
  <2> QED BY <2>1, <2>2
<1>5. \A k \in K : d >= k /\ k \in Nat
  <2> SUFFICES ASSUME NEW k \in K PROVE d >= k /\ k \in Nat
    OBVIOUS
  <2>1. k \in Nat
    BY <1>2
  <2>2. PICK path \in [0..k -> Nodes(g)] :
          path[k] = n /\ \A i \in 1..k : path[i - 1] \in Sources(g, path[i])
    OBVIOUS
  <2>3. t.depth[path[k]] >= k
    BY <2>1, <2>2, WaysAreShorter
  <2> QED BY <2>1, <2>2, <2>3
<1> HIDE DEF K, d
<1>6. Max(K) = d
  <2>1. Max(K) = CHOOSE x \in K : \A y \in K : x >= y
    BY DEF Max
  <2>2. \E x \in K : \A y \in K : x >= y
    BY <1>4, <1>5
  <2>3. Max(K) \in K /\ \A y \in K : Max(K) >= y
    BY <2>1, <2>2
  <2> DEFINE x == Max(K)
  <2>4. x \in K /\ x >= d
    BY <1>4, <2>3
  <2> HIDE DEF x
  <2>5. d >= x /\ x \in Nat /\ d \in Nat
    BY <1>2, <1>5, <2>4 DEF d
  <2> QED BY <2>4, <2>5 DEF x
<1> QED BY <1>1, <1>6 DEF d

(* A listing of a graph: every feature once, after its sources, as deep as the
   longest way to it. *)
LEMMA ListedInOrder ==
  ASSUME NEW g, GraphOk(g)
  PROVE  LET t == Topology(g)
             at(n) == CHOOSE i \in DOMAIN t.order : t.order[i] = n
         IN  /\ Len(t.order) = Cardinality(Nodes(g))
             /\ {t.order[i] : i \in DOMAIN t.order} = Nodes(g)
             /\ \A e \in g.edges : at(e.from[1]) < at(e.to[1])
             /\ \A n \in Nodes(g) : t.depth[n] = Longest(g, n)
<1>1. PICK t : /\ OrderInv(g, t) /\ DepthInv(g, t)
               /\ Ranked(t) = Nodes(g) /\ Len(t.order) = Cardinality(Nodes(g))
               /\ Topology(g).order = t.order /\ Topology(g).depth = t.depth
  BY TopologyGives
<1> DEFINE s == t.order
           k == Len(s)
           at(n) == CHOOSE i \in DOMAIN s : s[i] = n
<1>2. /\ s \in Seq(Nodes(g)) /\ k \in Nat /\ DOMAIN s = 1..k
      /\ \A i, j \in 1..k : s[i] = s[j] => i = j
      /\ \A i \in 1..k : Sources(g, s[i]) \subseteq {s[j] : j \in 1..i - 1}
  <2>1. s \in Seq(Nodes(g))
    BY <1>1 DEF OrderInv
  <2>2. /\ \A i, j \in 1..k : s[i] = s[j] => i = j
        /\ \A i \in 1..k : Sources(g, s[i]) \subseteq {s[j] : j \in 1..i - 1}
    BY <1>1 DEF OrderInv
  <2> HIDE DEF s
  <2>3. k \in Nat /\ DOMAIN s = 1..k
    BY <2>1
  <2> QED BY <2>1, <2>2, <2>3
<1>3. {s[i] : i \in DOMAIN s} = Nodes(g)
  BY <1>1, <1>2 DEF Ranked
<1>4. ASSUME NEW e \in g.edges PROVE at(e.from[1]) < at(e.to[1])
  <2> DEFINE m == e.from[1]
             n == e.to[1]
             i == at(n)
             j == at(m)
  <2>1. m \in Nodes(g) /\ n \in Nodes(g) /\ m \in Sources(g, n)
    BY DEF GraphOk, WellFormed, NoLooseWires, Sources, Incoming
  <2>2. i \in 1..k /\ s[i] = n /\ j \in 1..k /\ s[j] = m
    BY <1>2, <1>3, <2>1
  <2> HIDE DEF m, n, i, j, s, k
  <2>3. PICK l \in 1..i - 1 : m = s[l]
    BY <1>2, <2>1, <2>2
  <2>4. l \in 1..k
    BY <1>2, <2>2, <2>3
  <2>5. l = j
    BY <1>2, <2>2, <2>3, <2>4
  <2>6. j < i
    BY <1>2, <2>2, <2>3, <2>5
  <2> QED BY <2>6 DEF m, n, i, j
<1>5. \A n \in Nodes(g) : t.depth[n] = Longest(g, n)
  BY <1>1, DepthIsLongest
<1> QED BY <1>1, <1>3, <1>4, <1>5

-----------------------------------------------------------------------------
(* Jobs, and the theorems of the whole window.                              *)

(* A workspace that was left opens again, at a block it has. *)
ShelfInv ==
  \A w \in DOMAIN shelf :
    /\ SnapshotOpens(shelf[w].snapshot)
    /\ shelf[w].snapshot.view \in {Latest} \cup 0..Len(shelf[w].snapshot.chain)
    /\ shelf[w].selection \subseteq NodeId

(* What a job brings back is of the kind it was started for; a solid replaces
   the operands it was computed from, and nothing else replaces any. *)
JobOk(j) ==
  /\ j = [context |-> j.context, workspace |-> j.workspace, payload |-> j.payload,
          hide |-> j.hide, cancelled |-> j.cancelled, result |-> j.result]
  /\ \/ j.result \in {None, Failed, Saved}
     \/ j.context = "import" /\ FileOk(j.result)
     \/ j.context = "brep" /\ FileOk(j.result) /\ j.result.holds = "geometry"
  /\ j.context = "import" => j.payload.objects = {}
  /\ j.context = "brep" =>
       j.payload.objects \subseteq j.hide \cap Nodes(j.payload.graph)

CadInv ==
  /\ InterfaceInv /\ ShelfInv
  /\ \A f \in files : FileOk(f)
  /\ job = None \/ JobOk(job)

(* None is no job. *)
LEMMA JobIsSome ==
  ASSUME NEW j, JobOk(j) PROVE j # None /\ DOMAIN j = {"context", "workspace", "payload", "hide",
                                                       "cancelled", "result"}
<1>1. DOMAIN j = {"context", "workspace", "payload", "hide", "cancelled", "result"}
  BY DEF JobOk
<1>2. DOMAIN None = {"none"}
  BY DEF None
<1> QED BY <1>1, <1>2

(* A job that is started. *)
LEMMA StartedOk ==
  ASSUME NEW context, NEW payload, NEW hide,
         context = "import" => payload.objects = {},
         context = "brep" => payload.objects \subseteq hide \cap Nodes(payload.graph)
  PROVE  JobOk(Started(context, payload, hide))
<1> DEFINE j == Started(context, payload, hide)
<1>1. /\ j.context = context /\ j.payload = payload /\ j.hide = hide /\ j.result = None
      /\ j = [context |-> j.context, workspace |-> j.workspace, payload |-> j.payload,
              hide |-> j.hide, cancelled |-> j.cancelled, result |-> j.result]
  BY DEF Started
<1> HIDE DEF j
<1> QED BY <1>1 DEF JobOk, j

(* A job that gets its result, or is cancelled, is the same otherwise. *)
LEMMA ResultOk ==
  ASSUME NEW j, JobOk(j), NEW r,
         \/ r \in {Failed, Saved}
         \/ j.context = "import" /\ FileOk(r)
         \/ j.context = "brep" /\ FileOk(r) /\ r.holds = "geometry"
  PROVE  JobOk([j EXCEPT !.result = r])
<1> DEFINE k == [j EXCEPT !.result = r]
<1>1. /\ k.context = j.context /\ k.payload = j.payload /\ k.hide = j.hide /\ k.result = r
      /\ k = [context |-> k.context, workspace |-> k.workspace, payload |-> k.payload,
              hide |-> k.hide, cancelled |-> k.cancelled, result |-> k.result]
  BY DEF JobOk
<1> HIDE DEF k
<1>2. JobOk(k)
  BY <1>1 DEF JobOk
<1> QED BY <1>2 DEF k

(* A job cancelled is the job it was. *)
LEMMA CancelledOk ==
  ASSUME NEW j, JobOk(j) PROVE JobOk([j EXCEPT !.cancelled = TRUE])
<1> DEFINE yes == TRUE
           k == [j EXCEPT !.cancelled = yes]
<1> HIDE DEF yes
<1>0. j = [context |-> j.context, workspace |-> j.workspace, payload |-> j.payload,
           hide |-> j.hide, cancelled |-> j.cancelled, result |-> j.result]
  BY DEF JobOk
<1>1. k.context = j.context /\ k.payload = j.payload /\ k.hide = j.hide
  BY <1>0
<1>2. k.result = j.result
  BY <1>0
<1>3. k = [context |-> k.context, workspace |-> k.workspace, payload |-> k.payload,
           hide |-> k.hide, cancelled |-> k.cancelled, result |-> k.result]
  BY <1>0
<1> HIDE DEF k
<1>4. JobOk(k)
  BY <1>1, <1>2, <1>3 DEF JobOk
<1> QED BY <1>4 DEF k, yes

(* Jobs, clicks and workspaces leave the rest. *)
LEMMA WindowClicked ==
  ASSUME InterfaceInv, Click, UNCHANGED <<document, evaluated>>
  PROVE  InterfaceInv'
<1>1. /\ UNCHANGED <<selection, pointer, canvas, wire, drawn, before>> /\ phase' = "begin"
      /\ evaluated' = evaluated
  BY DEF Click, Then, hands
<1>2. HandsInv'
  BY <1>1 DEF InterfaceInv, HandsInv
<1> QED BY <1>1, <1>2, SelectKeeps DEF shown

(* Collecting the geometry evaluates what is displayed and draws nothing. *)
LEMMA CollectingKeeps ==
  ASSUME InterfaceInv, Click, Collecting
  PROVE  InterfaceInv'
<1>1. /\ UNCHANGED <<selection, pointer, canvas, wire, drawn, before>> /\ phase' = "begin"
  BY DEF Click, Then, hands
<1>2. /\ UNCHANGED <<chain, pending, recovery, undo, redo, graph, gesture, view, viewGraph>>
      /\ sceneDirty' = sceneDirty /\ evalDirty' = FALSE
      /\ evaluated' = IF evalDirty THEN Shape(Displayed) ELSE evaluated
  BY DEF Collecting, ledger, history, viewing
<1>3. OpenInv /\ HandsInv /\ SceneInv /\ BeforeInv
  BY DEF InterfaceInv
<1>4. HandsInv'
  BY <1>1, <1>3 DEF HandsInv
<1>5. OpenInv'
  <2>1. DocumentInv /\ recovery' \in Seq(GraphOp)
    BY <1>2, <1>3 DEF OpenInv, DocumentInv
  <2>2. DocumentInv'
    BY <1>2, <2>1, UnchangedKeeps
  <2> QED BY <1>2, <1>3, <2>2, SeenStays DEF OpenInv, viewing
<1>6. BeforeInv'
  BY <1>1, <1>2, <1>3, NothingNoted
<1>7. SceneInv'
  <2>1. Displayed' = Displayed
    BY <1>2 DEF Displayed, Editable
  <2>2. DOMAIN Shape(Displayed).nodes \subseteq NodeId
    BY <1>3, DisplayedIsGraph, ShapeNodes
  <2>3. evalDirty \in BOOLEAN
    BY <1>3 DEF OpenInv
  <2>4. evaluated' = Shape(Displayed') /\ DOMAIN evaluated'.nodes \subseteq NodeId
    BY <1>2, <1>3, <2>1, <2>2, <2>3 DEF SceneInv
  <2> QED BY <1>1, <1>2, <1>3, <2>1, <2>4 DEF SceneInv, DrawnIsCurrent
<1> QED BY <1>4, <1>5, <1>6, <1>7 DEF InterfaceInv

-----------------------------------------------------------------------------

(* The operations a definition is read as, under the ids it is read with. *)
RawId == Nat \X Nat \X Nat
RawOp ==
  [op : {"AddNode"}, id : RawId, kind : Kind, pos : Pos]
    \cup [op : {"Connect"}, from : RawId \X Port, to : RawId \X Port]
    \cup [op : {"SetParam"}, id : RawId, value : Value]

(* The operations of a plan. *)
LEMMA RawTyped ==
  /\ \A n \in RawId, k \in Kind, p \in Pos : AddNode(n, k, p) \in RawOp
  /\ \A a, b \in RawId \X Port : Connect(a, b) \in RawOp
  /\ \A n \in RawId, v \in Value : SetParam(n, v) \in RawOp
<1>1. \A n \in RawId, k \in Kind, p \in Pos : AddNode(n, k, p) \in RawOp
  BY DEF AddNode, RawOp
<1>2. \A a, b \in RawId \X Port : Connect(a, b) \in RawOp
  BY DEF Connect, RawOp
<1>3. \A n \in RawId, v \in Value : SetParam(n, v) \in RawOp
  BY DEF SetParam, RawOp
<1> QED BY <1>1, <1>2, <1>3

(* The ids of an object's nodes. *)
LEMMA IdsTyped ==
  /\ \A o \in Nat : Root(o) \in RawId
  /\ \A o, p, j \in Nat : Helper(o, p, j) \in RawId
BY DEF Root, Helper, RawId

(* Batches one after the other. *)
LEMMA PartsTyped ==
  ASSUME NEW X, NEW n \in Nat, NEW s, DOMAIN s = 1..n, s = [i \in 1..n |-> s[i]],
         \A i \in 1..n : s[i] \in Seq(X)
  PROVE  FlattenSeq(s) \in Seq(X)
<1>1. s \in Seq(Seq(X))
  OBVIOUS
<1> QED BY <1>1, FlatTyped

(* The objects included are ones that can be read. *)
IncludedRuns(f, def, n) ==
  \A i \in 0..n :
    f[i] = IF i = 0 THEN {o \in DOMAIN def : Readable(def[o])} ELSE Fed(def, f[i - 1])

(* The rounds in which objects are left out can be made in turn. *)
LEMMA IncludedExists ==
  ASSUME NEW def, NEW n \in Nat
  PROVE  \E f : f = [i \in 0..n |-> IF i = 0 THEN {o \in DOMAIN def : Readable(def[o])}
                                  ELSE Fed(def, f[i - 1])]
<1> DEFINE S == {k \in Nat : \E f : IncludedRuns(f, def, k)}
           first == {o \in DOMAIN def : Readable(def[o])}
<1>1. 0 \in S
  <2>1. IncludedRuns([i \in 0..0 |-> first], def, 0)
    BY DEF IncludedRuns
  <2> QED BY <2>1
<1>2. ASSUME NEW k \in Nat, k \in S PROVE k + 1 \in S
  <2>1. PICK f : IncludedRuns(f, def, k)
    BY <1>2
  <2> DEFINE h == [i \in 0..k + 1 |-> IF i = k + 1 THEN Fed(def, f[k]) ELSE f[i]]
  <2>2. \A i \in 0..k : h[i] = f[i]
    OBVIOUS
  <2>3. h[k + 1] = Fed(def, h[k])
    <3>1. h[k] = f[k] /\ h[k + 1] = Fed(def, f[k])
      BY <2>2
    <3> QED BY <3>1
  <2>4. \A i \in 0..k : f[i] = IF i = 0 THEN first ELSE Fed(def, f[i - 1])
    BY <2>1 DEF IncludedRuns
  <2> HIDE DEF h, first
  <2>5. \A i \in 0..k + 1 : h[i] = IF i = 0 THEN first ELSE Fed(def, h[i - 1])
    <3> SUFFICES ASSUME NEW i \in 0..k + 1
                 PROVE  h[i] = IF i = 0 THEN first ELSE Fed(def, h[i - 1])
      OBVIOUS
    <3>1. CASE i = k + 1
      BY <2>3, <3>1
    <3>2. CASE i # k + 1
      <4>1. i \in 0..k /\ (i # 0 => i - 1 \in 0..k)
        BY <3>2
      <4> QED BY <2>2, <2>4, <4>1
    <3> QED BY <3>1, <3>2
  <2>6. IncludedRuns(h, def, k + 1)
    BY <2>5 DEF IncludedRuns, first
  <2> QED BY <2>6
<1> HIDE DEF S
<1>3. Nat \subseteq S
  BY <1>1, <1>2, Counting
<1>4. PICK f : IncludedRuns(f, def, n)
  BY <1>3 DEF S
<1> DEFINE g == [i \in 0..n |-> f[i]]
<1>5. \A i \in 0..n : f[i] = IF i = 0 THEN first ELSE Fed(def, g[i - 1])
  <2> SUFFICES ASSUME NEW i \in 0..n PROVE f[i] = IF i = 0 THEN first ELSE Fed(def, g[i - 1])
    OBVIOUS
  <2>1. CASE i = 0
    BY <1>4, <2>1 DEF IncludedRuns
  <2>2. CASE i # 0
    <3>1. i - 1 \in 0..n
      BY <2>2
    <3>2. g[i - 1] = f[i - 1]
      BY <3>1
    <3> QED BY <1>4, <2>2, <3>2 DEF IncludedRuns
  <2> QED BY <2>1, <2>2
<1>6. g = [i \in 0..n |-> IF i = 0 THEN first ELSE Fed(def, g[i - 1])]
  BY <1>5
<1> QED BY <1>6

(* An object that is included is one that can be read. *)
LEMMA IncludedReadable ==
  ASSUME NEW def, Len(def) \in Nat
  PROVE  \A o \in Included(def) : o \in DOMAIN def /\ Readable(def[o])
<1> DEFINE n == Len(def)
           first == {o \in DOMAIN def : Readable(def[o])}
           F == CHOOSE f : f = [i \in 0..n |->
                  IF i = 0 THEN first ELSE Fed(def, f[i - 1])]
<1>0. \E f : f = [i \in 0..n |-> IF i = 0 THEN first ELSE Fed(def, f[i - 1])]
  BY IncludedExists
<1>2. Included(def) = F[n]
  BY DEF Included
<1> HIDE DEF first
<1>1. F = [i \in 0..n |-> IF i = 0 THEN first ELSE Fed(def, F[i - 1])]
  BY <1>0
<1> HIDE DEF F
<1>3. \A i \in 0..n : F[i] = IF i = 0 THEN first ELSE Fed(def, F[i - 1])
  BY <1>1
<1> DEFINE S == {k \in Nat : k <= n => F[k] \subseteq first}
<1>4. 0 \in S
  BY <1>3
<1>5. ASSUME NEW k \in Nat, k \in S PROVE k + 1 \in S
  <2> SUFFICES ASSUME k + 1 <= n PROVE F[k + 1] \subseteq first
    OBVIOUS
  <2>1. k + 1 \in 0..n /\ k + 1 # 0 /\ k + 1 - 1 = k
    OBVIOUS
  <2>2. F[k + 1] = Fed(def, F[k])
    BY <1>3, <2>1
  <2>3. F[k + 1] \subseteq F[k]
    BY <2>2 DEF Fed
  <2> QED BY <1>5, <2>3
<1> HIDE DEF S
<1>6. Nat \subseteq S
  BY <1>4, <1>5, Counting
<1>7. F[n] \subseteq first
  BY <1>6 DEF S
<1> QED BY <1>2, <1>7 DEF first

(* The helpers that merge the sources of an input. *)
LEMMA ChainTyped ==
  ASSUME NEW o \in Nat, NEW p \in Nat, p \in Port, NEW n \in Nat
  PROVE  MergeChain(o, p, n) \in Seq(RawOp)
<1> DEFINE more(j) == IF j = 1 THEN << >>
                      ELSE <<Connect(<<Helper(o, p, j - 1), 1>>, <<Helper(o, p, j), 1>>)>>
           add(j) == <<AddNode(Helper(o, p, j), MergeKind, Origin)>>
           part(j) == add(j) \o more(j)
           parts == [j \in 1..n |-> part(j)]
           end == <<Connect(<<Helper(o, p, n), 1>>, <<Root(o), p>>)>>
<1>1. MergeChain(o, p, n) = FlattenSeq(parts) \o end
  BY DEF MergeChain
<1>2. 1 \in Port /\ MergeKind \in Kind /\ Origin \in Pos
  BY InterfaceAssumption, GrasshopperAssumption
<1>3. ASSUME NEW j \in 1..n PROVE part(j) \in Seq(RawOp)
  <2>1. Helper(o, p, j) \in RawId
    BY IdsTyped
  <2>2. add(j) \in Seq(RawOp)
    BY <1>2, <2>1, RawTyped
  <2>3. more(j) \in Seq(RawOp)
    <3>1. CASE j = 1
      BY <3>1
    <3>2. CASE j # 1
      <4> DEFINE h == Helper(o, p, j - 1)
                 k == Helper(o, p, j)
      <4>1. j - 1 \in Nat
        OBVIOUS
      <4>2. h \in RawId /\ k \in RawId
        BY <2>1, <4>1, IdsTyped
      <4> HIDE DEF h, k
      <4>3. <<h, 1>> \in RawId \X Port /\ <<k, 1>> \in RawId \X Port
        BY <1>2, <4>2
      <4>4. Connect(<<h, 1>>, <<k, 1>>) \in RawOp
        BY <4>3, RawTyped
      <4> QED BY <3>2, <4>4 DEF h, k
    <3> QED BY <3>1, <3>2
  <2> HIDE DEF add, more
  <2> QED BY <2>2, <2>3, ConcatProperties
<1> HIDE DEF part
<1>4. FlattenSeq(parts) \in Seq(RawOp)
  <2>1. parts \in Seq(Seq(RawOp))
    BY <1>3
  <2> HIDE DEF parts
  <2> QED BY <2>1, FlatTyped
<1>5. end \in Seq(RawOp)
  <2> DEFINE h == Helper(o, p, n)
             k == Root(o)
  <2>1. h \in RawId /\ k \in RawId
    BY IdsTyped
  <2> HIDE DEF h, k
  <2>2. <<h, 1>> \in RawId \X Port /\ <<k, p>> \in RawId \X Port
    BY <1>2, <2>1
  <2>3. Connect(<<h, 1>>, <<k, p>>) \in RawOp
    BY <2>2, RawTyped
  <2> QED BY <2>3 DEF h, k
<1> HIDE DEF parts, end
<1> QED BY <1>1, <1>4, <1>5, ConcatProperties

(* The inputs of an object. *)
LEMMA InputsTyped ==
  ASSUME NEW x, ObjectOk(x)
  PROVE  /\ Len(x.inputs) \in Nat /\ DOMAIN x.inputs = 1..Len(x.inputs)
         /\ \A p \in 1..Len(x.inputs) :
              /\ p \in Nat /\ p \in Port /\ x.stored[p] \in Value
              /\ Len(x.inputs[p]) \in Nat /\ DOMAIN x.inputs[p] = 1..Len(x.inputs[p])
              /\ \A j \in 1..Len(x.inputs[p]) : x.inputs[p][j] \in Nat \X Port
         /\ Wired(x) \subseteq DOMAIN x.inputs
<1> DEFINE ins == x.inputs
           st == x.stored
<1>1. ins \in Seq(Seq(Nat \X Port)) /\ DOMAIN ins \subseteq Port /\ st \in Seq(Value)
      /\ Len(ins) <= Len(st)
  BY DEF ObjectOk
<1>2. Wired(x) \subseteq DOMAIN ins
  BY DEF Wired
<1> HIDE DEF ins, st
<1> DEFINE X == Nat \X Port
<1> HIDE DEF X
<1>3. ins \in Seq(Seq(X))
  BY <1>1 DEF X
<1>4. Len(ins) \in Nat /\ DOMAIN ins = 1..Len(ins)
  BY <1>3
<1>5. ASSUME NEW p \in 1..Len(ins)
      PROVE  /\ p \in Nat /\ p \in Port /\ st[p] \in Value
             /\ Len(ins[p]) \in Nat /\ DOMAIN ins[p] = 1..Len(ins[p])
             /\ \A j \in 1..Len(ins[p]) : ins[p][j] \in X
  <2>1. p \in Nat /\ p \in Port
    <3>1. p \in DOMAIN ins /\ p \in Nat
      BY <1>4
    <3> QED BY <1>1, <3>1
  <2>2. p \in 1..Len(st)
    BY <1>1, <1>4
  <2>3. st[p] \in Value
    BY <1>1, <2>2
  <2>4. ins[p] \in Seq(X)
    BY <1>3
  <2> QED BY <2>1, <2>3, <2>4
<1> QED BY <1>2, <1>4, <1>5 DEF ins, st, X

(* The plan of one input of an object. *)
LEMMA InputTyped ==
  ASSUME NEW o \in Nat, NEW x, ObjectOk(x), NEW p \in 1..Len(x.inputs)
  PROVE  PlanInput(o, x, p) \in Seq(RawOp)
<1> DEFINE n == Len(x.inputs[p])
           v == x.stored[p]
<1>1. p \in Nat /\ p \in Port /\ v \in Value /\ n \in Nat
  BY InputsTyped
<1>2. 1 \in Port /\ Holder(v) \in Kind /\ Origin \in Pos
  BY InterfaceAssumption, GrasshopperAssumption DEF Holder
<1>3. CASE n = 0
  <2> DEFINE h == Helper(o, p, 1)
             r == Root(o)
  <2>1. PlanInput(o, x, p) = <<AddNode(h, Holder(v), Origin), SetParam(h, v),
                               Connect(<<h, 1>>, <<r, p>>)>>
    BY <1>3 DEF PlanInput
  <2>2. h \in RawId /\ r \in RawId
    BY <1>1, IdsTyped
  <2> HIDE DEF h, r, v
  <2>3. <<h, 1>> \in RawId \X Port /\ <<r, p>> \in RawId \X Port
    BY <1>1, <1>2, <2>2
  <2>4. AddNode(h, Holder(v), Origin) \in RawOp /\ SetParam(h, v) \in RawOp
        /\ Connect(<<h, 1>>, <<r, p>>) \in RawOp
    BY <1>1, <1>2, <2>2, <2>3, RawTyped
  <2> QED BY <2>1, <2>4
<1>4. CASE n = 1
  BY <1>4 DEF PlanInput
<1>5. CASE n # 0 /\ n # 1
  <2>1. PlanInput(o, x, p) = MergeChain(o, p, n)
    BY <1>5 DEF PlanInput
  <2> HIDE DEF n
  <2> QED BY <1>1, <2>1, ChainTyped
<1> QED BY <1>3, <1>4, <1>5

(* What an object is read as. *)
LEMMA PlanTyped ==
  ASSUME NEW o \in Nat, NEW x, ObjectOk(x), Readable(x)
  PROVE  Plan(o, x) \in Seq(RawOp)
<1> DEFINE add == <<AddNode(Root(o), RootKind(x), Origin)>>
           own == IF Wired(x) = {} /\ x.stored # << >> THEN <<SetParam(Root(o), x.stored[1])>>
                  ELSE << >>
           part(p) == IF p \in Wired(x) THEN PlanInput(o, x, p) ELSE << >>
           parts == [p \in DOMAIN x.inputs |-> part(p)]
<1>1. Plan(o, x) = (add \o own) \o FlattenSeq(parts)
  BY DEF Plan
<1>2. Root(o) \in RawId /\ Origin \in Pos
  BY IdsTyped, GrasshopperAssumption
<1>3. add \in Seq(RawOp)
  <2>1. RootKind(x) \in Kind
    <3>1. x.type = "slider" => x.kind \in Kind
      BY GrasshopperAssumption DEF ObjectOk
    <3>2. x.type = "component" => x.kind \in Kind
      BY GrasshopperAssumption DEF Readable
    <3>3. ListKind \in Kind /\ MergeKind \in Kind
      BY GrasshopperAssumption
    <3> QED BY <3>1, <3>2, <3>3 DEF RootKind
  <2> QED BY <1>2, <2>1, RawTyped
<1>4. own \in Seq(RawOp)
  <2>1. CASE Wired(x) = {} /\ x.stored # << >>
    <3> DEFINE st == x.stored
    <3>1. st \in Seq(Value) /\ st # << >>
      BY <2>1 DEF ObjectOk
    <3> HIDE DEF st
    <3>2. Len(st) \in Nat /\ Len(st) >= 1
      BY <3>1, EmptySeq
    <3>3. 1 \in 1..Len(st)
      BY <3>2
    <3>4. st[1] \in Value
      BY <3>1, <3>3
    <3>5. SetParam(Root(o), st[1]) \in RawOp
      BY <1>2, <3>4, RawTyped
    <3> QED BY <2>1, <3>5 DEF st
  <2>2. CASE ~(Wired(x) = {} /\ x.stored # << >>)
    BY <2>2
  <2> QED BY <2>1, <2>2
<1>5. FlattenSeq(parts) \in Seq(RawOp)
  <2> DEFINE n == Len(x.inputs)
  <2>1. n \in Nat /\ DOMAIN x.inputs = 1..n
    BY InputsTyped
  <2>2. ASSUME NEW p \in 1..n PROVE part(p) \in Seq(RawOp)
    <3>1. PlanInput(o, x, p) \in Seq(RawOp)
      BY InputTyped
    <3> QED BY <3>1
  <2> HIDE DEF part, n
  <2>3. parts \in Seq(Seq(RawOp))
    BY <2>1, <2>2
  <2> HIDE DEF parts
  <2> QED BY <2>3, FlatTyped
<1> HIDE DEF add, own, parts
<1>6. add \o own \in Seq(RawOp)
  BY <1>3, <1>4, ConcatProperties
<1> QED BY <1>1, <1>5, <1>6, ConcatProperties

(* How it is wired to the others. *)
LEMMA PlanWiresTyped ==
  ASSUME NEW o \in Nat, NEW x, ObjectOk(x)
  PROVE  PlanWires(o, x) \in Seq(RawOp)
<1> DEFINE into(p, j) == IF Len(x.inputs[p]) = 1 THEN <<Root(o), p>> ELSE <<Helper(o, p, j), 2>>
           wires(p) == [j \in DOMAIN x.inputs[p] |->
                          Connect(<<Root(x.inputs[p][j][1]), x.inputs[p][j][2]>>, into(p, j))]
           part(p) == IF p \notin Wired(x) THEN << >> ELSE wires(p)
           parts == [p \in DOMAIN x.inputs |-> part(p)]
           n == Len(x.inputs)
<1>1. PlanWires(o, x) = FlattenSeq(parts)
  BY DEF PlanWires
<1>2. n \in Nat /\ DOMAIN x.inputs = 1..n
  BY InputsTyped
<1>3. 2 \in Port
  BY InterfaceAssumption
<1>4. ASSUME NEW p \in 1..n PROVE part(p) \in Seq(RawOp)
  <2> DEFINE ins == x.inputs[p]
             k == Len(ins)
  <2>1. p \in Nat /\ p \in Port /\ k \in Nat /\ DOMAIN ins = 1..k
        /\ \A j \in 1..k : ins[j] \in Nat \X Port
    BY InputsTyped
  <2>2. wires(p) = [j \in 1..k |-> Connect(<<Root(ins[j][1]), ins[j][2]>>, into(p, j))]
    BY <2>1
  <2>3. ASSUME NEW j \in 1..k
        PROVE  Connect(<<Root(ins[j][1]), ins[j][2]>>, into(p, j)) \in RawOp
    <3>1. into(p, j) \in RawId \X Port
      <4>1. Root(o) \in RawId /\ Helper(o, p, j) \in RawId
        BY <2>1, IdsTyped
      <4> QED BY <1>3, <2>1, <4>1
    <3>2. ins[j][1] \in Nat /\ ins[j][2] \in Port
      BY <2>1
    <3> DEFINE a == ins[j][1]
               b == ins[j][2]
    <3> HIDE DEF into, ins, a, b, k
    <3>3. Root(a) \in RawId
      BY <3>2, IdsTyped DEF a
    <3>4. <<Root(a), b>> \in RawId \X Port
      BY <3>2, <3>3 DEF a, b
    <3>5. Connect(<<Root(a), b>>, into(p, j)) \in RawOp
      BY <3>1, <3>4, RawTyped
    <3> QED BY <3>5 DEF a, b
  <2> HIDE DEF into, wires, ins, k
  <2>4. wires(p) \in Seq(RawOp)
    BY <2>1, <2>2, <2>3
  <2> QED BY <2>4
<1> HIDE DEF part, n
<1>5. parts \in Seq(Seq(RawOp))
  BY <1>2, <1>4
<1> HIDE DEF parts
<1> QED BY <1>1, <1>5, FlatTyped

(* A definition is read as operations. *)
LEMMA ImportTyped ==
  ASSUME NEW def, Len(def) \in Nat, DOMAIN def = 1..Len(def), \A o \in DOMAIN def : ObjectOk(def[o])
  PROVE  ImportGhx(def) \in Seq(RawOp)
<1> DEFINE included == Included(def)
           plans == [o \in DOMAIN def |-> IF o \in included THEN Plan(o, def[o]) ELSE << >>]
           wires == [o \in DOMAIN def |-> IF o \in included THEN PlanWires(o, def[o]) ELSE << >>]
           ops == FlattenSeq(plans) \o FlattenSeq(wires)
           n == Len(def)
<1>1. ImportGhx(def) = << >> \/ ImportGhx(def) = ops
  BY DEF ImportGhx
<1>2. \A o \in included : o \in DOMAIN def /\ Readable(def[o])
  BY IncludedReadable
<1> HIDE DEF included
<1>3. FlattenSeq(plans) \in Seq(RawOp)
  <2>1. ASSUME NEW o \in 1..n
        PROVE  (IF o \in included THEN Plan(o, def[o]) ELSE << >>) \in Seq(RawOp)
    <3>1. CASE o \in included
      BY <1>2, <3>1, PlanTyped
    <3>2. CASE o \notin included
      BY <3>2
    <3> QED BY <3>1, <3>2
  <2>2. plans \in Seq(Seq(RawOp))
    BY <2>1
  <2> HIDE DEF plans
  <2> QED BY <2>2, FlatTyped
<1>4. FlattenSeq(wires) \in Seq(RawOp)
  <2>1. ASSUME NEW o \in 1..n
        PROVE  (IF o \in included THEN PlanWires(o, def[o]) ELSE << >>) \in Seq(RawOp)
    <3>1. CASE o \in included
      BY <1>2, <3>1, PlanWiresTyped
    <3>2. CASE o \notin included
      BY <3>2
    <3> QED BY <3>1, <3>2
  <2>2. wires \in Seq(Seq(RawOp))
    BY <2>1
  <2> HIDE DEF wires
  <2> QED BY <2>2, FlatTyped
<1> HIDE DEF plans, wires
<1>5. ops \in Seq(RawOp)
  BY <1>3, <1>4, ConcatProperties
<1>6. << >> \in Seq(RawOp)
  OBVIOUS
<1> DEFINE read == ImportGhx(def)
<1>7. read = << >> \/ read = ops
  BY <1>1
<1> HIDE DEF ops, read
<1>8. read \in Seq(RawOp)
  BY <1>5, <1>6, <1>7
<1> QED BY <1>8 DEF read

-----------------------------------------------------------------------------

(* Ids that are not used yet. *)
LEMMA UnusedLists ==
  /\ Unused \in Seq(NodeId \ Nodes(graph)) /\ Len(Unused) \in Nat
  /\ \A i \in 1..Len(Unused) : Unused[i] \in NodeId
<1> DEFINE named == {EverDone[i].id : i \in {j \in DOMAIN EverDone : EverDone[j].op = "AddNode"}}
           S == NodeId \ (Nodes(graph) \cup named)
<1>1. Unused = Sorted(S)
  BY DEF Unused
<1>2. S \subseteq NodeId \ Nodes(graph)
  OBVIOUS
<1> HIDE DEF S
<1>3. S \subseteq Int /\ IsFiniteSet(S)
  BY <1>2, InterfaceAssumption, FS_Subset
<1>4. Unused \in Seq(S)
  BY <1>1, <1>3, SortedLists
<1> QED BY <1>2, <1>4

(* Where an id is taken from. *)
LEMMA UnusedTyped ==
  ASSUME NEW i \in Nat, 1 <= i, i <= Len(Unused) PROVE Unused[i] \in NodeId
<1>1. i \in 1..Len(Unused)
  BY UnusedLists
<1> QED BY <1>1, UnusedLists

(* Operations whose ids a definition gives, if only those that add nodes give
   them ids to be had. *)
LooseOp(I) ==
  [op : {"AddNode"}, id : NodeId, kind : Kind, pos : Pos]
    \cup [op : {"Connect"}, from : I \X Port, to : I \X Port]
    \cup [op : {"SetParam"}, id : I, value : Value]

(* Operations that a graph accepts have the ids of its nodes. *)
LEMMA LooseFits ==
  ASSUME NEW g, GraphOk(g), NEW I, NEW o \in LooseOp(I), Accepts(g, o)
  PROVE  o \in GraphOp
<1>1. Nodes(g) \subseteq NodeId
  BY DEF GraphOk, GraphType
<1>2. CASE o \in [op : {"AddNode"}, id : NodeId, kind : Kind, pos : Pos]
  BY <1>2 DEF GraphOp
<1>3. CASE o \in [op : {"SetParam"}, id : I, value : Value]
  <2>1. o.id \in NodeId
    BY <1>1, <1>3 DEF Accepts
  <2>2. o \in [op : {"SetParam"}, id : NodeId, value : Value]
    BY <1>3, <2>1
  <2> QED BY <2>2 DEF GraphOp
<1>4. CASE o \in [op : {"Connect"}, from : I \X Port, to : I \X Port]
  <2>1. o.from[1] \in NodeId /\ o.to[1] \in NodeId
    BY <1>1, <1>4 DEF Accepts, Wires
  <2>2. o.from \in I \X Port /\ o.to \in I \X Port
    BY <1>4
  <2>3. o.from \in OutPort /\ o.to \in InPort
    BY <2>1, <2>2 DEF OutPort, InPort
  <2>4. o \in [op : {"Connect", "Disconnect"}, from : OutPort, to : InPort]
    BY <1>4, <2>3
  <2> QED BY <2>4 DEF GraphOp
<1> QED BY <1>2, <1>3, <1>4 DEF LooseOp

(* A batch that applies to a graph is one of operations on its nodes. *)
LEMMA LooseBatchFits ==
  ASSUME NEW g, GraphOk(g), NEW I, NEW ops \in Seq(LooseOp(I)), ApplyAll(g, ops) # Refused
  PROVE  ops \in Seq(GraphOp)
<1> DEFINE L == LooseOp(I)
           Q == {s \in Seq(L) : ApplyAll(g, s) # Refused => s \in Seq(GraphOp)}
<1> HIDE DEF L
<1>1. << >> \in Q
  OBVIOUS
<1>2. ASSUME NEW s \in Seq(L), NEW e \in L, s \in Q PROVE Append(s, e) \in Q
  <2> SUFFICES ASSUME ApplyAll(g, Append(s, e)) # Refused PROVE Append(s, e) \in Seq(GraphOp)
    OBVIOUS
  <2> DEFINE h == ApplyAll(g, s)
  <2>1. ApplyAll(g, Append(s, e)) = Apply(h, e)
    BY ApplyAllAppend
  <2>2. h # Refused /\ Accepts(h, e)
    BY <2>1 DEF Apply
  <2>3. s \in Seq(GraphOp)
    BY <1>2, <2>2
  <2>4. GraphOk(h)
    BY <2>2, <2>3, ApplyAllOk
  <2>5. e \in GraphOp
    BY <2>2, <2>4, LooseFits DEF L
  <2> QED BY <2>3, <2>5
<1> HIDE DEF Q
<1>3. Seq(L) \subseteq Q
  BY <1>1, <1>2, SeqCounting
<1>4. ops \in Q
  BY <1>3 DEF L
<1> QED BY <1>4 DEF Q

(* The id a node is added with. *)
LEMMA NewIdTyped ==
  ASSUME NEW ops \in Seq(RawOp), Cardinality(Adding(ops)) <= Len(Unused), NEW i \in Adding(ops)
  PROVE  NewId(ops, ops[i].id) \in NodeId
<1> DEFINE A == Adding(ops)
           first == CHOOSE j \in A : ops[j].id = ops[i].id
           upto == {j \in A : j <= first}
<1>1. NewId(ops, ops[i].id) = Unused[Cardinality(upto)]
  BY DEF NewId
<1>2. IsFiniteSet(A)
  <2>1. Len(ops) \in Nat /\ DOMAIN ops = 1..Len(ops)
    OBVIOUS
  <2>2. A \subseteq 1..Len(ops)
    BY <2>1 DEF Adding
  <2>3. IsFiniteSet(1..Len(ops))
    BY <2>1, FS_Interval
  <2> QED BY <2>2, <2>3, FS_Subset
<1>3. first \in A /\ first \in Nat
  <2>1. \A j \in A : j \in Nat
    BY DEF Adding
  <2> QED BY <2>1
<1>4. upto \subseteq A /\ first \in upto
  BY <1>3
<1> HIDE DEF A, first, upto
<1> DEFINE k == Cardinality(upto)
<1>5. IsFiniteSet(upto) /\ k \in Nat /\ k <= Cardinality(A) /\ Cardinality(A) \in Nat
  BY <1>2, <1>4, FewerOf
<1>6. k # 0
  BY <1>4, <1>5, FS_EmptySet
<1>7. 1 <= k /\ k <= Len(Unused)
  BY <1>5, <1>6, UnusedLists DEF A
<1> HIDE DEF k
<1>8. Unused[k] \in NodeId
  BY <1>5, <1>7, UnusedTyped DEF k
<1> QED BY <1>1, <1>8 DEF k

(* A definition under ids of its own. *)
LEMMA RenamedTyped ==
  ASSUME NEW ops \in Seq(RawOp), Cardinality(Adding(ops)) <= Len(Unused),
         GraphOk(graph), ApplyAll(graph, Renamed(ops)) # Refused
  PROVE  Renamed(ops) \in Seq(GraphOp)
<1> DEFINE I == {NewId(ops, n) : n \in RawId}
           end(p) == <<NewId(ops, p[1]), p[2]>>
           named(o) == IF o.op = "Connect" THEN Connect(end(o.from), end(o.to))
                       ELSE [o EXCEPT !.id = NewId(ops, @)]
           n == Len(ops)
<1>1. n \in Nat /\ DOMAIN ops = 1..n /\ \A i \in 1..n : ops[i] \in RawOp
  OBVIOUS
<1>2. Renamed(ops) = [i \in 1..n |-> named(ops[i])]
  BY <1>1 DEF Renamed
<1>3. ASSUME NEW i \in 1..n PROVE named(ops[i]) \in LooseOp(I)
  <2> DEFINE o == ops[i]
  <2>1. o \in RawOp
    BY <1>1
  <2>2. CASE o \in [op : {"AddNode"}, id : RawId, kind : Kind, pos : Pos]
    <3>1. i \in Adding(ops)
      BY <1>1, <2>2 DEF Adding
    <3> DEFINE m == NewId(ops, o.id)
    <3>2. m \in NodeId
      BY <3>1, NewIdTyped
    <3>3. named(o) = [o EXCEPT !.id = m]
      BY <2>2
    <3> HIDE DEF m, o
    <3>4. [o EXCEPT !.id = m] \in [op : {"AddNode"}, id : NodeId, kind : Kind, pos : Pos]
      BY <2>2, <3>2
    <3> HIDE DEF named
    <3> QED BY <3>3, <3>4 DEF LooseOp, o
  <2>3. CASE o \in [op : {"SetParam"}, id : RawId, value : Value]
    <3> DEFINE m == NewId(ops, o.id)
    <3>1. m \in I
      BY <2>3
    <3>2. named(o) = [o EXCEPT !.id = m]
      BY <2>3
    <3> HIDE DEF m, o, I
    <3>3. [o EXCEPT !.id = m] \in [op : {"SetParam"}, id : I, value : Value]
      BY <2>3, <3>1
    <3> HIDE DEF named
    <3> QED BY <3>2, <3>3 DEF LooseOp, o
  <2>4. CASE o \in [op : {"Connect"}, from : RawId \X Port, to : RawId \X Port]
    <3>1. o.from[1] \in RawId /\ o.from[2] \in Port /\ o.to[1] \in RawId /\ o.to[2] \in Port
      BY <2>4
    <3>2. end(o.from) \in I \X Port /\ end(o.to) \in I \X Port
      BY <3>1
    <3>3. named(o) = Connect(end(o.from), end(o.to))
      BY <2>4
    <3> DEFINE a == end(o.from)
               b == end(o.to)
    <3>4. named(o) = Connect(a, b) /\ a \in I \X Port /\ b \in I \X Port
      BY <3>2, <3>3
    <3> HIDE DEF a, b, I, named, o
    <3>5. Connect(a, b) \in [op : {"Connect"}, from : I \X Port, to : I \X Port]
      BY <3>4 DEF Connect
    <3> QED BY <3>4, <3>5 DEF LooseOp, o
  <2> QED BY <2>1, <2>2, <2>3, <2>4 DEF RawOp
<1> HIDE DEF named, I
<1>4. Renamed(ops) \in Seq(LooseOp(I))
  BY <1>1, <1>2, <1>3
<1> QED BY <1>4, LooseBatchFits

(* The operands that a result takes the place of. *)
Hiding == {HideNode(n) : n \in job.hide \cap Nodes(graph)}

(* The operands hidden are those that are still there. *)
LEMMA HidingTyped ==
  ASSUME GraphOk(graph)
  PROVE  /\ IsFiniteSet(Hiding) /\ Hiding \subseteq GraphOp
         /\ \A o \in Hiding : o.op = "SetParam" /\ Hidden(o.value)
         /\ \A n \in job.hide \cap Nodes(graph) : \E o \in Hiding : o.id = n
<1> DEFINE N == job.hide \cap Nodes(graph)
<1>1. N \subseteq Nodes(graph) /\ IsFiniteSet(Nodes(graph)) /\ Nodes(graph) \subseteq NodeId
  BY DEF GraphOk, GraphType
<1>2. Hiding = {HideNode(n) : n \in N}
  BY DEF Hiding
<1> HIDE DEF N
<1>3. IsFiniteSet(N)
  BY <1>1, FS_Subset
<1> DEFINE f(n) == HideNode(n)
<1>4. IsFiniteSet(Hiding)
  <2> DEFINE F == [n \in N |-> HideNode(n)]
             M == {F[n] : n \in N}
  <2>1. M = Hiding
    BY <1>2
  <2>2. F \in Surjection(N, M)
    BY DEF Surjection
  <2> HIDE DEF F, M
  <2>3. IsFiniteSet(M)
    BY <1>3, <2>2, FS_Surjection
  <2> QED BY <2>1, <2>3
<1>5. ASSUME NEW n \in N
      PROVE  HideNode(n) \in GraphOp /\ HideNode(n).op = "SetParam" /\ HideNode(n).id = n
             /\ Hidden(HideNode(n).value)
  <2> DEFINE v == graph.nodes[n].value
             w == Hide[v]
  <2>1. n \in NodeId /\ v \in Value \cup {Unset}
    BY <1>1, NodeTyped
  <2> HIDE DEF v
  <2>2. w \in Value /\ w # Unset /\ Hide[w] = w
    BY <2>1, InterfaceAssumption
  <2> HIDE DEF w
  <2>3. SetParam(n, w) \in GraphOp /\ Hidden(w)
    BY <2>1, <2>2, OpsTyped DEF Hidden
  <2>4. HideNode(n) = SetParam(n, w)
    BY DEF HideNode, w, v
  <2>5. SetParam(n, w).op = "SetParam" /\ SetParam(n, w).id = n /\ SetParam(n, w).value = w
    BY DEF SetParam
  <2> QED BY <2>3, <2>4, <2>5
<1>6. Hiding \subseteq GraphOp /\ \A o \in Hiding : o.op = "SetParam" /\ Hidden(o.value)
  BY <1>2, <1>5
<1>7. \A n \in N : \E o \in Hiding : o.id = n
  BY <1>2, <1>5
<1> QED BY <1>4, <1>6, <1>7 DEF N

(* The records of a geometry, and the operands hidden at their end. *)
LEMMA RecordsTyped ==
  ASSUME GraphOk(graph), NEW r, FileOk(r), r.holds = "geometry",
         r.count + Cardinality(r.settings) <= Len(Unused)
  PROVE  /\ Records(r) \in Seq(GraphOp) /\ RecordIds(r) \subseteq NodeId
         /\ \E made \in Seq(GraphOp) : Records(r) = made \o SetToSeq(Hiding)
<1> DEFINE panel == Cardinality(r.settings)
           id(i) == Unused[panel + i]
           d == CHOOSE e \in r.settings : TRUE
           sheet == <<AddNode(Unused[1], PanelKind, Max(Pos)), SetParam(Unused[1], d)>>
           sheets == [i \in 1..panel |-> sheet]
           named(i) == IF panel = 1 THEN <<SetParam(id(i), Refer[Unused[1]])>> ELSE << >>
           add(i) == <<AddNode(id(i), r.kind, Max(Pos))>>
           object(i) == add(i) \o named(i)
           objects == [i \in 1..r.count |-> object(i)]
<1>1. Records(r) = (FlattenSeq(sheets) \o FlattenSeq(objects)) \o SetToSeq(Hiding)
  BY DEF Records, Hiding
<1>2. /\ r.count \in Nat /\ r.settings \subseteq Documents /\ IsFiniteSet(r.settings)
      /\ panel \in Nat
  <2>1. r.count \in Nat /\ r.settings \subseteq Documents
    BY DEF FileOk
  <2>2. IsFiniteSet(r.settings)
    BY <2>1, CadFilesAssumption, FS_Subset
  <2> QED BY <2>1, <2>2, FS_CardinalityType
<1>3. PanelKind \in Kind /\ r.kind \in Kind /\ Max(Pos) \in Pos
  <2>1. r.kind \in {Imported, PointKind}
    BY DEF FileOk
  <2> QED BY <2>1, GrasshopperAssumption, CadFilesAssumption, MaxIsPlace
<1>4. Len(Unused) \in Nat
  BY UnusedLists
<1>5. ASSUME NEW i \in 1..r.count PROVE id(i) \in NodeId
  <2> DEFINE k == panel + i
  <2>1. k \in Nat /\ 1 <= k /\ k <= Len(Unused)
    BY <1>2, <1>4
  <2> HIDE DEF k
  <2>2. Unused[k] \in NodeId
    BY <2>1, UnusedTyped
  <2> QED BY <2>2 DEF k
<1>6. panel >= 1 => Unused[1] \in NodeId
  BY <1>2, <1>4, UnusedTyped
<1> HIDE DEF id
<1>7. FlattenSeq(sheets) \in Seq(GraphOp)
  <2>1. ASSUME NEW i \in 1..panel PROVE sheet \in Seq(GraphOp)
    <3>1. r.settings # {}
      BY <1>2, <2>1, FS_EmptySet
    <3>2. d \in Value
      BY <1>2, <3>1, CadFilesAssumption
    <3> HIDE DEF d
    <3>3. Unused[1] \in NodeId
      BY <1>2, <1>6
    <3>4. AddNode(Unused[1], PanelKind, Max(Pos)) \in GraphOp /\ SetParam(Unused[1], d) \in GraphOp
      BY <1>3, <3>2, <3>3, OpsTyped
    <3> QED BY <3>4
  <2> HIDE DEF sheet
  <2>2. sheets \in Seq(Seq(GraphOp))
    BY <1>2, <2>1
  <2> HIDE DEF sheets
  <2> QED BY <2>2, FlatTyped
<1>8. FlattenSeq(objects) \in Seq(GraphOp)
  <2>1. ASSUME NEW i \in 1..r.count PROVE object(i) \in Seq(GraphOp)
    <3>1. add(i) \in Seq(GraphOp)
      <4>1. AddNode(id(i), r.kind, Max(Pos)) \in GraphOp
        BY <1>3, <1>5, OpsTyped
      <4> QED BY <4>1
    <3>2. named(i) \in Seq(GraphOp)
      <4>1. CASE panel = 1
        <5>1. Refer[Unused[1]] \in Value
          BY <1>6, <4>1, CadFilesAssumption
        <5>2. SetParam(id(i), Refer[Unused[1]]) \in GraphOp
          BY <1>5, <5>1, OpsTyped
        <5> QED BY <4>1, <5>2
      <4>2. CASE panel # 1
        BY <4>2
      <4> QED BY <4>1, <4>2
    <3> HIDE DEF add, named
    <3> QED BY <3>1, <3>2, ConcatProperties
  <2> HIDE DEF object
  <2>2. objects \in Seq(Seq(GraphOp))
    BY <1>2, <2>1
  <2> HIDE DEF objects
  <2> QED BY <2>2, FlatTyped
<1>9. SetToSeq(Hiding) \in Seq(GraphOp)
  <2>1. SetToSeq(Hiding) \in Seq(Hiding) /\ Hiding \subseteq GraphOp
    BY HidingTyped, SetToSeqCovers
  <2> QED BY <2>1
<1>10. RecordIds(r) \subseteq NodeId
  BY <1>5 DEF RecordIds, id
<1> DEFINE made == FlattenSeq(sheets) \o FlattenSeq(objects)
<1> HIDE DEF sheets, objects
<1>11. made \in Seq(GraphOp)
  BY <1>7, <1>8, ConcatProperties
<1> HIDE DEF made
<1>12. Records(r) = made \o SetToSeq(Hiding)
  BY <1>1 DEF made
<1>13. made \o SetToSeq(Hiding) \in Seq(GraphOp)
  BY <1>9, <1>11, ConcatProperties
<1> QED BY <1>10, <1>11, <1>12, <1>13

(* Nodes are hidden, one after the other: the ones hidden stay so. *)
LEMMA HidesAll ==
  ASSUME NEW H, H \subseteq GraphOp, \A o \in H : o.op = "SetParam" /\ Hidden(o.value),
         NEW ops \in Seq(H), NEW g, GraphOk(g), ApplyAll(g, ops) # Refused
  PROVE  \A i \in 1..Len(ops) : Hidden(ApplyAll(g, ops).nodes[ops[i].id].value)
<1> DEFINE Hides(s) == \A i \in 1..Len(s) : /\ Hidden(ApplyAll(g, s).nodes[s[i].id].value)
                                            /\ s[i].id \in Nodes(ApplyAll(g, s))
           Q == {s \in Seq(H) : ApplyAll(g, s) # Refused => Hides(s)}
<1>1. << >> \in Q
  OBVIOUS
<1>2. ASSUME NEW s \in Seq(H), NEW e \in H, s \in Q PROVE Append(s, e) \in Q
  <2> DEFINE t == Append(s, e)
             h == ApplyAll(g, s)
             k == ApplyAll(g, t)
  <2>0. SUFFICES ASSUME ApplyAll(g, t) # Refused PROVE Hides(t)
    <3>1. t \in Seq(H)
      OBVIOUS
    <3> HIDE DEF Hides
    <3> QED BY <3>1
  <2>1. k = Apply(h, e)
    BY ApplyAllAppend
  <2>2. h # Refused /\ Accepts(h, e) /\ k = Applied(h, e)
    BY <2>0, <2>1 DEF Apply
  <2>3. e.op = "SetParam" /\ Hidden(e.value) /\ e \in GraphOp /\ e.id \in Nodes(h)
    BY <2>2 DEF Accepts
  <2>4. GraphType(h)
    <3>1. s \in Seq(GraphOp)
      OBVIOUS
    <3> QED BY <2>2, <3>1, ApplyAllOk DEF GraphOk
  <2>5. k = [h EXCEPT !.nodes[e.id].value = e.value]
    BY <2>2, <2>3 DEF Applied
  <2>6. \A i \in 1..Len(s) : Hidden(h.nodes[s[i].id].value) /\ s[i].id \in Nodes(h)
    BY <1>2, <2>2
  <2>7. /\ Nodes(k) = Nodes(h) /\ k.nodes[e.id].value = e.value
        /\ \A n \in Nodes(h) : n # e.id => k.nodes[n] = h.nodes[n]
    <3> HIDE DEF h, k
    <3>1. h = [nodes |-> h.nodes, edges |-> h.edges] /\ h.nodes \in [Nodes(h) -> Node]
      BY <2>4 DEF GraphType
    <3> QED BY <2>3, <2>5, <3>1 DEF Nodes, Node
  <2>8. Len(t) = Len(s) + 1 /\ t[Len(s) + 1] = e /\ \A i \in 1..Len(s) : t[i] = s[i]
        /\ Len(s) \in Nat
    OBVIOUS
  <2> HIDE DEF h, k, t
  <2>9. ASSUME NEW i \in 1..Len(t) PROVE Hidden(k.nodes[t[i].id].value) /\ t[i].id \in Nodes(k)
    <3>1. CASE t[i].id = e.id
      BY <2>3, <2>7, <3>1
    <3>2. CASE t[i].id # e.id
      <4>1. i \in 1..Len(s)
        BY <2>8, <3>2
      <4>2. t[i] = s[i]
        BY <2>8, <4>1
      <4> QED BY <2>6, <2>7, <3>2, <4>1, <4>2
    <3> QED BY <3>1, <3>2
  <2> QED BY <2>9 DEF k
<1> HIDE DEF Q
<1>3. Seq(H) \subseteq Q
  BY <1>1, <1>2, SeqCounting
<1> QED BY <1>3 DEF Q

(* The records of a solid leave its operands hidden. *)
LEMMA RecordsHide ==
  ASSUME GraphOk(graph), NEW r, FileOk(r), r.holds = "geometry",
         r.count + Cardinality(r.settings) <= Len(Unused),
         ApplyAll(graph, Records(r)) # Refused
  PROVE  \A n \in job.hide \cap Nodes(graph) :
           Hidden(ApplyAll(graph, Records(r)).nodes[n].value)
<1> DEFINE s == SetToSeq(Hiding)
<1>1. PICK made \in Seq(GraphOp) : Records(r) = made \o s
  BY RecordsTyped
<1>2. /\ IsFiniteSet(Hiding) /\ Hiding \subseteq GraphOp
      /\ \A o \in Hiding : o.op = "SetParam" /\ Hidden(o.value)
      /\ \A n \in job.hide \cap Nodes(graph) : \E o \in Hiding : o.id = n
  BY HidingTyped
<1>3. s \in Seq(Hiding) /\ {s[i] : i \in 1..Len(s)} = Hiding
  BY <1>2, SetToSeqCovers
<1> HIDE DEF s
<1> DEFINE g == ApplyAll(graph, made)
<1>4. s \in Seq(GraphOp)
  BY <1>2, <1>3
<1>5. ApplyAll(graph, Records(r)) = ApplyAll(g, s)
  BY <1>1, <1>4, ApplyAllConcat
<1>6. g # Refused
  BY <1>4, <1>5, RefusedRemains
<1>7. GraphOk(g)
  BY <1>6, ApplyAllOk
<1> HIDE DEF g
<1>8. \A i \in 1..Len(s) : Hidden(ApplyAll(g, s).nodes[s[i].id].value)
  BY <1>2, <1>3, <1>5, <1>7, HidesAll
<1> SUFFICES ASSUME NEW n \in job.hide \cap Nodes(graph)
             PROVE  Hidden(ApplyAll(g, s).nodes[n].value)
  BY <1>5
<1>9. PICK i \in 1..Len(s) : s[i].id = n
  BY <1>2, <1>3
<1> QED BY <1>8, <1>9

-----------------------------------------------------------------------------

(* A batch refused ends the drag in flight, and no more. *)
LEMMA RefuseSteps ==
  ASSUME OpenInv, Refuse, UNCHANGED <<chain, recovery, graph, viewing, screen>>
  PROVE  DocumentStep
<1>1. DocumentInv /\ Seen
  BY DEF OpenInv
<1>2. DocumentInv'
  BY <1>1, RefuseKeeps
<1>3. Seen'
  BY <1>1, SeenStays
<1>4. HistoryStep
  BY <1>1, <1>2, RefuseEdits
<1>5. SceneStep /\ evalDirty' \in BOOLEAN /\ sceneDirty' \in BOOLEAN
  BY SameShows
<1> QED BY <1>2, <1>3, <1>4, <1>5 DEF DocumentStep, OpenInv

(* What a job brought back enters the document as one edit, or not at all. *)
LEMMA PollSteps ==
  ASSUME CadInv, Poll
  PROVE  /\ DocumentStep /\ selection' \subseteq NodeId
         /\ \/ graph' = graph
            \/ /\ Welcome
               /\ job.context = "import"
                  \/ /\ job.context = "brep"
                     /\ \A n \in job.hide \cap Nodes(graph) : Hidden(graph'.nodes[n].value)
<1> DEFINE r == job.result
<1>1. OpenInv /\ GraphOk(graph) /\ selection \subseteq NodeId
  BY SettledFits DEF CadInv, InterfaceInv, OpenInv, HandsInv
<1>2. job # None /\ r # None
  BY DEF Poll
<1>3. JobOk(job)
  BY <1>2 DEF CadInv
<1>4. ASSUME r.holds = "geometry", r.count + Cardinality(r.settings) <= Len(Unused),
             Insert(Records(r), RecordIds(r))
      PROVE  /\ DocumentStep /\ selection' \subseteq NodeId
             /\ \/ graph' = graph
                \/ /\ Welcome
                   /\ job.context = "import"
                      \/ /\ job.context = "brep"
                         /\ \A n \in job.hide \cap Nodes(graph) : Hidden(graph'.nodes[n].value)
  <2>1. r \notin {None, Failed, Saved}
    BY <1>2, <1>4 DEF Failed, Saved
  <2>2. FileOk(r) /\ job.context \in {"import", "brep"}
    BY <1>3, <2>1 DEF JobOk
  <2> HIDE DEF r
  <2>3. ApplyOps(Records(r)) /\ Welcome /\ selection' = RecordIds(r)
    BY <1>4 DEF Insert
  <2>4. Records(r) \in Seq(GraphOp) /\ RecordIds(r) \subseteq NodeId
    BY <1>1, <1>4, <2>2, RecordsTyped
  <2>5. DocumentStep
    BY <1>1, <2>3, <2>4, ApplyOpsSteps
  <2>6. CASE ApplyAll(graph, Records(r)) # Refused
    <3>1. graph' = ApplyAll(graph, Records(r))
      BY <2>3, <2>6 DEF ApplyOps
    <3>2. \A n \in job.hide \cap Nodes(graph) : Hidden(ApplyAll(graph, Records(r)).nodes[n].value)
      BY <1>1, <1>4, <2>2, <2>6, RecordsHide
    <3> QED BY <2>2, <2>3, <2>4, <2>5, <3>1, <3>2
  <2>7. CASE ApplyAll(graph, Records(r)) = Refused
    BY <2>3, <2>4, <2>5, <2>7 DEF ApplyOps
  <2> QED BY <2>6, <2>7
<1>5. ASSUME r.holds = "definition", Cardinality(Adding(ImportGhx(r.def))) <= Len(Unused),
             Insert(Renamed(ImportGhx(r.def)), RenamedIds(ImportGhx(r.def)))
      PROVE  DocumentStep /\ selection' \subseteq NodeId /\ Welcome /\ job.context = "import"
  <2> DEFINE ops == ImportGhx(r.def)
  <2>1. r \notin {None, Failed, Saved}
    BY <1>2, <1>5 DEF Failed, Saved
  <2>2. FileOk(r) /\ job.context = "import"
    BY <1>3, <1>5, <2>1 DEF JobOk
  <2> HIDE DEF r
  <2>3. /\ Len(r.def) \in Nat /\ DOMAIN r.def = 1..Len(r.def)
        /\ \A o \in DOMAIN r.def : ObjectOk(r.def[o])
    BY <1>5, <2>2 DEF FileOk
  <2>4. ops \in Seq(RawOp)
    BY <2>3, ImportTyped
  <2> HIDE DEF ops
  <2>5. /\ ApplyOps(Renamed(ops)) /\ Welcome /\ selection' = RenamedIds(ops)
        /\ Cardinality(Adding(ops)) <= Len(Unused)
    BY <1>5 DEF Insert, ops
  <2>6. DocumentStep
    <3>1. CASE ApplyAll(graph, Renamed(ops)) # Refused
      <4>1. Renamed(ops) \in Seq(GraphOp)
        BY <1>1, <2>4, <2>5, <3>1, RenamedTyped
      <4> QED BY <1>1, <2>5, <4>1, ApplyOpsSteps
    <3>2. CASE ApplyAll(graph, Renamed(ops)) = Refused
      <4>1. Refuse /\ UNCHANGED <<chain, recovery, graph, viewing, screen>>
        BY <2>5, <3>2 DEF ApplyOps
      <4> QED BY <1>1, <4>1, RefuseSteps
    <3> QED BY <3>1, <3>2
  <2>7. RenamedIds(ops) \subseteq NodeId
    <3>1. Cardinality(Adding(ops)) \in Nat
      <4>1. Len(ops) \in Nat /\ Adding(ops) \subseteq 1..Len(ops) /\ IsFiniteSet(1..Len(ops))
        BY <2>4, FS_Interval DEF Adding
      <4> QED BY <4>1, FewerOf
    <3>2. ASSUME NEW i \in 1..Cardinality(Adding(ops)) PROVE Unused[i] \in NodeId
      <4>1. i \in Nat /\ 1 <= i /\ i <= Len(Unused)
        BY <2>5, <3>1, UnusedLists
      <4> QED BY <4>1, UnusedTyped
    <3> QED BY <3>2 DEF RenamedIds
  <2> QED BY <2>2, <2>5, <2>6, <2>7
<1>6. CASE UNCHANGED <<document, selection>>
  <2>1. DocumentStep
    BY <1>1, <1>6, NothingSteps
  <2> QED BY <1>1, <1>6, <2>1 DEF document
<1> HIDE DEF r
<1>7. \/ /\ r.holds = "geometry" /\ r.count + Cardinality(r.settings) <= Len(Unused)
         /\ Insert(Records(r), RecordIds(r))
      \/ /\ r.holds = "definition" /\ Cardinality(Adding(ImportGhx(r.def))) <= Len(Unused)
         /\ Insert(Renamed(ImportGhx(r.def)), RenamedIds(ImportGhx(r.def)))
      \/ UNCHANGED <<document, selection>>
  BY DEF Poll, r
<1> QED BY <1>4, <1>5, <1>6, <1>7

(* The shelf, the files and the job stay as they are. *)
LEMMA RestStays ==
  ASSUME CadInv, InterfaceInv', shelf' = shelf, files' = files, job' = job PROVE CadInv'
BY DEF CadInv, ShelfInv

(* A job polled, whatever it brings back and whether it is welcome or not. *)
LEMMA PollKeeps ==
  ASSUME CadInv, Poll PROVE CadInv'
<1>1. DocumentStep /\ selection' \subseteq NodeId
  BY PollSteps
<1>2. /\ phase' = "begin" /\ NoteEdit /\ UNCHANGED <<pointer, canvas>> /\ UNCHANGED shown
      /\ shelf' = shelf /\ files' = files /\ job' = None
  BY DEF Poll, Then, hands
<1>3. HandsInv'
  BY <1>1, <1>2, CanvasKept DEF CadInv, InterfaceInv
<1>4. InterfaceInv'
  BY <1>1, <1>2, <1>3, EventKeeps DEF CadInv
<1> QED BY <1>2, <1>4 DEF CadInv, ShelfInv

(* The document put away opens again, and the one taken out is in good order. *)
LEMMA SwitchKeeps ==
  ASSUME CadInv, NEW w \in DOMAIN shelf, SwitchWorkspace(w) PROVE CadInv'
<1> DEFINE snapshot == shelf[w].snapshot
           entry == [snapshot |-> Left, selection |-> selection]
<1>1. /\ SnapshotOpens(snapshot) /\ snapshot.view \in {Latest} \cup 0..Len(snapshot.chain)
      /\ shelf[w].selection \subseteq NodeId
  BY DEF CadInv, ShelfInv
<1>2. /\ Restore(snapshot) /\ selection' = shelf[w].selection /\ before' = None
      /\ UNCHANGED <<pointer, canvas>> /\ UNCHANGED shown /\ phase' = "begin"
      /\ files' = files /\ job' = job
      /\ shelf' = [shelf EXCEPT ![workspace] = entry]
  BY DEF SwitchWorkspace, Then, hands, Left
<1>3. OpenInv /\ HandsInv /\ SceneInv
  BY DEF CadInv, InterfaceInv
<1> HIDE DEF snapshot
<1>4. DocumentInv'
  BY <1>1, <1>2, RestoreKeeps
<1>5. /\ chain' = snapshot.chain /\ view' = snapshot.view
      /\ viewGraph' = IF snapshot.view = Latest THEN Working ELSE Replay(snapshot.chain, snapshot.view)
      /\ evalDirty' = TRUE /\ sceneDirty' = TRUE
  BY <1>2 DEF Restore, InvalidateAll
<1>6. OpenInv'
  <2>1. snapshot.chain \in Seq(Block) /\ snapshot.pending \in Seq(GraphOp) /\ Restored(snapshot) # Refused
    BY <1>1 DEF SnapshotOpens
  <2> DEFINE c == snapshot.chain
             i == snapshot.view
  <2>2. c \in Seq(Block) /\ Replay(c, Len(c)) # Refused
    BY <2>1, RefusedRemains DEF Restored
  <2>3. viewGraph' = Working \/ GraphOk(viewGraph')
    <3>1. CASE i = Latest
      BY <1>5, <3>1
    <3>2. CASE i # Latest
      <4>1. i \in 0..Len(c)
        BY <1>1, <3>2
      <4>2. viewGraph' = Replay(c, i)
        BY <1>5, <3>2
      <4> HIDE DEF c, i
      <4>3. GraphOk(Replay(c, i))
        BY <2>2, <4>1, EarlierReplays
      <4> QED BY <4>2, <4>3
    <3> QED BY <3>1, <3>2
  <2>4. view' \in {Latest} \cup 0..Len(chain')
    BY <1>1, <1>5
  <2>5. Seen'
    BY <2>3, <2>4 DEF Seen
  <2> QED BY <1>4, <1>5, <2>5 DEF OpenInv
<1>7. HandsInv'
  BY <1>1, <1>2, <1>3, CanvasKept
<1>8. SceneInv'
  BY <1>2, <1>3, <1>5, SceneKept DEF SceneStep
<1>9. BeforeInv'
  BY <1>2 DEF BeforeInv
<1>10. ShelfInv'
  <2>1. SnapshotOpens(Left) /\ selection \subseteq NodeId /\ view \in {Latest} \cup 0..Len(chain)
    BY <1>3, DocumentOpens DEF OpenInv, HandsInv, Seen
  <2>2. entry.snapshot = Left /\ entry.selection = selection
    OBVIOUS
  <2>3. Left.view = view /\ Left.chain = chain
    BY DEF Left, Snapshot
  <2>4. DOMAIN shelf' = DOMAIN shelf
    BY <1>2
  <2>5. \A x \in DOMAIN shelf : shelf'[x] = IF x = workspace THEN entry ELSE shelf[x]
    BY <1>2
  <2> HIDE DEF entry
  <2>6. ASSUME NEW x \in DOMAIN shelf
        PROVE  /\ SnapshotOpens(shelf'[x].snapshot)
               /\ shelf'[x].snapshot.view \in {Latest} \cup 0..Len(shelf'[x].snapshot.chain)
               /\ shelf'[x].selection \subseteq NodeId
    <3>1. CASE x = workspace
      BY <2>1, <2>2, <2>3, <2>5, <3>1
    <3>2. CASE x # workspace
      BY <2>5, <3>2 DEF CadInv, ShelfInv
    <3> QED BY <3>1, <3>2
  <2>7. \A x \in DOMAIN shelf' : SnapshotOpens(shelf'[x].snapshot)
    BY <2>4, <2>6
  <2>8. \A x \in DOMAIN shelf' :
          /\ shelf'[x].snapshot.view \in {Latest} \cup 0..Len(shelf'[x].snapshot.chain)
          /\ shelf'[x].selection \subseteq NodeId
    BY <2>4, <2>6
  <2>9. ASSUME NEW x \in DOMAIN shelf' PROVE SnapshotOpens(shelf[x].snapshot)'
    BY <2>7 DEF SnapshotOpens, Restored
  <2> QED BY <2>8, <2>9 DEF ShelfInv
<1>11. InterfaceInv'
  BY <1>6, <1>7, <1>8, <1>9 DEF InterfaceInv
<1> QED BY <1>2, <1>10, <1>11 DEF CadInv

(* A session starts in order. *)
LEMMA CadOpens ==
  ASSUME CadInit PROVE CadInv
<1>1. PICK s \in Sessions :
        /\ Opens(s) /\ files = s.files
        /\ shelf = [w \in s.copies |-> [snapshot |-> Snapshot, selection |-> {}]]
  BY DEF CadInit
<1>2. InterfaceInv
  BY <1>1, SessionOpens
<1>3. \A f \in files : FileOk(f)
  BY <1>1, CadFilesAssumption
<1>4. SnapshotOpens(Snapshot) /\ Snapshot.view \in {Latest} \cup 0..Len(Snapshot.chain)
  <2>1. DocumentInv /\ view \in {Latest} \cup 0..Len(chain)
    BY <1>2 DEF InterfaceInv, OpenInv, Seen
  <2>2. Snapshot.view = view /\ Snapshot.chain = chain
    BY DEF Snapshot
  <2> QED BY <2>1, <2>2, DocumentOpens
<1>5. ShelfInv
  <2> DEFINE x == Snapshot
  <2> HIDE DEF x
  <2>1. \A w \in DOMAIN shelf : shelf[w].snapshot = x /\ shelf[w].selection = {}
    BY <1>1 DEF x
  <2> QED BY <1>4, <2>1 DEF ShelfInv, x
<1>6. job = None
  BY DEF CadInit
<1> QED BY <1>2, <1>3, <1>5, <1>6 DEF CadInv

(* A job that starts, ends or is cancelled. *)
LEMMA JobKeeps ==
  ASSUME CadInv, InterfaceInv', shelf' = shelf, files' = files, JobOk(job') PROVE CadInv'
<1>1. ShelfInv' /\ \A f \in files' : FileOk(f)
  BY DEF CadInv, ShelfInv
<1>2. JobOk(job)'
  BY DEF JobOk
<1> QED BY <1>1, <1>2 DEF CadInv

(* A job started holds the model as it is then. *)
LEMMA StartsKeep ==
  ASSUME CadInv,
         ImportFile \/ ExportDefinition \/ \E b \in BOOLEAN : ExportGeometry(b) \/ RunBrep(b)
  PROVE  CadInv'
<1>1. CASE ImportFile
  <2>1. InterfaceInv'
    BY <1>1, WindowClicked DEF ImportFile, CadInv
  <2>2. job' = Started("import", Nothing(graph), {}) /\ shelf' = shelf /\ files' = files
    BY <1>1 DEF ImportFile, Start1, Click
  <2>3. Nothing(graph).objects = {}
    BY DEF Nothing
  <2>4. JobOk(Started("import", Nothing(graph), {}))
    BY <2>3, StartedOk
  <2> QED BY <2>1, <2>2, <2>4, JobKeeps
<1>2. CASE ExportDefinition
  <2>1. InterfaceInv'
    BY <1>2, WindowClicked DEF ExportDefinition, CadInv
  <2>2. job' = Started("definition", Defined(Displayed), {}) /\ shelf' = shelf /\ files' = files
    BY <1>2 DEF ExportDefinition, Start1, Click
  <2>3. JobOk(Started("definition", Defined(Displayed), {}))
    BY StartedOk
  <2> QED BY <2>1, <2>2, <2>3, JobKeeps
<1>3. ASSUME NEW b \in BOOLEAN, ExportGeometry(b) PROVE CadInv'
  <2> DEFINE payload == Collected(Displayed, Chosen(Displayed, b))
  <2>1. InterfaceInv'
    BY <1>3, CollectingKeeps DEF ExportGeometry, CadInv
  <2>2. job' = Started("export", payload, {}) /\ shelf' = shelf /\ files' = files
    BY <1>3 DEF ExportGeometry, Start1, Click
  <2> HIDE DEF payload
  <2>3. JobOk(Started("export", payload, {}))
    BY StartedOk
  <2> QED BY <2>1, <2>2, <2>3, JobKeeps
<1>4. ASSUME NEW b \in BOOLEAN, RunBrep(b) PROVE CadInv'
  <2>1. InterfaceInv'
    BY <1>4, CollectingKeeps DEF RunBrep, CadInv
  <2>2. shelf' = shelf /\ files' = files
    BY <1>4 DEF RunBrep, Click
  <2>3. CASE b
    <3> DEFINE payload == Collected(graph, Chosen(graph, TRUE))
    <3>1. job' = Started("brep", payload, selection)
      BY <1>4, <2>3 DEF RunBrep, Start1
    <3>2. payload.graph = graph /\ payload.objects = Objects(graph, Chosen(graph, TRUE))
      BY DEF Collected
    <3>3. payload.objects \subseteq selection \cap Nodes(payload.graph)
      BY <3>2 DEF Objects, Chosen
    <3> HIDE DEF payload
    <3>4. JobOk(Started("brep", payload, selection))
      BY <3>3, StartedOk
    <3> QED BY <2>1, <2>2, <3>1, <3>4, JobKeeps
  <2>4. CASE ~b
    <3>1. job' = Started("brep", Nothing(graph), {})
      BY <1>4, <2>4 DEF RunBrep, Start1
    <3>2. Nothing(graph).objects = {}
      BY DEF Nothing
    <3>3. JobOk(Started("brep", Nothing(graph), {}))
      BY <3>2, StartedOk
    <3> QED BY <2>1, <2>2, <3>1, <3>3, JobKeeps
  <2> QED BY <2>3, <2>4
<1> QED BY <1>1, <1>2, <1>3, <1>4

(* A worker done brings back what its job may. *)
LEMMA BringsKeeps ==
  ASSUME CadInv, NEW r, Brings(r),
         \/ r \in {Failed, Saved}
         \/ job.context = "import" /\ FileOk(r)
         \/ job.context = "brep" /\ FileOk(r) /\ r.holds = "geometry"
  PROVE  CadInv'
<1>1. /\ job # None /\ job' = [job EXCEPT !.result = r] /\ shelf' = shelf /\ files' = files
      /\ UNCHANGED interfaceVars
  BY DEF Brings, interfaceVars
<1>2. InterfaceInv'
  BY <1>1, InterfaceStays DEF CadInv
<1>3. JobOk([job EXCEPT !.result = r])
  BY <1>1, ResultOk DEF CadInv
<1> QED BY <1>1, <1>2, <1>3, JobKeeps

(* Whatever becomes of a worker. *)
LEMMA WorkerKeeps ==
  ASSUME CadInv, Fail \/ ReadFile \/ Solve \/ WriteFile
  PROVE  CadInv'
<1>1. CASE Fail
  BY <1>1, BringsKeeps DEF Fail
<1>2. CASE ReadFile
  <2>1. PICK f \in files : Brings(f)
    BY <1>2 DEF ReadFile
  <2>2. FileOk(f) /\ job.context = "import"
    BY <1>2 DEF ReadFile, Runs, CadInv
  <2> QED BY <2>1, <2>2, BringsKeeps
<1>3. CASE Solve
  <2>1. PICK count \in {0, 1} : Brings(Geometry(count, Imported, {}))
    BY <1>3 DEF Solve
  <2>2. job.context = "brep"
    BY <1>3 DEF Solve, Runs
  <2> DEFINE r == Geometry(count, Imported, {})
  <2>3. r.holds = "geometry" /\ r.count = count /\ r.settings = {} /\ r.kind = Imported
    BY DEF Geometry
  <2> HIDE DEF r
  <2>4. FileOk(r)
    BY <2>3 DEF FileOk
  <2> QED BY <2>1, <2>2, <2>3, <2>4, BringsKeeps DEF r
<1>4. CASE WriteFile
  BY <1>4, BringsKeeps DEF WriteFile
<1> QED BY <1>1, <1>2, <1>3, <1>4

(* A job cancelled goes on until it is polled. *)
LEMMA CancelKeeps ==
  ASSUME CadInv, Cancel PROVE CadInv'
<1>1. InterfaceInv'
  BY WindowClicked DEF Cancel, CadInv
<1>2. job # None /\ job' = [job EXCEPT !.cancelled = TRUE] /\ shelf' = shelf /\ files' = files
  BY DEF Cancel, Click
<1>3. JobOk([job EXCEPT !.cancelled = TRUE])
  BY <1>2, CancelledOk DEF CadInv
<1> QED BY <1>1, <1>2, <1>3, JobKeeps

(* Every step of the window, of the user and of a worker. *)
LEMMA CadNextKeeps ==
  ASSUME CadInv, [CadNext]_cadVars PROVE CadInv'
<1>1. CASE InterfaceNext /\ UNCHANGED cad
  <2>1. InterfaceInv'
    BY <1>1, InterfaceNextKeeps DEF CadInv
  <2> QED BY <1>1, <2>1, RestStays DEF cad
<1>2. CASE UNCHANGED cadVars
  <2>1. UNCHANGED interfaceVars /\ UNCHANGED cad
    BY <1>2 DEF cadVars
  <2>2. InterfaceInv'
    BY <2>1, InterfaceStays DEF CadInv
  <2> QED BY <2>1, <2>2, RestStays DEF cad
<1>3. CASE OtherFile
  <2>1. UNCHANGED interfaceVars /\ UNCHANGED <<shelf, files, job>>
    BY <1>3 DEF OtherFile, interfaceVars
  <2>2. InterfaceInv'
    BY <2>1, InterfaceStays DEF CadInv
  <2> QED BY <2>1, <2>2, RestStays
<1>4. ASSUME NEW w \in DOMAIN shelf, SwitchWorkspace(w) PROVE CadInv'
  BY <1>4, SwitchKeeps
<1> QED BY <1>1, <1>2, <1>3, <1>4, StartsKeep, WorkerKeeps, CancelKeeps, PollKeeps DEF CadNext

(* Whatever comes in between, the window, the workspaces and the job are in
   good order. *)
THEOREM CadCorrect == CadSpec => []CadInv
<1>1. CadInit => CadInv
  BY CadOpens
<1>2. CadInv /\ [CadNext]_cadVars => CadInv'
  BY CadNextKeeps
<1> QED BY <1>1, <1>2, PTL DEF CadSpec

(* A click in the viewport meets the model as it is. *)
THEOREM ViewportShowsTheModel == CadSpec => []DrawnIsCurrent
<1>1. CadInv => DrawnIsCurrent
  BY DEF CadInv, InterfaceInv, SceneInv
<1> QED BY <1>1, CadCorrect, PTL

(* One Undo takes back one edit of the user. *)
THEOREM UndoTakesBackOneEdit == CadSpec => []OneUndoStep
<1>1. CadInv => OneUndoStep
  BY DEF CadInv, InterfaceInv, BeforeInv, OneUndoStep, UndoneTo
<1> QED BY <1>1, CadCorrect, PTL

(* A job ends only when it is polled. *)
LEMMA OnlyPollEnds ==
  ASSUME CadInv, [CadNext]_cadVars, job # None, job' = None PROVE Poll
<1>1. JobOk(job)
  BY DEF CadInv
<1>2. ASSUME NEW r PROVE [job EXCEPT !.result = r] # None
  <2>1. DOMAIN [job EXCEPT !.result = r] = DOMAIN job
    OBVIOUS
  <2>2. "context" \in DOMAIN job
    BY <1>1, JobIsSome
  <2>3. DOMAIN None = {"none"}
    BY DEF None
  <2> QED BY <2>1, <2>2, <2>3
<1>3. [job EXCEPT !.cancelled = TRUE] # None
  <2>1. JobOk([job EXCEPT !.cancelled = TRUE])
    BY <1>1, CancelledOk
  <2> QED BY <2>1, JobIsSome
<1>4. ~(ImportFile \/ ExportDefinition \/ \E b \in BOOLEAN : ExportGeometry(b) \/ RunBrep(b))
  BY DEF ImportFile, ExportDefinition, ExportGeometry, RunBrep, Start1
<1>5. \A r : ~Brings(r)
  BY <1>2 DEF Brings
<1>6. ~(Fail \/ ReadFile \/ Solve \/ WriteFile)
  BY <1>5 DEF Fail, ReadFile, Solve, WriteFile
<1>7. ~Cancel
  BY <1>3 DEF Cancel
<1>8. ~(InterfaceNext /\ UNCHANGED cad) /\ ~UNCHANGED cadVars /\ ~OtherFile
  BY DEF cadVars, cad, OtherFile
<1>9. \A w \in DOMAIN shelf : ~SwitchWorkspace(w)
  BY DEF SwitchWorkspace
<1> QED BY <1>4, <1>6, <1>7, <1>8, <1>9 DEF CadNext

(* What ResultsMeetTheirModel asks of a step. *)
MeetsModel ==
  job # None /\ job' = None /\ graph' # graph =>
    /\ job.workspace = workspace
    /\ MadeOf(graph, job.payload.objects) = MadeOf(job.payload.graph, job.payload.objects)
    /\ \A n \in job.payload.objects : Hidden(graph'.nodes[n].value)

(* Nothing is made of nothing. *)
LEMMA MadeOfNothing ==
  ASSUME NEW g, NEW h PROVE MadeOf(g, {}) = MadeOf(h, {})
<1>1. MadeFrom(g, {}) = {} /\ MadeFrom(h, {}) = {}
  BY DEF MadeFrom
<1>2. ASSUME NEW k, MadeFrom(k, {}) = {}
      PROVE  MadeOf(k, {}) = [nodes |-> [n \in {} |-> <<>>], edges |-> {}]
  <2>1. {e \in k.edges : e.to[1] \in {}} = {}
    OBVIOUS
  <2>2. [n \in {} |-> <<k.nodes[n].kind, k.nodes[n].value>>] = [n \in {} |-> << >>]
    OBVIOUS
  <2> QED BY <1>2, <2>1, <2>2 DEF MadeOf
<1> QED BY <1>1, <1>2

(* A graph changed by a job that ends has the operands of the job, hidden. *)
LEMMA StepMeets ==
  ASSUME CadInv, [CadNext]_cadVars PROVE MeetsModel
<1> SUFFICES ASSUME job # None, job' = None, graph' # graph
             PROVE  /\ job.workspace = workspace
                    /\ MadeOf(graph, job.payload.objects) = MadeOf(job.payload.graph, job.payload.objects)
                    /\ \A n \in job.payload.objects : Hidden(graph'.nodes[n].value)
  BY DEF MeetsModel
<1>1. Poll /\ JobOk(job)
  BY OnlyPollEnds DEF CadInv
<1>2. /\ Welcome
      /\ job.context = "import"
         \/ /\ job.context = "brep"
            /\ \A n \in job.hide \cap Nodes(graph) : Hidden(graph'.nodes[n].value)
  BY <1>1, PollSteps
<1>3. job.workspace = workspace
  BY <1>2 DEF Welcome
<1>4. CASE job.context = "import"
  <2>1. job.payload.objects = {}
    BY <1>1, <1>4 DEF JobOk
  <2> QED BY <1>3, <2>1, MadeOfNothing
<1>5. CASE job.context = "brep"
  <2>1. graph = job.payload.graph
    BY <1>2, <1>5 DEF Welcome
  <2>2. job.payload.objects \subseteq job.hide \cap Nodes(graph)
    BY <1>1, <1>5, <2>1 DEF JobOk
  <2>3. \A n \in job.hide \cap Nodes(graph) : Hidden(graph'.nodes[n].value)
    BY <1>2, <1>5
  <2> QED BY <1>3, <2>1, <2>2, <2>3
<1> QED BY <1>2, <1>4, <1>5

(* What a job brings back meets the model it was started on. *)
THEOREM JobsMeetTheirModel == CadSpec => ResultsMeetTheirModel
<1>1. CadInv /\ [CadNext]_cadVars => [MeetsModel]_cadVars
  BY StepMeets
<1>2. ResultsMeetTheirModel <=> [][MeetsModel]_cadVars
  BY DEF ResultsMeetTheirModel, MeetsModel
<1> QED BY <1>1, <1>2, CadCorrect, PTL DEF CadSpec

(* The model panel lists every feature once, after all it depends on. *)
THEOREM PanelListsInOrder == CadSpec => []FeaturesInOrder
<1>1. ASSUME CadInv PROVE FeaturesInOrder
  <2>1. OpenInv
    BY <1>1 DEF CadInv, InterfaceInv
  <2>2. GraphOk(Displayed)
    BY <2>1, DisplayedIsGraph
  <2> QED BY <2>2, ListedInOrder DEF FeaturesInOrder
<1>2. CadInv => FeaturesInOrder
  BY <1>1
<1> QED BY <1>2, CadCorrect, PTL

=============================================================================
