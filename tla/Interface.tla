------------------------------ MODULE Interface ------------------------------
(***************************************************************************)
(* The window of the desktop program: the node editor, the inspector, the  *)
(* model panel, the viewport and the commands, which all edit one document *)
(* (node_editor.rs, design_panel.rs, viewport.rs, commands.rs and the      *)
(* frame of app.rs).  A frame begins with what was pulled, shows the       *)
(* panels, rebuilds the scene if it must and shows the viewport; then come *)
(* the dialogs and the commands.  One event of the user falls in a frame.  *)
(* Drags go on across frames, whatever else changes the document meanwhile.*)
(***************************************************************************)
EXTENDS Document

CONSTANTS
  Palette,    \* of each kind: the ports it takes and needs, the kinds that
              \* fit them and whether its value can be drawn
  Slider, Merge, \* the kinds that a panel and a command add by themselves
  Commands,   \* the commands: kind of the result, operands, hides them or not
  Settings,   \* the values a slider or a text can be given
  Hide, Show, \* of each value, the same with the preview switched off or on
  Sessions,   \* the documents a session starts with
  MaxUndo     \* bound on the edits not committed

Operands == {"none", "each", "pair", "all"}

ASSUME InterfaceAssumption ==
  /\ Palette \in [Kind -> [takes : SUBSET Port, needs : SUBSET Port,
                           fits : SUBSET Kind, draws : BOOLEAN]]
  /\ {Slider, Merge} \subseteq Kind /\ Settings \subseteq Value
  /\ Hide \in [Value \cup {Unset} -> Value] /\ Show \in [Value -> Value]
  /\ Unset \notin Value /\ \A v \in Value \cup {Unset} : Hide[Hide[v]] = Hide[v]
  /\ Commands \subseteq [result : Kind, operands : Operands, hides : BOOLEAN]
  /\ Pos \subseteq Int /\ \E p \in Pos : \A q \in Pos : q <= p
  /\ NodeId \subseteq Int /\ IsFiniteSet(NodeId) /\ {1, 2} \subseteq Port
  /\ MaxUndo \in Nat

(* A session starts with a document that opens, at its head. *)
ASSUME SessionsAssumption ==
  \A s \in Sessions :
    /\ s.chain \in Seq(Block) /\ s.pending \in Seq(GraphOp) /\ s.recovery \in Seq(GraphOp)
    /\ Restored(s) # Refused /\ s.view = Latest

VARIABLES
  phase,      \* where the frame is
  selection,  \* the nodes selected, the ones that are gone included
  pointer,    \* what the pressed pointer drags
  canvas,     \* the box or the pan begun on the empty canvas
  wire,       \* the node a wire is drawn from
  evaluated,  \* the graph the last evaluation was of
  drawn,      \* the graph and the selection the scene was built of
  before      \* the graph before the last user edit, and which edit it was

hands == <<pointer, canvas, wire>>
shown == <<evaluated, drawn>>
document == <<ledger, history, graph, gesture, viewing, screen, revised>>
interface == <<phase, selection, hands, shown, before>>

None == [none |-> TRUE]
Pan == [mode |-> "pan"]
Box(nodes, additive) == [mode |-> "select", before |-> nodes, additive |-> additive]

At(p) == phase = p
Then(p) == phase' = p

-----------------------------------------------------------------------------
(* Components and their evaluation.                                         *)

Fits(g, a, b) == g.nodes[a].kind \in Palette[g.nodes[b].kind].fits

(* An input that is needed has no wire, or one of another kind of value. *)
Misfed(g, n) ==
  \/ \E p \in Palette[g.nodes[n].kind].needs : IncomingAt(g, <<n, p>>) = {}
  \/ \E e \in Incoming(g, n) : ~Fits(g, e.from[1], n)

(* A node has no value if one it depends on has none. *)
NoValue(g, n) == \E m \in Nodes(g) : Misfed(g, m) /\ Reaches(g, m, n)

(* Mutant: the wires count, not the features they come from. *)
RemainingWires(g) == [n \in Nodes(g) |-> Cardinality(Incoming(g, n))]

Sources(g, n) == {e.from[1] : e \in Incoming(g, n)}
Consumers(g, n) == {e.to[1] : e \in {f \in g.edges : f.from[1] = n}}

(* The nodes by id. *)
Sorted(nodes) ==
  [i \in 1..Cardinality(nodes) |->
     CHOOSE n \in nodes : Cardinality({m \in nodes : m < n}) = i - 1]

(* The features each one still waits for. *)
Remaining(g) == [n \in Nodes(g) |-> Cardinality(Sources(g, n))]

(* Topology::refresh: the features in the order of their dependencies, the
   least of the ready ones first, and their depth. *)
NoneOrdered(g) ==
  LET waits == Remaining(g)
  IN [order |-> << >>, depth |-> [n \in Nodes(g) |-> 0], waits |-> waits,
      ready |-> {n \in Nodes(g) : waits[n] = 0}]

LeastOrdered(g, t) ==
  LET id == Min(t.ready)
      fed == Consumers(g, id)
      left == [n \in Nodes(g) |-> IF n \in fed THEN t.waits[n] - 1 ELSE t.waits[n]]
  IN [order |-> Append(t.order, id),
      depth |-> [n \in Nodes(g) |->
                   IF n \in fed THEN Max({t.depth[n], t.depth[id] + 1}) ELSE t.depth[n]],
      waits |-> left,
      ready |-> (t.ready \ {id}) \cup {n \in fed : left[n] = 0}]

AllOrdered(g) ==
  LET after[i \in 0..Cardinality(Nodes(g))] ==
        IF i = 0 THEN NoneOrdered(g)
        ELSE IF after[i - 1].ready = {} THEN after[i - 1] ELSE LeastOrdered(g, after[i - 1])
  IN after[Cardinality(Nodes(g))]

(* The ones left over, in a cycle, come last. *)
Topology(g) ==
  LET last == AllOrdered(g)
      over == Nodes(g) \ {last.order[i] : i \in DOMAIN last.order}
  IN [order |-> last.order \o Sorted(over), depth |-> last.depth]

-----------------------------------------------------------------------------

(* A session starts with a document. *)
Opens(s) ==
  /\ chain = s.chain /\ pending = s.pending /\ recovery = s.recovery
  /\ view = s.view /\ viewGraph = Working /\ graph = Restored(s)
  /\ undo = << >> /\ redo = << >> /\ gesture = Still
  /\ evalDirty = TRUE /\ sceneDirty = TRUE /\ revised = FALSE
  /\ phase = "begin"
  /\ selection = {} /\ pointer = "up" /\ canvas = None /\ wire = None
  /\ evaluated = Shape(EmptyGraph) /\ drawn = [shape |-> Shape(EmptyGraph), selected |-> {}]
  /\ before = None

InterfaceInit == \E s \in Sessions : Opens(s)

(* The graph before the edit Undo would take back. *)
NoteEdit ==
  before' =
    IF chain' # chain THEN None
    ELSE IF Len(SettledUndo') > Len(SettledUndo)
         THEN [graph |-> graph, edits |-> Len(SettledUndo')]
    ELSE IF before # None /\ Len(SettledUndo') < before.edits THEN None ELSE before

(* Document::apply_ops: a batch refused leaves everything as it was. *)
ApplyBatch(ops) ==
  IF ApplyAll(graph, ops) = Refused \/ ops = << >> THEN UNCHANGED document
  ELSE ApplyOps(ops)

FreshIds == Sorted(NodeId \ Nodes(graph))

Hidden(v) == v # Unset /\ Hide[v] = v
HideNode(n) == SetParam(n, Hide[graph.nodes[n].value])

(* A node that shows its value hides it, and the other way round. *)
Toggled(n) ==
  LET v == graph.nodes[n].value IN IF Hidden(v) THEN Show[v] ELSE Hide[v]

(* Selecting a node, alone or added to or taken from the others. *)
Picked(n, additive) ==
  IF ~additive THEN {n} ELSE IF n \in selection THEN selection \ {n} ELSE selection \cup {n}

(* A wire whose source is not on the canvas any more is dropped. *)
HoldWire == wire' = IF wire # None /\ wire.from \notin Nodes(Displayed) THEN None ELSE wire

EndParamDrag == gesture.kind = "param" /\ EndGesture
EndMove == IF gesture.kind = "move" THEN EndGesture ELSE UNCHANGED document

(* A frame: what was pulled is merged by now, and the document evaluated. *)
Begin ==
  /\ At("begin") /\ Then("panels")
  /\ IF evalDirty THEN Evaluate /\ evaluated' = Shape(Displayed)
                  ELSE UNCHANGED <<document, evaluated>>
  /\ UNCHANGED <<selection, hands, drawn, before>>

(* An event of the user in the panels and the node editor. *)
Event == At("panels") /\ Then("draw") /\ UNCHANGED shown

(* It leaves the pointer and the box alone. *)
Held == UNCHANGED <<pointer, canvas>> /\ HoldWire

(* It only selects; it only edits. *)
Selects == Event /\ UNCHANGED <<document, before>>
UserEdit(ops) == Event /\ Editable /\ ApplyBatch(ops) /\ NoteEdit

NoEvent == Selects /\ Held /\ UNCHANGED selection

-----------------------------------------------------------------------------
(* The model panel, the inspector and the widgets of the nodes.             *)

(* A feature of the model panel, the source of an input in the inspector, or
   a node clicked in the editor. *)
SelectNode(n, additive) ==
  /\ Selects /\ Held /\ pointer = "up" /\ n \in Nodes(Displayed)
  /\ selection' = Picked(n, additive)

(* The eye of a node, the checkbox of a feature. *)
SetPreview(n) ==
  /\ pointer = "up" /\ n \in Nodes(graph) /\ Palette[graph.nodes[n].kind].draws
  /\ UserEdit(<<SetParam(n, Toggled(n))>>) /\ Held
  /\ UNCHANGED selection

(* A frame of a slider dragged, or a letter typed into its label. *)
DragValue(n, v) ==
  /\ Event /\ pointer \in {"up", "value"} /\ v \in Settings
  /\ n \in Nodes(Displayed) /\ Displayed.nodes[n].kind = Slider
  /\ Editable /\ graph.nodes[n].value # v /\ ParamDrag(n, v) /\ NoteEdit
  /\ pointer' \in {"up", "value"}
  /\ UNCHANGED <<selection, canvas>> /\ HoldWire

(* The slider is let go, or the focus leaves the text. *)
LeaveValue ==
  /\ Event /\ EndParamDrag /\ NoteEdit
  /\ pointer \in {"up", "value"} /\ pointer' = "up"
  /\ UNCHANGED <<selection, canvas>> /\ HoldWire

(* The node the inspector shows. *)
Inspected ==
  LET there == selection \cap Nodes(Displayed)
  IN IF there = {} THEN None ELSE [node |-> Min(there)]

(* An input that has its default is given a value: a slider is wired to it.
   The drag or the text in flight ends first. *)
EditDefault(p, v) ==
  /\ Inspected # None /\ Editable /\ FreshIds # << >> /\ pointer = "up"
  /\ v \in Settings
  /\ LET n == Inspected.node
         kind == graph.nodes[n].kind
     IN /\ p \in Palette[kind].takes \ Palette[kind].needs
        /\ Slider \in Palette[kind].fits
        /\ IncomingAt(graph, <<n, p>>) = {}
        /\ UserEdit(<<AddNode(FreshIds[1], Slider, graph.nodes[n].pos), SetParam(FreshIds[1], v),
                   Connect(<<FreshIds[1], 1>>, <<n, p>>)>>)
  /\ Held /\ UNCHANGED selection

(* The chain panel, the buttons of the top bar and the keys of Undo and Redo. *)
ViewBlock(i) ==
  /\ Event /\ SetView(i) /\ pointer = "up" /\ Held /\ NoteEdit /\ UNCHANGED selection
Undo ==
  /\ Event /\ SettledUndo # << >> /\ UndoPending
  /\ Held /\ NoteEdit /\ UNCHANGED selection
Redo ==
  /\ Event /\ redo # << >> /\ RedoPending
  /\ Held /\ NoteEdit /\ UNCHANGED selection

-----------------------------------------------------------------------------
(* The canvas of the node editor.                                           *)

PressCanvas(mode) ==
  /\ Selects /\ pointer = "up" /\ wire = None
  /\ canvas' = mode /\ pointer' = "canvas"
  /\ UNCHANGED <<selection, wire>>

(* The box is worked out anew from the nodes selected when it was begun. *)
Boxed(hit) == (IF canvas.additive THEN canvas.before ELSE {}) \cup hit

(* A frame of the box, the last one when the pointer is let go. *)
DragBox(hit) ==
  /\ Selects /\ pointer = "canvas" /\ hit \subseteq Nodes(Displayed)
  /\ selection' = IF canvas.mode = "select" THEN Boxed(hit) ELSE selection
  /\ \/ UNCHANGED <<pointer, canvas>>
     \/ pointer' = "up" /\ canvas' = None
  /\ HoldWire

(* Escape, or the window that loses the focus, takes the box back; the pointer
   stays pressed and has nothing to drag any more. *)
CancelBox ==
  /\ Selects /\ canvas # None
  /\ selection' = IF canvas.mode = "select" THEN canvas.before ELSE selection
  /\ canvas' = None /\ pointer' \in {"up", "spent"}
  /\ HoldWire

(* Escape, if a wire or a selection is all there is to give up.  (A menu of
   components that is open is closed first.) *)
Escape ==
  /\ Selects /\ canvas = None
  /\ \/ wire # None /\ wire' = None /\ UNCHANGED selection
     \/ wire = None /\ selection' = {} /\ UNCHANGED wire
  /\ UNCHANGED <<pointer, canvas>>

ClickCanvas ==
  /\ Selects /\ pointer = "up"
  /\ selection' = {}
  /\ HoldWire /\ UNCHANGED <<pointer, canvas>>

(* A component of the menu is added and selected. *)
ChooseComponent(k) ==
  /\ FreshIds # << >> /\ pointer = "up"
  /\ UserEdit(<<AddNode(FreshIds[1], k, Max(Pos))>>) /\ Held
  /\ selection' = {FreshIds[1]}

(* The press that starts to drag a node, and all the others selected. *)
PressNode(n, shift) ==
  /\ Event /\ pointer = "up" /\ Editable /\ n \in Nodes(graph)
  /\ selection' = IF n \in selection THEN selection
                  ELSE IF shift THEN selection \cup {n} ELSE {n}
  /\ BeginMove(selection') /\ NoteEdit
  /\ pointer' = "node" /\ HoldWire /\ UNCHANGED canvas

(* move_live of every node selected: those the drag began with. *)
MovedBy(d) ==
  IF gesture.kind # "move" THEN {}
  ELSE {n \in selection \cap Nodes(graph) \cap DOMAIN gesture.start :
          graph.nodes[n].pos + d \in Pos}

DragNodes(d) ==
  /\ Event /\ pointer = "node" /\ Editable
  /\ graph' = [graph EXCEPT !.nodes = [n \in Nodes(graph) |->
       IF n \in MovedBy(d) THEN [graph.nodes[n] EXCEPT !.pos = @ + d] ELSE graph.nodes[n]]]
  /\ UNCHANGED <<ledger, history, gesture, viewing, screen, revised, selection>>
  /\ NoteEdit /\ Held

ReleaseNode ==
  /\ Event /\ pointer = "node"
  /\ EndMove /\ NoteEdit
  /\ pointer' = "up" /\ HoldWire /\ UNCHANGED <<selection, canvas>>

ReleaseSpent ==
  /\ Selects /\ pointer = "spent" /\ pointer' = "up"
  /\ HoldWire /\ UNCHANGED <<selection, canvas>>

(* An input that is wired lets its wire go to be drawn elsewhere. *)
GrabInput(n, p) ==
  /\ pointer = "up" /\ Editable
  /\ \E e \in IncomingAt(graph, <<n, p>>) :
       UserEdit(<<Disconnect(e.from, e.to)>>) /\ wire' = [from |-> e.from[1]]
  /\ pointer' = "port" /\ UNCHANGED <<selection, canvas>>

GrabOutput(n) ==
  /\ Selects /\ pointer = "up" /\ Editable /\ n \in Nodes(graph)
  /\ wire' = [from |-> n] /\ pointer' = "port" /\ UNCHANGED <<selection, canvas>>

(* The wire is let go over an input that its kind fits, or anywhere else.
   After Escape the pointer holds no wire any more. *)
DropWire(n, p) ==
  /\ pointer = "port" /\ n \in Nodes(Displayed) /\ p \in Palette[Displayed.nodes[n].kind].takes
  /\ \/ /\ wire # None /\ Editable /\ wire.from \in Nodes(graph) /\ Fits(graph, wire.from, n)
        /\ Event
        /\ \/ ApplyOps(<<Connect(<<wire.from, 1>>, <<n, p>>)>>)
           \/ ~Accepts(graph, Connect(<<wire.from, 1>>, <<n, p>>)) /\ UNCHANGED document
        /\ NoteEdit
     \/ Selects
  /\ wire' = None /\ pointer' = "up" /\ UNCHANGED <<selection, canvas>>

(* Delete: the selection is given up, and removed as one edit or, if a node
   of it is gone, not at all. *)
Delete ==
  /\ selection # {} /\ UserEdit([i \in 1..Cardinality(selection) |->
                              RemoveNode(Sorted(selection)[i])])
  /\ selection' = {} /\ Held

-----------------------------------------------------------------------------
(* The viewport.                                                            *)

(* Mutant: other nodes selected do not build the scene again. *)
RebuildWhenDirty ==
  /\ At("draw") /\ Then("viewport")
  /\ IF sceneDirty
     THEN /\ evaluated' = IF evalDirty THEN Shape(Displayed) ELSE evaluated
          /\ drawn' = [shape |-> evaluated', selected |-> selection]
          /\ evalDirty' = FALSE /\ sceneDirty' = FALSE
     ELSE UNCHANGED <<screen, shown>>
  /\ UNCHANGED <<ledger, history, graph, gesture, viewing, revised>>
  /\ UNCHANGED <<selection, hands, before>>

(* The scene is built again if the document asks for it or other nodes are
   selected. *)
Rebuild ==
  /\ At("draw") /\ Then("viewport")
  /\ IF sceneDirty \/ selection # drawn.selected
     THEN /\ evaluated' = IF evalDirty THEN Shape(Displayed) ELSE evaluated
          /\ drawn' = [shape |-> evaluated', selected |-> selection]
          /\ evalDirty' = FALSE /\ sceneDirty' = FALSE
     ELSE UNCHANGED <<screen, shown>>
  /\ UNCHANGED <<ledger, history, graph, gesture, viewing, revised>>
  /\ UNCHANGED <<selection, hands, before>>

(* What can be picked: the nodes of the scene whose value is drawn. *)
InScene == {n \in DOMAIN drawn.shape.nodes :
              /\ Palette[drawn.shape.nodes[n][1]].draws
              /\ ~Hidden(drawn.shape.nodes[n][2])}

(* A click in the viewport, on a node or beside them all, or none. *)
Pick ==
  \/ UNCHANGED selection
  \/ \E n \in InScene, additive \in BOOLEAN :
       pointer = "up" /\ selection' = Picked(n, additive)
  \/ pointer = "up" /\ selection' = {}

(* A drag or a text with neither pointer nor focus left on it has ended. *)
Viewport ==
  /\ At("viewport") /\ Then("tools") /\ Pick
  /\ \/ pointer = "up" /\ EndGesture
     \/ UNCHANGED document
  /\ NoteEdit /\ UNCHANGED <<hands, shown>>

-----------------------------------------------------------------------------
(* The commands.                                                            *)

(* The nodes selected, from top to bottom and from left to right. *)
Above(a, b) ==
  \/ graph.nodes[a].pos < graph.nodes[b].pos
  \/ graph.nodes[a].pos = graph.nodes[b].pos /\ a < b
Ordered(nodes) ==
  [i \in 1..Cardinality(nodes) |->
     CHOOSE n \in nodes : Cardinality({m \in nodes : Above(m, n)}) = i - 1]

(* The nodes that merge the operands, two by two, into one list. *)
Merging(from, new) ==
  [i \in 1..Len(from) - 1 |->
     <<AddNode(new[i], Merge, Max(Pos)),
       Connect(<<IF i = 1 THEN from[1] ELSE new[i - 1], 1>>, <<new[i], 1>>),
       Connect(<<from[i + 1], 1>>, <<new[i], 2>>), SetParam(new[i], Hide[Unset])>>]

(* For each result of a command, the operands wired to it. *)
Feeding(c, from) ==
  CASE c.operands = "none" -> << << >> >>
    [] c.operands = "each" -> [i \in DOMAIN from |-> <<from[i]>>]
    [] c.operands = "pair" -> <<from>>
    [] c.operands = "all"  ->
         << <<IF Len(from) = 1 THEN from[1] ELSE FreshIds[Len(from) - 1]>> >>

Results(c, from) == IF c.operands = "each" THEN Len(from) ELSE 1
Merges(c, from) == IF c.operands = "all" THEN Len(from) - 1 ELSE 0
ResultId(c, from, i) == FreshIds[Merges(c, from) + i]

(* The recipe of a command: one batch that adds the nodes, wires them and
   hides the operands that the result takes the place of. *)
Recipe(c, from) ==
  LET into == Feeding(c, from)
      making(i) ==
        LET id == ResultId(c, from, i)
        IN <<AddNode(id, c.result, Max(Pos))>> \o
           [p \in DOMAIN into[i] |-> Connect(<<into[i][p], 1>>, <<id, p>>)]
  IN (IF c.operands = "all" THEN FlattenSeq(Merging(from, FreshIds)) ELSE << >>)
     \o FlattenSeq([i \in DOMAIN into |-> making(i)])
     \o (IF c.hides THEN [i \in DOMAIN from |-> HideNode(from[i])] ELSE << >>)

(* The operands are there and as many as the command takes. *)
Takes(c, nodes) ==
  c.operands # "none" =>
    /\ nodes # {} /\ nodes \subseteq Nodes(graph)
    /\ c.operands = "pair" => Cardinality(nodes) = 2

(* A recipe is tried on a copy of the graph: all of it applies, and no node
   it adds fails. *)
Works(ops) ==
  LET after == ApplyAll(graph, ops)
  IN after # Refused /\ \A n \in Nodes(after) \ Nodes(graph) : ~NoValue(after, n)

(* Execute, from the palette.  A command refused changes nothing. *)
Command(c) ==
  /\ At("tools") /\ Then("begin") /\ Editable /\ Takes(c, selection)
  /\ LET from == IF c.operands = "none" THEN << >> ELSE Ordered(selection)
     IN /\ Merges(c, from) + Results(c, from) <= Len(FreshIds)
        /\ Works(Recipe(c, from))
        /\ ApplyOps(Recipe(c, from))
        /\ selection' = {ResultId(c, from, i) : i \in 1..Results(c, from)}
  /\ NoteEdit /\ UNCHANGED <<hands, shown>>

(* The dialogs, and what the synchronization pulled when the frame ends. *)
Elsewhere ==
  /\ At("tools") /\ Then("begin")
  /\ \/ \E ops \in Pulled : MergeRemote(ops)
     \/ RetryRecovery \/ ClearRecovery
     \/ UNCHANGED document
  /\ NoteEdit /\ UNCHANGED <<selection, hands, shown>>

-----------------------------------------------------------------------------

Hands ==
  \/ \E nodes \in {selection}, additive \in BOOLEAN : PressCanvas(Box(nodes, additive))
  \/ PressCanvas(Pan)
  \/ \E hit \in SUBSET Nodes(Displayed) : DragBox(hit)
  \/ CancelBox \/ Escape \/ ClickCanvas
  \/ \E k \in Kind : ChooseComponent(k)
  \/ \E n \in NodeId, shift \in BOOLEAN : PressNode(n, shift)
  \/ \E d \in {-1, 1} : DragNodes(d)
  \/ ReleaseNode \/ ReleaseSpent
  \/ \E n \in NodeId, p \in Port : GrabInput(n, p) \/ DropWire(n, p)
  \/ \E n \in NodeId : GrabOutput(n)
  \/ Delete

InterfaceNext ==
  \/ Begin \/ NoEvent
  \/ \E n \in NodeId, additive \in BOOLEAN : SelectNode(n, additive)
  \/ \E n \in NodeId : SetPreview(n)
  \/ \E n \in NodeId, v \in Value : DragValue(n, v)
  \/ LeaveValue
  \/ \E p \in Port, v \in Value : EditDefault(p, v)
  \/ \E i \in 0..MaxBlocks : ViewBlock(i)
  \/ Undo \/ Redo
  \/ Hands
  \/ Rebuild \/ Viewport
  \/ \E c \in Commands : Command(c)
  \/ Elsewhere

interfaceVars == <<document, interface>>

InterfaceSpec == InterfaceInit /\ [][InterfaceNext]_interfaceVars

-----------------------------------------------------------------------------
(* Properties.                                                              *)

(* One Undo takes back one edit of the user, however many operations it was:
   a drag, a command with the operands it hides, a slider wired to an input,
   the nodes deleted together.  Drags that an edit, a merge or the loss of
   the focus cut short count as edits of their own. *)
OneUndoStep ==
  before # None /\ before.edits = Len(SettledUndo) =>
    ApplyAll(Committed, SubSeq(Settled, 1, Last(SettledUndo))) = before.graph

(* A click in the viewport meets the model as it is: the scene was built of
   the graph displayed, edited or seen at a block of the history, with the
   nodes selected, after whatever the frame and a merge changed. *)
DrawnIsCurrent ==
  phase = "viewport" => drawn = [shape |-> Shape(Displayed), selected |-> selection]

(* The longest way to a feature. *)
Longest(g, n) ==
  Max({k \in 0..Cardinality(Nodes(g)) - 1 :
         \E path \in [0..k -> Nodes(g)] :
           path[k] = n /\ \A i \in 1..k : path[i - 1] \in Sources(g, path[i])})

(* The model panel lists every feature once, after all it depends on, and as
   deep as the longest way to it, with features that share a source and wires
   that share both ends (Topology::refresh). *)
FeaturesInOrder ==
  phase = "panels" =>
    LET t == Topology(Displayed)
        at(n) == CHOOSE i \in DOMAIN t.order : t.order[i] = n
    IN /\ Len(t.order) = Cardinality(Nodes(Displayed))
       /\ {t.order[i] : i \in DOMAIN t.order} = Nodes(Displayed)
       /\ \A e \in Displayed.edges : at(e.from[1]) < at(e.to[1])
       /\ \A n \in Nodes(Displayed) : t.depth[n] = Longest(Displayed, n)
=============================================================================
