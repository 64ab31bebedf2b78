-------------------------------- MODULE History --------------------------------
(***************************************************************************)
(* What the tools make of an evaluated graph: mantis_history compares two  *)
(* revisions, the viewport draws one (viewport.rs), mantis-cli replays one *)
(* (replay.rs) and the desktop program exports one (cad_io.rs).  Each      *)
(* walks the lists in the outputs with code of its own.                    *)
(*                                                                         *)
(* An output is a tree: a list, or a leaf with its kind, the fingerprint   *)
(* of its exact definition, whether its measures are finite numbers,       *)
(* whether GeometryRecord::validate accepts it, and its size in a file.    *)
(***************************************************************************)
EXTENDS Evaluator
LOCAL INSTANCE SequencesExt
LOCAL INSTANCE FiniteSetsExt

CONSTANTS
  Shape,     \* the tree of each value
  Hiding,    \* the parameters that switch a node's preview off
  Drawable,  \* the kinds with an output that may be geometry
  MaxDepth,  \* how deep the viewport and the comparison follow lists
  Import,    \* imported_geometry: its output is the record in its parameter
  ExportDepth, MaxObjects, MaxBytes  \* what one export may hold

ASSUME HistoryAssumption ==
  /\ {MaxDepth, ExportDepth, MaxObjects, MaxBytes} \subseteq Nat
  /\ Hiding \subseteq Value /\ Drawable \cup {Import} \subseteq Kind

IsList(v)     == v.kind = "list"
IsGeometry(v) == v.kind \in {"point", "curve", "mesh"}

MetricsAreFinite(leaf) == leaf.finite

Preview(g, n) == g.nodes[n].value \notin Hiding

(* The evaluation a tool makes for itself, with the standard components. *)
Own(g) ==
  INSTANCE Evaluator WITH given <- g, registry <- Standard, cache <- << >>, dirtyAll <- TRUE,
    out <- << >>, current <- FALSE

Results(g) == Own(g)!Pass.results

Shown(g, results) == {n \in Nodes(g) : Preview(g, n) /\ HasOutput(results[n])}

-----------------------------------------------------------------------------
(* mantis_history.                                                           *)

NoGeometry == [objects |-> {}, truncated |-> 0]
Both(a, b) == [objects |-> a.objects \cup b.objects, truncated |-> a.truncated + b.truncated]

(* collect_geometry_value: an object's id is its node and its path. *)
RECURSIVE Collected(_, _, _, _)
Collected(node, v, path, depth) ==
  CASE IsList(v) /\ depth < MaxDepth ->
         FoldLeftDomain(LAMBDA all, i : Both(all, Collected(node, v.items[i], Append(path, i), depth + 1)),
                        NoGeometry, v.items)
    [] IsList(v) /\ depth >= MaxDepth -> [NoGeometry EXCEPT !.truncated = 1]
    [] IsGeometry(v) -> [NoGeometry EXCEPT !.objects = {[node |-> node, path |-> path, leaf |-> v]}]
    [] OTHER -> NoGeometry

Id(object) == <<object.node, object.path>>

(* A kind the registry does not have may draw what it likes. *)
MayDraw(kind) == Standard[kind] = Unknown \/ kind \in Drawable

(* evaluate_geometry. *)
Geometry(g) ==
  LET results == Results(g)
      found   == FoldSet(LAMBDA n, all : Both(all, Collected(n, Shape[results[n].value], << >>, 0)),
                         NoGeometry, Shown(g, results))
  IN [objects   |-> found.objects,
      truncated |-> found.truncated,
      errors    |-> {n \in Nodes(g) : /\ ~HasOutput(results[n])
                                      /\ Preview(g, n) /\ MayDraw(g.nodes[n].kind)},
      invalid   |-> {o \in found.objects : ~MetricsAreFinite(o.leaf)}]

Complete(geometry) == geometry.errors = {} /\ geometry.truncated = 0 /\ geometry.invalid = {}

Fingerprint(object) == <<object.leaf.kind, object.leaf.print>>

(* scene_fingerprint: how often each fingerprint occurs, whoever drew it. *)
Tally(objects) ==
  [p \in {Fingerprint(o) : o \in objects} |-> Cardinality({o \in objects : Fingerprint(o) = p})]

(* The nodes in both that differ; a new position alone has no meaning. *)
Modified(before, after) ==
  {[id |-> n, node |-> after.nodes[n],
    semantic |-> \/ before.nodes[n].kind # after.nodes[n].kind
                 \/ before.nodes[n].value # after.nodes[n].value] :
     n \in {m \in Nodes(before) \cap Nodes(after) : before.nodes[m] # after.nodes[m]}}

(* diff_graphs. *)
Definition(before, after) ==
  [addedNodes   |-> {<<n, after.nodes[n]>> : n \in Nodes(after) \ Nodes(before)},
   removedNodes |-> Nodes(before) \ Nodes(after),
   modified     |-> Modified(before, after),
   addedWires   |-> after.edges \ before.edges,
   removedWires |-> before.edges \ after.edges]

IsEmpty(d) ==
  /\ d.addedNodes = {} /\ d.removedNodes = {} /\ d.modified = {}
  /\ d.addedWires = {} /\ d.removedWires = {}

HasSemanticChanges(d) ==
  \/ d.addedNodes # {} \/ d.removedNodes # {} \/ d.addedWires # {} \/ d.removedWires # {}
  \/ \E m \in d.modified : m.semantic

(* Mutant: what could not be evaluated counts as unchanged. *)
StatusOfScene(before, after, definitionsMatch) ==
  IF Tally(before.objects) # Tally(after.objects) THEN "changed" ELSE "unchanged"

(* The status of diff_geometry. *)
Status(before, after, definitionsMatch) ==
  CASE Tally(before.objects) # Tally(after.objects) -> "changed"
    [] Tally(before.objects) = Tally(after.objects) /\ definitionsMatch -> "unchanged"
    [] OTHER -> IF Complete(before) /\ Complete(after) THEN "unchanged" ELSE "incomplete"

(* classify. *)
Classification(definition, status) ==
  CASE status = "incomplete" -> "incomplete"
    [] status = "changed"    -> "geometry changed"
    [] OTHER -> IF HasSemanticChanges(definition) THEN "definition only"
                ELSE IF ~IsEmpty(definition) THEN "layout only" ELSE "no effect"

(* compare_revisions, of two revisions that replay to before and after. *)
Comparison(before, after) ==
  LET d == Definition(before, after)
      a == Geometry(before)
      b == Geometry(after)
      At(geometry, id) == CHOOSE o \in geometry.objects : Id(o) = id
      Ids(geometry) == {Id(o) : o \in geometry.objects}
  IN [definition |-> d,
      before     |-> a, after |-> b,
      added      |-> {o \in b.objects : Id(o) \notin Ids(a)},
      removed    |-> {o \in a.objects : Id(o) \notin Ids(b)},
      modified   |-> {<<At(a, id), At(b, id)>> :
                        id \in {i \in Ids(a) \cap Ids(b) : Fingerprint(At(a, i)) # Fingerprint(At(b, i))}},
      verdict    |-> Classification(d, Status(a, b, IsEmpty(d)))]

-----------------------------------------------------------------------------
(* The other tools: the leaves each finds, in the order of its walk.         *)

RECURSIVE LeavesShort(_, _, _)
(* Mutant: lists are followed one step less. *)
LeavesShort(v, depth, limit) ==
  CASE IsList(v) /\ depth + 1 < limit ->
         FlattenSeq([i \in DOMAIN v.items |-> LeavesShort(v.items[i], depth + 1, limit)])
    [] IsGeometry(v) -> <<v>>
    [] OTHER -> << >>

RECURSIVE Leaves(_, _, _)
Leaves(v, depth, limit) ==
  CASE IsList(v) /\ depth < limit ->
         FlattenSeq([i \in DOMAIN v.items |-> Leaves(v.items[i], depth + 1, limit)])
    [] IsGeometry(v) -> <<v>>
    [] OTHER -> << >>

RECURSIVE Depth(_)
Depth(v) == IF IsList(v) THEN 1 + Max({0} \cup {Depth(v.items[i]) : i \in DOMAIN v.items}) ELSE 0

InOrder(S) == SetToSortSeq(S, <)

(* collect_scene, of the results the document keeps. *)
Scene(g, results) ==
  LET nodes == InOrder(Shown(g, results))
  IN FlattenSeq([i \in DOMAIN nodes |->
       LET leaves == Leaves(Shape[results[nodes[i]].value], 0, MaxDepth)
       IN [j \in DOMAIN leaves |-> [node |-> nodes[i], leaf |-> leaves[j]]]])

(* replay_report's mesh_count: lists are followed to their ends. *)
MeshCount(g) ==
  LET results == Results(g)
      meshes(n) == LET v == Shape[results[n].value]
                   IN SelectSeq(Leaves(v, 0, Depth(v)), LAMBDA leaf : leaf.kind = "mesh")
  IN MapThenSumSet(LAMBDA n : Len(meshes(n)), Shown(g, results))

(* The records an export has gathered and the bytes it may still take, until
   something makes it refuse the whole. *)
Gathering == [records |-> << >>, left |-> MaxBytes, refused |-> FALSE]
Refusal   == [records |-> << >>, left |-> 0, refused |-> TRUE]

(* spend_geometry, before the leaf's record is made. *)
Spend(e, leaf) ==
  IF leaf.bytes > e.left THEN Refusal ELSE [e EXCEPT !.left = @ - leaf.bytes]
Written(e, leaf) ==
  IF e.refused THEN e ELSE [e EXCEPT !.records = Append(@, leaf)]

(* collect_value: geometry has a record, and nothing else. *)
RECURSIVE Gathered(_, _, _)
Gathered(e, v, depth) ==
  IF e.refused \/ depth > ExportDepth \/ Len(e.records) >= MaxObjects THEN Refusal
  ELSE IF IsList(v) THEN FoldLeft(LAMBDA f, item : Gathered(f, item, depth + 1), e, v.items)
  ELSE IF IsGeometry(v) THEN Written(Spend(e, v), v) ELSE Spend(e, v)

(* A node that fails is passed over, or ends an export it was chosen for.  An
   import's record is the one in its parameter, of whatever kind. *)
FromNode(e, g, results, n, chosen) ==
  IF e.refused \/ (chosen /\ ~HasOutput(results[n])) THEN Refusal
  ELSE IF ~HasOutput(results[n]) THEN e
  ELSE IF g.nodes[n].kind = Import
       THEN LET leaf == Shape[g.nodes[n].value] IN Written(Spend(e, leaf), leaf)
  ELSE Gathered(e, Shape[results[n].value], 0)

(* collect_records, of some nodes; CadFiles says what it makes of the settings
   they come with. *)
Records(g, results, nodes, chosen) ==
  LET all == FoldLeft(LAMBDA e, n : FromNode(e, g, results, n, chosen),
                      Gathering, InOrder(nodes))
  IN IF all.records = << >> \/ \E i \in DOMAIN all.records : ~all.records[i].valid
     THEN Refusal ELSE all

Exported(g, results) == Records(g, results, {n \in Nodes(g) : Preview(g, n)}, FALSE)
ExportedChoice(g, results, nodes) == Records(g, results, nodes, TRUE)

-----------------------------------------------------------------------------

(* Every pair of graphs the tools are asked about, once for each. *)
Asked == dirtyAll /\ registry = Standard

TallyOf(leaves) ==
  LET Place(p) == {i \in DOMAIN leaves : <<leaves[i].kind, leaves[i].print>> = p}
  IN [p \in {<<leaves[i].kind, leaves[i].print>> : i \in DOMAIN leaves} |-> Cardinality(Place(p))]

Drawn(g, results) == LET s == Scene(g, results) IN [i \in DOMAIN s |-> s[i].leaf]

View(g) ==
  LET results == Results(g)
  IN <<TallyOf(Drawn(g, results)),
       {n \in Nodes(g) : Preview(g, n) /\ MayDraw(g.nodes[n].kind) /\ ~HasOutput(results[n])}>>

(* A comparison that sees no change of the geometry is right about what a
   viewport draws for the two revisions, and about what fails to be drawn. *)
QuietMeansSameView ==
  Asked => (Comparison(Start, given).verdict \in {"no effect", "layout only", "definition only"}
              => View(Start) = View(given))

(* The document draws and exports from results it cached over many edits; a
   comparison or a replay evaluates afresh.  They find the same geometry,
   where no list is too deep to be drawn; an export that is not refused holds
   it all, with imported planes that nobody draws; and what is chosen for one
   is in it whole, shown or not. *)
ToolsFindTheSame ==
  current /\ registry = Standard =>
    LET drawn == Drawn(given, out)
        found == Geometry(given)
        Geometric(e) == TallyOf(SelectSeq(e.records, IsGeometry))
        Tree(n) == Shape[out[n].value]
    IN /\ TallyOf(drawn) = Tally(found.objects)
       /\ found.truncated = 0 =>
            /\ MeshCount(given) = Len(SelectSeq(drawn, LAMBDA leaf : leaf.kind = "mesh"))
            /\ LET e == Exported(given, out) IN ~e.refused => Geometric(e) = TallyOf(drawn)
       /\ \A chosen \in SUBSET Nodes(given) :
            LET e == ExportedChoice(given, out, chosen)
                in == InOrder(chosen)
            IN ~e.refused =>
                 /\ \A n \in chosen : HasOutput(out[n])
                 /\ Geometric(e) = TallyOf(FlattenSeq([i \in DOMAIN in |->
                                       Leaves(Tree(in[i]), 0, Depth(Tree(in[i])))]))
=============================================================================
