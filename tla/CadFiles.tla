------------------------------- MODULE CadFiles -------------------------------
(***************************************************************************)
(* Files of other programs and solid operations (cad_io.rs), started from  *)
(* the window of the desktop program.  A worker, with the CAD engine as a  *)
(* process of its own, takes as long as two minutes; meanwhile the user    *)
(* edits, looks at the history and switches to another workspace, and what *)
(* the worker brings back must still fit.                                  *)
(***************************************************************************)
EXTENDS Interface, Grasshopper

CONSTANTS
  Imported,   \* the kind of the nodes that hold imported geometry of other kinds
              \* than points and planes
  Documents,  \* the settings of imported documents: units, definitions
  Refer,      \* the parameter that names the panel with the settings
  Workspaces  \* the workspaces of the catalog

(* What a file holds: objects, points and planes or others, and the settings of
   their document, if it has any, or a definition. *)
Definition(def) == [holds |-> "definition", def |-> def]
Geometry(count, kind, settings) ==
  [holds |-> "geometry", count |-> count, kind |-> kind, settings |-> settings]

(* An object lists the sources of each input and what is stored in it. *)
ObjectOk(x) ==
  /\ x.inputs \in Seq(Seq(Nat \X Port)) /\ DOMAIN x.inputs \subseteq Port
  /\ x.stored \in Seq(Value) /\ Len(x.inputs) <= Len(x.stored)
  /\ x.type = "slider" => x.kind \in {SliderKind, ToggleKind}
FileOk(f) ==
  \/ /\ f.holds = "geometry" /\ f.count \in Nat
     /\ f.kind \in {Imported, PointKind} /\ f.settings \subseteq Documents
  \/ /\ f.holds = "definition" /\ Len(f.def) \in Nat /\ DOMAIN f.def = 1..Len(f.def)
     /\ \A o \in DOMAIN f.def : ObjectOk(f.def[o])

ASSUME CadFilesAssumption ==
  /\ Imported \in Kind /\ Documents \subseteq Value /\ IsFiniteSet(Documents)
  /\ Refer \in [NodeId -> Value]
  /\ \A s \in Sessions : \A f \in s.files : FileOk(f)

VARIABLES
  workspace,  \* the active one
  shelf,      \* each workspace as it was left
  files,      \* what the files to import hold
  job,        \* the job that runs, or None
  file,       \* what is at the path exported to
  jobs        \* bound on the jobs that are still started

cad == <<workspace, shelf, files, job, file, jobs>>

Absent == [absent |-> TRUE]
Other == [other |-> TRUE]
Failed == [holds |-> "failure"]
Saved == [holds |-> "export"]

(* Some workspaces hold copies of one project. *)
CadInit ==
  /\ \E s \in Sessions :
       /\ Opens(s)
       /\ files = s.files /\ jobs = s.jobs
       /\ shelf = [w \in s.copies |-> [snapshot |-> Snapshot, selection |-> {}]]
  /\ workspace = CHOOSE w \in DOMAIN shelf : TRUE
  /\ job = None /\ file = Absent

-----------------------------------------------------------------------------
(* The geometry that leaves the model.                                      *)

MadeFrom(g, nodes) ==
  {m \in Nodes(g) : \E n \in nodes \cap Nodes(g) : Reaches(g, m, n)}

(* The panel that an imported node names, there or not any more. *)
PanelOf(g, n) == {p \in NodeId : g.nodes[n].value \in {Refer[p], Hide[Refer[p]]}}

SettingsAt(g, n) == IF n \in Nodes(g) THEN {g.nodes[n].value} \cap Documents ELSE {}

(* Mutant: only the nodes that are exported are asked for their document. *)
InheritedDirectly(g, nodes) ==
  UNION {SettingsAt(g, p) : p \in UNION {PanelOf(g, n) : n \in nodes \cap Nodes(g)}}

(* inherited_document: the settings of all that the nodes depend on.  More
   than one, or none where a panel that is named is gone, is refused. *)
Inherited(g, nodes) ==
  LET up == MadeFrom(g, nodes)
      own == {n \in up : PanelOf(g, n) = {}}
  IN UNION {SettingsAt(g, p) : p \in own \cup UNION {PanelOf(g, n) : n \in up}}

PanelsThere(g, nodes) ==
  \A n \in MadeFrom(g, nodes) : \A p \in PanelOf(g, n) : SettingsAt(g, p) # {}

(* The nodes exported: those selected, or else those that are shown. *)
Chosen(g, selected) ==
  IF selected THEN selection \cap Nodes(g) ELSE {n \in Nodes(g) : ~Hidden(g.nodes[n].value)}

(* Of a selection all must have a value. *)
Objects(g, nodes) == {n \in nodes : Palette[g.nodes[n].kind].draws /\ ~NoValue(g, n)}
Collects(g, nodes, selected) ==
  /\ PanelsThere(g, nodes) /\ Cardinality(Inherited(g, nodes)) <= 1
  /\ Objects(g, nodes) # {}
  /\ selected => \A n \in nodes : ~NoValue(g, n)

(* The documents that a geometry derives from, by the operations that once
   imported them: undone, deleted or pulled over as they may be. *)
EverDone ==
  FlattenSeq([i \in DOMAIN chain |-> chain[i].ops]) \o Settled \o recovery \o FlattenSeq(redo)
CameFrom(g, nodes) ==
  UNION {{EverDone[i].value : i \in {j \in DOMAIN EverDone :
            EverDone[j].op = "SetParam" /\ EverDone[j].id = p}} \cap Documents
         : p \in UNION {PanelOf(g, n) : n \in MadeFrom(g, nodes)}}

(* What a worker is given: the objects of a graph and their settings, and,
   not in the code, the graph and the documents they derive from. *)
Collected(g, nodes) ==
  [objects |-> Objects(g, nodes), settings |-> Inherited(g, nodes),
   graph |-> g, from |-> CameFrom(g, Objects(g, nodes))]
(* A definition is given its points and planes as coordinates. *)
Defined(g) ==
  [objects |-> {}, settings |-> {}, graph |-> g,
   from |-> CameFrom(g, {n \in Nodes(g) : g.nodes[n].kind = PointKind})]
Nothing(g) == [objects |-> {}, settings |-> {}, graph |-> g, from |-> {}]

-----------------------------------------------------------------------------
(* Jobs.                                                                    *)

Started(context, payload, hide) ==
  [context |-> context, workspace |-> workspace, payload |-> payload, hide |-> hide,
   cancelled |-> FALSE, result |-> None]

(* A click in the window of files and solids, of which the frame has one.
   Collecting the geometry evaluates the document. *)
Click == At("tools") /\ Then("begin") 
         /\ UNCHANGED <<selection, hands, drawn, before, workspace, shelf, files, file>>

Collecting ==
  /\ evaluated' = IF evalDirty THEN Shape(Displayed) ELSE evaluated
  /\ evalDirty' = FALSE
  /\ UNCHANGED <<ledger, history, graph, gesture, viewing, sceneDirty, revised>>

(* One job at a time. *)
Start1(context, payload, hide) ==
  /\ job = None /\ jobs > 0
  /\ job' = Started(context, payload, hide) /\ jobs' = jobs - 1

ImportFile ==
  /\ Click /\ Editable /\ UNCHANGED <<document, evaluated>>
  /\ Start1("import", Nothing(graph), {})

ExportDefinition ==
  /\ Click /\ Exportable(Displayed) /\ UNCHANGED <<document, evaluated>>
  /\ Start1("definition", Defined(Displayed), {})

ExportGeometry(selected) ==
  /\ Click /\ Collecting
  /\ Collects(Displayed, Chosen(Displayed, selected), selected)
  /\ Start1("export", Collected(Displayed, Chosen(Displayed, selected)), {})

(* A solid by itself, or of the nodes selected, which it is to replace. *)
RunBrep(operands) ==
  /\ Click /\ Editable /\ Collecting
  /\ IF operands
     THEN /\ Collects(graph, Chosen(graph, TRUE), TRUE)
          /\ Start1("brep", Collected(graph, Chosen(graph, TRUE)), selection)
     ELSE Start1("brep", Nothing(graph), {})

(* A failure: no engine, no result within two minutes, an invalid one, the
   thread gone.  A job cancelled may still be done in time. *)
Brings(result) ==
  /\ job # None /\ job.result = None
  /\ job' = [job EXCEPT !.result = result]
  /\ UNCHANGED <<document, interface, workspace, shelf, files, jobs>>

Fail == Brings(Failed) /\ UNCHANGED file

Runs(contexts) == job # None /\ job.result = None /\ job.context \in contexts

ReadFile ==
  /\ Runs({"import"}) /\ UNCHANGED file
  /\ \E f \in files :
       /\ f.holds = "definition" => ImportGhx(f.def) # << >>
       /\ Brings(f)

(* A result of the engine is in millimeters and names no document; it may
   hold no object. *)
Solve ==
  /\ Runs({"brep"}) /\ UNCHANGED file
  /\ \E count \in {0, 1} : Brings(Geometry(count, Imported, {}))

(* A file there already is not written over.  An engine that is stopped may
   have written it. *)
WriteFile ==
  /\ Runs({"export", "definition"})
  /\ \E result \in {Saved, Failed} : Brings(result)
  /\ file = Absent /\ file' = job.payload

OtherFile ==
  /\ job # None /\ file = Absent /\ file' = Other
  /\ UNCHANGED <<document, interface, workspace, shelf, files, job, jobs>>

Cancel ==
  /\ Click /\ job # None /\ ~job.cancelled
  /\ job' = [job EXCEPT !.cancelled = TRUE]
  /\ UNCHANGED <<document, evaluated, jobs>>

-----------------------------------------------------------------------------
(* What comes back.                                                         *)

(* Ids that no operation ever named: they are random in the code. *)
Unused ==
  LET named == {EverDone[i].id : i \in {j \in DOMAIN EverDone : EverDone[j].op = "AddNode"}}
  IN Sorted(NodeId \ (Nodes(graph) \cup named))

(* insert_records: a panel with the settings, the objects, which name it, and
   the operands hidden; one edit. *)
Records(r) ==
  LET panel == Cardinality(r.settings)
      id(i) == Unused[panel + i]
  IN FlattenSeq([i \in 1..panel |-> <<AddNode(Unused[1], PanelKind, Max(Pos)),
                                     SetParam(Unused[1], CHOOSE d \in r.settings : TRUE)>>])
     \o FlattenSeq([i \in 1..r.count |->
          <<AddNode(id(i), r.kind, Max(Pos))>> \o
          (IF panel = 1 THEN <<SetParam(id(i), Refer[Unused[1]])>> ELSE << >>)])
     \o SetToSeq({HideNode(n) : n \in job.hide \cap Nodes(graph)})
RecordIds(r) == {Unused[Cardinality(r.settings) + i] : i \in 1..r.count}

(* insert_graph: a definition read under ids of its own, in the order it adds
   its nodes. *)
Adding(ops) == {i \in DOMAIN ops : ops[i].op = "AddNode"}
NewId(ops, n) ==
  LET first == CHOOSE i \in Adding(ops) : ops[i].id = n
  IN Unused[Cardinality({i \in Adding(ops) : i <= first})]
Renamed(ops) ==
  LET end(p) == <<NewId(ops, p[1]), p[2]>>
  IN [i \in DOMAIN ops |->
        IF ops[i].op = "Connect" THEN Connect(end(ops[i].from), end(ops[i].to))
        ELSE [ops[i] EXCEPT !.id = NewId(ops, @)]]
RenamedIds(ops) == {Unused[i] : i \in 1..Cardinality(Adding(ops))}

(* Mutant: a result enters whatever workspace is active. *)
WelcomeAnywhere ==
  /\ job.result.holds \in {"geometry", "definition"} /\ ~job.cancelled
  /\ job.context = "brep" => graph = job.payload.graph

(* poll: what is still welcome.  The code compares a digest of the graph. *)
Welcome ==
  /\ job.result.holds \in {"geometry", "definition"} /\ ~job.cancelled
  /\ job.context = "brep" => graph = job.payload.graph
  /\ job.workspace = workspace

(* The edit and the nodes it selects; refused while the history is viewed. *)
Insert(ops, ids) ==
  /\ Editable /\ Welcome /\ ops # << >>
  /\ ApplyOps(ops) /\ selection' = ids

Poll ==
  /\ At("tools") /\ Then("begin") /\ job # None /\ job.result # None
  /\ job' = None
  /\ LET r == job.result
     IN \/ /\ r.holds = "geometry" /\ r.count > 0
           /\ r.count + Cardinality(r.settings) <= Len(Unused)
           /\ Insert(Records(r), RecordIds(r))
        \/ /\ r.holds = "definition"
           /\ LET ops == ImportGhx(r.def)
              IN /\ Cardinality(Adding(ops)) <= Len(Unused)
                 /\ Insert(Renamed(ops), RenamedIds(ops))
        \/ /\ ~Editable \/ ~Welcome \/ (r.holds = "geometry" /\ r.count = 0)
           /\ UNCHANGED <<document, selection>>
  /\ NoteEdit /\ UNCHANGED <<hands, shown, workspace, shelf, files, file, jobs>>

(* switch_workspace: the document is put away and another one restored; the
   job goes on. *)
SwitchWorkspace(w) ==
  /\ At("tools") /\ Then("begin") /\ w # workspace /\ pointer = "up"
  /\ shelf' = [shelf EXCEPT ![workspace] =
       [snapshot |-> [Snapshot EXCEPT !.pending = Settled], selection |-> selection]]
  /\ workspace' = w
  /\ Restore(shelf[w].snapshot) /\ selection' = shelf[w].selection
  /\ before' = None
  /\ UNCHANGED <<hands, shown, files, job, file, jobs>>

-----------------------------------------------------------------------------

CadNext ==
  \/ InterfaceNext /\ UNCHANGED cad
  \/ ImportFile \/ ExportDefinition
  \/ \E b \in BOOLEAN : ExportGeometry(b) \/ RunBrep(b)
  \/ Fail \/ ReadFile \/ Solve \/ WriteFile \/ OtherFile
  \/ Cancel \/ Poll
  \/ \E w \in DOMAIN shelf : SwitchWorkspace(w)

cadVars == <<interfaceVars, cad>>

CadSpec == CadInit /\ [][CadNext]_cadVars

-----------------------------------------------------------------------------
(* Properties.                                                              *)

(* The part of a graph that some nodes are made of. *)
MadeOf(g, nodes) ==
  LET up == MadeFrom(g, nodes)
  IN [nodes |-> [n \in up |-> <<g.nodes[n].kind, g.nodes[n].value>>],
      edges |-> {e \in g.edges : e.to[1] \in up}]

(* What a job brings back enters the workspace it was started in, and a solid
   replaces the very operands it was computed from: not ones that an edit, an
   Undo, a merge or another workspace has changed since (poll). *)
ResultsMeetTheirModel ==
  [][job # None /\ job' = None /\ graph' # graph =>
       /\ job.workspace = workspace
       /\ MadeOf(graph, job.payload.objects) = MadeOf(job.payload.graph, job.payload.objects)
       /\ \A n \in job.payload.objects : Hidden(graph'.nodes[n].value)]_cadVars

(* What a job is given or has written. *)
Leaving == ({file} \ {Absent, Other}) \cup (IF job = None THEN {} ELSE {job.payload})

(* Geometry leaves with the settings of the document it was imported from,
   or not at all: through transforms, after Undo, deletions and merges, and
   never with those of another document (inherited_document). *)
UnitsFollowGeometry ==
  \A payload \in Leaving :
    payload.objects # {} => payload.from = {} \/ payload.from = payload.settings

(* The same of all that leaves, of the coordinates of imported points and
   planes in a definition too: "units and definition tables follow geometry
   through ordinary graph transforms" (cad_io.rs).  The export of definitions
   never asks for the document. *)
UnitsFollowCoordinates ==
  \A payload \in Leaving : payload.from = {} \/ payload.from = payload.settings

(* A definition is read as it is or left out: a node is imported if all it
   depends on is, and its inputs hold their sources in order, or the values
   stored, never a default of this program (import_ghx). *)
NothingGuessed ==
  job # None /\ job.result # None /\ job.result.holds = "definition"
      /\ Plain(job.result.def) =>
    ReadAsDefined(job.result.def)

(* The same of any definition: components and data structures that are not
   supported are reported (INTEROP.md), never silently replaced
   (grasshopper.rs).  An output that is reversed or grafted is read as if it
   were not, and sources that are not counted pass what would refuse them. *)
NothingIgnored ==
  job # None /\ job.result # None /\ job.result.holds = "definition" =>
    ReadAsDefined(job.result.def)

(* A model saved as a definition and read again is the same model, as far as
   its size and its numbers are ones that are read (export_ghx, import_ghx). *)
DefinitionsReadBack ==
  job # None /\ job.context = "definition" /\ job.result # None =>
    SurvivesRoundTrip(job.payload.graph)
=============================================================================
