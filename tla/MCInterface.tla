----------------------------- MODULE MCInterface -----------------------------
(* Sessions of three kinds: edits of a slider wired to a box; files and solids *)
(* beside geometry imported from a document in millimeters, in two workspaces; *)
(* Grasshopper definitions.                                                    *)
EXTENDS CadFiles, TLC

MCRefer == [n \in NodeId |-> "ref" \o ToString(n)]
MCHiddenRefer == [n \in NodeId |-> "hidden ref" \o ToString(n)]
MCSettings == {"low"}
MCDocuments == {"millimeters", "inches"}
MCValue ==
  {"low", "hidden", "shown", "cleared", "coordinates", "huge", "mixed"} \cup MCDocuments
    \cup {MCRefer[n] : n \in NodeId} \cup {MCHiddenRefer[n] : n \in NodeId}
(* The panel of an imported document is hidden when it is made, and stays so. *)
MCHide ==
  [v \in MCValue \cup {Unset} |->
     IF \E n \in NodeId : v \in {MCRefer[n], MCHiddenRefer[n]}
     THEN MCHiddenRefer[CHOOSE n \in NodeId : v \in {MCRefer[n], MCHiddenRefer[n]}]
     ELSE IF v \in MCDocuments \cup {"coordinates"} THEN v ELSE "hidden"]
MCShow ==
  [v \in MCValue |->
     IF \E n \in NodeId : v = MCHiddenRefer[n]
     THEN MCRefer[CHOOSE n \in NodeId : v = MCHiddenRefer[n]] ELSE "shown"]

MCComponent ==
  [k \in Kind |->
     CASE k \in {"slider", "toggle", "panel", "list"} ->
            [takes |-> {}, needs |-> {}, fits |-> {}, draws |-> FALSE]
       [] k \in {"imported", "point"} -> [takes |-> {}, needs |-> {}, fits |-> {}, draws |-> TRUE]
       [] k = "box" ->
            [takes |-> {1, 2}, needs |-> {}, fits |-> {"slider", "list"}, draws |-> TRUE]
       [] k \in {"union", "merge", "curve"} ->
            [takes |-> {1, 2}, needs |-> {1},
             fits |-> {"box", "union", "merge", "curve", "imported", "point"},
             draws |-> TRUE]]

MCCommands ==
  {[result |-> "box", operands |-> "none", hides |-> FALSE],
   [result |-> "union", operands |-> "each", hides |-> TRUE],
   [result |-> "union", operands |-> "pair", hides |-> TRUE],
   [result |-> "union", operands |-> "all", hides |-> FALSE]}

MCLibrary ==
  [k \in {"box", "union", "merge", "curve"} |->
     [inputs |-> 2, outputs |-> 1,
      defaults |-> CASE k = "box" -> [p \in {1, 2} |-> "low"]
                     [] k = "curve" -> [p \in {2} |-> "low"] [] OTHER -> << >>,
      fixed |-> IF k = "curve" THEN {2} ELSE {}]]

By(ops) == [by |-> "local", ops |-> ops]
(* Definitions of three objects: data, a component or data, a component; of
   too many; and with numbers, points, mixed lists or a toggle. *)
Inputs == {<< >>, <<<<1, 1>>>>, <<<<2, 1>>>>, <<<<3, 1>>>>, <<<<4, 1>>>>, <<<<1, 2>>>>,
           <<<<2, 1>>, <<1, 1>>>>}
Few == {<<<<2, 1>>>>, <<<<2, 1>>, <<1, 1>>>>}
Firsts == {Object("slider", "slider", << >>, <<"low">>), Object("other", "other", << >>, << >>),
           Object("data", "data", <<<<<<3, 1>>>>>>, <<"cleared">>),
           Object("panel", "panel", << << >> >>, <<"low">>)}
Seconds == {Object("component", "box", <<i, << >>>>, <<"low", "cleared">>) : i \in Inputs}
             \cup {Object("data", "data", <<i>>, <<"low">>) : i \in Few}
             \cup {Object("typed", "typed", <<<<<<1, 1>>>>>>, <<"low">>)}
Thirds == {Object("component", "union", i, <<"cleared", "low">>) :
             i \in {<<j, << >>>> : j \in Inputs} \cup {<<<< >>, <<<<2, 1>>, <<1, 1>>>>>>}}
Valued == {Object("typed", "typed", << << >> >>, <<v>>) :
             v \in {"low", "coordinates", "huge", "mixed"}}
            \cup {Object("slider", "toggle", << >>, <<"low">>)}
Definitions == {Definition(<<a, b, c>>) : a \in Firsts, b \in Seconds, c \in Thirds}
                 \cup {Definition(<<a>>) : a \in Firsts}
                 \cup {Definition(<<a, Object("component", "curve", <<<<<<1, 1>>>>, i>>, s)>>) :
                         a \in Valued, i \in {<< >>, <<<<1, 1>>>>},
                         s \in {<<"low", "low">>, <<"low", "huge">>}}
                 \cup {Definition([o \in 1..6 |-> CHOOSE a \in Firsts : a.type = "slider"])}
(* Where an output is modified, or where sources are not counted. *)
Between(x) ==
  Definition(<<Object("slider", "slider", << >>, <<"low">>), x,
               Object("component", "union", <<<<<<2, 1>>>>, << >> >>, <<"low", "low">>)>>)
Modified ==
  {Between([Object("component", "union", <<<<<<1, 1>>>>, << >> >>, <<"low", "low">>)
              EXCEPT !.modified = {1}])}
Uncounted ==
  {Between([Object(t, t, <<<<<<1, 1>>>>>>, <<"low">>) EXCEPT !.counted = FALSE]) :
     t \in {"data", "typed", "panel"}}

Session(blocks, readable, many, copies) ==
  [chain |-> blocks, pending |-> << >>, recovery |-> << >>, view |-> Latest,
   files |-> readable, jobs |-> many, copies |-> copies]

EditBlocks == <<By(<<AddNode(1, "slider", 0)>>),
                By(<<AddNode(2, "box", 0), Connect(<<1, 1>>, <<2, 1>>)>>)>>
CadBlocks == <<By(<<AddNode(1, "panel", 0), SetParam(1, "millimeters"),
                    AddNode(2, "imported", 0), SetParam(2, MCRefer[1])>>),
               By(<<AddNode(3, "union", 0), Connect(<<2, 1>>, <<3, 1>>)>>)>>
DefBlocks == <<By(<<AddNode(1, "list", 0), SetParam(1, "low"), AddNode(2, "union", 0),
                    AddNode(3, "box", 0), AddNode(4, "box", 0), Connect(<<3, 1>>, <<2, 1>>),
                    Connect(<<1, 1>>, <<3, 1>>), Connect(<<1, 1>>, <<3, 2>>)>>)>>

(* The same with a number that is not read, and a point with its document. *)
HugeBlocks == <<By([DefBlocks[1].ops EXCEPT ![2] = SetParam(1, "huge")])>>
PointBlocks == <<By(<<AddNode(1, "panel", 0), SetParam(1, "millimeters"),
                      AddNode(2, "point", 0), SetParam(2, MCRefer[1]),
                      AddNode(3, "union", 0), Connect(<<2, 1>>, <<3, 1>>)>>)>>

Edits1 == {Session(EditBlocks, {}, 0, {"W1"})}
Stale == {Session(CadBlocks, {Geometry(1, "imported", {})}, 1, {"W1", "W2"})}
Cad == {Session(CadBlocks, {Geometry(1, "imported", {}), Geometry(1, "point", {"millimeters"}),
                            Geometry(2, "imported", {"inches"})}, 2, {"W1"})}
Defs == {Session(DefBlocks, {d}, 2, {"W1"}) : d \in Definitions \cup Modified \cup Uncounted}
Points == {Session(PointBlocks, {Definition(<<a>>)}, 2, {"W1"}) : a \in Valued}

MCStart ==
  Edits1 \cup Stale \cup Cad \cup Defs \cup Points
    \cup {Session(HugeBlocks, {Definition(<<a>>)}, 2, {"W1"}) : a \in Firsts}
MCModified == {Session(DefBlocks, {d}, 2, {"W1"}) : d \in Modified}
MCUncounted == {Session(DefBlocks, {d}, 2, {"W1"}) : d \in Uncounted}
MCPulled == {<<RemoveNode(2)>>, <<RemoveNode(1)>>}

In(blocks) == chain[1] = blocks[1]

(* Two nodes at most are selected, and none in the viewport after an edit; a
   box is drawn before anything is edited; a second edit follows the drag of a
   node, or cuts it short, where nothing was merged.  What was begun before a
   merge goes on, and what was edited is undone. *)
EditBounds ==
  /\ Nodes(graph') \subseteq 1..3
  /\ \A n \in Nodes(graph') : graph'.nodes[n].kind \in {"slider", "box", "union"}
  /\ Cardinality(selection') <= 2
  /\ phase = "viewport" /\ Settled # << >> => selection' = selection
  /\ Len(SettledRedo') <= 1
  /\ canvas' = None \/ (Settled' = << >> /\ Editable')
  /\ view' # view => canvas' = None /\ wire' = None
  /\ Len(SettledUndo') = 2 =>
       Settled'[1].op = "MoveNode" /\ Editable' /\ wire' = None /\ Len(chain') = 2
  /\ Len(chain') = 3 => chain'[3].ops = <<RemoveNode(2)>>
  /\ Len(chain) = 3 =>
       /\ selection' \in {selection, {}} /\ (wire' = wire \/ wire' = None)
       /\ Len(Settled') > Len(Settled) => gesture # Still

(* The nodes are only selected and deleted, and what was undone is redone. *)
Simple ==
  /\ pointer' = "up" /\ canvas' = None /\ wire' = None /\ gesture' = Still
  /\ \/ Len(Settled') <= Len(Settled) \/ \E i \in DOMAIN redo : Settled' = Settled \o redo[i]
     \/ job' # job \/ workspace' # workspace
     \/ Settled'[Len(Settled')].op = "RemoveNode"

(* Two nodes at most are selected, before a job.  In two workspaces, a copy of
   the first in the second, solids are computed; in one, files are imported
   and geometry is exported.  One edit is made before an import or while a
   solid is computed, and a block pulled, after no edit; it ends with the last
   job. *)
CadBounds ==
  /\ Simple
  /\ job # None \/ jobs > 0
  /\ selection' # selection =>
       \/ Cardinality(selection') <= 2 /\ phase # "viewport" /\ job = None /\ chain = CadBlocks
       \/ selection' = {3} /\ phase # "viewport" /\ workspace = "W1" /\ Settled = << >>
       \/ selection' = {} \/ job' # job \/ workspace' # workspace
  /\ job # None /\ job' # None /\ Cardinality(DOMAIN shelf) = 1 =>
       /\ UNCHANGED <<chain, pending, selection>>
       /\ job.context = "export" => view' = view
  /\ job = None /\ job' # None /\ job'.context = "import" => selection = {}
  /\ view' # view => job # None /\ workspace = "W1" /\ view' \in {Latest, 1}
  /\ (job' # job /\ job # None) \/ file' # file => phase = "tools"
  /\ job # None /\ job.result # None => job' = None
  /\ job' # None => (job'.cancelled => view' = Latest)
  /\ file' = Other => Cardinality(DOMAIN shelf) = 1
  /\ job = None /\ job' # None =>
       \/ Cardinality(DOMAIN shelf) = 2 /\ job'.context \in {"import", "brep"}
       \/ Cardinality(DOMAIN shelf) = 1 /\ job'.context = IF jobs' = 1 THEN "import" ELSE "export"
  /\ Cardinality(DOMAIN shelf) = 2 =>
       /\ job = None => SettledUndo' = SettledUndo
       /\ workspace' # workspace => job # None
       /\ redo = << >> \/ redo' = redo
  /\ workspace' = "W2" => chain' = chain /\ (Settled' = Settled \/ job' = None)
  /\ job # None /\ job' # None => Len(SettledUndo') <= 1
  /\ job = None /\ job' = None => Len(SettledUndo') <= 1 \/ SettledUndo' = SettledUndo
  /\ Len(SettledRedo') <= 1
  /\ Len(chain') > Len(chain) => Settled = << >> /\ redo = << >>
  /\ Len(chain) = 3 => Len(Settled') <= Len(Settled) \/ job' # job

(* A definition is read, then the graph is saved. *)
DefBounds ==
  /\ Simple
  /\ selection' = selection \/ job' # job
  /\ Len(Settled') <= Len(Settled) \/ job' # job
  /\ file' # Other /\ chain' = chain /\ view' = Latest /\ redo' = << >>
  /\ job # None /\ job' # None => ~job'.cancelled
  /\ job # None /\ job' # job => phase = "tools"
  /\ job' # None => job'.context = IF jobs' = 1 THEN "import" ELSE "definition"
  /\ job # None /\ job.result # None => job' = None

Bounded ==
  /\ Len(SettledUndo') <= MaxUndo
  /\ In(EditBlocks) => EditBounds
  /\ In(CadBlocks) => CadBounds
  /\ In(DefBlocks) \/ In(HugeBlocks) \/ In(PointBlocks) => DefBounds
=============================================================================
