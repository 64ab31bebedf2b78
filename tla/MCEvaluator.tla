----------------------------- MODULE MCEvaluator -----------------------------
(* Three nodes: a source, a component that keeps the larger of its input and  *)
(* its parameter, and an imported plane or a kind that is unknown until it is *)
(* registered.  Outputs draw lists in which points recur, one of them too     *)
(* deep to be drawn and one to be exported; a parameter hides its node.       *)
EXTENDS History

MCNodes == 1..3
MCPorts == 1..2
MCKinds == {"source", "larger", "other", "import"}
MCDefaults == [k \in MCKinds |->
  CASE k \in {"source", "import"} -> << >> [] k = "larger" -> <<NoDefault>> [] k = "other" -> <<"low">>]

(* A second instance of a component turns its output round. *)
MCCompute(k, instance, v, inputs) ==
  LET high == v = "high" \/ \E i \in DOMAIN inputs : inputs[i] # "low"
  IN CASE k = "other" /\ v = "high" -> Fails
       [] k = "import" -> IF v = "plane" THEN v ELSE Fails
       [] k = "larger" /\ (\E i \in DOMAIN inputs : inputs[i] = "plane") -> "deeper"
       [] high = (instance = "second") -> "low"
       [] OTHER -> IF k = "larger" THEN "deep" ELSE "high"

MCStart ==
  [nodes |-> [n \in {1, 3} |-> [kind |-> IF n = 1 THEN "source" ELSE "larger",
                               value |-> Unset, pos |-> "here"]],
   edges |-> {[from |-> <<1, 1>>, to |-> <<3, 1>>]}]
MCStandard == [k \in MCKinds |-> IF k = "other" THEN Unknown ELSE "first"]

Leaf(kind, print) ==
  [kind |-> kind, print |-> print, finite |-> print # "infinite",
   valid |-> print # "infinite", bytes |-> IF kind = "mesh" THEN 3 ELSE 1]
Listed(items)     == [kind |-> "list", items |-> items]
MCShape == [v \in {"low", "high", "deep", "deeper", "plane", "hidden"} |->
  CASE v = "low"    -> Listed(<<Leaf("point", "zero"), Leaf("mesh", "box")>>)
    [] v = "high"   -> Listed(<<Leaf("point", "zero"), Leaf("text", "x"), Leaf("point", "zero"), Leaf("curve", "infinite")>>)
    [] v = "deep"   -> Listed(<<Leaf("point", "zero"), Listed(<<Leaf("mesh", "box")>>), Leaf("mesh", "ball")>>)
    [] v = "deeper" -> Listed(<<Listed(<<Listed(<<Leaf("point", "zero")>>)>>)>>)
    [] v = "plane"  -> Leaf("plane", "zero")
    [] v = "hidden" -> Leaf("text", "x")]

(* The second node is unknown, fails or is imported; wires close cycles of two and three,
   one to a port the source does not have; a node goes and comes back. *)
MCGraphEdits ==
  {AddNode(2, "other", "here"), AddNode(2, "import", "here"), SetParam(2, "plane"), MoveNode(2, "there"), SetParam(2, "high"),
   RemoveNode(2), SetParam(1, "high"), SetParam(3, "hidden"),
   Connect(<<1, 1>>, <<3, 1>>),
   Connect(<<2, 1>>, <<3, 1>>), Connect(<<3, 1>>, <<2, 1>>),
   Connect(<<2, 1>>, <<1, 1>>), Disconnect(<<2, 1>>, <<1, 1>>)}

(* The import is looked at in its place and with the standard components, and
   only it holds a plane. *)
IsImport(g) == 2 \in Nodes(g) /\ g.nodes[2].kind = "import"
Apart ==
  /\ IsImport(given') =>
       /\ registry' = Standard
       /\ given'.nodes[2].value \in {Unset, "plane"} /\ given'.nodes[2].pos = "here"
  /\ 2 \in Nodes(given') /\ given'.nodes[2].value = "plane" => IsImport(given')
=============================================================================
