-------------------------------- MODULE Graph --------------------------------
(***************************************************************************)
(* mantis_graph::Graph, the CAD document, and Graph::apply, the only way   *)
(* it changes: live editing, chain replay and the server all go through    *)
(* it.  A node carries one parameter, which stands for its map of them,    *)
(* and a wire runs from a node's output to an input port.                  *)
(***************************************************************************)
EXTENDS Integers, Sequences

CONSTANTS NodeId, Port, Kind, Value, Pos

(* The parameter of a node that never got one. *)
Unset == "unset"

Node    == [kind : Kind, value : Value \cup {Unset}, pos : Pos]
InPort  == NodeId \X Port
OutPort == NodeId \X Port
Edge    == [from : OutPort, to : InPort]

AddNode(n, k, p)    == [op |-> "AddNode", id |-> n, kind |-> k, pos |-> p]
RemoveNode(n)       == [op |-> "RemoveNode", id |-> n]
Connect(out, in)    == [op |-> "Connect", from |-> out, to |-> in]
Disconnect(out, in) == [op |-> "Disconnect", from |-> out, to |-> in]
SetParam(n, v)      == [op |-> "SetParam", id |-> n, value |-> v]
MoveNode(n, p)      == [op |-> "MoveNode", id |-> n, pos |-> p]

GraphOp ==
  [op : {"AddNode"}, id : NodeId, kind : Kind, pos : Pos]
    \cup [op : {"RemoveNode"}, id : NodeId]
    \cup [op : {"Connect", "Disconnect"}, from : OutPort, to : InPort]
    \cup [op : {"SetParam"}, id : NodeId, value : Value]
    \cup [op : {"MoveNode"}, id : NodeId, pos : Pos]

EmptyGraph == [nodes |-> << >>, edges |-> {}]
(* What an operation that is refused leaves of a batch. *)
Refused == [refused |-> TRUE]

Nodes(g) == DOMAIN g.nodes

GraphType(g) ==
  /\ g = [nodes |-> g.nodes, edges |-> g.edges]
  /\ Nodes(g) \subseteq NodeId
  /\ g.nodes \in [Nodes(g) -> Node]
  /\ g.edges \subseteq Edge

-----------------------------------------------------------------------------

(* Every set of nodes that holds a and, with a node, all its targets, holds b:
   b is a or can be reached from a. *)
Reaches(g, a, b) ==
  \A S \in {{a} \cup T : T \in SUBSET {e.to[1] : e \in g.edges}} :
    (\A e \in g.edges : e.from[1] \in S => e.to[1] \in S) => b \in S

(* The nodes that can be reached from a, a not counted. *)
Downstream(g, a) == {n \in Nodes(g) \ {a} : Reaches(g, a, n)}

Incoming(g, n) == {e \in g.edges : e.to[1] = n}
IncomingAt(g, in) == {e \in g.edges : e.to = in}

(* Mutant: only a wire straight back counts as a cycle. *)
WiresShort(g, out, in) ==
  /\ out[1] \in Nodes(g) /\ in[1] \in Nodes(g)
  /\ out[1] # in[1]
  /\ [from |-> out, to |-> in] \notin g.edges
  /\ ~\E e \in g.edges : e.from[1] = in[1] /\ e.to[1] = out[1]

(* Connect's checks: both nodes, no self-loop, a new wire, no cycle. *)
Wires(g, out, in) ==
  /\ out[1] \in Nodes(g) /\ in[1] \in Nodes(g)
  /\ out[1] # in[1]
  /\ [from |-> out, to |-> in] \notin g.edges
  /\ ~Reaches(g, in[1], out[1])

Accepts(g, o) ==
  \/ o.op = "AddNode" /\ o.id \notin Nodes(g)
  \/ o.op \in {"RemoveNode", "SetParam", "MoveNode"} /\ o.id \in Nodes(g)
  \/ o.op = "Connect" /\ Wires(g, o.from, o.to)
  \/ o.op = "Disconnect" /\ [from |-> o.from, to |-> o.to] \in g.edges

Added(g, o) ==
  [g EXCEPT !.nodes = [n \in Nodes(g) \cup {o.id} |->
     IF n = o.id THEN [kind |-> o.kind, value |-> Unset, pos |-> o.pos]
                 ELSE g.nodes[n]]]

(* The wires at both sides of the node go with it. *)
Removed(g, o) ==
  [nodes |-> [n \in Nodes(g) \ {o.id} |-> g.nodes[n]],
   edges |-> {e \in g.edges : e.from[1] # o.id /\ e.to[1] # o.id}]

(* An input holds one wire: the one that held it is replaced. *)
Connected(g, o) ==
  [g EXCEPT !.edges =
     (@ \ IncomingAt(g, o.to)) \cup {[from |-> o.from, to |-> o.to]}]

Disconnected(g, o) ==
  [g EXCEPT !.edges = @ \ {[from |-> o.from, to |-> o.to]}]

Applied(g, o) ==
  CASE o.op = "AddNode"    -> Added(g, o)
    [] o.op = "RemoveNode" -> Removed(g, o)
    [] o.op = "Connect"    -> Connected(g, o)
    [] o.op = "Disconnect" -> Disconnected(g, o)
    [] o.op = "SetParam"   -> [g EXCEPT !.nodes[o.id].value = o.value]
    [] o.op = "MoveNode"   -> [g EXCEPT !.nodes[o.id].pos = o.pos]

(* Graph::apply: the graph after the operation, or Refused. *)
Apply(g, o) ==
  IF g # Refused /\ Accepts(g, o) THEN Applied(g, o) ELSE Refused

(* Graph::apply_all: the batch counts as refused if one operation is. *)
ApplyAll(g, ops) ==
  LET after[i \in 0..Len(ops)] == IF i = 0 THEN g ELSE Apply(after[i - 1], ops[i])
  IN after[Len(ops)]

-----------------------------------------------------------------------------

(* No set of nodes in which every node has a wire from another of the set. *)
Acyclic(g) ==
  \A S \in SUBSET Nodes(g) :
    (\A n \in S : \E e \in g.edges : e.to[1] = n /\ e.from[1] \in S) => S = {}

OneWirePerInput(g) == \A e, f \in g.edges : e.to = f.to => e = f

NoLooseWires(g) ==
  \A e \in g.edges : e.from[1] \in Nodes(g) /\ e.to[1] \in Nodes(g)

WellFormed(g) == NoLooseWires(g) /\ OneWirePerInput(g) /\ Acyclic(g)
=============================================================================
