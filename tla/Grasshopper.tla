----------------------------- MODULE Grasshopper -----------------------------
(***************************************************************************)
(* Grasshopper definitions: read as operations on an empty graph, and      *)
(* written from a graph (grasshopper.rs).  An object is read whole or left *)
(* out, with all that depend on it: no input may fall back to a value that *)
(* the definition does not hold.  The archive's XML is left out.           *)
(***************************************************************************)
EXTENDS Graph, SequencesExt, FiniteSetsExt

CONSTANTS
  Library,    \* of each component both programs know: the number of its inputs
              \* and outputs here, the values of the inputs with a default, and
              \* the inputs that have to stay unwired
  SliderKind, ToggleKind, PanelKind,
  MergeKind,  \* joins two lists
  ListKind,   \* holds the values stored in a definition
  PointKind,  \* holds an imported point or plane
  Cleared,    \* no values: an empty list
  Coordinates,\* those of a point or plane, and of no document
  TooLarge,   \* values with a number beyond 10^12, which is not read
  Unwritable, \* a slider with other steps than 1 or with fractional bounds for
              \* them, a list of mixed types
  Origin,     \* where a node stands that has no place yet
  MaxObjects  \* read at most, for all the limits of an archive

ASSUME GrasshopperAssumption ==
  /\ DOMAIN Library \subseteq Kind
  /\ \A k \in DOMAIN Library :
       /\ Library[k].inputs \in Nat /\ Library[k].outputs \in Nat
       /\ DOMAIN Library[k].defaults \subseteq 1..Library[k].inputs
       /\ Library[k].fixed \subseteq DOMAIN Library[k].defaults
  /\ {SliderKind, ToggleKind, PanelKind, MergeKind, ListKind, PointKind} \subseteq Kind
  /\ {Cleared, Coordinates} \cup TooLarge \cup Unwritable \subseteq Value
  /\ Origin \in Pos /\ MaxObjects \in Nat

(* An object: a slider or toggle, stored or forwarded data, a typed parameter,
   a panel, a component, or another.  An input has its sources, outputs of
   objects in their order, and the values stored in it.  An object with
   modifiers on itself or an input, or an archive that cannot be read, counts
   as another.  An output may be modified too, reversed or grafted, and the
   number of the sources, of which all are listed, be missing. *)
Object(type, kind, inputs, stored) ==
  [type |-> type, kind |-> kind, inputs |-> inputs, stored |-> stored,
   counted |-> TRUE, modified |-> {}]

(* The nodes an object is read as: one that stands for it and the helpers of
   its inputs.  Their ids are random in the code. *)
Root(o) == <<o, 0, 0>>
Helper(o, p, j) == <<o, p, j>>

-----------------------------------------------------------------------------

(* The values stored in an object that are read, with their numbers. *)
ValuesRead(x) ==
  CASE x.type \in {"slider", "data", "typed"} -> {x.stored[1]}
    [] x.type = "component" -> {x.stored[p] : p \in {p \in DOMAIN x.inputs : x.inputs[p] = << >>}}
    [] OTHER -> {}

(* The sources that the object says an input has; none if it does not say. *)
SourceCount(x, p) == IF x.counted THEN Len(x.inputs[p]) ELSE 0

(* What can be read: a typed parameter or a panel only without wires, since
   those would convert what they forward.  Nothing is asked of outputs. *)
Readable(x) ==
  /\ ValuesRead(x) \cap TooLarge = {}
  /\ \/ x.type \in {"slider", "data"}
     \/ x.type \in {"typed", "panel"} /\ SourceCount(x, 1) = 0
     \/ /\ x.type = "component" /\ x.kind \in DOMAIN Library
        /\ Len(x.inputs) = Library[x.kind].inputs
        /\ \A p \in Library[x.kind].fixed :
             /\ SourceCount(x, p) = 0
             /\ x.stored[p] \in {Library[x.kind].defaults[p], Cleared}

RootKind(x) ==
  CASE x.type \in {"slider", "component"} -> x.kind
    [] x.type = "panel" -> ListKind
    [] OTHER            -> MergeKind

Outputs(x) == IF x.type = "component" THEN Library[x.kind].outputs ELSE 1

(* The inputs a plan wires; a slider and a panel have only a value. *)
Wired(x) == IF x.type \in {"slider", "panel"} THEN {} ELSE DOMAIN x.inputs

(* The helpers that merge the sources of an input, one after the other. *)
MergeChain(o, p, n) ==
  FlattenSeq([j \in 1..n |->
    <<AddNode(Helper(o, p, j), MergeKind, Origin)>> \o
    (IF j = 1 THEN << >>
     ELSE <<Connect(<<Helper(o, p, j - 1), 1>>, <<Helper(o, p, j), 1>>)>>)])
  \o <<Connect(<<Helper(o, p, n), 1>>, <<Root(o), p>>)>>

(* Mutant: an input without sources is left to the default of its component. *)
DefaultedInput(o, x, p) ==
  LET n == Len(x.inputs[p]) IN IF n <= 1 THEN << >> ELSE MergeChain(o, p, n)

(* The helper that holds what is stored. *)
Holder(v) == IF v = Coordinates THEN PointKind ELSE ListKind

(* Plan::input: a list of the stored values if there are no sources, even if
   it is empty, or the points; one wire; or a chain that merges the sources in their order. *)
PlanInput(o, x, p) ==
  LET n == Len(x.inputs[p])
  IN CASE n = 0 -> <<AddNode(Helper(o, p, 1), Holder(x.stored[p]), Origin),
                     SetParam(Helper(o, p, 1), x.stored[p]),
                     Connect(<<Helper(o, p, 1), 1>>, <<Root(o), p>>)>>
       [] n = 1 -> << >>
       [] OTHER -> MergeChain(o, p, n)

(* The nodes of an object and the wires between them. *)
Plan(o, x) ==
  <<AddNode(Root(o), RootKind(x), Origin)>>
    \o (IF Wired(x) = {} /\ x.stored # << >> THEN <<SetParam(Root(o), x.stored[1])>> ELSE << >>)
    \o FlattenSeq([p \in DOMAIN x.inputs |->
                     IF p \in Wired(x) THEN PlanInput(o, x, p) ELSE << >>])

(* The wires from other objects, once all are there. *)
PlanWires(o, x) ==
  FlattenSeq([p \in DOMAIN x.inputs |->
    IF p \notin Wired(x) THEN << >>
    ELSE [j \in DOMAIN x.inputs[p] |->
            Connect(<<Root(x.inputs[p][j][1]), x.inputs[p][j][2]>>,
                    IF Len(x.inputs[p]) = 1 THEN <<Root(o), p>> ELSE <<Helper(o, p, j), 2>>)]])

(* The outputs an object is wired to. *)
SourcesOf(x) == UNION {{x.inputs[p][j] : j \in DOMAIN x.inputs[p]} : p \in Wired(x)}

(* The objects whose sources are among those kept. *)
Fed(def, kept) ==
  {o \in kept : \A s \in SourcesOf(def[o]) : s[1] \in kept /\ s[2] \in 1..Outputs(def[s[1]])}

(* The objects read whose sources are all read, in as many passes as it takes. *)
Included(def) ==
  LET left[i \in 0..Len(def)] ==
        IF i = 0 THEN {o \in DOMAIN def : Readable(def[o])} ELSE Fed(def, left[i - 1])
  IN left[Len(def)]

(* import_ghx: the operations, tried on an empty graph; none if there is
   nothing to import, or too much, or a cycle refuses the whole definition. *)
ImportGhx(def) ==
  LET included == Included(def)
      each(op(_, _)) == FlattenSeq([o \in DOMAIN def |->
                          IF o \in included THEN op(o, def[o]) ELSE << >>])
      ops == each(Plan) \o each(PlanWires)
  IN IF Len(def) > MaxObjects \/ ApplyAll(EmptyGraph, ops) = Refused THEN << >> ELSE ops

-----------------------------------------------------------------------------

InputsOf(k) ==
  IF k \in DOMAIN Library THEN Library[k].inputs ELSE IF k = PanelKind THEN 1 ELSE 0
OutputsOf(k) ==
  IF k \in DOMAIN Library THEN Library[k].outputs ELSE IF k = PanelKind THEN 0 ELSE 1
FixedOf(k) == IF k \in DOMAIN Library THEN Library[k].fixed ELSE {}

(* What a definition can hold, wired to inputs and outputs there are. *)
Exportable(g) ==
  /\ \A n \in Nodes(g) :
       /\ g.nodes[n].kind \in
            DOMAIN Library \cup {SliderKind, ToggleKind, ListKind, PointKind, PanelKind}
       /\ g.nodes[n].kind \in {SliderKind, ListKind} => g.nodes[n].value \notin Unwritable
  /\ \A e \in g.edges :
       /\ e.from[2] <= OutputsOf(g.nodes[e.from[1]].kind)
       /\ e.to[2] <= InputsOf(g.nodes[e.to[1]].kind)
       /\ e.to[2] \notin FixedOf(g.nodes[e.to[1]].kind)

(* The nodes in the order of their ids. *)
Place(g, n) == Cardinality({m \in Nodes(g) : m <= n})
Listed(g) == [i \in 1..Cardinality(Nodes(g)) |-> CHOOSE n \in Nodes(g) : Place(g, n) = i]

Wire(g, n, p) ==
  LET into == IncomingAt(g, <<n, p>>)
  IN IF into = {} THEN << >>
     ELSE LET e == CHOOSE e \in into : TRUE IN <<<<Place(g, e.from[1]), e.from[2]>>>>

(* Mutant: an input without a wire is written empty, whatever its default. *)
StoredNothing(k, p) == Cleared

(* An input without a wire stores the default of its component, if it has one. *)
StoredDefault(k, p) ==
  IF p \in DOMAIN Library[k].defaults THEN Library[k].defaults[p] ELSE Cleared

(* What a node that stands for stored values writes: of a point that was
   imported its coordinates only. *)
StoredBy(x) ==
  CASE x.kind = PointKind -> Coordinates [] x.value = Unset -> Cleared [] OTHER -> x.value

Written(g, n) ==
  LET x == g.nodes[n]
      type == CASE x.kind \in {SliderKind, ToggleKind} -> "slider"
                [] x.kind \in {ListKind, PointKind}    -> "typed"
                [] x.kind = PanelKind                  -> "panel"
                [] OTHER                               -> "component"
  IN Object(type, x.kind,
       CASE type = "slider" -> << >> [] type = "typed" -> << << >> >>
         [] OTHER -> [p \in 1..InputsOf(x.kind) |-> Wire(g, n, p)],
       IF type = "component" THEN [p \in 1..InputsOf(x.kind) |-> StoredDefault(x.kind, p)]
       ELSE <<StoredBy(x)>>)

(* export_ghx: the graph as a definition, if it can be one. *)
ExportGhx(g) == [i \in 1..Cardinality(Nodes(g)) |-> Written(g, Listed(g)[i])]

-----------------------------------------------------------------------------
(* Properties.                                                              *)

(* The outputs that feed an input, through the helpers that merge them. *)
FedBy(g, in) ==
  LET fed[d \in 0..Cardinality(Nodes(g)), i \in {e.to : e \in g.edges} \cup {in}] ==
        IF IncomingAt(g, i) = {} THEN << >>
        ELSE LET from == (CHOOSE e \in IncomingAt(g, i) : TRUE).from
                 node == from[1]
                 through(p) == IF IncomingAt(g, <<node, p>>) = {} \/ d = 0 THEN << >>
                               ELSE fed[d - 1, <<node, p>>]
             IN IF g.nodes[node].kind = MergeKind /\ node # Root(node[1])
                THEN through(1) \o through(2) ELSE <<from>>
  IN fed[Cardinality(Nodes(g)), in]

(* An object that this program has an equal of. *)
Known(x) ==
  /\ x.modified = {} /\ ValuesRead(x) \cap TooLarge = {}
  /\ \/ x.type \in {"slider", "data"}
     \/ x.type \in {"typed", "panel"} /\ x.inputs[1] = << >>
     \/ /\ x.type = "component" /\ x.kind \in DOMAIN Library
        /\ Len(x.inputs) = Library[x.kind].inputs
        /\ \A p \in Library[x.kind].fixed :
             x.inputs[p] = << >> /\ x.stored[p] \in {Library[x.kind].defaults[p], Cleared}

(* The largest set of such objects that are fed by each other. *)
SelfContained(def) ==
  UNION {S \in SUBSET {o \in DOMAIN def : Known(def[o])} :
           \A o \in S : \A s \in SourcesOf(def[o]) :
             s[1] \in S /\ s[2] \in 1..Outputs(def[s[1]])}

(* The node of an object in the graph is fed by what the object is: by its
   sources in their order or, without any, by the values stored. *)
FedAsDefined(g, def, o, p) ==
  LET x == def[o]
      fed == FedBy(g, <<Root(o), p>>)
  IN IF x.inputs[p] = << >>
     THEN /\ Len(fed) = 1 /\ fed[1][1] = Helper(o, p, 1)
          /\ g.nodes[fed[1][1]].kind = Holder(x.stored[p]) /\ g.nodes[fed[1][1]].value = x.stored[p]
     ELSE fed = [j \in DOMAIN x.inputs[p] |->
                   <<Root(x.inputs[p][j][1]), x.inputs[p][j][2]>>]

(* A definition whose inputs say how many sources they have, and whose outputs
   pass on what comes out. *)
Plain(def) == \A o \in DOMAIN def : def[o].counted /\ def[o].modified = {}

ReadAsDefined(def) ==
  LET ops == ImportGhx(def)
      g == ApplyAll(EmptyGraph, ops)
  IN ops # << >> =>
       /\ {n[1] : n \in Nodes(g)} = SelfContained(def)
       /\ \A o \in SelfContained(def) : \A p \in Wired(def[o]) : FedAsDefined(g, def, o, p)

(* The value an input without a wire has. *)
Default(k, p) ==
  IF p \in DOMAIN Library[k].defaults THEN Library[k].defaults[p] ELSE Cleared

(* A graph written and read again: every node is there, and fed as before.  An
   input without a wire gets the default of its component as stored values.
   A panel comes back as a list, and not at all if it was wired.  A number that
   is written but not read takes with it all that depends on it. *)
SurvivesRoundTrip(g) ==
  LET ops == ImportGhx(ExportGhx(g))
      h == ApplyAll(EmptyGraph, ops)
      unread == {m \in Nodes(g) :
                   \/ g.nodes[m].kind = PanelKind /\ Incoming(g, m) # {}
                   \/ g.nodes[m].kind \in {SliderKind, ListKind} /\ StoredBy(g.nodes[m]) \in TooLarge}
      lost == {n \in Nodes(g) : \E m \in unread : Reaches(g, m, n)}
  IN Exportable(g) /\ Nodes(g) # lost /\ Cardinality(Nodes(g)) <= MaxObjects =>
       /\ ops # << >>
       /\ \A n \in Nodes(g) \ lost :
            LET x == g.nodes[n]
                at == Root(Place(g, n))
                held == FedBy(h, <<at, 1>>)[1][1]
            IN /\ at \in Nodes(h)
               /\ x.kind \in {SliderKind, ToggleKind} =>
                    h.nodes[at].kind = x.kind /\ h.nodes[at].value = StoredBy(x)
               /\ x.kind \in {ListKind, PointKind} =>
                    h.nodes[held].kind = x.kind /\ h.nodes[held].value = StoredBy(x)
               /\ x.kind \in DOMAIN Library => h.nodes[at].kind = x.kind /\
                    \A p \in 1..Library[x.kind].inputs :
                      LET fed == FedBy(h, <<at, p>>)
                      IN IF IncomingAt(g, <<n, p>>) = {}
                         THEN h.nodes[fed[1][1]].value = Default(x.kind, p)
                         ELSE fed = <<<<Root(Wire(g, n, p)[1][1]), Wire(g, n, p)[1][2]>>>>
=============================================================================
