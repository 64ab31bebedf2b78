------------------------------ MODULE Evaluator ------------------------------
(***************************************************************************)
(* mantis_graph::Evaluator: the cache that keeps node outputs from one     *)
(* evaluation of the graph to the next, under every sequence of edits,     *)
(* component replacements and (possibly missing) invalidations.            *)
(*                                                                         *)
(* A component has one output.  Compute stands for what happens to the     *)
(* gathered inputs: list matching, type checks and Component::eval.        *)
(***************************************************************************)
EXTENDS Graph, FiniteSets

CONSTANTS
  Start,      (* the graph the evaluator first sees *)
  Standard,   (* the registry it starts with *)
  GraphEdits, (* the operations callers apply *)
  Version,    (* instances of a component a registry may hold *)
  Defaults,   (* the input ports of each kind: a default value or NoDefault *)
  Compute(_, _, _, _)  (* kind, instance, parameter, inputs: Value or Fails *)

NoDefault == "no default"
Fails     == "fails"
Unknown   == "none"  (* a kind the registry does not know *)

ASSUME StartAssumption ==
  /\ GraphType(Start) /\ WellFormed(Start) /\ IsFiniteSet(Nodes(Start))
  /\ Standard \in [Kind -> Version \cup {Unknown}]
(* Ids are 128-bit numbers, and compared. *)
ASSUME IdAssumption == NodeId \subseteq Nat
ASSUME EditAssumption == GraphEdits \subseteq GraphOp
ASSUME DefaultAssumption ==
  Defaults \in [Kind -> Seq(Value \cup {NoDefault})]

VARIABLES
  given,     (* the graph the callers hand over *)
  registry,  (* the instance registered for each kind *)
  cache,     (* Evaluator.cache, a function on some node ids *)
  dirtyAll,  (* Evaluator.dirty_all *)
  out,       (* the last EvalOutput: a result for each node *)
  current    (* history: nothing was edited since *)

evaluatorVars == <<given, registry, cache, dirtyAll, out, current>>

Output(v)  == [value |-> v]
Error(why) == [error |-> why]
HasOutput(r) == "value" \in DOMAIN r

-----------------------------------------------------------------------------

(* topo_order: of the nodes whose sources are all behind, the smallest next;
   nodes on a cycle would be left out. *)
Ready(g, done) ==
  {n \in Nodes(g) \ done : \A e \in Incoming(g, n) : e.from[1] \in done}

WithNext(g, order) ==
  LET ready == Ready(g, {order[i] : i \in DOMAIN order})
  IN IF ready = {} THEN order
     ELSE Append(order, CHOOSE n \in ready : \A k \in ready : n <= k)

TopoOrder(g) ==
  LET after[i \in 0..Cardinality(Nodes(g))] ==
        IF i = 0 THEN << >> ELSE WithNext(g, after[i - 1])
  IN after[Cardinality(Nodes(g))]

(* CacheSignature::for_node *)
Signature(g, n) ==
  [kind     |-> g.nodes[n].kind,
   value    |-> g.nodes[n].value,
   incoming |-> {<<e.to[2], e.from[1], e.from[2]>> : e \in Incoming(g, n)}]

Component(g, n) == registry[g.nodes[n].kind]
Ports(g, n)     == DOMAIN Defaults[g.nodes[n].kind]

(* run_node: the results of the nodes before n are in ready. *)
RunNode(g, n, ready) ==
  LET Wired(i)  == IncomingAt(g, <<n, i>>)
      Source(i) == CHOOSE e \in Wired(i) : TRUE
      Default(i) == Defaults[g.nodes[n].kind][i]
      inputs == [i \in Ports(g, n) |->
                   IF Wired(i) # {} THEN ready[Source(i).from[1]].value
                                    ELSE Default(i)]
      result == Compute(g.nodes[n].kind, Component(g, n), g.nodes[n].value, inputs)
  IN CASE \E e \in Incoming(g, n) : e.to[2] \notin Ports(g, n) ->
            Error("input port out of range")
       [] (\A e \in Incoming(g, n) : e.to[2] \in Ports(g, n))
          /\ (\E e \in Incoming(g, n) : e.from[2] # 1) ->
            Error("output port out of range")
       [] (\A e \in Incoming(g, n) : e.to[2] \in Ports(g, n) /\ e.from[2] = 1)
          /\ (\E i \in Ports(g, n) : Wired(i) = {} /\ Default(i) = NoDefault) ->
            Error("input missing")
       [] OTHER -> IF result = Fails THEN Error("component") ELSE Output(result)

(* The wires an evaluation looks at before it runs a node. *)
Watched(g, n) == {e \in Incoming(g, n) : e.to[2] \in Ports(g, n)}

Upstream(g, n, results) ==
  {e \in Watched(g, n) : ~HasOutput(results[e.from[1]])}

(* Mutant: an output that changed does not make the nodes it feeds run. *)
NeedsBySignature(pass, g, n) ==
  \/ n \notin DOMAIN pass.cache
  \/ pass.cache[n].signature # Signature(g, n)
  \/ pass.cache[n].component # Component(g, n)

(* Whether a node has to run again in this pass. *)
Needs(pass, g, n) ==
  \/ n \notin DOMAIN pass.cache
  \/ pass.cache[n].signature # Signature(g, n)
  \/ pass.cache[n].component # Component(g, n)
  \/ \E e \in Watched(g, n) : e.from[1] \in pass.changed
  \/ Upstream(g, n, pass.results) # {}

Forget(c, S) == [n \in DOMAIN c \ S |-> c[n]]
Put(f, n, x) == [m \in DOMAIN f \cup {n} |-> IF m = n THEN x ELSE f[m]]

(* Whether the nodes fed by n may keep their outputs. *)
Unchanged(pass, n, r) == n \in DOMAIN pass.cache /\ pass.cache[n].output = r

(* A node that has no output leaves the cache. *)
Visit(pass, g, n) ==
  LET unknown == Component(g, n) = Unknown
      blocked == ~unknown /\ Upstream(g, n, pass.results) # {}
      r == IF unknown THEN Error("unknown component")
           ELSE IF blocked THEN Error("upstream error")
           ELSE RunNode(g, n, pass.results)
  IN IF ~unknown /\ ~Needs(pass, g, n)
     THEN [pass EXCEPT !.results = Put(@, n, pass.cache[n].output)]
     ELSE [results |-> Put(pass.results, n, r),
           cache   |-> IF HasOutput(r)
                       THEN Put(pass.cache, n,
                                [signature |-> Signature(g, n),
                                 component |-> Component(g, n), output |-> r])
                       ELSE Forget(pass.cache, {n}),
           changed |-> IF HasOutput(r) /\ Unchanged(pass, n, r)
                       THEN pass.changed ELSE pass.changed \cup {n}]

(* The cache an evaluation starts from: removed nodes do not linger. *)
StartCache ==
  IF dirtyAll THEN << >> ELSE Forget(cache, DOMAIN cache \ Nodes(given))

(* The whole pass of evaluate over the graph. *)
Pass ==
  LET order == TopoOrder(given)
      start == [results |-> << >>, cache |-> StartCache, changed |-> {}]
      pass[i \in 0..Len(order)] ==
        IF i = 0 THEN start ELSE Visit(pass[i - 1], given, order[i])
  IN pass[Len(order)]

-----------------------------------------------------------------------------

EvaluatorInit ==
  /\ given = Start
  /\ registry = Standard
  /\ cache = << >>
  /\ dirtyAll = TRUE
  /\ out = << >>
  /\ current = FALSE

(* A caller edits the graph and does not tell the evaluator. *)
Edit(o) ==
  /\ Accepts(given, o)
  /\ given' = Applied(given, o)
  /\ current' = FALSE
  /\ UNCHANGED <<registry, cache, dirtyAll, out>>

(* A component is registered under a kind, new or in place of another. *)
Register(k, v) ==
  /\ registry[k] # v
  /\ registry' = [registry EXCEPT ![k] = v]
  /\ current' = FALSE
  /\ UNCHANGED <<given, cache, dirtyAll, out>>

Invalidate(n) ==
  /\ cache' = Forget(cache, {n} \cup Downstream(given, n))
  /\ UNCHANGED <<given, registry, dirtyAll, out, current>>

InvalidateCache ==
  /\ cache' = << >>
  /\ dirtyAll' = TRUE
  /\ UNCHANGED <<given, registry, out, current>>

EvaluateGraph ==
  LET pass == Pass
  IN /\ out' = pass.results
     /\ cache' = pass.cache
     /\ dirtyAll' = FALSE
     /\ current' = TRUE
     /\ UNCHANGED <<given, registry>>

EvaluatorNext ==
  \/ \E o \in GraphEdits : Edit(o)
  \/ \E k \in Kind, v \in Version : Register(k, v)
  \/ \E n \in NodeId : Invalidate(n)
  \/ InvalidateCache
  \/ EvaluateGraph

EvaluatorSpec == EvaluatorInit /\ [][EvaluatorNext]_evaluatorVars

-----------------------------------------------------------------------------

(* Whatever was applied, accepted or refused, the graph is one that can be
   evaluated: no loose wire, one wire per input, no cycle. *)
GraphStaysWellFormed == WellFormed(given)

(* What an evaluation without a cache would answer. *)
Fresh ==
  LET result[n \in Nodes(given)] ==
        CASE Component(given, n) = Unknown -> Error("unknown component")
          [] Component(given, n) # Unknown
             /\ (\E e \in Watched(given, n) : ~HasOutput(result[e.from[1]])) ->
               Error("upstream error")
          [] OTHER ->
               RunNode(given, n,
                 [m \in {e.from[1] : e \in Watched(given, n)} |-> result[m]])
  IN result

(* An evaluation that reuses what it cached answers what a fresh one would,
   whichever edits and component replacements came before and whether or not
   the callers invalidated anything.  Every node gets a result. *)
CachedIsFresh == current => out = Fresh

=============================================================================
