------------------------------ MODULE Document ------------------------------
(***************************************************************************)
(* One workspace of the desktop program (state.rs, with the recovery   *)
(* dialog of app.rs), between a start and an exit.  Edits go to `pending`; *)
(* a commit seals them into a block; the frames of a drag change the graph *)
(* and are recorded when the gesture ends; blocks pulled from a server are *)
(* merged under the pending edits, which may no longer apply.              *)
(***************************************************************************)
EXTENDS Graph, SequencesExt

CONSTANTS
  Edits,      \* the operations and batches the user may apply
  Pulled,     \* the batches of operations a block pulled may hold
  MaxPending, \* bound on the edits pending, the ones put aside included
  MaxBlocks   \* bound on the blocks after the genesis

ASSUME DocumentAssumption ==
  /\ Edits \subseteq Seq(GraphOp) \ {<< >>}
  /\ Pulled \subseteq Seq(GraphOp) \ {<< >>}
  /\ MaxPending \in Nat /\ MaxBlocks \in Nat

VARIABLES
  chain,      \* the signed blocks after the genesis
  graph,      \* the working graph
  pending,    \* the operations not committed
  recovery,   \* the pending operations a merge could not replay
  undo,       \* the length of pending before each user edit
  redo,       \* the batches undone
  gesture,    \* the drag in flight
  view,       \* the block viewed, or Latest
  viewGraph,  \* the graph at that block, or Working
  evalDirty, sceneDirty,
  revised     \* persistence_revision moved since it was last read

ledger == <<chain, pending, recovery>>
history == <<undo, redo>>
screen == <<evalDirty, sceneDirty>>
viewing == <<view, viewGraph>>
vars == <<ledger, history, graph, gesture, viewing, screen, revised>>

Latest == -1
Working == [working |-> TRUE]
Still == [kind |-> "none"]
Drag(n, start, last) ==
  [kind |-> "param", id |-> n, start |-> start, last |-> last]
Move(start) == [kind |-> "move", start |-> start]

Block == [by : {"local", "remote"}, ops : Seq(GraphOp)]

-----------------------------------------------------------------------------

(* Chain::replay through block i; the genesis, block 0, has no operations. *)
Replay(blocks, i) ==
  LET after[j \in 0..i] ==
        IF j = 0 THEN EmptyGraph ELSE ApplyAll(after[j - 1], blocks[j].ops)
  IN after[i]

Committed == Replay(chain, Len(chain))
Editable == viewGraph = Working
Displayed == IF Editable THEN graph ELSE viewGraph

(* What ending the gesture records: the value a drag left, if its node is
   there and the value is a new one; each node that was moved.  The order of
   the moves, by id in the code, is one the graph cannot tell. *)
GestureOps ==
  CASE gesture.kind = "none" -> << >>
    [] gesture.kind = "param" ->
         IF gesture.id \in Nodes(graph) /\ gesture.start # gesture.last
         THEN <<SetParam(gesture.id, gesture.last)>> ELSE << >>
    [] gesture.kind = "move" ->
         LET moved == {n \in DOMAIN gesture.start \cap Nodes(graph) :
                         graph.nodes[n].pos # gesture.start[n]}
         IN SetToSeq({MoveNode(n, graph.nodes[n].pos) : n \in moved})

(* The ledger once the gesture has ended. *)
Settled == pending \o GestureOps
SettledUndo == IF GestureOps = << >> THEN undo ELSE Append(undo, Len(pending))
SettledRedo == IF GestureOps = << >> THEN redo ELSE << >>

(* Nothing was authored here. *)
IsPristine == chain = << >> /\ Settled = << >>

(* Mutant: the gesture's own edit is recorded after the one that ended it. *)
RecordBefore(ops) ==
  /\ pending' = pending \o ops \o GestureOps
  /\ undo' = IF ops = << >> THEN SettledUndo ELSE Append(SettledUndo, Len(Settled))
  /\ redo' = IF ops = << >> THEN SettledRedo ELSE << >>
  /\ revised' = (revised \/ GestureOps \o ops # << >>)

(* Mutant: the edits undone stay to be redone after a new one. *)
RecordKeepingRedo(ops) ==
  /\ pending' = Settled \o ops
  /\ undo' = IF ops = << >> THEN SettledUndo ELSE Append(SettledUndo, Len(Settled))
  /\ redo' = redo
  /\ revised' = (revised \/ GestureOps \o ops # << >>)

(* Mutant: each operation of a batch is an edit of its own. *)
RecordOneByOne(ops) ==
  /\ pending' = Settled \o ops
  /\ undo' = SettledUndo \o [i \in 1..Len(ops) |-> Len(Settled) + i - 1]
  /\ redo' = IF ops = << >> THEN SettledRedo ELSE << >>
  /\ revised' = (revised \/ GestureOps \o ops # << >>)

(* end_gesture, then a batch recorded as one user edit. *)
Record(ops) ==
  /\ pending' = Settled \o ops
  /\ undo' = IF ops = << >> THEN SettledUndo ELSE Append(SettledUndo, Len(Settled))
  /\ redo' = IF ops = << >> THEN SettledRedo ELSE << >>
  /\ revised' = (revised \/ GestureOps \o ops # << >>)

(* A handler that fails after it ended the gesture. *)
Refuse == Record(<< >>) /\ gesture' = Still

(* invalidate_for: a move is layout only. *)
InvalidateFor(ops) ==
  LET seen == \E i \in DOMAIN ops : ops[i].op # "MoveNode"
  IN evalDirty' = (evalDirty \/ seen) /\ sceneDirty' = (sceneDirty \/ seen)

InvalidateAll == evalDirty' = TRUE /\ sceneDirty' = TRUE

-----------------------------------------------------------------------------

Init ==
  /\ chain = << >> /\ pending = << >> /\ recovery = << >>
  /\ undo = << >> /\ redo = << >>
  /\ graph = EmptyGraph /\ gesture = Still
  /\ view = Latest /\ viewGraph = Working
  /\ evalDirty = TRUE /\ sceneDirty = TRUE
  /\ revised = FALSE

(* apply_op and apply_ops: a batch of one operation or of several.  apply_op
   ends the gesture even if the operation is then refused. *)
ApplyOps(ops) ==
  LET after == ApplyAll(graph, ops)
  IN /\ Editable
     /\ Len(Settled \o recovery \o ops) <= MaxPending
     /\ \/ /\ after # Refused
           /\ Record(ops)
           /\ gesture' = Still
           /\ graph' = after
           /\ InvalidateFor(ops)
        \/ /\ after = Refused /\ Len(ops) = 1
           /\ Refuse
           /\ UNCHANGED <<graph, screen>>
     /\ UNCHANGED <<chain, recovery, viewing>>

(* param_drag: a frame of a drag.  A drag of another node's parameter ends
   the gesture in flight. *)
ParamDrag(n, v) ==
  LET same == gesture.kind = "param" /\ gesture.id = n
      start == IF n \in Nodes(graph) THEN graph.nodes[n].value ELSE Unset
      after == Apply(graph, SetParam(n, v))
  IN /\ Editable
     /\ Len(Settled \o recovery) < MaxPending
     /\ \/ /\ same
           /\ gesture' = [gesture EXCEPT !.last = v]
           /\ UNCHANGED <<pending, history, revised>>
        \/ /\ ~same
           /\ Record(<< >>)
           /\ gesture' = Drag(n, start, v)
     /\ \/ after # Refused /\ graph' = after /\ InvalidateFor(<<SetParam(n, v)>>)
        \/ after = Refused /\ UNCHANGED <<graph, screen>>
     /\ UNCHANGED <<chain, recovery, viewing>>

(* begin_move: the positions where the drag of some nodes starts. *)
BeginMove(ids) ==
  LET there == ids \cap Nodes(graph)
  IN /\ Editable
     /\ Len(Settled \o recovery) + Cardinality(there) <= MaxPending
     /\ Record(<< >>)
     /\ gesture' = IF there = {} THEN Still
                   ELSE Move([n \in there |-> graph.nodes[n].pos])
     /\ UNCHANGED <<chain, recovery, graph, viewing, screen>>

(* move_live: a frame of it. *)
MoveLive(n, p) ==
  /\ Editable
  /\ gesture.kind = "move" /\ n \in DOMAIN gesture.start
  /\ n \in Nodes(graph)
  /\ graph' = Apply(graph, MoveNode(n, p))
  /\ UNCHANGED <<ledger, history, gesture, viewing, screen, revised>>

(* end_gesture: the pointer is up, or nothing has the focus any more. *)
EndGesture ==
  /\ gesture # Still
  /\ Refuse
  /\ UNCHANGED <<chain, recovery, graph, viewing, screen>>

(* undo_pending: the last user edit, the drag in flight counted. *)
UndoPending ==
  LET kept == IF SettledUndo = << >> THEN Settled
              ELSE SubSeq(Settled, 1, Last(SettledUndo))
      undone == SubSeq(Settled, Len(kept) + 1, Len(Settled))
  IN /\ Editable
     /\ gesture' = Still
     /\ \/ /\ SettledUndo # << >>
           /\ ApplyAll(Committed, kept) # Refused
           /\ graph' = ApplyAll(Committed, kept)
           /\ pending' = kept
           /\ undo' = Front(SettledUndo)
           /\ redo' = Append(SettledRedo, undone)
           /\ revised' = TRUE
           /\ InvalidateAll
        \/ /\ SettledUndo = << >> \/ ApplyAll(Committed, kept) = Refused
           /\ Refuse
           /\ UNCHANGED <<graph, screen>>
     /\ UNCHANGED <<chain, recovery, viewing>>

(* redo_pending: the edit undone last. *)
RedoPending ==
  LET again == IF SettledRedo = << >> THEN Settled
               ELSE Settled \o Last(SettledRedo)
  IN /\ Editable
     /\ gesture' = Still
     /\ \/ /\ SettledRedo # << >>
           /\ ApplyAll(Committed, again) # Refused
           /\ graph' = ApplyAll(Committed, again)
           /\ pending' = again
           /\ undo' = Append(SettledUndo, Len(Settled))
           /\ redo' = Front(SettledRedo)
           /\ revised' = TRUE
           /\ InvalidateAll
        \/ /\ SettledRedo = << >> \/ ApplyAll(Committed, again) = Refused
           /\ Refuse
           /\ UNCHANGED <<graph, screen>>
     /\ UNCHANGED <<chain, recovery, viewing>>

(* The head is not a block to view: it is edited. *)
Target(i) == IF i < Len(chain) THEN i ELSE Latest

(* set_view: block i read-only, or the head again. *)
SetView(i) ==
  /\ Target(i) # view
  /\ Refuse
  /\ view' = Target(i)
  /\ viewGraph' = IF Target(i) = Latest THEN Working ELSE Replay(chain, i)
  /\ InvalidateAll
  /\ UNCHANGED <<chain, recovery, graph>>

(* commit: the pending edits become a signed block. *)
Commit ==
  /\ gesture' = Still
  /\ \/ /\ Editable
        /\ Settled # << >> /\ ApplyAll(Committed, Settled) # Refused
        /\ Len(chain) < MaxBlocks
        /\ chain' = Append(chain, [by |-> "local", ops |-> Settled])
        /\ pending' = << >> /\ undo' = << >> /\ redo' = << >>
        /\ revised' = TRUE
     \/ /\ ~Editable \/ Settled = << >> \/ ApplyAll(Committed, Settled) = Refused
        /\ Refuse
        /\ UNCHANGED chain
  /\ UNCHANGED <<recovery, graph, viewing, screen>>

(* The operations a merge could not replay join those of earlier ones. *)
PutAside(lost) == recovery' = recovery \o lost

(* Mutant: the pending edits are kept whether they replay or not. *)
RebasedAll(base) ==
  LET after[i \in 0..Len(Settled)] ==
        IF i = 0 THEN base
        ELSE IF Accepts(after[i - 1], Settled[i])
             THEN Applied(after[i - 1], Settled[i]) ELSE after[i - 1]
  IN [graph |-> after[Len(Settled)], kept |-> Settled, lost |-> << >>]

(* The pending edits one by one on a graph: the ones that apply and the ones
   that do not. *)
Rebased(base) ==
  LET after[i \in 0..Len(Settled)] ==
        IF i = 0 THEN [graph |-> base, kept |-> << >>, lost |-> << >>]
        ELSE LET step == after[i - 1]
                 next == Apply(step.graph, Settled[i])
             IN IF next = Refused
                THEN [step EXCEPT !.lost = Append(@, Settled[i])]
                ELSE [step EXCEPT !.graph = next, !.kept = Append(@, Settled[i])]
  IN after[Len(Settled)]

(* merge_remote: a block pulled.  One that diverges, that is already here or
   that does not replay leaves the document as it was, but for the gesture. *)
MergeRemote(ops) ==
  LET base == ApplyAll(Committed, ops)
      result == Rebased(base)
  IN /\ gesture' = Still
     /\ \/ /\ base # Refused
           /\ Len(chain) < MaxBlocks
           /\ chain' = Append(chain, [by |-> "remote", ops |-> ops])
           /\ graph' = result.graph
           /\ pending' = result.kept
           /\ PutAside(result.lost)
           /\ undo' = << >> /\ redo' = << >>
           /\ revised' = TRUE
           /\ InvalidateAll
        \/ /\ Refuse
           /\ UNCHANGED <<chain, recovery, graph, screen>>
     /\ UNCHANGED viewing

(* adopt_remote: a history pulled replaces a document nothing was authored
   in.  It is asked for when the document is pristine, and may no longer be. *)
AdoptRemote(ops) ==
  /\ gesture' = Still
  /\ \/ /\ IsPristine
        /\ ApplyAll(EmptyGraph, ops) # Refused
        /\ MaxBlocks > 0
        /\ chain' = <<[by |-> "remote", ops |-> ops]>>
        /\ graph' = ApplyAll(EmptyGraph, ops)
        /\ pending' = << >> /\ undo' = << >> /\ redo' = << >>
        /\ view' = Latest /\ viewGraph' = Working
        /\ revised' = TRUE
        /\ InvalidateAll
     \/ /\ Refuse
        /\ UNCHANGED <<chain, graph, viewing, screen>>
  /\ UNCHANGED recovery

(* The recovery dialog's "Retry all atomically" and "Clear". *)
RetryRecovery ==
  LET after == ApplyAll(graph, recovery)
  IN /\ Editable
     /\ recovery # << >> /\ after # Refused
     /\ Record(recovery)
     /\ recovery' = << >>
     /\ gesture' = Still
     /\ graph' = after
     /\ InvalidateFor(recovery)
     /\ UNCHANGED <<chain, viewing>>

ClearRecovery ==
  /\ recovery # << >>
  /\ recovery' = << >>
  /\ UNCHANGED <<chain, pending, history, graph, gesture, viewing, screen, revised>>

(* A panel that asks for values evaluates before the frame is drawn. *)
Evaluate ==
  /\ evalDirty
  /\ evalDirty' = FALSE
  /\ UNCHANGED <<ledger, history, graph, gesture, viewing, sceneDirty, revised>>

(* A frame: take_scene_dirty, evaluate, rebuild. *)
Frame ==
  /\ sceneDirty
  /\ evalDirty' = FALSE /\ sceneDirty' = FALSE
  /\ UNCHANGED <<ledger, history, graph, gesture, viewing, revised>>

Snapshot == [chain |-> chain, pending |-> pending, recovery |-> recovery,
             view |-> view]

(* Document::restore: the document a snapshot on disk stands for. *)
Restored(snapshot) ==
  ApplyAll(Replay(snapshot.chain, Len(snapshot.chain)), snapshot.pending)

Restore(snapshot) ==
  /\ Restored(snapshot) # Refused
  /\ chain' = snapshot.chain
  /\ pending' = snapshot.pending
  /\ recovery' = snapshot.recovery
  /\ graph' = Restored(snapshot)
  /\ undo' = << >> /\ redo' = << >>
  /\ gesture' = Still
  /\ view' = snapshot.view
  /\ viewGraph' = IF snapshot.view = Latest THEN Working
                  ELSE Replay(snapshot.chain, snapshot.view)
  /\ InvalidateAll
  /\ revised' = FALSE

-----------------------------------------------------------------------------

Next ==
  \/ \E ops \in Edits : ApplyOps(ops)
  \/ \E n \in NodeId, v \in Value : ParamDrag(n, v)
  \/ \E ids \in SUBSET NodeId : BeginMove(ids)
  \/ \E n \in NodeId, p \in Pos : MoveLive(n, p)
  \/ EndGesture
  \/ UndoPending
  \/ RedoPending
  \/ \E i \in 0..MaxBlocks : SetView(i)
  \/ Commit
  \/ \E ops \in Pulled : MergeRemote(ops) \/ AdoptRemote(ops)
  \/ RetryRecovery
  \/ ClearRecovery
  \/ Evaluate
  \/ Frame

Spec == Init /\ [][Next]_vars

-----------------------------------------------------------------------------

(* The working graph is what the blocks, the pending operations and the
   operation the drag in flight would record give when they are replayed: in
   whatever order drags, edits, undos and merges come, the ledger that is
   signed, saved and sent is the model on the screen. *)
LedgerGivesGraph == ApplyAll(Committed, Settled) = graph

(* Undo and Redo always work: the lengths to go back to grow and leave at
   least an operation each, and the batches undone still replay, the last one
   first. *)
HistoryReplays ==
  /\ \A i \in DOMAIN undo : undo[i] < Len(pending)
  /\ \A i, j \in DOMAIN undo : i < j => undo[i] < undo[j]
  /\ \A i \in DOMAIN redo : redo[i] # << >>
  /\ ApplyAll(Committed, Settled \o FlattenSeq(Reverse(SettledRedo))) # Refused

(* The operations of a document authored here: signed, pending or put aside. *)
Authored(blocks, p, r) ==
  FlattenSeq([i \in DOMAIN blocks |->
                IF blocks[i].by = "local" THEN blocks[i].ops ELSE << >>]) \o p \o r

Count(o, ops) == Cardinality({i \in DOMAIN ops : ops[i] = o})

KeepsAuthored(p) ==
  LET before == Authored(chain, p, recovery)
      after == Authored(chain', Settled', recovery') \o FlattenSeq(redo')
  IN \A i \in DOMAIN before : Count(before[i], before) <= Count(before[i], after)

(* A frame of a drag, which may replace what the drag would record. *)
DragFrame ==
  \/ \E n \in NodeId, v \in Value : ParamDrag(n, v)
  \/ \E n \in NodeId, p \in Pos : MoveLive(n, p)

LosesNothing == KeepsAuthored(Settled) \/ (DragFrame /\ KeepsAuthored(pending))

(* What evaluation and drawing depend on. *)
Shape(g) ==
  [nodes |-> [n \in Nodes(g) |-> <<g.nodes[n].kind, g.nodes[n].value>>],
   edges |-> g.edges]

=============================================================================
