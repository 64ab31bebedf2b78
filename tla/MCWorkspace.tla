------------------------------ MODULE MCWorkspace ------------------------------
(* Two sessions.  In the first, node 1 is added, changed, dragged and removed  *)
(* by the user and by the blocks pulled, and nothing is saved.  In the second, *)
(* nodes 2 and 3 and a wire, which a block may take away under it, are saved,  *)
(* left, killed and reopened at any time.                                      *)
EXTENDS Workspace

VARIABLE session

MCEdits ==
  {<<AddNode(1, "slider", "here")>>, <<RemoveNode(1)>>, <<SetParam(1, "low")>>,
   <<AddNode(2, "slider", "here"), AddNode(3, "slider", "here")>>,
   <<Connect(<<2, 1>>, <<3, 1>>)>>}
MCPulled ==
  {<<AddNode(1, "slider", "here")>>, <<RemoveNode(1)>>,
   <<AddNode(3, "slider", "here")>>, <<RemoveNode(3)>>}

MCInit == OpenWorkspace /\ session \in {"changes", "saves"}
MCNext == Step /\ UNCHANGED session
MCSpec == MCInit /\ [][MCNext]_<<workspaceVars, session>>

(* The nodes a state speaks of. *)
Concerned ==
  Nodes(graph) \cup (IF gesture.kind = "param" THEN {gesture.id} ELSE {})

(* Frames are drawn of a ledger with nothing in it: what the screen shows of
   the others is not asked here. *)
InSession ==
  /\ (evalDirty' /\ sceneDirty') \/ (chain' = << >> /\ pending' = << >>)
  /\ \/ /\ session = "changes"
        /\ UNCHANGED saved
        /\ Concerned' \subseteq {1} /\ Len((Settled \o recovery)') <= 2
     \/ /\ session = "saves"
        /\ Concerned' \subseteq {2, 3} /\ Len(chain') <= 1
        /\ \A n \in Nodes(graph') :
             graph'.nodes[n].pos = "here" /\ graph'.nodes[n].value # "high"
=============================================================================
