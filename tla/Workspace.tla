----------------------------- MODULE Workspace -----------------------------
(***************************************************************************)
(* A document and its snapshot on disk (app.rs): autosave, an orderly exit *)
(* or a switch to another workspace, and a program that dies in between.   *)
(* A snapshot that was written is durable; the writes themselves, and the  *)
(* catalog that holds the other workspaces, are left out.                  *)
(***************************************************************************)
EXTENDS Document

VARIABLE saved    \* the snapshot on disk

workspaceVars == <<vars, saved>>

-----------------------------------------------------------------------------

OpenWorkspace == Init /\ saved = Snapshot

(* autosave: save_stamp tells whether there is something to save.  It reads
   the head, how many edits are pending and put aside, and the revision. *)
StampDiffers ==
  \/ revised
  \/ chain # saved.chain
  \/ Len(pending) # Len(saved.pending)
  \/ Len(recovery) # Len(saved.recovery)
  \/ view # saved.view

Autosave ==
  /\ StampDiffers
  /\ saved' = Snapshot
  /\ revised' = FALSE
  /\ UNCHANGED <<ledger, history, graph, gesture, viewing, screen>>

(* The program dies and is started again. *)
Crash == Restore(saved) /\ UNCHANGED saved

(* Mutant: the drag in flight is left behind. *)
LeftUnsettled == Snapshot

(* The snapshot once the gesture has ended. *)
Left == [Snapshot EXCEPT !.pending = Settled]

(* on_exit, or a switch to another workspace and back: the gesture ends, the
   document is saved, and restored later. *)
Reopen == Restore(Left) /\ saved' = Left

-----------------------------------------------------------------------------

Step ==
  \/ Next /\ UNCHANGED saved
  \/ Autosave
  \/ Crash
  \/ Reopen

WorkspaceSpec == OpenWorkspace /\ [][Step]_workspaceVars

-----------------------------------------------------------------------------

(* What is on disk opens again: a save in the middle of a drag, or after a
   merge, never leaves pending operations that do not replay. *)
SavedOpens == Restored(saved) # Refused

(* No step loses an operation of the user, nor the drag in flight: a merge
   that conflicts, a commit, a retry, an undo, or an exit in the middle of a
   drag keeps each one in a block, pending, put aside or ready to be redone.
   Only clearing the recovery list, or a program that dies before a save,
   loses one. *)
ExitLosesNothing ==
  [][ClearRecovery \/ Crash \/ LosesNothing]_workspaceVars
=============================================================================
