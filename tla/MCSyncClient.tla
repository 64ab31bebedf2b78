---------------------------- MODULE MCSyncClient ----------------------------
(* Small instances of SyncClient for TLC. *)
EXTENDS SyncClient

CONSTANTS w1, w2, p, q

(* q was created from w1's history. *)
SharedOrigin == [x \in Project |-> IF x = q THEN w1 ELSE x]

(* Every project was created from w2's history. *)
PusherOrigin == [x \in Project |-> w2]

(* One or two blocks, of a workspace that signs no other. *)
OneBlock == {[x \in Workspace |-> IF x = w2 THEN 1 ELSE 0]}
TwoBlocks == {[x \in Workspace |-> IF x = w2 THEN 2 ELSE 0]}

PullAndPush == [x \in Workspace |-> {"Pull", "Push"}]
PullAgainstPush ==
  [x \in Workspace |->
     IF x = w1 THEN {"Pull"} ELSE {"Projects", "Check", "Push"}]

(* The pusher gives a push up, and it arrives, while the other rests: what it
   does to the project then, a push that is answered does at any time. *)
Quietly ==
  (late # {} \/ late' # {}) => client[w1].flow = "Idle" /\ client'[w1].flow = "Idle"
=============================================================================
