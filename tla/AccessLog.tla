----------------------------- MODULE AccessLog -----------------------------
(***************************************************************************)
(* What the access ledger promises: a log that only grows, by whole        *)
(* batches, each record of which is authorized by the records before it.   *)
(***************************************************************************)
EXTENDS AccessRules

VARIABLE log

(* A ledger exists once the bootstrap record has been replayed. *)
Init == log = <<Bootstrap>>

(* One accepted batch. *)
Extend ==
  /\ Len(log') > Len(log)
  /\ log = SubSeq(log', 1, Len(log))
  /\ ValidExtension(log, SubSeq(log', Len(log) + 1, Len(log')))

Spec == Init /\ [][Extend]_log
=============================================================================
