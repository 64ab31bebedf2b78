--------------------------- MODULE MCAccessLedger ---------------------------
(* An operator that is no member, the owner it names and two more keys, so
   that ownership can be handed on and taken away; batches of up to
   three records over logs of up to five. *)
EXTENDS AccessLedger, TLC

CONSTANTS operator, owner, k1, plain, tagged, t0, t1

MCKey == {operator, owner, k1}
MCLabel == {plain, tagged}
MCTitle == {t0, t1}
=============================================================================
