--------------------------- MODULE MCProjectStore ---------------------------
(* Two projects, two workers, an owner and a guest, and the requests whose
   order matters: the guest is granted, writes and is revoked, the project
   archived; one batch would grant what its first record has granted. *)
EXTENDS ProjectStore, TLC

CONSTANTS owner, guest, op, plain, title, p1, p2, w1, w2

MCKey == {owner, guest}
MCProject == {p1, p2}
MCWorker == {w1, w2}

ByOwner(a) == [actor |-> owner, action |-> a]
Write(k) == [author |-> k, op |-> op]

MCBatch ==
  [chain |-> {<<Write(guest)>>},
   access |-> {<<ByOwner(Grant(guest, "owner", plain))>>,
               <<ByOwner(Grant(guest, "owner", plain)),
                 ByOwner(Grant(guest, "owner", plain))>>,
               <<ByOwner([type |-> "revoke", key |-> guest])>>,
               <<ByOwner([type |-> "archive"])>>}]

Symmetry == Permutations(MCProject) \cup Permutations(MCWorker)
=============================================================================
