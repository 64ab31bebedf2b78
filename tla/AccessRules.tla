---------------------------- MODULE AccessRules ----------------------------
(***************************************************************************)
(* The project access log as a value: a sequence of signed records, and    *)
(* what such a sequence says about who belongs to the project.             *)
(*                                                                         *)
(* mantis-protocol keeps the answer in a map that it updates record by     *)
(* record (AccessLedger models that map).  Here every question is          *)
(* answered by the log alone, without a map: the last record about a key   *)
(* decides.  ProjectStore and the abstract AccessLog are stated with these *)
(* operators; AccessLedger is shown to agree with them.                    *)
(***************************************************************************)
EXTENDS Integers, Sequences

CONSTANTS
  Key,           (* public keys *)
  CreatedBy,     (* the operator that signed the project *)
  InitialOwner,  (* the owner the signed manifest names *)
  Label,         (* labels a grant may carry, NoLabel among them *)
  NoLabel,
  Title,         (* project titles *)
  ManifestTitle  (* the title in the signed manifest *)

ASSUME KeyAssumption   == CreatedBy \in Key /\ InitialOwner \in Key
ASSUME LabelAssumption == NoLabel \in Label
ASSUME TitleAssumption == ManifestTitle \in Title

Role == {"owner", "writer"}

Grant(k, r, l) == [type |-> "grant", key |-> k, role |-> r, label |-> l]

GrantAction == [type : {"grant"}, key : Key, role : Role, label : Label]
RevokeAction == [type : {"revoke"}, key : Key]
RenameAction == [type : {"rename"}, title : Title]
FlagAction == [type : {"archive", "unarchive"}]

(* What a signed record says: who acts, and the action.  The hash of a
   record commits to everything before it, so a position in one log and
   the log up to there are the same thing as an index and a prev_hash. *)
AccessRecord ==
  [actor : Key,
   action : GrantAction \cup RevokeAction \cup RenameAction \cup FlagAction]

(* The only record a log may start with. *)
Bootstrap ==
  [actor |-> CreatedBy, action |-> Grant(InitialOwner, "owner", NoLabel)]

-----------------------------------------------------------------------------

(* The record at i settles key k: nothing later grants or revokes it. *)
AboutKey(r, k) == r.action.type \in {"grant", "revoke"} /\ r.action.key = k

LastAbout(log, i, k) ==
  /\ AboutKey(log[i], k)
  /\ \A j \in DOMAIN log : j > i => ~AboutKey(log[j], k)

HasGrant(log, k, r, l) ==
  \E i \in DOMAIN log : LastAbout(log, i, k) /\ log[i].action = Grant(k, r, l)

HasRole(log, k, r) == \E l \in Label : HasGrant(log, k, r, l)

IsOwner(log, k)  == HasRole(log, k, "owner")
CanWrite(log, k) == \E r \in Role : HasRole(log, k, r)
Owners(log)      == {k \in Key : IsOwner(log, k)}

IsFlag(r) == r.action.type \in {"archive", "unarchive"}

Archived(log) ==
  \E i \in DOMAIN log :
    /\ log[i].action.type = "archive"
    /\ \A j \in DOMAIN log : j > i => ~IsFlag(log[j])

IsRename(r) == r.action.type = "rename"

HasTitle(log, t) ==
  \/ \E i \in DOMAIN log :
       /\ IsRename(log[i]) /\ log[i].action.title = t
       /\ \A j \in DOMAIN log : j > i => ~IsRename(log[j])
  \/ t = ManifestTitle /\ \A i \in DOMAIN log : ~IsRename(log[i])

-----------------------------------------------------------------------------

(* The action changes something and leaves the project an owner. *)
Meaningful(log, a) ==
  \/ /\ a.type = "grant"
     /\ ~HasGrant(log, a.key, a.role, a.label)
     /\ a.role = "owner" \/ Owners(log) # {a.key}
  \/ /\ a.type = "revoke"
     /\ CanWrite(log, a.key)
     /\ Owners(log) # {a.key}
  \/ a.type = "rename" /\ ~HasTitle(log, a.title)
  \/ a.type = "archive" /\ ~Archived(log)
  \/ a.type = "unarchive" /\ Archived(log)

(* What apply_next accepts after log. *)
Authorized(log, r) ==
  IF log = << >> THEN r = Bootstrap
                 ELSE IsOwner(log, r.actor) /\ Meaningful(log, r.action)

(* Each record of the batch is judged by the log up to that record. *)
ValidExtension(log, batch) ==
  \A i \in 1..Len(batch) :
    Authorized(log \o SubSeq(batch, 1, i - 1), batch[i])

(* A log AccessLedgerV1::replay accepts. *)
Replays(log) == log # << >> /\ ValidExtension(<< >>, log)

(* The keys any record of the log ever granted, revoked since or not. *)
EverGranted(log) ==
  {log[i].action.key : i \in {j \in DOMAIN log : log[j].action.type = "grant"}}
=============================================================================
