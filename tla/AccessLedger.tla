---------------------------- MODULE AccessLedger ----------------------------
(***************************************************************************)
(* AccessLedgerV1: the access log together with the derived state the      *)
(* server answers from (members, title, archived), extended by batches of  *)
(* signed records.  try_extend changes the derived state record by record  *)
(* and puts everything back when a later record of the batch is refused;   *)
(* the steps of that loop are the actions here.                            *)
(***************************************************************************)
EXTENDS AccessRules

CONSTANTS
  MaxBatch,  (* bound: records in one batch *)
  MaxRecords     (* bound: records in the log *)

ASSUME LedgerAssumption == MaxBatch \in Nat /\ MaxRecords \in Nat

VARIABLES
  records,   (* AccessLedgerV1.records *)
  members,   (* AccessLedgerV1.members: the BTreeMap, as a total function *)
  title,     (* effective_title *)
  archived,  (* effective_archived *)
  left,      (* records of the current batch not yet looked at; 0: no batch *)
  saved      (* try_extend's original_len, _members, _title and _archived *)

ledgerVars == <<records, members, title, archived, left, saved>>

Absent == [role |-> "none", label |-> NoLabel]
Member == [role : Role, label : Label] \cup {Absent}
Saved  == [len : Nat, members : [Key -> Member], title : Title,
           archived : BOOLEAN]

-----------------------------------------------------------------------------

role(k)       == members[k].role
OwnerKeys     == {k \in Key : role(k) = "owner"}
LastOwner(k)  == OwnerKeys = {k}

(* apply_next's match: what each action requires of the derived state. *)
AppliesGrant(a) ==
  /\ a.type = "grant"
  /\ members[a.key] # [role |-> a.role, label |-> a.label]
  /\ ~(a.role # "owner" /\ LastOwner(a.key))

(* Mutant: the last owner may be revoked. *)
RevokesAnyMember(a) == a.type = "revoke" /\ role(a.key) # "none"

AppliesRevoke(a) ==
  /\ a.type = "revoke"
  /\ role(a.key) # "none"
  /\ ~LastOwner(a.key)

Applies(a) ==
  \/ AppliesGrant(a)
  \/ AppliesRevoke(a)
  \/ a.type = "rename" /\ a.title # title
  \/ a.type = "archive" /\ ~archived
  \/ a.type = "unarchive" /\ archived

(* Mutant: the actor is checked once, against the members before the batch. *)
AcceptsByOldMembers(r) ==
  saved.members[r.actor].role = "owner" /\ Applies(r.action)

(* apply_next as a whole, after verify_next found the record linked to the
   head and correctly signed. *)
Accepts(r) == role(r.actor) = "owner" /\ Applies(r.action)

-----------------------------------------------------------------------------

(* replay of the log a new project starts with. *)
LedgerInit ==
  /\ records = <<Bootstrap>>
  /\ members = [k \in Key |->
                  IF k = InitialOwner THEN [role |-> "owner", label |-> NoLabel]
                                      ELSE Absent]
  /\ title = ManifestTitle
  /\ archived = FALSE
  /\ left = 0
  /\ saved = [len |-> 0, members |-> members, title |-> title,
              archived |-> archived]

Begin(n) ==
  /\ left = 0
  /\ n > 0 /\ Len(records) + n <= MaxRecords
  /\ left' = n
  /\ saved' = [len |-> Len(records), members |-> members, title |-> title,
               archived |-> archived]
  /\ UNCHANGED <<records, members, title, archived>>

(* What the record does to the derived state. *)
Apply(a) ==
  /\ members' =
       IF a.type = "grant"
         THEN [members EXCEPT ![a.key] = [role |-> a.role, label |-> a.label]]
       ELSE IF a.type = "revoke" THEN [members EXCEPT ![a.key] = Absent]
       ELSE members
  /\ title' = IF a.type = "rename" THEN a.title ELSE title
  /\ archived' = IF IsFlag([action |-> a]) THEN a.type = "archive" ELSE archived

Accept(r) ==
  /\ left > 0
  /\ Accepts(r)
  /\ Apply(r.action)
  /\ records' = Append(records, r)
  /\ left' = left - 1
  /\ UNCHANGED saved

(* A refused record rolls the whole batch back.  linked is FALSE for a
   record whose index, previous hash, project, hash or signature is wrong. *)
Rollback ==
  /\ records'  = SubSeq(records, 1, saved.len)
  /\ members'  = saved.members
  /\ title'    = saved.title
  /\ archived' = saved.archived

Refuse(r, linked) ==
  /\ left > 0
  /\ ~(linked /\ Accepts(r))
  /\ Rollback
  /\ left' = 0
  /\ UNCHANGED saved

LedgerNext ==
  \/ \E n \in 1..MaxBatch : Begin(n)
  \/ \E r \in AccessRecord : Accept(r)
  \/ \E r \in AccessRecord, linked \in BOOLEAN : Refuse(r, linked)

LedgerSpec == LedgerInit /\ [][LedgerNext]_ledgerVars

-----------------------------------------------------------------------------

(* Every variable has the shape the source gives it. *)
LedgerTypeOK ==
  /\ records \in Seq(AccessRecord)
  /\ members \in [Key -> Member]
  /\ title \in Title
  /\ archived \in BOOLEAN
  /\ left \in 0..MaxBatch
  /\ saved \in Saved

(* The incrementally updated map, title and flag say exactly what the log
   says, in the middle of a batch and after a rolled-back one too: a server
   that replays its log after a restart answers as it did before. *)
DerivedStateMatchesLog ==
  /\ \A k \in Key, r \in Role, l \in Label :
       members[k] = [role |-> r, label |-> l] <=> HasGrant(records, k, r, l)
  /\ HasTitle(records, title)
  /\ archived = Archived(records)

(* A project never loses its last owner: nobody could administer it again. *)
OwnerRemains == OwnerKeys # {}

(* The log as callers see it: try_extend is one step to them. *)
PublishedLog == IF left = 0 THEN records ELSE SubSeq(records, 1, saved.len)

Abstract == INSTANCE AccessLog WITH log <- PublishedLog

(* The ledger only ever grows by whole batches whose every record was
   authorized by the log before it; a refused batch leaves no trace. *)
ImplementsAccessLog == Abstract!Spec
=============================================================================
