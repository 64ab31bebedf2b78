----------------------------- MODULE AccessProofs -----------------------------
(***************************************************************************)
(* What is proved of AccessLedger and of ProjectStore for any keys,        *)
(* labels, titles, projects, workers and batches.                          *)
(*                                                                         *)
(* Of the ledger: LedgerInv joins the types, the agreement of the derived  *)
(* state with the log (Matches) and, in the middle of a batch, what        *)
(* try_extend put aside (BatchInv): it agrees with the log before the      *)
(* batch, and every record taken since was authorized by the log up to it. *)
(* The lemmas on the operators of AccessRules come first: what one more    *)
(* record changes of a log's grants, flag and title.  The refinement of    *)
(* AccessLog follows from LedgerInv, one step for each action.             *)
(*                                                                         *)
(* Of the store: Inv has three parts above the types.  LocksInv: the       *)
(* mutexes exclude each other, and nobody is in the commit once writes are *)
(* latched.  PreparedInv: a request judged under its project's mutex stays *)
(* admitted, and its candidate stays memory extended by its batch, until   *)
(* it answers.  DiskInv: memory, the visible files and what a power loss   *)
(* may leave agree, but for the window between rename and sync.  Each part *)
(* has a lemma for the initial states and one for the steps; the lemmas of *)
(* a later part assume the earlier ones.  The theorems are at the end.     *)
(***************************************************************************)
EXTENDS AccessLedger, ProjectStore, TLAPS

(* One more record leaves the others where they are. *)
LEMMA Appended ==
  ASSUME NEW S, NEW s \in Seq(S), NEW e \in S
  PROVE  /\ Append(s, e) \in Seq(S)
         /\ Len(Append(s, e)) = Len(s) + 1
         /\ DOMAIN Append(s, e) = DOMAIN s \cup {Len(s) + 1}
         /\ \A i \in DOMAIN s : Append(s, e)[i] = s[i] /\ i < Len(s) + 1
         /\ Append(s, e)[Len(s) + 1] = e
OBVIOUS

(* A key is what the last record about it says: a new record about it decides,
   and any other leaves it as it was. *)
LEMMA AppendGrant ==
  ASSUME NEW log \in Seq(AccessRecord), NEW r \in AccessRecord, NEW k \in Key,
         NEW ro \in Role, NEW l \in Label
  PROVE  HasGrant(Append(log, r), k, ro, l) <=>
           IF AboutKey(r, k) THEN r.action = Grant(k, ro, l)
                             ELSE HasGrant(log, k, ro, l)
<1> DEFINE new == Append(log, r)
           n == Len(log) + 1
<1>1. /\ DOMAIN new = DOMAIN log \cup {n}
      /\ \A i \in DOMAIN log : new[i] = log[i] /\ i < n /\ ~(n < i)
      /\ new[n] = r /\ ~(n < n) /\ n \notin DOMAIN log
  BY Appended
<1>2. \A i, j \in DOMAIN log : i \in Nat /\ j \in Nat
  OBVIOUS
<1> HIDE DEF new, n
<1>3. CASE AboutKey(r, k)
  <2>1. LastAbout(new, n, k)
    BY <1>1, <1>3 DEF LastAbout
  <2>2. \A i \in DOMAIN new : LastAbout(new, i, k) => i = n
    BY <1>1, <1>3 DEF LastAbout
  <2> QED BY <1>1, <1>3, <2>1, <2>2 DEF HasGrant, new
<1>4. CASE ~AboutKey(r, k)
  <2>1. ~LastAbout(new, n, k)
    BY <1>1, <1>4 DEF LastAbout
  <2>2. \A i \in DOMAIN log : LastAbout(new, i, k) <=> LastAbout(log, i, k)
    BY <1>1, <1>4 DEF LastAbout
  <2> QED BY <1>1, <1>4, <2>1, <2>2 DEF HasGrant, new
<1> QED BY <1>3, <1>4

(* The last archive or unarchive decides. *)
LEMMA AppendFlag ==
  ASSUME NEW log \in Seq(AccessRecord), NEW r \in AccessRecord
  PROVE  Archived(Append(log, r)) <=>
           IF IsFlag(r) THEN r.action.type = "archive" ELSE Archived(log)
<1> DEFINE new == Append(log, r)
           n == Len(log) + 1
<1>1. /\ DOMAIN new = DOMAIN log \cup {n}
      /\ \A i \in DOMAIN log : new[i] = log[i] /\ i < n /\ ~(n < i)
      /\ new[n] = r /\ ~(n < n) /\ n \notin DOMAIN log
  BY Appended
<1> HIDE DEF new, n
<1>2. CASE IsFlag(r)
  BY <1>1, <1>2 DEF Archived, IsFlag, new
<1>3. CASE ~IsFlag(r)
  BY <1>1, <1>3 DEF Archived, IsFlag, new
<1> QED BY <1>2, <1>3

(* The last rename decides. *)
LEMMA AppendTitle ==
  ASSUME NEW log \in Seq(AccessRecord), NEW r \in AccessRecord, NEW t \in Title
  PROVE  HasTitle(Append(log, r), t) <=>
           IF IsRename(r) THEN r.action.title = t ELSE HasTitle(log, t)
<1> DEFINE new == Append(log, r)
           n == Len(log) + 1
<1>1. /\ DOMAIN new = DOMAIN log \cup {n}
      /\ \A i \in DOMAIN log : new[i] = log[i] /\ i < n /\ ~(n < i)
      /\ new[n] = r /\ ~(n < n) /\ n \notin DOMAIN log
  BY Appended
<1> HIDE DEF new, n
<1>2. CASE IsRename(r)
  BY <1>1, <1>2 DEF HasTitle, new
<1>3. CASE ~IsRename(r)
  BY <1>1, <1>3 DEF HasTitle, new
<1> QED BY <1>2, <1>3

(* A log has one title. *)
LEMMA OneTitle ==
  ASSUME NEW log \in Seq(AccessRecord), NEW t, NEW u,
         HasTitle(log, t), HasTitle(log, u)
  PROVE  t = u
<1>1. \A i, j \in DOMAIN log : i = j \/ i < j \/ j < i
  OBVIOUS
<1>2. CASE \A i \in DOMAIN log : ~IsRename(log[i])
  BY <1>2 DEF HasTitle
<1>3. CASE \E i \in DOMAIN log : IsRename(log[i])
  <2>1. PICK i \in DOMAIN log :
          /\ IsRename(log[i]) /\ log[i].action.title = t
          /\ \A j \in DOMAIN log : j > i => ~IsRename(log[j])
    BY <1>3 DEF HasTitle
  <2>2. PICK h \in DOMAIN log :
          /\ IsRename(log[h]) /\ log[h].action.title = u
          /\ \A j \in DOMAIN log : j > h => ~IsRename(log[j])
    BY <1>3 DEF HasTitle
  <2>3. i = h
    BY <1>1, <2>1, <2>2
  <2> QED BY <2>1, <2>2, <2>3
<1> QED BY <1>2, <1>3

-----------------------------------------------------------------------------

(* A map, a title and a flag say what a log says. *)
Matches(log, m, t, a) ==
  /\ \A k \in Key, r \in Role, l \in Label :
       m[k] = [role |-> r, label |-> l] <=> HasGrant(log, k, r, l)
  /\ HasTitle(log, t)
  /\ a = Archived(log)

Before == SubSeq(records, 1, saved.len)

(* What is put aside agrees with the log before the batch, there is an owner
   in it, and the records taken since were authorized one by one. *)
BatchInv ==
  left > 0 =>
    /\ saved.len \in 1..Len(records)
    /\ Matches(Before, saved.members, saved.title, saved.archived)
    /\ \E k \in Key : saved.members[k].role = "owner"
    /\ \A i \in saved.len + 1..Len(records) :
         Authorized(SubSeq(records, 1, i - 1), records[i])

LedgerInv ==
  /\ LedgerTypeOK
  /\ records # << >>
  /\ Matches(records, members, title, archived)
  /\ OwnerRemains
  /\ BatchInv

-----------------------------------------------------------------------------

(* The map's owners are the log's. *)
LEMMA OwnersAgree ==
  ASSUME LedgerTypeOK, Matches(records, members, title, archived)
  PROVE  /\ \A k \in Key : role(k) = "owner" <=> IsOwner(records, k)
         /\ \A k \in Key : role(k) # "none" <=> CanWrite(records, k)
         /\ OwnerKeys = Owners(records)
<1>1. ASSUME NEW k \in Key
      PROVE  /\ role(k) = "owner" <=> IsOwner(records, k)
             /\ role(k) # "none" <=> CanWrite(records, k)
  <2>1. members[k] \in Member
    BY DEF LedgerTypeOK
  <2>2. \A ro \in Role, l \in Label :
          members[k] = [role |-> ro, label |-> l] <=> HasGrant(records, k, ro, l)
    BY DEF Matches
  <2>3. \A ro \in Role : role(k) = ro <=> HasRole(records, k, ro)
    <3> TAKE ro \in Role
    <3>1. role(k) = ro <=> \E l \in Label : members[k] = [role |-> ro, label |-> l]
      <4>1. ASSUME role(k) = ro
            PROVE  /\ members[k].label \in Label
                   /\ members[k] = [role |-> ro, label |-> members[k].label]
        BY <2>1, <4>1 DEF role, Member, Absent, Role
      <4>2. ASSUME NEW l \in Label, members[k] = [role |-> ro, label |-> l]
            PROVE  role(k) = ro
        BY <4>2 DEF role
      <4> QED BY <4>1, <4>2
    <3> QED BY <2>2, <3>1 DEF HasRole
  <2>4. role(k) # "none" <=> role(k) \in Role
    BY <2>1 DEF role, Member, Absent, Role
  <2> QED BY <2>3, <2>4 DEF IsOwner, CanWrite, Role
<1>2. OwnerKeys = Owners(records)
  BY <1>1 DEF OwnerKeys, Owners
<1> QED BY <1>1, <1>2

(* What apply_next accepts by its map, the log authorizes by itself. *)
LEMMA AcceptedIsAuthorized ==
  ASSUME LedgerInv, NEW r \in AccessRecord, Accepts(r)
  PROVE  Authorized(records, r)
<1> DEFINE a == r.action
<1>1. /\ \A k \in Key : role(k) = "owner" <=> IsOwner(records, k)
      /\ \A k \in Key : role(k) # "none" <=> CanWrite(records, k)
      /\ OwnerKeys = Owners(records)
  BY OwnersAgree DEF LedgerInv
<1>2. r.actor \in Key /\ a \in GrantAction \cup RevokeAction \cup RenameAction \cup FlagAction
  BY DEF AccessRecord
<1>3. IsOwner(records, r.actor)
  BY <1>1, <1>2 DEF Accepts
<1>4. Matches(records, members, title, archived) /\ records \in Seq(AccessRecord)
  BY DEF LedgerInv, LedgerTypeOK
<1>5. Meaningful(records, a)
  <2>1. CASE AppliesGrant(a)
    <3>1. a.key \in Key /\ a.role \in Role /\ a.label \in Label
      BY <1>2, <2>1 DEF AppliesGrant, GrantAction, RevokeAction, RenameAction, FlagAction
    <3>2. ~HasGrant(records, a.key, a.role, a.label)
      BY <1>4, <2>1, <3>1 DEF AppliesGrant, Matches
    <3>3. a.role = "owner" \/ Owners(records) # {a.key}
      BY <1>1, <2>1 DEF AppliesGrant, LastOwner
    <3> QED BY <2>1, <3>2, <3>3 DEF Meaningful, AppliesGrant
  <2>2. CASE AppliesRevoke(a)
    <3>1. a.key \in Key
      BY <1>2, <2>2 DEF AppliesRevoke, GrantAction, RevokeAction, RenameAction, FlagAction
    <3> QED BY <1>1, <2>2, <3>1 DEF Meaningful, AppliesRevoke, LastOwner
  <2>3. CASE a.type = "rename" /\ a.title # title
    <3>1. HasTitle(records, title)
      BY <1>4 DEF Matches
    <3>2. ~HasTitle(records, a.title)
      BY <1>4, <2>3, <3>1, OneTitle
    <3> QED BY <2>3, <3>2 DEF Meaningful
  <2>4. CASE a.type = "archive" /\ ~archived
    BY <1>4, <2>4 DEF Meaningful, Matches
  <2>5. CASE a.type = "unarchive" /\ archived
    BY <1>4, <2>5 DEF Meaningful, Matches
  <2> QED BY <2>1, <2>2, <2>3, <2>4, <2>5 DEF Accepts, Applies
<1> QED BY <1>3, <1>5 DEF Authorized, LedgerInv

(* The state after one record says what the longer log says. *)
LEMMA ApplyMatches ==
  ASSUME LedgerInv, NEW r \in AccessRecord, Accept(r)
  PROVE  Matches(records', members', title', archived')
<1> DEFINE a == r.action
<1>1. /\ records \in Seq(AccessRecord) /\ title \in Title
      /\ members \in [Key -> Member]
      /\ Matches(records, members, title, archived)
  BY DEF LedgerInv, LedgerTypeOK
<1>2. records' = Append(records, r)
  BY DEF Accept
<1>3. a \in GrantAction \cup RevokeAction \cup RenameAction \cup FlagAction
  BY DEF AccessRecord
<1>4. ASSUME NEW k \in Key, NEW ro \in Role, NEW l \in Label
      PROVE  members'[k] = [role |-> ro, label |-> l] <=> HasGrant(records', k, ro, l)
  <2>1. HasGrant(records', k, ro, l) <=>
          IF AboutKey(r, k) THEN a = Grant(k, ro, l) ELSE HasGrant(records, k, ro, l)
    BY <1>1, <1>2, AppendGrant
  <2>2. members[k] = [role |-> ro, label |-> l] <=> HasGrant(records, k, ro, l)
    BY <1>1 DEF Matches
  <2>3. CASE ~AboutKey(r, k)
    <3>1. members'[k] = members[k]
      BY <1>1, <1>3, <2>3 DEF Accept, Apply, AboutKey, GrantAction, RevokeAction, RenameAction, FlagAction
    <3> QED BY <2>1, <2>2, <2>3, <3>1
  <2>4. CASE AboutKey(r, k) /\ a.type = "grant"
    <3>1. members'[k] = [role |-> a.role, label |-> a.label]
      BY <1>1, <2>4 DEF Accept, Apply, AboutKey
    <3>2. a = [type |-> "grant", key |-> k, role |-> a.role, label |-> a.label]
      BY <1>3, <2>4 DEF AboutKey, GrantAction, RevokeAction, RenameAction, FlagAction
    <3> QED BY <2>1, <2>4, <3>1, <3>2 DEF Grant
  <2>5. CASE AboutKey(r, k) /\ a.type = "revoke"
    <3>1. members'[k] = Absent
      BY <1>1, <2>5 DEF Accept, Apply, AboutKey
    <3> QED BY <2>1, <2>5, <3>1 DEF Grant, Absent, Role
  <2> QED BY <2>3, <2>4, <2>5 DEF AboutKey
<1>5. HasTitle(records', title')
  <2>1. title' \in Title
    BY <1>1, <1>3 DEF Accept, Apply, GrantAction, RevokeAction, RenameAction, FlagAction
  <2>2. HasTitle(records', title') <=>
          IF IsRename(r) THEN a.title = title' ELSE HasTitle(records, title')
    BY <1>1, <1>2, <2>1, AppendTitle
  <2> QED BY <1>1, <2>2 DEF Accept, Apply, IsRename, Matches
<1>6. archived' = Archived(records')
  <2>1. Archived(records') <=> IF IsFlag(r) THEN a.type = "archive" ELSE Archived(records)
    BY <1>1, <1>2, AppendFlag
  <2>2. archived' = IF IsFlag(r) THEN a.type = "archive" ELSE archived
    BY DEF Accept, Apply, IsFlag
  <2> QED BY <1>1, <2>1, <2>2, Zenon DEF Matches, Archived
<1> QED BY <1>4, <1>5, <1>6 DEF Matches

(* A ledger starts with its bootstrap record and the state that says so. *)
LEMMA LedgerInitial == LedgerInit => LedgerInv
<1> SUFFICES ASSUME LedgerInit PROVE LedgerInv
  OBVIOUS
<1>1. Bootstrap \in AccessRecord
  BY KeyAssumption, LabelAssumption
     DEF Bootstrap, AccessRecord, Grant, GrantAction, Role
<1>2. LedgerTypeOK
  <2>1. records \in Seq(AccessRecord) /\ left \in 0..MaxBatch
    BY <1>1, LedgerAssumption DEF LedgerInit
  <2>2. members \in [Key -> Member] /\ title \in Title /\ archived \in BOOLEAN
    BY LabelAssumption, TitleAssumption DEF LedgerInit, Member, Absent, Role
  <2>3. saved \in Saved
    BY <2>2 DEF LedgerInit, Saved
  <2> QED BY <2>1, <2>2, <2>3 DEF LedgerTypeOK
<1>3. records = <<Bootstrap>> /\ DOMAIN records = {1} /\ records[1] = Bootstrap
  BY DEF LedgerInit
<1>4. Matches(records, members, title, archived)
  <2>1. ASSUME NEW k \in Key, NEW ro \in Role, NEW l \in Label
        PROVE  members[k] = [role |-> ro, label |-> l] <=> HasGrant(records, k, ro, l)
    <3>1. \A i \in DOMAIN records : LastAbout(records, i, k) <=> k = InitialOwner
      BY <1>3 DEF LastAbout, AboutKey, Bootstrap, Grant
    <3>2. HasGrant(records, k, ro, l) <=>
            k = InitialOwner /\ Grant(InitialOwner, "owner", NoLabel) = Grant(k, ro, l)
      BY <1>3, <3>1 DEF HasGrant, Bootstrap
    <3>3. members[k] = IF k = InitialOwner THEN [role |-> "owner", label |-> NoLabel] ELSE Absent
      BY DEF LedgerInit
    <3> QED BY <3>2, <3>3, LabelAssumption DEF Grant, Absent, Role
  <2>2. HasTitle(records, title)
    BY <1>3 DEF HasTitle, IsRename, LedgerInit, Bootstrap, Grant
  <2>3. archived = Archived(records)
    <3>1. archived = FALSE
      BY DEF LedgerInit
    <3>2. ~Archived(records)
      BY <1>3 DEF Archived, Bootstrap, Grant
    <3> QED BY <3>1, <3>2, Zenon DEF Archived
  <2> QED BY <2>1, <2>2, <2>3 DEF Matches
<1>5. OwnerRemains
  BY KeyAssumption DEF OwnerRemains, OwnerKeys, role, LedgerInit
<1> QED BY <1>2, <1>3, <1>4, <1>5 DEF LedgerInv, BatchInv, LedgerInit

(* A batch begins: the state is put aside. *)
LEMMA BeginInv ==
  ASSUME LedgerInv, NEW n \in 1..MaxBatch, Begin(n)
  PROVE  LedgerInv'
<1>1. records \in Seq(AccessRecord) /\ Len(records) \in Nat /\ Len(records) > 0
  BY DEF LedgerInv, LedgerTypeOK
<1>2. LedgerTypeOK'
  <2>1. /\ records' \in Seq(AccessRecord) /\ members' \in [Key -> Member]
        /\ title' \in Title /\ archived' \in BOOLEAN /\ left' \in 0..MaxBatch
    BY LedgerAssumption DEF Begin, LedgerInv, LedgerTypeOK
  <2>2. saved' \in Saved
    BY <1>1 DEF Begin, LedgerInv, LedgerTypeOK, Saved
  <2> QED BY <2>1, <2>2 DEF LedgerTypeOK
<1>3. Matches(records, members, title, archived)'
  BY DEF Begin, LedgerInv, Matches
<1>4. OwnerRemains'
  BY DEF Begin, LedgerInv, OwnerRemains, OwnerKeys, role
<1>5. BatchInv'
  <2>1. /\ saved'.len = Len(records) /\ saved'.members = members
        /\ saved'.title = title /\ saved'.archived = archived /\ records' = records
    BY DEF Begin
  <2>2. Before' = records
    BY <1>1, <2>1 DEF Before
  <2>3. \E k \in Key : saved'.members[k].role = "owner"
    BY <2>1 DEF LedgerInv, OwnerRemains, OwnerKeys, role
  <2>4. \A i \in saved'.len + 1..Len(records') : FALSE
    BY <1>1, <2>1
  <2>5. saved'.len \in 1..Len(records')
    BY <1>1, <2>1
  <2>6. Matches(records, members, title, archived)
    BY DEF LedgerInv
  <2> QED BY <2>1, <2>2, <2>3, <2>4, <2>5, <2>6 DEF BatchInv
<1> QED BY <1>2, <1>3, <1>4, <1>5, <1>1 DEF LedgerInv, Begin

(* No record takes the project's last owner: to demote or to revoke a key,
   another has to own the project. *)
LEMMA OwnerStays ==
  ASSUME LedgerInv, NEW r \in AccessRecord, Accept(r)
  PROVE  OwnerRemains'
<1> DEFINE a == r.action
<1>1. members \in [Key -> Member]
  BY DEF LedgerInv, LedgerTypeOK
<1>2. PICK o \in Key : role(o) = "owner"
  BY DEF LedgerInv, OwnerRemains, OwnerKeys
<1>3. a \in GrantAction \cup RevokeAction \cup RenameAction \cup FlagAction
  BY DEF AccessRecord
<1>4. CASE AppliesGrant(a)
  <2>1. /\ a.key \in Key /\ a.type = "grant"
        /\ members' = [members EXCEPT ![a.key] = [role |-> a.role, label |-> a.label]]
    BY <1>3, <1>4
       DEF Accept, Apply, AppliesGrant, GrantAction, RevokeAction, RenameAction, FlagAction
  <2>2. CASE a.role = "owner"
    <3>1. members'[a.key].role = "owner"
      BY <1>1, <2>1, <2>2
    <3> QED BY <2>1, <3>1 DEF OwnerRemains, OwnerKeys, role
  <2>3. CASE a.role # "owner"
    <3>1. OwnerKeys # {a.key}
      BY <1>4, <2>3 DEF AppliesGrant, LastOwner
    <3>2. PICK k \in Key : role(k) = "owner" /\ k # a.key
      BY <1>2, <3>1 DEF OwnerKeys
    <3>3. members'[k] = members[k]
      BY <1>1, <2>1, <3>2
    <3> QED BY <3>2, <3>3 DEF OwnerRemains, OwnerKeys, role
  <2> QED BY <2>2, <2>3
<1>5. CASE AppliesRevoke(a)
  <2>1. a.key \in Key /\ members' = [members EXCEPT ![a.key] = Absent]
    BY <1>3, <1>5
       DEF Accept, Apply, AppliesRevoke, GrantAction, RevokeAction, RenameAction, FlagAction
  <2>2. PICK k \in Key : role(k) = "owner" /\ k # a.key
    BY <1>2, <1>5 DEF AppliesRevoke, LastOwner, OwnerKeys
  <2>3. members'[k] = members[k]
    BY <1>1, <2>1, <2>2
  <2> QED BY <2>2, <2>3 DEF OwnerRemains, OwnerKeys, role
<1>6. CASE a.type \in {"rename", "archive", "unarchive"}
  <2>1. members' = members
    BY <1>6 DEF Accept, Apply
  <2> QED BY <1>2, <2>1 DEF OwnerRemains, OwnerKeys, role
<1> QED BY <1>4, <1>5, <1>6 DEF Accept, Accepts, Applies

(* What was a prefix of a log is one of the log with a record more. *)
LEMMA PrefixAppended ==
  ASSUME NEW S, NEW s \in Seq(S), NEW e \in S, NEW n \in 0..Len(s)
  PROVE  /\ SubSeq(Append(s, e), 1, n) = SubSeq(s, 1, n)
         /\ SubSeq(Append(s, e), 1, Len(s)) = s
OBVIOUS

(* A record that is accepted joins those that were authorized one by one. *)
LEMMA BatchGrows ==
  ASSUME LedgerInv, NEW r \in AccessRecord, Accept(r)
  PROVE  /\ Before' = Before /\ saved' = saved
         /\ saved.len \in 1..Len(records) /\ Len(records') = Len(records) + 1
         /\ \A i \in saved.len + 1..Len(records') :
              Authorized(SubSeq(records', 1, i - 1), records'[i])
<1>1. records \in Seq(AccessRecord) /\ Len(records) \in Nat
  BY DEF LedgerInv, LedgerTypeOK
<1>2. records' = Append(records, r) /\ saved' = saved /\ left > 0
  BY DEF Accept
<1>3. /\ saved.len \in 1..Len(records)
      /\ \A i \in saved.len + 1..Len(records) :
           Authorized(SubSeq(records, 1, i - 1), records[i])
  BY <1>2 DEF LedgerInv, BatchInv
<1>4. Len(records') = Len(records) + 1
  BY <1>1, <1>2
<1>5. Before' = Before
  BY <1>1, <1>2, <1>3, PrefixAppended DEF Before
<1>6. Authorized(records, r)
  BY AcceptedIsAuthorized DEF Accept
<1>7. ASSUME NEW i \in saved.len + 1..Len(records')
      PROVE  Authorized(SubSeq(records', 1, i - 1), records'[i])
  <2>1. CASE i = Len(records) + 1
    <3>1. SubSeq(records', 1, i - 1) = records /\ records'[i] = r
      BY <1>1, <1>2, <2>1, PrefixAppended
    <3> QED BY <1>6, <3>1
  <2>2. CASE i \in saved.len + 1..Len(records)
    <3>1. SubSeq(records', 1, i - 1) = SubSeq(records, 1, i - 1)
      BY <1>1, <1>2, <1>3, <2>2, PrefixAppended
    <3>2. records'[i] = records[i]
      BY <1>1, <1>2, <1>3, <2>2
    <3> QED BY <1>3, <2>2, <3>1, <3>2
  <2> QED BY <1>1, <1>3, <1>4, <2>1, <2>2
<1> QED BY <1>2, <1>3, <1>4, <1>5, <1>7

(* A record of the batch is accepted. *)
LEMMA AcceptInv ==
  ASSUME LedgerInv, NEW r \in AccessRecord, Accept(r)
  PROVE  LedgerInv'
<1>1. LedgerTypeOK'
  <2>1. /\ records \in Seq(AccessRecord) /\ members \in [Key -> Member] /\ title \in Title
        /\ archived \in BOOLEAN /\ left \in 0..MaxBatch /\ saved \in Saved
    BY DEF LedgerInv, LedgerTypeOK
  <2>2. r.action \in GrantAction \cup RevokeAction \cup RenameAction \cup FlagAction
    BY DEF AccessRecord
  <2>3. records' \in Seq(AccessRecord) /\ saved' \in Saved
    BY <2>1 DEF Accept
  <2>4. left' \in 0..MaxBatch
    BY <2>1, LedgerAssumption DEF Accept
  <2>5. title' \in Title
    BY <2>1, <2>2 DEF Accept, Apply, GrantAction, RevokeAction, RenameAction, FlagAction
  <2>6. archived' \in BOOLEAN
    <3>1. CASE IsFlag([action |-> r.action])
      <4>1. archived' = (r.action.type = "archive")
        BY <3>1 DEF Accept, Apply
      <4> QED BY <4>1
    <3>2. CASE ~IsFlag([action |-> r.action])
      BY <2>1, <3>2 DEF Accept, Apply
    <3> QED BY <3>1, <3>2
  <2>7. members' \in [Key -> Member]
    <3>1. CASE r.action.type = "grant"
      <4>1. r.action.role \in Role /\ r.action.label \in Label
        BY <2>2, <3>1 DEF GrantAction, RevokeAction, RenameAction, FlagAction
      <4>2. [role |-> r.action.role, label |-> r.action.label] \in Member
        BY <4>1 DEF Member
      <4> QED BY <2>1, <3>1, <4>2 DEF Accept, Apply
    <3>2. CASE r.action.type # "grant"
      <4>1. Absent \in Member
        BY DEF Member
      <4> QED BY <2>1, <3>2, <4>1 DEF Accept, Apply
    <3> QED BY <3>1, <3>2
  <2> QED BY <2>3, <2>4, <2>5, <2>6, <2>7 DEF LedgerTypeOK
<1>2. records' # << >>
  BY BatchGrows DEF LedgerInv, LedgerTypeOK
<1>3. Matches(records, members, title, archived)'
  BY ApplyMatches DEF Matches
<1>4. OwnerRemains'
  BY OwnerStays
<1>5. BatchInv'
  <2>1. left > 0
    BY DEF Accept
  <2>2. /\ Matches(Before, saved.members, saved.title, saved.archived)
        /\ \E k \in Key : saved.members[k].role = "owner"
    BY <2>1 DEF LedgerInv, BatchInv
  <2>3. saved.len \in 1..Len(records')
    BY BatchGrows DEF LedgerInv, LedgerTypeOK
  <2>4. Matches(Before, saved.members, saved.title, saved.archived)'
    BY <2>2, BatchGrows DEF Matches
  <2> QED BY <2>2, <2>3, <2>4, BatchGrows DEF BatchInv
<1> QED BY <1>1, <1>2, <1>3, <1>4, <1>5 DEF LedgerInv

(* A record is refused: what was put aside is the state of the log that is
   left. *)
LEMMA RefuseInv ==
  ASSUME LedgerInv, NEW r \in AccessRecord, NEW linked \in BOOLEAN, Refuse(r, linked)
  PROVE  LedgerInv'
<1>1. /\ records \in Seq(AccessRecord) /\ saved \in Saved /\ saved.len \in 1..Len(records)
      /\ Matches(Before, saved.members, saved.title, saved.archived)
      /\ \E k \in Key : saved.members[k].role = "owner"
  BY DEF Refuse, LedgerInv, LedgerTypeOK, BatchInv
<1>2. /\ records' = Before /\ members' = saved.members /\ title' = saved.title
      /\ archived' = saved.archived /\ left' = 0 /\ saved' = saved
  BY DEF Refuse, Rollback, Before
<1>3. Before \in Seq(AccessRecord) /\ Before # << >>
  BY <1>1 DEF Before
<1>4. LedgerTypeOK'
  BY <1>1, <1>2, <1>3, LedgerAssumption DEF LedgerTypeOK, Saved
<1>5. Matches(records, members, title, archived)'
  BY <1>1, <1>2 DEF Matches
<1>6. OwnerRemains'
  BY <1>1, <1>2 DEF OwnerRemains, OwnerKeys, role
<1>7. BatchInv'
  BY <1>2 DEF BatchInv
<1> QED BY <1>2, <1>3, <1>4, <1>5, <1>6, <1>7 DEF LedgerInv

(* The inductive invariant is kept by every step. *)
LEMMA LedgerStep == LedgerInv /\ [LedgerNext]_ledgerVars => LedgerInv'
<1> SUFFICES ASSUME LedgerInv, [LedgerNext]_ledgerVars PROVE LedgerInv'
  OBVIOUS
<1>1. CASE UNCHANGED ledgerVars
  BY <1>1 DEF ledgerVars, LedgerInv, LedgerTypeOK, Matches, OwnerRemains, OwnerKeys, role, BatchInv, Before
<1> QED BY <1>1, BeginInv, AcceptInv, RefuseInv DEF LedgerNext

-----------------------------------------------------------------------------

(* AccessLog's rules are those of AccessRules. *)
LEMMA SameRules ==
  ASSUME NEW log, NEW batch, ValidExtension(log, batch)
  PROVE  Abstract!ValidExtension(log, batch)
BY DEF ValidExtension, Authorized, Meaningful, IsOwner, CanWrite, Owners, HasRole, HasGrant,
       LastAbout, AboutKey, HasTitle, IsRename, Archived, IsFlag, Bootstrap, Grant, Role,
       Abstract!ValidExtension, Abstract!Authorized, Abstract!Meaningful, Abstract!IsOwner,
       Abstract!CanWrite, Abstract!Owners, Abstract!HasRole, Abstract!HasGrant,
       Abstract!LastAbout, Abstract!AboutKey, Abstract!HasTitle, Abstract!IsRename,
       Abstract!Archived, Abstract!IsFlag, Abstract!Bootstrap, Abstract!Grant, Abstract!Role

(* A log is what it was before a batch and the part of the batch up to there. *)
LEMMA CutAndJoin ==
  ASSUME NEW S, NEW s \in Seq(S), NEW n \in 0..Len(s), NEW i \in 1..Len(s) - n
  PROVE  /\ SubSeq(s, n + 1, Len(s))[i] = s[n + i]
         /\ SubSeq(s, 1, n) \o SubSeq(SubSeq(s, n + 1, Len(s)), 1, i - 1)
              = SubSeq(s, 1, n + i - 1)
<1> DEFINE a == SubSeq(s, 1, n)
           b == SubSeq(s, n + 1, Len(s))
           c == SubSeq(b, 1, i - 1)
<1>1. a \in Seq(S) /\ Len(a) = n /\ \A j \in 1..n : a[j] = s[j]
  OBVIOUS
<1>2. b \in Seq(S) /\ Len(b) = Len(s) - n /\ \A j \in 1..Len(s) - n : b[j] = s[n + j]
  OBVIOUS
<1> HIDE DEF b
<1>3. c \in Seq(S) /\ Len(c) = i - 1 /\ \A j \in 1..i - 1 : c[j] = s[n + j]
  BY <1>2
<1> HIDE DEF a, c
<1>4. a \o c = SubSeq(s, 1, n + i - 1)
  BY <1>1, <1>3
<1> QED BY <1>2, <1>4 DEF a, b, c

(* The last record of a batch publishes the batch. *)
LEMMA LastAcceptExtends ==
  ASSUME LedgerInv, NEW r \in AccessRecord, Accept(r), left' = 0
  PROVE  Abstract!Extend
<1> DEFINE n == saved.len
           before == SubSeq(records', 1, n)
           batch == SubSeq(records', n + 1, Len(records'))
<1>1. records' \in Seq(AccessRecord) /\ Len(records') \in Nat
  BY AcceptInv DEF LedgerInv, LedgerTypeOK
<1>2. /\ n \in 1..Len(records) /\ n \in 0..Len(records') /\ n < Len(records')
      /\ \A i \in n + 1..Len(records') :
           Authorized(SubSeq(records', 1, i - 1), records'[i])
  BY <1>1, BatchGrows DEF LedgerInv, LedgerTypeOK
<1>3. PublishedLog = before /\ PublishedLog' = records'
  <2>1. left # 0 /\ Before' = Before /\ saved' = saved
    BY BatchGrows DEF Accept, LedgerInv, LedgerTypeOK
  <2>2. PublishedLog = Before
    BY <2>1 DEF PublishedLog, Before
  <2>3. Before' = before
    BY <2>1 DEF Before
  <2> QED BY <2>1, <2>2, <2>3 DEF PublishedLog
<1>4. /\ Len(before) = n /\ Len(batch) = Len(records') - n
      /\ \A i \in 1..Len(records') - n :
           /\ batch[i] = records'[n + i]
           /\ before \o SubSeq(batch, 1, i - 1) = SubSeq(records', 1, n + i - 1)
  <2>1. Len(before) = n /\ Len(batch) = Len(records') - n
    BY <1>1, <1>2
  <2> QED BY <1>1, <1>2, <2>1, CutAndJoin
<1>5. ValidExtension(before, batch)
  <2> SUFFICES ASSUME NEW i \in 1..Len(batch)
               PROVE  Authorized(before \o SubSeq(batch, 1, i - 1), batch[i])
    BY DEF ValidExtension
  <2> HIDE DEF before, batch
  <2>1. n + i \in n + 1..Len(records') /\ i \in 1..Len(records') - n
    BY <1>1, <1>2, <1>4
  <2>2. Authorized(SubSeq(records', 1, n + i - 1), records'[n + i])
    BY <1>2, <2>1
  <2> QED BY <1>4, <2>1, <2>2
<1>6. Abstract!ValidExtension(before, batch)
  BY <1>5, SameRules
<1> HIDE DEF before, batch
<1>7. Len(before) = n
  BY <1>4
<1> QED BY <1>2, <1>3, <1>6, <1>7 DEF Abstract!Extend, before, batch

(* Every step of the ledger is one of the log it publishes, or none. *)
LEMMA RefinementStep ==
  ASSUME LedgerInv, [LedgerNext]_ledgerVars
  PROVE  [Abstract!Extend]_PublishedLog
<1>1. ASSUME NEW m \in 1..MaxBatch, Begin(m) PROVE PublishedLog' = PublishedLog
  <2>1. records \in Seq(AccessRecord)
    BY DEF LedgerInv, LedgerTypeOK
  <2>2. SubSeq(records, 1, Len(records)) = records
    BY <2>1
  <2>3. /\ left = 0 /\ left' # 0 /\ records' = records
        /\ saved'.len = Len(records)
    BY <1>1 DEF Begin
  <2> QED BY <2>2, <2>3 DEF PublishedLog
<1>2. ASSUME NEW r \in AccessRecord, Accept(r) PROVE [Abstract!Extend]_PublishedLog
  <2>1. CASE left' = 0
    BY <1>2, <2>1, LastAcceptExtends
  <2>2. CASE left' # 0
    <3>1. left # 0 /\ Before' = Before
      BY <1>2, BatchGrows DEF Accept
    <3> QED BY <2>2, <3>1 DEF PublishedLog, Before
  <2> QED BY <2>1, <2>2
<1>3. ASSUME NEW r \in AccessRecord, NEW linked \in BOOLEAN, Refuse(r, linked)
      PROVE  PublishedLog' = PublishedLog
  <2>1. left # 0 /\ left' = 0 /\ records' = SubSeq(records, 1, saved.len)
    BY <1>3 DEF Refuse, Rollback, LedgerInv, LedgerTypeOK
  <2> QED BY <2>1 DEF PublishedLog
<1>4. CASE UNCHANGED ledgerVars
  BY <1>4 DEF ledgerVars, PublishedLog
<1> QED BY <1>1, <1>2, <1>3, <1>4 DEF LedgerNext

-----------------------------------------------------------------------------

(* LedgerInv holds in every reachable state. *)
THEOREM LedgerInvariant == LedgerSpec => []LedgerInv
BY LedgerInitial, LedgerStep, PTL DEF LedgerSpec

(* The variables keep their types in every reachable state. *)
THEOREM LedgerTypeCorrect == LedgerSpec => []LedgerTypeOK
<1>1. LedgerInv => LedgerTypeOK
  BY DEF LedgerInv
<1> QED BY <1>1, LedgerInvariant, PTL

(* Members, title and flag are at any time what a replay of the log gives, in
   the middle of a batch and after one that was rolled back. *)
THEOREM DerivedStateMatches == LedgerSpec => []DerivedStateMatchesLog
<1>1. LedgerInv => DerivedStateMatchesLog
  BY DEF LedgerInv, Matches, DerivedStateMatchesLog
<1> QED BY <1>1, LedgerInvariant, PTL

(* Whatever batches are sent, the project has an owner. *)
THEOREM OwnerAlwaysRemains == LedgerSpec => []OwnerRemains
<1>1. LedgerInv => OwnerRemains
  BY DEF LedgerInv
<1> QED BY <1>1, LedgerInvariant, PTL

(* To its callers the ledger is AccessLog: whole batches, each record authorized
   by the records before it. *)
THEOREM LedgerImplementsLog == LedgerSpec => ImplementsAccessLog
<1>1. LedgerInit => Abstract!Init
  BY DEF LedgerInit, PublishedLog, Abstract!Init, Bootstrap, Grant, Abstract!Bootstrap, Abstract!Grant
<1>2. LedgerInv /\ [LedgerNext]_ledgerVars => [Abstract!Extend]_PublishedLog
  BY RefinementStep
<1> QED BY <1>1, <1>2, LedgerInvariant, PTL DEF LedgerSpec, ImplementsAccessLog, Abstract!Spec

-----------------------------------------------------------------------------
(* The store. *)

Contents == [chain : Seq(Block), access : Seq(AccessRecord)]
Held == {"prepared", "committing", "renamed"}

(* A worker that serves a request serves one the process still runs. *)
BusyInv ==
  \A w \in Worker : pc[w] # "idle" =>
    /\ up
    /\ request[w] \in Request
    /\ request[w].batch \in Seq(Item[request[w].file])
    /\ request[w].candidate \in Seq(Item[request[w].file])

(* The versions memory and the disk hold of a file are sequences of its items. *)
LEMMA ContentsType ==
  ASSUME NEW m \in [Project -> Contents], NEW p \in Project, NEW f \in File
  PROVE  m[p][f] \in Seq(Item[f])
BY DEF Contents, File, Item

(* Replacing one file of one project changes that file and no other. *)
LEMMA UpdateContents ==
  ASSUME NEW m \in [Project -> Contents], NEW p \in Project, NEW f \in File,
         NEW v \in Seq(Item[f])
  PROVE  /\ [m EXCEPT ![p][f] = v] \in [Project -> Contents]
         /\ [m EXCEPT ![p][f] = v][p][f] = v
         /\ \A q \in Project, g \in File :
              ~(q = p /\ g = f) => [m EXCEPT ![p][f] = v][q][g] = m[q][g]
<1>1. CASE f = "chain"
  BY <1>1 DEF Contents, File, Item
<1>2. CASE f = "access"
  BY <1>2 DEF Contents, File, Item
<1> QED BY <1>1, <1>2 DEF File

(* The candidate of a request not yet judged is a version. *)
LEMMA EmptyVersion == << >> \in Version
BY DEF Version

(* A new server's variables have their types, and no worker is busy. *)
LEMMA TypeInit == Init => TypeOK /\ BusyInv
<1> SUFFICES ASSUME Init PROVE TypeOK /\ BusyInv
  OBVIOUS
<1>1. Bootstrap \in AccessRecord
  BY KeyAssumption, LabelAssumption
  DEF Bootstrap, AccessRecord, Grant, GrantAction, Role
<1>2. Initial \in Contents
  BY <1>1 DEF Initial, Contents
<1>3. memory \in [Project -> Contents] /\ visible \in [Project -> Contents]
  BY <1>2 DEF Init
<1>4. surviving \in [Project -> [chain : SUBSET Seq(Block), access : SUBSET Seq(AccessRecord)]]
  BY <1>2 DEF Init, Contents, File
<1>5. acked = surviving
  BY DEF Init
<1> QED BY <1>3, <1>4, <1>5 DEF Init, TypeOK, BusyInv, Contents

DiskSets == [chain : SUBSET Seq(Block), access : SUBSET Seq(AccessRecord)]

(* The versions a power loss may leave of a file are sequences of its items. *)
LEMMA DiskSetsType ==
  ASSUME NEW m \in [Project -> DiskSets], NEW p \in Project, NEW f \in File
  PROVE  m[p][f] \subseteq Seq(Item[f])
BY DEF DiskSets, File, Item

(* Changing what may survive of one file changes no other's. *)
LEMMA UpdateDiskSets ==
  ASSUME NEW m \in [Project -> DiskSets], NEW p \in Project, NEW f \in File,
         NEW V \in SUBSET Seq(Item[f])
  PROVE  /\ [m EXCEPT ![p][f] = V] \in [Project -> DiskSets]
         /\ [m EXCEPT ![p][f] = V][p][f] = V
         /\ \A q \in Project, g \in File :
              ~(q = p /\ g = f) => [m EXCEPT ![p][f] = V][q][g] = m[q][g]
<1>1. CASE f = "chain"
  BY <1>1 DEF DiskSets, File, Item
<1>2. CASE f = "access"
  BY <1>2 DEF DiskSets, File, Item
<1> QED BY <1>1, <1>2 DEF File

(* What a sync of its directory leaves of a project: what is visible. *)
LEMMA VisibleSets ==
  ASSUME NEW m \in [Project -> Contents], NEW p \in Project
  PROVE  [g \in File |-> {m[p][g]}] \in DiskSets
<1>1. m[p] \in Contents
  OBVIOUS
<1>2. m[p].chain \in Seq(Block) /\ m[p].access \in Seq(AccessRecord)
  BY <1>1 DEF Contents
<1> QED BY <1>2 DEF DiskSets, File

(* The project, file and candidate of a request that holds the commit lock. *)
LEMMA Candidates ==
  ASSUME BusyInv, NEW w \in Worker, pc[w] # "idle"
  PROVE  \E p \in Project, f \in File : \E v \in Seq(Item[f]) :
           request[w].project = p /\ request[w].file = f /\ request[w].candidate = v
<1>1. request[w] \in Request /\ request[w].candidate \in Seq(Item[request[w].file])
  BY DEF BusyInv
<1>2. request[w].project \in Project /\ request[w].file \in File
  BY <1>1 DEF Request
<1> QED BY <1>1, <1>2

(* Every step keeps the types and leaves busy workers well-formed requests. *)
LEMMA TypeStep == TypeOK /\ BusyInv /\ [Next]_vars => TypeOK' /\ BusyInv'
<1> SUFFICES ASSUME TypeOK, BusyInv, [Next]_vars PROVE TypeOK' /\ BusyInv'
  OBVIOUS
<1>0. /\ memory \in [Project -> Contents]
      /\ visible \in [Project -> Contents]
      /\ surviving \in [Project -> DiskSets]
      /\ acked \in [Project -> DiskSets]
      /\ pc \in [Worker -> {"idle", "received", "prepared", "committing", "renamed"}]
      /\ request \in [Worker -> Request \cup {NoRequest}]
  BY DEF Contents, DiskSets, TypeOK
<1>1. ASSUME NEW w \in Worker, NEW p \in Project, NEW f \in File,
             NEW n \in 0..Len(memory[p][f]), NEW batch \in Batch[f],
             Receive(w, p, f, n, batch)
      PROVE  TypeOK' /\ BusyInv'
  <2>1. batch \in Seq(Item[f])
    BY BatchAssumption
  <2>2. SubSeq(memory[p][f], 1, n) \in Seq(Item[f])
    <3>1. memory[p][f] \in Seq(Item[f])
      BY <1>0, ContentsType
    <3>2. ASSUME NEW S, NEW s \in Seq(S), NEW k \in 0..Len(s)
          PROVE  SubSeq(s, 1, k) \in Seq(S)
      OBVIOUS
    <3> QED BY <3>1, <3>2, Zenon
  <2>3. Seq(Item[f]) \subseteq Version /\ << >> \in Seq(Item[f])
    BY DEF Version, Item, File
  <2>4. request'[w] \in Request /\ request'[w].batch = batch
        /\ request'[w].candidate = << >> /\ request'[w].file = f
    BY <1>0, <1>1, <2>1, <2>2, <2>3 DEF Receive, Request
  <2> QED BY <1>1, <2>1, <2>2, <2>3, <2>4 DEF Receive, TypeOK, BusyInv
<1>2. ASSUME NEW w \in Worker, Prepare(w) PROVE TypeOK' /\ BusyInv'
  <2> DEFINE r == request[w]
  <2>1. r \in Request /\ r.batch \in Seq(Item[r.file]) /\ r.file \in File
        /\ r.project \in Project
    BY <1>2 DEF Prepare, Request, BusyInv
  <2>2. Candidate(r) \in Seq(Item[r.file])
    <3>1. memory[r.project][r.file] \in Seq(Item[r.file])
      BY <1>0, <2>1, ContentsType
    <3>2. ASSUME NEW S, NEW s \in Seq(S), NEW t \in Seq(S) PROVE s \o t \in Seq(S)
      OBVIOUS
    <3> QED BY <2>1, <3>1, <3>2, Zenon DEF Candidate
  <2>3. Candidate(r) \in Version
    BY <2>1, <2>2 DEF Version, Item, File
  <2>4. request'[w] \in Request /\ request'[w].file = r.file
        /\ request'[w].batch = r.batch /\ request'[w].candidate = Candidate(r)
    BY <1>0, <1>2, <2>1, <2>3 DEF Prepare, Request
  <2> QED BY <1>2, <2>1, <2>2, <2>4 DEF Prepare, TypeOK, BusyInv
<1>3. ASSUME NEW w \in Worker, Reject(w) \/ GiveUp(w) \/ RenameFails(w)
      PROVE  TypeOK' /\ BusyInv'
  BY <1>3 DEF Reject, GiveUp, RenameFails, Answer, TypeOK, BusyInv
<1>4. ASSUME NEW w \in Worker, TakeCommit(w) PROVE TypeOK' /\ BusyInv'
  BY <1>4 DEF TakeCommit, TypeOK, BusyInv
<1>5. ASSUME NEW w \in Worker, Rename(w) PROVE TypeOK' /\ BusyInv'
  <2>a. PICK p \in Project, f \in File : \E v \in Seq(Item[f]) :
        request[w].project = p /\ request[w].file = f /\ request[w].candidate = v
    BY <1>5, Candidates DEF Rename
  <2>b. PICK v \in Seq(Item[f]) :
        request[w].project = p /\ request[w].file = f /\ request[w].candidate = v
    BY <2>a
  <2>1. visible' = [visible EXCEPT ![p][f] = v]
        /\ surviving' = [surviving EXCEPT ![p][f] = @ \cup {v}]
    BY <1>5, <2>b DEF Rename
  <2>2. visible' \in [Project -> Contents]
    BY <1>0, <2>1, UpdateContents
  <2>3. surviving[p][f] \subseteq Seq(Item[f])
    BY <1>0, DiskSetsType
  <2>4. surviving' = [surviving EXCEPT ![p][f] = surviving[p][f] \cup {v}]
    BY <1>0, <2>1 DEF DiskSets
  <2>5. surviving[p][f] \cup {v} \in SUBSET Seq(Item[f])
    BY <2>3
  <2>6. \A V \in SUBSET Seq(Item[f]) :
          [surviving EXCEPT ![p][f] = V] \in [Project -> DiskSets]
    BY <1>0, UpdateDiskSets
  <2>7. surviving' \in [Project -> DiskSets]
    BY <2>4, <2>5, <2>6
  <2> QED BY <1>5, <2>2, <2>7 DEF Rename, Contents, DiskSets, TypeOK, BusyInv
<1>6. ASSUME NEW w \in Worker, Sync(w) PROVE TypeOK' /\ BusyInv'
  <2>a. PICK p \in Project, f \in File : \E v \in Seq(Item[f]) :
        request[w].project = p /\ request[w].file = f /\ request[w].candidate = v
    BY <1>6, Candidates DEF Sync
  <2>b. PICK v \in Seq(Item[f]) :
        request[w].project = p /\ request[w].file = f /\ request[w].candidate = v
    BY <2>a
  <2>1. memory' = [memory EXCEPT ![p][f] = v]
        /\ surviving' = [surviving EXCEPT ![p] = [g \in File |-> {visible[p][g]}]]
        /\ unconfirmed' = unconfirmed \ {p}
    BY <1>6, <2>b DEF Sync
  <2>2. memory' \in [Project -> Contents]
    BY <1>0, <2>1, UpdateContents
  <2>3. [g \in File |-> {visible[p][g]}] \in DiskSets
    BY <1>0, VisibleSets
  <2>4. surviving' \in [Project -> DiskSets]
    BY <1>0, <2>1, <2>3
  <2>5. acked' = [acked EXCEPT ![p][f] = acked[p][f] \cup {v}]
    BY <1>0, <1>6, <2>b DEF Sync, DiskSets
  <2>6. acked[p][f] \cup {v} \in SUBSET Seq(Item[f])
    BY <1>0, DiskSetsType
  <2>7. \A V \in SUBSET Seq(Item[f]) :
          [acked EXCEPT ![p][f] = V] \in [Project -> DiskSets]
    BY <1>0, UpdateDiskSets
  <2>8. acked' \in [Project -> DiskSets]
    BY <2>5, <2>6, <2>7
  <2> QED BY <1>6, <2>1, <2>2, <2>4, <2>8
          DEF Sync, Contents, DiskSets, Answer, TypeOK, BusyInv
<1>7. ASSUME NEW w \in Worker, SyncFails(w) PROVE TypeOK' /\ BusyInv'
  <2>a. PICK p \in Project, f \in File : \E v \in Seq(Item[f]) :
        request[w].project = p /\ request[w].file = f /\ request[w].candidate = v
    BY <1>7, Candidates DEF SyncFails
  <2>b. PICK v \in Seq(Item[f]) :
        request[w].project = p /\ request[w].file = f /\ request[w].candidate = v
    BY <2>a
  <2>1. memory' = [memory EXCEPT ![p][f] = v]
    BY <1>7, <2>b DEF SyncFails
  <2>2. memory' \in [Project -> Contents]
    BY <1>0, <2>1, UpdateContents
  <2> QED BY <1>7, <2>2
          DEF SyncFails, latch_storage_uncertain, Contents, Answer, TypeOK, BusyInv
<1>8. ASSUME PowerLoss PROVE TypeOK' /\ BusyInv'
  <2>1. \A p \in Project, f \in File : visible'[p][f] \in surviving[p][f]
    BY <1>8 DEF PowerLoss
  <2>2. visible' \in [Project -> [chain : Survivors("chain"), access : Survivors("access")]]
    BY <1>8 DEF PowerLoss
  <2>3. Survivors("chain") \subseteq Seq(Block) /\ Survivors("access") \subseteq Seq(AccessRecord)
    BY <1>0 DEF Survivors, DiskSets
  <2>4. visible' \in [Project -> Contents]
    BY <2>2, <2>3 DEF Contents
  <2>5. \A p \in Project : [f \in File |-> {visible'[p][f]}] \in DiskSets
    BY <2>4 DEF Contents, DiskSets, File
  <2>6. surviving' \in [Project -> DiskSets]
    BY <1>8, <2>5 DEF PowerLoss
  <2> QED BY <1>8, <2>4, <2>6 DEF PowerLoss, Stop, Contents, DiskSets, TypeOK, BusyInv
<1>9. CASE Restart
  BY <1>9 DEF Restart, TypeOK, BusyInv
<1>10. CASE UNCHANGED vars
  BY <1>10 DEF vars, TypeOK, BusyInv
<1>11. CASE Kill
  BY <1>11 DEF Kill, Stop, TypeOK, BusyInv
<1> QED
  BY <1>1, <1>2, <1>3, <1>4, <1>5, <1>6, <1>7, <1>8, <1>9, <1>10, <1>11 DEF Next, Step

-----------------------------------------------------------------------------

(* Mutual exclusion, and nobody writes once the latch is set. *)
LocksInv ==
  /\ \A v, w \in Worker : HoldsCommit(v) /\ HoldsCommit(w) => v = w
  /\ \A v, w \in Worker, p \in Project :
       HoldsProject(v, p) /\ HoldsProject(w, p) => v = w
  /\ \A w \in Worker : HoldsCommit(w) => mutationsAllowed

(* While a worker holds its project's mutex, what it was judged by stays true:
   the batch is still admitted, and the candidate still extends memory. *)
PreparedInv ==
  \A w \in Worker : pc[w] \in Held =>
    /\ request[w].candidate = Candidate(request[w])
    /\ Admits(request[w])

Writes(w, p, f) ==
  pc[w] = "renamed" /\ request[w].project = p /\ request[w].file = f

(* How memory and disk are related outside and inside the window between the
   rename and the directory sync: what is visible is one of the versions that
   may survive, and unless a kill left more of them it is the only one outside
   the window. *)
DiskInv ==
  \A p \in Project, f \in File :
    /\ visible[p][f] \in surviving[p][f]
    /\ up => memory[p][f] \in surviving[p][f]
    /\ up /\ (\A w \in Worker : ~Writes(w, p, f)) =>
         /\ visible[p][f] = memory[p][f]
         /\ mutationsAllowed /\ p \notin unconfirmed =>
              surviving[p][f] = {memory[p][f]}
    /\ \A w \in Worker : Writes(w, p, f) => visible[p][f] = request[w].candidate
    /\ ~up /\ p \notin unconfirmed => surviving[p][f] = {visible[p][f]}

Types == TypeOK /\ BusyInv

(* At the start nobody holds a lock. *)
LEMMA LocksInit == Init => LocksInv
BY DEF Init, LocksInv, HoldsCommit, HoldsProject

(* No step lets a second worker into a mutex or the commit, nor anybody into
   the commit once writes are latched. *)
LEMMA LocksStep == Types /\ LocksInv /\ [Next]_vars => LocksInv'
<1> SUFFICES ASSUME Types, LocksInv, [Next]_vars PROVE LocksInv'
  OBVIOUS
<1> USE DEF LocksInv, HoldsCommit, HoldsProject, Types, TypeOK
<1>1. ASSUME NEW w \in Worker, NEW p \in Project, NEW f \in File,
             NEW n \in 0..Len(memory[p][f]), NEW batch \in Batch[f],
             Receive(w, p, f, n, batch)
      PROVE  LocksInv'
  BY <1>1 DEF Receive
<1>2. ASSUME NEW w \in Worker, Prepare(w) PROVE LocksInv'
  BY <1>2 DEF Prepare, ProjectFree
<1>3. ASSUME NEW w \in Worker, Reject(w) \/ GiveUp(w) \/ RenameFails(w) \/ Sync(w)
      PROVE  LocksInv'
  <2>1. Answer(w) /\ mutationsAllowed' = mutationsAllowed
    BY <1>3 DEF Reject, GiveUp, RenameFails, Sync
  <2>2. \A u \in Worker : pc'[u] # "idle" => pc'[u] = pc[u] /\ request'[u] = request[u]
    BY <2>1 DEF Answer
  <2> QED BY <2>1, <2>2
<1>4. ASSUME NEW w \in Worker, TakeCommit(w) PROVE LocksInv'
  BY <1>4 DEF TakeCommit, CommitFree
<1>5. ASSUME NEW w \in Worker, Rename(w) PROVE LocksInv'
  BY <1>5 DEF Rename
<1>6. ASSUME NEW w \in Worker, SyncFails(w) PROVE LocksInv'
  BY <1>6 DEF SyncFails, Answer, latch_storage_uncertain
<1>7. CASE Kill \/ PowerLoss
  BY <1>7 DEF Kill, PowerLoss, Stop
<1>8. CASE Restart
  BY <1>8 DEF Restart, BusyInv
<1>9. CASE UNCHANGED vars
  BY <1>9 DEF vars
<1> QED
  BY <1>1, <1>2, <1>3, <1>4, <1>5, <1>6, <1>7, <1>8, <1>9 DEF Next, Step

(* At the start no request has been judged. *)
LEMMA PreparedInit == Init => PreparedInv
BY DEF Init, PreparedInv, Held

(* A step that changes one file of one project leaves the others as they were,
   so it disturbs no candidate but that of the worker that made it. *)
LEMMA PreparedKept ==
  ASSUME Types, LocksInv, PreparedInv, NEW w \in Worker, pc[w] = "renamed",
         NEW p \in Project, NEW f \in File, NEW v \in Seq(Item[f]),
         request[w].project = p,
         memory' = [memory EXCEPT ![p][f] = v], Answer(w)
  PROVE  PreparedInv'
<1> SUFFICES ASSUME NEW u \in Worker, pc'[u] \in Held
             PROVE  /\ request'[u].candidate = Candidate(request[u])'
                    /\ Admits(request[u])'
  BY DEF PreparedInv
<1>1. u # w /\ pc[u] \in Held /\ request'[u] = request[u]
  BY DEF Answer, Types, TypeOK, Held
<1>2. request[u] \in Request /\ request[u].project \in Project
  BY <1>1 DEF Types, BusyInv, Request, Held
<1>3. request[u].project # p
  BY <1>1, <1>2 DEF LocksInv, HoldsProject, Held
<1>4. memory'[request[u].project] = memory[request[u].project]
  BY <1>2, <1>3 DEF Types, TypeOK
<1>5. Candidate(request[u])' = Candidate(request[u])
  BY <1>1, <1>4 DEF Candidate
<1>6. Admits(request[u])' <=> Admits(request[u])
  BY <1>1, <1>4 DEF Admits, AdmitsPush, AdmitsAccess
<1> QED BY <1>1, <1>5, <1>6 DEF PreparedInv

(* A step that leaves memory alone and lets no other worker start holding a
   mutex keeps every other worker's judgement. *)
LEMMA PreparedStill ==
  ASSUME PreparedInv, memory' = memory,
         \A u \in Worker : pc'[u] \in Held =>
           pc[u] \in Held /\ request'[u] = request[u]
  PROVE  PreparedInv'
<1> SUFFICES ASSUME NEW u \in Worker, pc'[u] \in Held
             PROVE  /\ request'[u].candidate = Candidate(request[u])'
                    /\ Admits(request[u])'
  BY DEF PreparedInv
<1>1. request'[u] = request[u] /\ pc[u] \in Held
  OBVIOUS
<1>2. Candidate(request[u])' = Candidate(request[u])
  BY <1>1 DEF Candidate
<1>3. Admits(request[u])' <=> Admits(request[u])
  BY <1>1 DEF Admits, AdmitsPush, AdmitsAccess
<1> QED BY <1>1, <1>2, <1>3 DEF PreparedInv

(* What a request was judged by stays true through every step, its own and
   those of the other workers, until it is answered. *)
LEMMA PreparedStep == Types /\ LocksInv /\ PreparedInv /\ [Next]_vars => PreparedInv'
<1> SUFFICES ASSUME Types, LocksInv, PreparedInv, [Next]_vars PROVE PreparedInv'
  OBVIOUS
<1>1. ASSUME NEW w \in Worker, NEW p \in Project, NEW f \in File,
             NEW n \in 0..Len(memory[p][f]), NEW batch \in Batch[f],
             Receive(w, p, f, n, batch)
      PROVE  PreparedInv'
  BY <1>1, PreparedStill DEF Receive, Held, Types, TypeOK
<1>2. ASSUME NEW w \in Worker, Prepare(w) PROVE PreparedInv'
  <2>1. request[w] \in Request
    BY <1>2 DEF Prepare, Types, BusyInv
  <2>2. request'[w] = [request[w] EXCEPT !.candidate = Candidate(request[w])]
    BY <1>2, <2>1 DEF Prepare, Types, TypeOK
  <2>3. /\ request'[w].candidate = Candidate(request[w])
        /\ request'[w].project = request[w].project
        /\ request'[w].file = request[w].file
        /\ request'[w].base = request[w].base
        /\ request'[w].batch = request[w].batch
    BY <2>1, <2>2 DEF Request
  <2>4. \A u \in Worker : u # w => request'[u] = request[u] /\ pc'[u] = pc[u]
    BY <1>2 DEF Prepare, Types, TypeOK
  <2>5. memory' = memory /\ Admits(request[w])
    BY <1>2 DEF Prepare
  <2> SUFFICES ASSUME NEW u \in Worker, pc'[u] \in Held
               PROVE  /\ request'[u].candidate = Candidate(request[u])'
                      /\ Admits(request[u])'
    BY DEF PreparedInv
  <2>6. CASE u = w
    <3>1. Candidate(request[u])' = Candidate(request[w])
      BY <2>3, <2>5, <2>6 DEF Candidate
    <3>2. Admits(request[u])' <=> Admits(request[w])
      BY <2>3, <2>5, <2>6 DEF Admits, AdmitsPush, AdmitsAccess
    <3> QED BY <2>3, <2>5, <2>6, <3>1, <3>2
  <2>7. CASE u # w
    <3>1. Candidate(request[u])' = Candidate(request[u])
      BY <2>4, <2>5, <2>7 DEF Candidate
    <3>2. Admits(request[u])' <=> Admits(request[u])
      BY <2>4, <2>5, <2>7 DEF Admits, AdmitsPush, AdmitsAccess
    <3> QED BY <2>4, <2>7, <3>1, <3>2 DEF PreparedInv
  <2> QED BY <2>6, <2>7
<1>3. ASSUME NEW w \in Worker, Reject(w) \/ GiveUp(w) \/ RenameFails(w)
      PROVE  PreparedInv'
  BY <1>3, PreparedStill DEF Reject, GiveUp, RenameFails, Answer, Held, Types, TypeOK
<1>4. ASSUME NEW w \in Worker, TakeCommit(w) \/ Rename(w) PROVE PreparedInv'
  BY <1>4, PreparedStill DEF TakeCommit, Rename, Held, Types, TypeOK
<1>5. ASSUME NEW w \in Worker, Sync(w) \/ SyncFails(w) PROVE PreparedInv'
  <2>a. PICK p \in Project, f \in File : \E v \in Seq(Item[f]) :
        request[w].project = p /\ request[w].file = f /\ request[w].candidate = v
    BY <1>5, Candidates DEF Sync, SyncFails, Types
  <2>b. PICK v \in Seq(Item[f]) :
        request[w].project = p /\ request[w].file = f /\ request[w].candidate = v
    BY <2>a
  <2>1. memory' = [memory EXCEPT ![p][f] = v] /\ pc[w] = "renamed" /\ Answer(w)
    BY <1>5, <2>b DEF Sync, SyncFails
  <2> QED BY <2>b, <2>1, PreparedKept
<1>6. CASE Kill \/ PowerLoss
  BY <1>6 DEF Kill, PowerLoss, Stop, PreparedInv, Held
<1>7. CASE Restart
  BY <1>7 DEF Restart, Types, BusyInv, PreparedInv, Held
<1>8. CASE UNCHANGED vars
  BY <1>8, PreparedStill DEF vars
<1> QED
  BY <1>1, <1>2, <1>3, <1>4, <1>5, <1>6, <1>7, <1>8 DEF Next, Step

(* A new project's files are on disk as memory has them. *)
LEMMA DiskInit == Init => DiskInv
BY DEF Init, DiskInv, Writes, File, Initial

(* Every step keeps memory and disk in the relation DiskInv states: a rename
   opens the window, a sync closes it for the project's two files, one that
   fails latches writes, and a kill leaves the project unconfirmed. *)
LEMMA DiskStep == Types /\ LocksInv /\ PreparedInv /\ DiskInv /\ [Next]_vars => DiskInv'
<1> SUFFICES ASSUME Types, LocksInv, PreparedInv, DiskInv, [Next]_vars,
                    NEW q \in Project, NEW g \in File
             PROVE  /\ visible'[q][g] \in surviving'[q][g]
                    /\ up' => memory'[q][g] \in surviving'[q][g]
                    /\ up' /\ (\A w \in Worker : ~Writes(w, q, g)') =>
                         /\ visible'[q][g] = memory'[q][g]
                         /\ mutationsAllowed' /\ q \notin unconfirmed' =>
                              surviving'[q][g] = {memory'[q][g]}
                    /\ \A w \in Worker : Writes(w, q, g)' =>
                         visible'[q][g] = request'[w].candidate
                    /\ ~up' /\ q \notin unconfirmed' =>
                         surviving'[q][g] = {visible'[q][g]}
  BY DEF DiskInv
<1> DEFINE Goal ==
      /\ visible'[q][g] \in surviving'[q][g]
      /\ up' => memory'[q][g] \in surviving'[q][g]
      /\ up' /\ (\A w \in Worker : ~Writes(w, q, g)') =>
           /\ visible'[q][g] = memory'[q][g]
           /\ mutationsAllowed' /\ q \notin unconfirmed' =>
                surviving'[q][g] = {memory'[q][g]}
      /\ \A w \in Worker : Writes(w, q, g)' =>
           visible'[q][g] = request'[w].candidate
      /\ ~up' /\ q \notin unconfirmed' => surviving'[q][g] = {visible'[q][g]}
<1>0. /\ memory \in [Project -> Contents]
      /\ visible \in [Project -> Contents]
      /\ surviving \in [Project -> DiskSets]
  BY DEF Contents, DiskSets, Types, TypeOK
<1>1. ASSUME NEW w \in Worker, pc[w] # "renamed", pc'[w] # "renamed",
             \A u \in Worker : u # w => pc'[u] = pc[u] /\ request'[u] = request[u],
             UNCHANGED <<memory, visible, surviving, mutationsAllowed, up, unconfirmed>>
      PROVE  Goal
  <2>1. \A u \in Worker : Writes(u, q, g)' <=> Writes(u, q, g)
    BY <1>1 DEF Writes
  <2>2. \A u \in Worker : Writes(u, q, g) => request'[u] = request[u]
    BY <1>1 DEF Writes
  <2> QED BY <1>1, <2>1, <2>2 DEF DiskInv
<1>2. ASSUME NEW w \in Worker, NEW p \in Project, NEW f \in File,
             NEW n \in 0..Len(memory[p][f]), NEW batch \in Batch[f],
             Receive(w, p, f, n, batch)
      PROVE  Goal
  BY <1>1, <1>2 DEF Receive, Types, TypeOK
<1>3. ASSUME NEW w \in Worker, Prepare(w) \/ TakeCommit(w) PROVE Goal
  BY <1>1, <1>3 DEF Prepare, TakeCommit, Types, TypeOK
<1>4. ASSUME NEW w \in Worker, Reject(w) \/ GiveUp(w) \/ RenameFails(w) PROVE Goal
  BY <1>1, <1>4 DEF Reject, GiveUp, RenameFails, Answer, Types, TypeOK
<1>5. ASSUME NEW w \in Worker, Rename(w) PROVE Goal
  <2>a. PICK p \in Project, f \in File : \E v \in Seq(Item[f]) :
        request[w].project = p /\ request[w].file = f /\ request[w].candidate = v
    BY <1>5, Candidates DEF Rename, Types
  <2>b. PICK v \in Seq(Item[f]) :
        request[w].project = p /\ request[w].file = f /\ request[w].candidate = v
    BY <2>a
  <2>1. /\ visible' = [visible EXCEPT ![p][f] = v]
        /\ surviving' = [surviving EXCEPT ![p][f] = surviving[p][f] \cup {v}]
        /\ UNCHANGED <<memory, mutationsAllowed, up, request, unconfirmed>>
    BY <1>0, <1>5, <2>b DEF Rename, DiskSets
  <2>2. pc[w] = "committing" /\ pc' = [pc EXCEPT ![w] = "renamed"] /\ up
    BY <1>5 DEF Rename, Types, BusyInv
  <2>3. \A u \in Worker : pc[u] # "renamed"
    BY <2>2 DEF LocksInv, HoldsCommit
  <2>4. \A u \in Worker : pc'[u] = "renamed" <=> u = w
    BY <2>2, <2>3 DEF Types, TypeOK
  <2>5. /\ visible[q][g] = memory[q][g]
        /\ mutationsAllowed /\ q \notin unconfirmed => surviving[q][g] = {memory[q][g]}
        /\ memory[q][g] \in surviving[q][g]
    BY <2>2, <2>3 DEF DiskInv, Writes
  <2>6. CASE q = p /\ g = f
    <3>1. visible'[q][g] = v
      BY <1>0, <2>1, <2>6, UpdateContents
    <3>3. surviving'[q][g] = surviving[q][g] \cup {v}
      BY <1>0, <2>1, <2>6 DEF DiskSets, File
    <3> QED BY <2>b, <2>1, <2>2, <2>4, <2>5, <2>6, <3>1, <3>3 DEF Writes
  <2>7. CASE ~(q = p /\ g = f)
    <3>1. visible'[q][g] = visible[q][g]
      BY <1>0, <2>1, <2>7, UpdateContents
    <3>3. surviving'[q][g] = surviving[q][g]
      BY <1>0, <2>1, <2>7 DEF DiskSets, File
    <3> QED BY <2>b, <2>1, <2>2, <2>4, <2>5, <2>7, <3>1, <3>3 DEF Writes
  <2> QED BY <2>6, <2>7
<1>6. ASSUME NEW w \in Worker, Sync(w) \/ SyncFails(w) PROVE Goal
  <2>a. PICK p \in Project, f \in File : \E v \in Seq(Item[f]) :
        request[w].project = p /\ request[w].file = f /\ request[w].candidate = v
    BY <1>6, Candidates DEF Sync, SyncFails, Types
  <2>b. PICK v \in Seq(Item[f]) :
        request[w].project = p /\ request[w].file = f /\ request[w].candidate = v
    BY <2>a
  <2>1. /\ memory' = [memory EXCEPT ![p][f] = v]
        /\ UNCHANGED <<visible, up>>
        /\ pc[w] = "renamed" /\ Answer(w)
    BY <1>6, <2>b DEF Sync, SyncFails
  <2>2. up /\ mutationsAllowed
    BY <2>1 DEF Types, BusyInv, LocksInv, HoldsCommit
  <2>3. \A u \in Worker : pc[u] = "renamed" <=> u = w
    BY <2>1 DEF LocksInv, HoldsCommit
  <2>4. \A u \in Worker : pc'[u] # "renamed"
    BY <2>1, <2>3 DEF Answer, Types, TypeOK
  <2>5. /\ visible[q][g] \in surviving[q][g]
        /\ q = p /\ g = f => visible[q][g] = v
        /\ ~(q = p /\ g = f) =>
             /\ visible[q][g] = memory[q][g]
             /\ q \notin unconfirmed => surviving[q][g] = {memory[q][g]}
    BY <2>b, <2>1, <2>2, <2>3 DEF DiskInv, Writes
  <2>6. visible'[q][g] = memory'[q][g]
    <3>1. CASE q = p /\ g = f
      BY <1>0, <2>1, <2>5, <3>1, UpdateContents
    <3>2. CASE ~(q = p /\ g = f)
      BY <1>0, <2>1, <2>5, <3>2, UpdateContents
    <3> QED BY <3>1, <3>2
  <2>7. CASE Sync(w)
    <3>1. /\ surviving' = [surviving EXCEPT ![p] = [h \in File |-> {visible[p][h]}]]
          /\ unconfirmed' = unconfirmed \ {p}
      BY <2>b, <2>7 DEF Sync
    <3>2. CASE q = p
      <4>1. surviving'[q][g] = {visible[q][g]}
        BY <1>0, <3>1, <3>2
      <4> QED BY <2>1, <2>2, <2>4, <2>6, <4>1 DEF Writes
    <3>3. CASE q # p
      <4>1. surviving'[q] = surviving[q] /\ (q \notin unconfirmed' => q \notin unconfirmed)
        BY <1>0, <3>1, <3>3
      <4> QED BY <2>1, <2>2, <2>4, <2>5, <2>6, <3>3, <4>1 DEF Writes
    <3> QED BY <3>2, <3>3
  <2>8. CASE SyncFails(w)
    <3>1. surviving' = surviving /\ ~mutationsAllowed'
      BY <2>8 DEF SyncFails, latch_storage_uncertain
    <3> QED BY <2>1, <2>2, <2>4, <2>5, <2>6, <3>1 DEF Writes
  <2> QED BY <1>6, <2>7, <2>8
<1>7. ASSUME PowerLoss PROVE Goal
  <2>1. ~up' /\ \A u \in Worker : pc'[u] # "renamed"
    BY <1>7 DEF PowerLoss, Stop
  <2>2. surviving'[q][g] = {visible'[q][g]}
    BY <1>7 DEF PowerLoss
  <2> QED BY <2>1, <2>2 DEF Writes
<1>8. ASSUME Restart PROVE Goal
  <2>1. \A u \in Worker : pc[u] = "idle"
    BY <1>8 DEF Restart, Types, BusyInv
  <2> QED BY <1>8, <2>1 DEF Restart, DiskInv, Writes
<1>9. ASSUME Kill PROVE Goal
  <2>1. ~up' /\ \A u \in Worker : pc'[u] # "renamed"
    BY <1>9 DEF Kill, Stop
  <2>2. q \notin unconfirmed' => surviving[q][g] = {visible[q][g]}
    BY <1>9 DEF Kill
  <2> QED BY <1>9, <2>1, <2>2 DEF Kill, Writes, DiskInv
<1>10. CASE UNCHANGED vars
  BY <1>10 DEF vars, DiskInv, Writes
<1> QED
  BY <1>2, <1>3, <1>4, <1>5, <1>6, <1>7, <1>8, <1>9, <1>10 DEF Next, Step

-----------------------------------------------------------------------------

Inv == Types /\ LocksInv /\ PreparedInv /\ DiskInv

(* The inductive invariant holds at the start. *)
LEMMA InvInit == Init => Inv
BY TypeInit, LocksInit, PreparedInit, DiskInit DEF Inv, Types

(* The inductive invariant is kept by every step. *)
LEMMA InvStep == Inv /\ [Next]_vars => Inv'
BY TypeStep, LocksStep, PreparedStep, DiskStep DEF Inv, Types

(* The only step that adds a version to what a power loss may leave is a
   rename.  Memory is then one of the versions that may survive, and the only
   one of a confirmed project; the version it adds is memory extended by an
   admitted batch. *)
Extends(w, p, f) ==
  /\ request[w].project = p
  /\ request[w].file = f
  /\ Admits(request[w])
  /\ request[w].batch \in Seq(Item[f])
  /\ acked' = acked
  /\ unconfirmed' = unconfirmed
  /\ \A q \in Project, g \in File :
       /\ memory[q][g] \in surviving[q][g]
       /\ q \notin unconfirmed => surviving[q][g] = {memory[q][g]}
       /\ \A v \in surviving'[q][g] :
            \/ v \in surviving[q][g]
            \/ q = p /\ g = f /\ v = memory[q][g] \o request[w].batch

(* Every step leaves the disk what it could hold, or a part of it, but for the
   rename, which adds one version as Extends states. *)
LEMMA SurvivingStep ==
  ASSUME Inv, [Next]_vars
  PROVE  \/ \A q \in Project, g \in File : surviving'[q][g] \subseteq surviving[q][g]
         \/ \E w \in Worker, p \in Project, f \in File : Extends(w, p, f)
<1> DEFINE Shrinks ==
      \A q \in Project, g \in File : surviving'[q][g] \subseteq surviving[q][g]
<1>0. surviving \in [Project -> DiskSets]
  BY DEF Inv, Types, TypeOK, DiskSets
<1>1. ASSUME NEW w \in Worker, Rename(w)
      PROVE  \E p \in Project, f \in File : Extends(w, p, f)
  <2>1. up /\ mutationsAllowed /\ \A u \in Worker : pc[u] # "renamed"
    BY <1>1 DEF Rename, Inv, Types, BusyInv, LocksInv, HoldsCommit
  <2>2. \A q \in Project, g \in File :
          /\ memory[q][g] \in surviving[q][g]
          /\ q \notin unconfirmed => surviving[q][g] = {memory[q][g]}
    BY <2>1 DEF Inv, DiskInv, Writes
  <2>3. /\ request[w] \in Request
        /\ request[w].batch \in Seq(Item[request[w].file])
        /\ Admits(request[w])
        /\ request[w].candidate = Candidate(request[w])
    BY <1>1 DEF Rename, Inv, Types, BusyInv, PreparedInv, Held
  <2>4. PICK p \in Project, f \in File :
          request[w].project = p /\ request[w].file = f
    BY <2>3 DEF Request
  <2>5. surviving' =
          [surviving EXCEPT ![p][f] = surviving[p][f] \cup {Candidate(request[w])}]
    BY <1>0, <1>1, <2>3, <2>4 DEF Rename, DiskSets
  <2>6. Candidate(request[w]) = memory[p][f] \o request[w].batch
    BY <2>4 DEF Candidate
  <2>7. \A q \in Project, g \in File : \A v \in surviving'[q][g] :
          \/ v \in surviving[q][g]
          \/ q = p /\ g = f /\ v = memory[q][g] \o request[w].batch
    BY <1>0, <2>5, <2>6 DEF DiskSets, File
  <2>8. acked' = acked /\ unconfirmed' = unconfirmed
    BY <1>1 DEF Rename
  <2>9. Extends(w, p, f)
    BY <2>2, <2>3, <2>4, <2>7, <2>8 DEF Extends
  <2> QED BY <2>9
<1>2. ASSUME NEW w \in Worker, Sync(w) PROVE Shrinks
  <2>1. request[w] \in Request
    BY <1>2 DEF Sync, Inv, Types, BusyInv
  <2>2. PICK p \in Project, f \in File :
          request[w].project = p /\ request[w].file = f
    BY <2>1 DEF Request
  <2>3. surviving' = [surviving EXCEPT ![p] = [h \in File |-> {visible[p][h]}]]
    BY <1>2, <2>2 DEF Sync
  <2>4. \A h \in File : visible[p][h] \in surviving[p][h]
    BY <2>2 DEF Inv, DiskInv
  <2> QED BY <1>0, <2>3, <2>4
<1>3. ASSUME NEW w \in Worker, Step(w), ~Rename(w), ~Sync(w) PROVE Shrinks
  BY <1>3 DEF Step, Receive, Prepare, Reject, TakeCommit, GiveUp, RenameFails,
              SyncFails
<1>4. ASSUME Kill \/ PowerLoss PROVE Shrinks
  BY <1>4 DEF Kill, PowerLoss
<1>5. CASE Restart
  BY <1>5 DEF Restart
<1>6. CASE UNCHANGED vars
  BY <1>6 DEF vars
<1> QED BY <1>1, <1>2, <1>3, <1>4, <1>5, <1>6 DEF Next

-----------------------------------------------------------------------------

(* No step makes a latched server ready: the commit that would do so checks
   the latch under the lock that sets it. *)
LEMMA LatchedStep == Inv /\ LatchedNotReady /\ [Next]_vars => LatchedNotReady'
<1> SUFFICES ASSUME Inv, LatchedNotReady, [Next]_vars PROVE LatchedNotReady'
  OBVIOUS
<1>1. ASSUME NEW w \in Worker, Sync(w) PROVE LatchedNotReady'
  BY <1>1 DEF Sync, LatchedNotReady, Inv, LocksInv, HoldsCommit
<1>2. ASSUME NEW w \in Worker, SyncFails(w) PROVE LatchedNotReady'
  BY <1>2 DEF SyncFails, latch_storage_uncertain, LatchedNotReady
<1>4. ASSUME NEW w \in Worker, Step(w), ~Sync(w), ~SyncFails(w)
      PROVE  LatchedNotReady'
  <2>1. up' = up /\ mutationsAllowed' = mutationsAllowed /\ (ready' = ready \/ ~ready')
    BY <1>4 DEF Step, Receive, Prepare, Reject, TakeCommit, GiveUp, Rename,
                RenameFails
  <2> QED BY <2>1 DEF LatchedNotReady
<1>3. CASE Kill \/ PowerLoss \/ Restart \/ UNCHANGED vars
  BY <1>3 DEF Kill, PowerLoss, Stop, Restart, vars, LatchedNotReady
<1> QED BY <1>1, <1>2, <1>3, <1>4 DEF Next

(* Extending an access log takes no grant out of it. *)
LEMMA GrantedExtended ==
  ASSUME NEW log \in Seq(AccessRecord), NEW batch \in Seq(AccessRecord)
  PROVE  EverGranted(log) \subseteq EverGranted(log \o batch)
<1>1. \A i \in DOMAIN log : i \in DOMAIN (log \o batch) /\ (log \o batch)[i] = log[i]
  OBVIOUS
<1> QED BY <1>1, Zenon DEF EverGranted

(* A member has been granted its role by some record. *)
LEMMA MembersGranted ==
  ASSUME NEW log, NEW k, CanWrite(log, k)
  PROVE  k \in EverGranted(log)
BY DEF CanWrite, HasRole, HasGrant, EverGranted, Grant

Authored(c, l) == \A i \in DOMAIN c : c[i].author \in EverGranted(l)

(* Two runs of blocks by granted authors, one after the other, are one. *)
LEMMA AuthoredExtended ==
  ASSUME NEW c \in Seq(Block), NEW b \in Seq(Block), NEW l,
         Authored(c, l), Authored(b, l)
  PROVE  Authored(c \o b, l)
<1>1. \A i \in DOMAIN (c \o b) :
        \/ i \in DOMAIN c /\ (c \o b)[i] = c[i]
        \/ i - Len(c) \in DOMAIN b /\ (c \o b)[i] = b[i - Len(c)]
  OBVIOUS
<1> QED BY <1>1, Zenon DEF Authored

(* What makes AuthorsGranted inductive: the visible files of a project fit each
   other, so that the sync which confirms both of them confirms files that do. *)
AuthorsInv ==
  /\ AuthorsGranted
  /\ up => \A q \in Project : Authored(visible[q].chain, visible[q].access)

(* A running server's visible files fit each other after every step. *)
LEMMA VisibleStep ==
  ASSUME Inv, AuthorsInv, [Next]_vars, up', NEW q \in Project
  PROVE  Authored(visible'[q].chain, visible'[q].access)
<1>0. /\ visible \in [Project -> Contents]
      /\ memory \in [Project -> Contents]
  BY DEF Inv, Types, TypeOK, Contents
<1>1. CASE Restart
  BY <1>1 DEF Restart, Verifies, Authored
<1>2. CASE up /\ visible' = visible
  BY <1>2 DEF AuthorsInv
<1>3. ASSUME NEW w \in Worker, Rename(w)
      PROVE  Authored(visible'[q].chain, visible'[q].access)
  <2>1. up /\ \A u \in Worker : pc[u] # "renamed"
    BY <1>3 DEF Rename, Inv, Types, BusyInv, LocksInv, HoldsCommit
  <2>2. \A f \in File : visible[q][f] = memory[q][f]
    BY <2>1 DEF Inv, DiskInv, Writes
  <2>3. visible[q].chain = memory[q].chain /\ visible[q].access = memory[q].access
    BY <2>2 DEF File
  <2>4. Authored(memory[q].chain, memory[q].access)
    BY <2>1, <2>3 DEF AuthorsInv
  <2>5. /\ request[w] \in Request
        /\ request[w].batch \in Seq(Item[request[w].file])
        /\ Admits(request[w])
        /\ request[w].candidate = Candidate(request[w])
    BY <1>3 DEF Rename, Inv, Types, BusyInv, PreparedInv, Held
  <2>6. PICK p \in Project, f \in File : request[w].project = p /\ request[w].file = f
    BY <2>5 DEF Request
  <2> DEFINE b == request[w].batch
  <2>7. visible' = [visible EXCEPT ![p][f] = memory[p][f] \o b]
    BY <1>3, <2>5, <2>6 DEF Rename, Candidate
  <2>8. memory[q].chain \in Seq(Block) /\ memory[q].access \in Seq(AccessRecord)
    BY <1>0 DEF Contents
  <2>9. CASE q # p
    <3>1. visible'[q] = visible[q]
      BY <1>0, <2>7, <2>9
    <3> QED BY <2>3, <2>4, <3>1
  <2>10. CASE q = p /\ f = "chain"
    <3>1. visible'[q].chain = memory[q].chain \o b /\ visible'[q].access = memory[q].access
      BY <1>0, <2>3, <2>7, <2>10 DEF Contents
    <3>2. b \in Seq(Block) /\ \A i \in DOMAIN b : CanWrite(memory[q].access, b[i].author)
      BY <2>5, <2>6, <2>10 DEF Admits, AdmitsPush, Item
    <3>3. Authored(b, memory[q].access)
      BY <3>2, MembersGranted DEF Authored
    <3> QED BY <2>4, <2>8, <3>1, <3>2, <3>3, AuthoredExtended
  <2>11. CASE q = p /\ f = "access"
    <3>1. visible'[q].chain = memory[q].chain /\ visible'[q].access = memory[q].access \o b
      BY <1>0, <2>3, <2>7, <2>11 DEF Contents
    <3>2. b \in Seq(AccessRecord)
      BY <2>5, <2>6, <2>11 DEF Item
    <3>3. EverGranted(memory[q].access) \subseteq EverGranted(memory[q].access \o b)
      BY <2>8, <3>2, GrantedExtended
    <3> QED BY <2>4, <3>1, <3>3 DEF Authored
  <2> QED BY <2>6, <2>9, <2>10, <2>11 DEF File
<1>4. Restart \/ (up /\ visible' = visible) \/ \E w \in Worker : Rename(w)
  <2>1. CASE Kill \/ PowerLoss
    BY <2>1 DEF Kill, PowerLoss, Stop
  <2>2. ASSUME NEW w \in Worker, Step(w), ~Rename(w) PROVE up /\ visible' = visible
    BY <2>2 DEF Step, Receive, Prepare, Reject, TakeCommit, GiveUp, RenameFails, Sync,
                SyncFails
  <2>3. CASE UNCHANGED vars
    BY <2>3 DEF vars
  <2> QED BY <2>1, <2>2, <2>3 DEF Next
<1> QED BY <1>1, <1>2, <1>3, <1>4

(* Every step leaves a confirmed project only chains and access logs that fit
   each other, whichever version of either survives. *)
LEMMA AuthorsStep == Inv /\ AuthorsInv /\ [Next]_vars => AuthorsInv'
<1> SUFFICES ASSUME Inv, AuthorsInv, [Next]_vars, up', NEW q \in Project \ unconfirmed',
                    NEW c \in surviving'[q].chain, NEW l \in surviving'[q].access
             PROVE  Authored(c, l)
  BY VisibleStep DEF AuthorsInv, AuthorsGranted, Authored
<1>0. {"chain", "access"} \subseteq File
  BY DEF File
<1>a. surviving \in [Project -> DiskSets]
  BY DEF Inv, Types, TypeOK, DiskSets
<1>1. CASE Restart
  <2>1. /\ visible' = visible /\ surviving' = surviving /\ ~up /\ q \notin unconfirmed
    BY <1>1 DEF Restart
  <2>2. c = visible[q].chain /\ l = visible[q].access
    BY <1>0, <2>1 DEF Inv, DiskInv
  <2> QED BY <2>1, <2>2, VisibleStep
<1>2. ASSUME NEW w \in Worker, Sync(w), request[w].project = q PROVE Authored(c, l)
  <2>1. /\ visible' = visible
        /\ surviving' = [surviving EXCEPT ![q] = [h \in File |-> {visible[q][h]}]]
    BY <1>2 DEF Sync
  <2>2. c = visible[q].chain /\ l = visible[q].access
    BY <1>0, <1>a, <2>1
  <2> QED BY <2>1, <2>2, VisibleStep
<1>3. CASE /\ up /\ q \notin unconfirmed
           /\ \A p \in Project, f \in File : surviving'[p][f] \subseteq surviving[p][f]
  BY <1>0, <1>3 DEF AuthorsInv, AuthorsGranted, Authored
<1>4. ASSUME NEW w \in Worker, NEW p \in Project, NEW f \in File, Extends(w, p, f), up
      PROVE  Authored(c, l)
  <2> DEFINE b == request[w].batch
  <2>0. q \notin unconfirmed
    BY <1>4 DEF Extends
  <2>1. /\ c \in {memory[q].chain, memory[q].chain \o b}
        /\ l \in {memory[q].access, memory[q].access \o b}
        /\ ~(q = p /\ f = "chain") => c = memory[q].chain
        /\ ~(q = p /\ f = "access") => l = memory[q].access
    <3>1. c \in surviving'[q]["chain"] /\ l \in surviving'[q]["access"]
      OBVIOUS
    <3>2. /\ \A v \in surviving'[q]["chain"] :
               \/ v = memory[q]["chain"]
               \/ q = p /\ f = "chain" /\ v = memory[q]["chain"] \o b
          /\ \A v \in surviving'[q]["access"] :
               \/ v = memory[q]["access"]
               \/ q = p /\ f = "access" /\ v = memory[q]["access"] \o b
      <4>1. \A h \in File :
              /\ surviving[q][h] = {memory[q][h]}
              /\ \A v \in surviving'[q][h] :
                   \/ v \in surviving[q][h]
                   \/ q = p /\ h = f /\ v = memory[q][h] \o b
        BY <1>4, <2>0 DEF Extends
      <4>2. \A h \in File : \A v \in surviving'[q][h] :
              \/ v = memory[q][h]
              \/ q = p /\ h = f /\ v = memory[q][h] \o b
        BY <4>1
      <4> QED BY <1>0, <4>2
    <3> QED BY <3>1, <3>2
  <2>2. memory[q].chain \in Seq(Block) /\ memory[q].access \in Seq(AccessRecord)
    BY DEF Inv, Types, TypeOK
  <2>3. Authored(memory[q].chain, memory[q].access)
    BY <1>0, <1>4, <2>0 DEF AuthorsInv, AuthorsGranted, Authored, Extends
  <2>4. CASE q = p /\ f = "chain"
    <3>1. b \in Seq(Block)
      BY <1>4, <2>4 DEF Extends, Item
    <3>2. \A i \in DOMAIN b : CanWrite(memory[p].access, b[i].author)
      BY <1>4, <2>4 DEF Extends, Admits, AdmitsPush
    <3>3. Authored(b, memory[p].access)
      BY <3>2, MembersGranted DEF Authored
    <3>4. Authored(memory[p].chain \o b, memory[p].access)
      BY <2>2, <2>3, <2>4, <3>1, <3>3, AuthoredExtended
    <3> QED BY <2>1, <2>3, <2>4, <3>4
  <2>5. CASE q = p /\ f = "access"
    <3>1. b \in Seq(AccessRecord)
      BY <1>4, <2>5 DEF Extends, Item
    <3>2. EverGranted(memory[p].access) \subseteq EverGranted(memory[p].access \o b)
      BY <2>2, <2>5, <3>1, GrantedExtended
    <3>3. Authored(memory[p].chain, memory[p].access \o b)
      BY <2>3, <2>5, <3>2 DEF Authored
    <3> QED BY <2>1, <2>3, <2>5, <3>3
  <2>6. CASE q # p
    BY <2>1, <2>3, <2>6
  <2> QED BY <2>4, <2>5, <2>6 DEF File
<1>5. \/ Restart
      \/ \E w \in Worker : Sync(w) /\ request[w].project = q
      \/ up /\ q \notin unconfirmed
      \/ up /\ \E w \in Worker : Rename(w)
  <2>1. CASE Kill \/ PowerLoss
    BY <2>1 DEF Kill, PowerLoss, Stop
  <2>2. ASSUME NEW w \in Worker, Step(w), ~Rename(w), ~Sync(w)
        PROVE  up /\ unconfirmed' = unconfirmed
    BY <2>2 DEF Step, Receive, Prepare, Reject, TakeCommit, GiveUp, RenameFails, SyncFails
  <2>3. ASSUME NEW w \in Worker, Sync(w), request[w].project # q
        PROVE  up /\ q \notin unconfirmed
    BY <2>3 DEF Sync
  <2>4. ASSUME NEW w \in Worker, Rename(w) PROVE up
    BY <2>4 DEF Rename, Inv, Types, BusyInv
  <2>5. CASE UNCHANGED vars
    BY <2>5 DEF vars
  <2> QED BY <2>1, <2>2, <2>3, <2>4, <2>5 DEF Next
<1>6. ASSUME up, NEW w \in Worker, Rename(w) PROVE q \notin unconfirmed
  BY <1>6 DEF Rename
<1> QED BY <1>1, <1>2, <1>3, <1>4, <1>5, <1>6, SurvivingStep

(* A log extended by a batch, looked at up to one of its records. *)
LEMMA UpToRecord ==
  ASSUME NEW S, NEW s \in Seq(S), NEW b \in Seq(S), NEW i \in 1..Len(s \o b)
  PROVE  /\ i <= Len(s) =>
              /\ i \in 1..Len(s)
              /\ << >> \o SubSeq(s \o b, 1, i - 1) = << >> \o SubSeq(s, 1, i - 1)
              /\ (s \o b)[i] = s[i]
         /\ i > Len(s) =>
              /\ i - Len(s) \in 1..Len(b)
              /\ << >> \o SubSeq(s \o b, 1, i - 1)
                   = s \o SubSeq(b, 1, i - Len(s) - 1)
              /\ (s \o b)[i] = b[i - Len(s)]
<1>1. ASSUME i <= Len(s)
      PROVE  SubSeq(s \o b, 1, i - 1) = SubSeq(s, 1, i - 1)
  BY <1>1
<1>2. ASSUME i > Len(s)
      PROVE  << >> \o SubSeq(s \o b, 1, i - 1) = s \o SubSeq(b, 1, i - Len(s) - 1)
  BY <1>2
<1>3. i > Len(s) => i - Len(s) \in 1..Len(b) /\ (s \o b)[i] = b[i - Len(s)]
  OBVIOUS
<1>4. i <= Len(s) => i \in 1..Len(s) /\ (s \o b)[i] = s[i]
  OBVIOUS
<1> QED BY <1>1, <1>2, <1>3, <1>4

(* A log that replays still does when a batch valid after it is added. *)
LEMMA ReplaysExtended ==
  ASSUME NEW s \in Seq(AccessRecord), NEW b \in Seq(AccessRecord),
         Replays(s), ValidExtension(s, b)
  PROVE  Replays(s \o b)
<1>1. s \o b # << >>
  BY DEF Replays
<1>2. ASSUME NEW i \in 1..Len(s \o b)
      PROVE  Authorized(<< >> \o SubSeq(s \o b, 1, i - 1), (s \o b)[i])
  <2>1. CASE i <= Len(s)
    <3>1. /\ i \in 1..Len(s)
          /\ << >> \o SubSeq(s \o b, 1, i - 1) = << >> \o SubSeq(s, 1, i - 1)
          /\ (s \o b)[i] = s[i]
      BY <2>1, UpToRecord
    <3>2. Authorized(<< >> \o SubSeq(s, 1, i - 1), s[i])
      BY <3>1 DEF Replays, ValidExtension
    <3> QED BY <3>1, <3>2
  <2>2. CASE i > Len(s)
    <3>1. /\ i - Len(s) \in 1..Len(b)
          /\ << >> \o SubSeq(s \o b, 1, i - 1)
               = s \o SubSeq(b, 1, i - Len(s) - 1)
          /\ (s \o b)[i] = b[i - Len(s)]
      BY <2>2, UpToRecord
    <3>2. Authorized(s \o SubSeq(b, 1, i - Len(s) - 1), b[i - Len(s)])
      BY <3>1 DEF ValidExtension
    <3> QED BY <3>1, <3>2
  <2> QED BY <2>1, <2>2
<1> QED BY <1>1, <1>2 DEF Replays, ValidExtension

(* The access log of a new project replays. *)
LEMMA ReplayInit == Init => AccessLogsReplay
<1> SUFFICES ASSUME Init PROVE Replays(<<Bootstrap>>)
  BY DEF Init, AccessLogsReplay, Initial, File
<1> QED BY DEF Replays, ValidExtension, Authorized

(* Every step leaves only access logs on the disk that replay. *)
LEMMA ReplayStep == Inv /\ AccessLogsReplay /\ [Next]_vars => AccessLogsReplay'
<1> SUFFICES ASSUME Inv, AccessLogsReplay, [Next]_vars,
                    NEW q \in Project, NEW l \in surviving'[q].access
             PROVE  Replays(l)
  BY DEF AccessLogsReplay
<1>1. CASE \A p \in Project, f \in File : surviving'[p][f] \subseteq surviving[p][f]
  BY <1>1 DEF AccessLogsReplay, File
<1>2. ASSUME NEW w \in Worker, NEW p \in Project, NEW f \in File, Extends(w, p, f)
      PROVE  Replays(l)
  <2> DEFINE b == request[w].batch
  <2>1. /\ memory[q].access \in surviving[q].access
        /\ \/ l \in surviving[q].access
           \/ q = p /\ f = "access" /\ l = memory[q].access \o b
    BY <1>2 DEF Extends, File
  <2>2. memory[q].access \in Seq(AccessRecord) /\ Replays(memory[q].access)
    BY <2>1 DEF Inv, Types, TypeOK, AccessLogsReplay
  <2>3. CASE q = p /\ f = "access" /\ l = memory[q].access \o b
    <3>1. b \in Seq(AccessRecord) /\ ValidExtension(memory[q].access, b)
      BY <1>2, <2>3 DEF Extends, Admits, AdmitsAccess, Item
    <3> QED BY <2>2, <2>3, <3>1, ReplaysExtended
  <2> QED BY <2>1, <2>3 DEF AccessLogsReplay
<1> QED BY <1>1, <1>2, SurvivingStep

-----------------------------------------------------------------------------

(* A prefix of a log is a prefix of the log extended. *)
LEMMA PrefixExtended ==
  ASSUME NEW S, NEW a \in Seq(S), NEW s \in Seq(S), NEW b \in Seq(S),
         IsPrefixOf(a, s)
  PROVE  IsPrefixOf(a, s \o b)
<1>1. Len(a) <= Len(s) /\ SubSeq(s, 1, Len(a)) = a
  BY DEF IsPrefixOf
<1>2. SubSeq(s \o b, 1, Len(a)) = SubSeq(s, 1, Len(a))
  BY <1>1
<1> QED BY <1>1, <1>2 DEF IsPrefixOf

(* A log is a prefix of itself. *)
LEMMA PrefixSelf ==
  ASSUME NEW S, NEW s \in Seq(S) PROVE IsPrefixOf(s, s)
BY DEF IsPrefixOf

(* At the start the disk holds what counts as acknowledged. *)
LEMMA AckedInit == Init => AckedSurvives
<1> SUFFICES ASSUME Init, NEW p \in Project, NEW f \in File,
                    NEW a \in acked[p][f], NEW v \in surviving[p][f]
             PROVE  IsPrefixOf(a, v)
  BY DEF AckedSurvives
<1>1. a = Initial[f] /\ v = Initial[f]
  BY DEF Init
<1>2. Initial[f] \in Seq({Bootstrap})
  <2>1. CASE f = "chain"
    BY <2>1 DEF Initial
  <2>2. CASE f = "access"
    <3>1. Initial[f] = <<Bootstrap>>
      BY <2>2 DEF Initial
    <3>2. \A x : <<x>> \in Seq({x})
      OBVIOUS
    <3> QED BY <3>1, <3>2
  <2> QED BY <2>1, <2>2 DEF File
<1> QED BY <1>1, <1>2, PrefixSelf

(* Every step keeps what was acknowledged at the front of whatever the disk
   may hold. *)
LEMMA AckedStep == Inv /\ AckedSurvives /\ [Next]_vars => AckedSurvives'
<1> SUFFICES ASSUME Inv, AckedSurvives, [Next]_vars,
                    NEW q \in Project, NEW g \in File,
                    NEW a \in acked'[q][g], NEW v \in surviving'[q][g]
             PROVE  IsPrefixOf(a, v)
  BY DEF AckedSurvives
<1>0. /\ acked \in [Project -> DiskSets]
      /\ surviving \in [Project -> DiskSets]
      /\ memory \in [Project -> Contents]
  BY DEF Inv, Types, TypeOK, DiskSets, Contents
<1>1. ASSUME NEW w \in Worker, Sync(w) PROVE IsPrefixOf(a, v)
  <2>a. PICK p \in Project, f \in File : \E u \in Seq(Item[f]) :
        request[w].project = p /\ request[w].file = f /\ request[w].candidate = u
    BY <1>1, Candidates DEF Sync, Inv, Types
  <2>b. PICK u \in Seq(Item[f]) :
        request[w].project = p /\ request[w].file = f /\ request[w].candidate = u
    BY <2>a
  <2>1. /\ surviving' = [surviving EXCEPT ![p] = [h \in File |-> {visible[p][h]}]]
        /\ acked' = [acked EXCEPT ![p][f] = @ \cup {u}]
    BY <1>1, <2>b DEF Sync
  <2>2. /\ visible[p][f] = u
        /\ \A h \in File : visible[p][h] \in surviving[p][h]
    BY <1>1, <2>b DEF Sync, Inv, DiskInv, Writes
  <2>3. /\ ~(q = p /\ g = f) => a \in acked[q][g]
        /\ q = p /\ g = f => a \in acked[q][g] \/ a = u
    BY <1>0, <2>1 DEF DiskSets, File
  <2>4. /\ v \in surviving[q][g]
        /\ q = p => v = visible[q][g]
    BY <1>0, <2>1, <2>2
  <2> QED BY <2>2, <2>3, <2>4, PrefixSelf DEF AckedSurvives
<1>2. ASSUME acked' = acked, \A p \in Project, f \in File :
               surviving'[p][f] \subseteq surviving[p][f]
      PROVE  IsPrefixOf(a, v)
  BY <1>2 DEF AckedSurvives
<1>3. ASSUME NEW w \in Worker, NEW p \in Project, NEW f \in File, Extends(w, p, f)
      PROVE  IsPrefixOf(a, v)
  <2> DEFINE b == request[w].batch
  <2>1. /\ a \in acked[q][g] /\ memory[q][g] \in surviving[q][g]
        /\ \/ v \in surviving[q][g]
           \/ q = p /\ g = f /\ v = memory[q][g] \o b
        /\ b \in Seq(Item[f])
    BY <1>3 DEF Extends
  <2>2. IsPrefixOf(a, memory[q][g])
    BY <2>1 DEF AckedSurvives
  <2>3. acked[q][g] \subseteq Seq(Item[g]) /\ memory[q][g] \in Seq(Item[g])
    BY <1>0, DiskSetsType, ContentsType
  <2>4. CASE q = p /\ g = f /\ v = memory[q][g] \o b
    <3>1. a \in Seq(Item[f]) /\ memory[q][g] \in Seq(Item[f]) /\ b \in Seq(Item[f])
      BY <2>1, <2>3, <2>4
    <3>2. IsPrefixOf(a, memory[q][g] \o b)
      BY <2>2, <3>1, PrefixExtended
    <3> QED BY <2>4, <3>2
  <2> QED BY <2>1, <2>4 DEF AckedSurvives
<1>4. (\E w \in Worker : Sync(w)) \/ acked' = acked
  BY DEF Next, Step, Receive, Prepare, Reject, TakeCommit, GiveUp, Rename,
         RenameFails, SyncFails, Kill, PowerLoss, Stop, Restart, vars
<1> QED BY <1>1, <1>2, <1>3, <1>4, SurvivingStep

-----------------------------------------------------------------------------

(* A block is added to memory only by the step that ends a push, and by the
   restart that follows a stop. *)
LEMMA MembersStep ==
  ASSUME Inv, [Next]_vars, up, up', NEW q \in Project,
         memory'[q].chain # memory[q].chain
  PROVE  /\ ~Archived(memory[q].access)
         /\ \A i \in Len(memory[q].chain) + 1 .. Len(memory'[q].chain) :
              CanWrite(memory[q].access, memory'[q].chain[i].author)
<1>0. memory \in [Project -> Contents]
  BY DEF Inv, Types, TypeOK, Contents
<1>1. PICK w \in Worker : Sync(w) \/ SyncFails(w)
  BY DEF Next, Step, Receive, Prepare, Reject, TakeCommit, GiveUp, Rename,
         RenameFails, Kill, PowerLoss, Stop, Restart, vars
<1>2. /\ request[w] \in Request
      /\ request[w].batch \in Seq(Item[request[w].file])
      /\ Admits(request[w])
      /\ request[w].candidate = Candidate(request[w])
  BY <1>1 DEF Sync, SyncFails, Inv, Types, BusyInv, PreparedInv, Held
<1>3. PICK p \in Project, f \in File :
        request[w].project = p /\ request[w].file = f
  BY <1>2 DEF Request
<1>4. memory' = [memory EXCEPT ![p][f] = memory[p][f] \o request[w].batch]
  BY <1>1, <1>2, <1>3 DEF Sync, SyncFails, Candidate
<1>5. q = p /\ f = "chain" /\ memory'[q].chain = memory[q].chain \o request[w].batch
  BY <1>0, <1>4 DEF Contents, File
<1>6. request[w].batch \in Seq(Block) /\ memory[q].chain \in Seq(Block)
  BY <1>0, <1>2, <1>3, <1>5 DEF Item, Contents
<1>7. /\ ~Archived(memory[q].access)
      /\ \A i \in DOMAIN request[w].batch :
           CanWrite(memory[q].access, request[w].batch[i].author)
  BY <1>2, <1>3, <1>5 DEF Admits, AdmitsPush
<1>8. \A i \in Len(memory[q].chain) + 1 .. Len(memory'[q].chain) :
        /\ i - Len(memory[q].chain) \in DOMAIN request[w].batch
        /\ memory'[q].chain[i] = request[w].batch[i - Len(memory[q].chain)]
  <2> DEFINE s == memory[q].chain
             b == request[w].batch
  <2>1. s \in Seq(Block) /\ b \in Seq(Block)
    BY <1>6
  <2>2. \A i \in Len(s) + 1 .. Len(s \o b) :
          i - Len(s) \in DOMAIN b /\ (s \o b)[i] = b[i - Len(s)]
    <3> HIDE DEF s, b
    <3> QED BY <2>1
  <2> QED BY <1>5, <2>2
<1> QED BY <1>7, <1>8

(* What a power loss may leave of a file is a part of what is visible. *)
Ordered ==
  \A p \in Project, f \in File :
    \A v \in surviving[p][f] : IsPrefixOf(v, visible[p][f])

(* A new project's files hold one version. *)
LEMMA OrderedInit == Init => Ordered
<1> SUFFICES ASSUME Init, NEW p \in Project, NEW f \in File
             PROVE  IsPrefixOf(Initial[f], Initial[f])
  BY DEF Ordered, Init
<1>1. CASE f = "chain"
  BY <1>1 DEF Initial, IsPrefixOf
<1>2. CASE f = "access"
  <2>1. Initial[f] = <<Bootstrap>>
    BY <1>2 DEF Initial
  <2>2. <<Bootstrap>> \in Seq({Bootstrap})
    OBVIOUS
  <2> QED BY <2>1, <2>2, PrefixSelf
<1> QED BY <1>1, <1>2 DEF File

(* A rename makes visible what extends memory, which every version that may
   survive is a part of; a sync and a power loss leave one version. *)
LEMMA OrderedStep == Inv /\ Ordered /\ [Next]_vars => Ordered'
<1> SUFFICES ASSUME Inv, Ordered, [Next]_vars, NEW q \in Project, NEW g \in File,
                    NEW v \in surviving'[q][g]
             PROVE  IsPrefixOf(v, visible'[q][g])
  BY DEF Ordered
<1>0. /\ visible \in [Project -> Contents]
      /\ memory \in [Project -> Contents]
      /\ surviving \in [Project -> DiskSets]
      /\ visible' \in [Project -> Contents]
  <2>1. TypeOK'
    BY TypeStep DEF Inv, Types
  <2> QED BY <2>1 DEF Inv, Types, TypeOK, Contents, DiskSets
<1>1. visible'[q][g] \in Seq(Item[g])
  BY <1>0, ContentsType
<1>2. CASE v = visible'[q][g]
  BY <1>1, <1>2, PrefixSelf
<1>3. CASE v \in surviving[q][g] /\ visible'[q][g] = visible[q][g]
  BY <1>3 DEF Ordered
<1>4. ASSUME NEW w \in Worker, Rename(w) PROVE IsPrefixOf(v, visible'[q][g])
  <2>1. /\ request[w] \in Request
        /\ request[w].batch \in Seq(Item[request[w].file])
        /\ request[w].candidate = Candidate(request[w])
        /\ up
    BY <1>4 DEF Rename, Inv, Types, BusyInv, PreparedInv, Held
  <2>2. PICK p \in Project, f \in File : request[w].project = p /\ request[w].file = f
    BY <2>1 DEF Request
  <2> DEFINE b == request[w].batch
             n == memory[p][f] \o b
  <2>3. /\ visible' = [visible EXCEPT ![p][f] = n]
        /\ surviving' = [surviving EXCEPT ![p][f] = surviving[p][f] \cup {n}]
    BY <1>0, <1>4, <2>1, <2>2 DEF Rename, Candidate, DiskSets
  <2>4. visible[p][f] = memory[p][f]
    BY <1>4, <2>1 DEF Rename, Inv, LocksInv, HoldsCommit, DiskInv, Writes
  <2>5. CASE q = p /\ g = f
    <3>1. visible'[q][g] = n /\ (v \in surviving[q][g] \/ v = n)
      BY <1>0, <2>3, <2>5 DEF Contents, DiskSets, File
    <3>2. ASSUME v \in surviving[q][g] PROVE IsPrefixOf(v, n)
      <4>1. IsPrefixOf(v, memory[p][f])
        BY <2>4, <2>5, <3>2 DEF Ordered
      <4>2. v \in Seq(Item[f]) /\ memory[p][f] \in Seq(Item[f]) /\ b \in Seq(Item[f])
        BY <1>0, <2>1, <2>2, <2>5, <3>2, DiskSetsType, ContentsType
      <4> QED BY <4>1, <4>2, PrefixExtended
    <3> QED BY <1>2, <3>1, <3>2
  <2>6. CASE ~(q = p /\ g = f)
    BY <1>0, <1>3, <2>3, <2>6 DEF Contents, DiskSets, File
  <2> QED BY <2>5, <2>6
<1>5. ASSUME NEW w \in Worker, Sync(w) PROVE IsPrefixOf(v, visible'[q][g])
  <2>1. request[w].project \in Project
    BY <1>5 DEF Sync, Inv, Types, BusyInv, Request
  <2>2. /\ visible' = visible
        /\ surviving' = [surviving EXCEPT ![request[w].project] =
                           [h \in File |-> {visible[request[w].project][h]}]]
    BY <1>5 DEF Sync
  <2>3. v = visible[q][g] \/ v \in surviving[q][g]
    BY <1>0, <2>1, <2>2
  <2> QED BY <1>2, <1>3, <2>2, <2>3
<1>6. CASE PowerLoss
  <2>1. v = visible'[q][g]
    BY <1>6 DEF PowerLoss
  <2> QED BY <1>2, <2>1
<1>7. \/ visible' = visible /\ surviving' = surviving
      \/ PowerLoss
      \/ \E w \in Worker : Sync(w) \/ Rename(w)
  <2>1. ASSUME NEW w \in Worker, Step(w), ~Sync(w), ~Rename(w)
        PROVE  visible' = visible /\ surviving' = surviving
    BY <2>1 DEF Step, Receive, Prepare, Reject, TakeCommit, GiveUp, RenameFails, SyncFails
  <2>2. CASE Kill \/ Restart \/ UNCHANGED vars
    BY <2>2 DEF Kill, Restart, vars
  <2> QED BY <2>1, <2>2 DEF Next
<1> QED BY <1>3, <1>4, <1>5, <1>6, <1>7

(* The invariant says of idle projects what ServedIsDurable says. *)
LEMMA ServedFromDisk == Inv /\ Ordered => ServedIsDurable
<1> SUFFICES ASSUME Inv, Ordered, up, NEW p \in Project, ProjectFree(p)
             PROVE  /\ visible[p] = memory[p]
                    /\ \A f \in File : \A v \in surviving[p][f] : IsPrefixOf(v, memory[p][f])
                    /\ mutationsAllowed /\ p \notin unconfirmed =>
                         \A f \in File : surviving[p][f] = {memory[p][f]}
  BY DEF ServedIsDurable
<1>1. \A f \in File, w \in Worker : ~Writes(w, p, f)
  BY DEF ProjectFree, HoldsProject, Writes
<1>2. \A f \in File :
        /\ visible[p][f] = memory[p][f]
        /\ mutationsAllowed /\ p \notin unconfirmed => surviving[p][f] = {memory[p][f]}
  BY <1>1 DEF Inv, DiskInv
<1>3. visible[p].chain = memory[p].chain /\ visible[p].access = memory[p].access
  BY <1>2 DEF File
<1>4. visible[p] = memory[p]
  <2>1. visible[p] \in Contents /\ memory[p] \in Contents
    BY DEF Inv, Types, TypeOK, Contents
  <2>2. \A c, d \in Contents : c.chain = d.chain /\ c.access = d.access => c = d
    BY DEF Contents
  <2> QED BY <1>3, <2>1, <2>2
<1> QED BY <1>2, <1>4 DEF Ordered

-----------------------------------------------------------------------------

(* Every state a run of the server reaches satisfies the inductive invariant:
   locks exclude each other, a judged request stays admitted while its mutex is
   held, and memory and disk agree outside the window of the commit. *)
THEOREM Invariant == Spec => []Inv
BY InvInit, InvStep, PTL DEF Spec

(* The variables keep their types in every reachable state. *)
THEOREM TypeCorrect == Spec => []TypeOK
<1>1. Inv => TypeOK
  BY DEF Inv, Types
<1> QED BY <1>1, Invariant, PTL

(* Once a push or an access update ends with an uncertain disk, no request
   still under way in any project reports the server ready again: /readyz stays
   red until a restart (latch_storage_uncertain). *)
THEOREM LatchedStaysNotReady == Spec => []LatchedNotReady
<1>1. Init => LatchedNotReady
  BY DEF Init, LatchedNotReady
<1> QED BY <1>1, InvInit, InvStep, LatchedStep, PTL DEF Spec

(* What an idle project serves is what its files hold, and a power loss leaves
   that or a part of it.  While writes are allowed it leaves exactly that,
   but for a project the server opened after a kill between a rename and the
   sync of its directory and has not written to since. *)
THEOREM ServedDurable == Spec => []ServedIsDurable
BY Invariant, ServedFromDisk, OrderedInit, OrderedStep, InvInit, InvStep, PTL DEF Spec

(* Whatever a power loss leaves of a project whose directory was synced since
   the last kill, the server starts again from it: each block's author has a
   grant in the access log beside it. *)
THEOREM EveryAuthorGranted == Spec => []AuthorsGranted
<1>1. Init => AuthorsInv
  BY DEF Init, AuthorsInv, AuthorsGranted, Authored, Initial, File
<1>2. AuthorsInv => AuthorsGranted
  BY DEF AuthorsInv
<1> QED BY <1>1, <1>2, InvInit, InvStep, AuthorsStep, PTL DEF Spec

(* Whatever a power loss leaves of an access log replays from its bootstrap
   record on. *)
THEOREM EveryLogReplays == Spec => []AccessLogsReplay
BY ReplayInit, ReplayStep, InvInit, InvStep, PTL DEF Spec

(* A version answered with 200 is a prefix of everything its file can hold from
   then on, through crashes and restarts. *)
THEOREM NothingAckedIsLost == Spec => []AckedSurvives
BY AckedInit, AckedStep, InvInit, InvStep, PTL DEF Spec

(* Blocks enter a running server's memory only while their authors are members
   of a project that is not archived. *)
THEOREM MembersOnly == Spec => OnlyMembersWrite
<1>1. Inv /\ [Next]_vars =>
        [up /\ up' => \A p \in Project :
           memory'[p].chain # memory[p].chain =>
             /\ ~Archived(memory[p].access)
             /\ \A i \in Len(memory[p].chain) + 1 .. Len(memory'[p].chain) :
                  CanWrite(memory[p].access, memory'[p].chain[i].author)]_vars
  BY MembersStep
<1> QED BY <1>1, Invariant, PTL DEF Spec, OnlyMembersWrite
=============================================================================
