--------------------------- MODULE AgentFilesProofs ---------------------------
(***************************************************************************)
(* What is proved of AgentFiles for any agents, files, names and calls.    *)
(*                                                                         *)
(* Keeping what was told (Keeps) is transitive, so it is enough that each  *)
(* replacement keeps the document it replaces (ToldOn).  A command knows   *)
(* that document still when it writes, as it holds the lock of every file  *)
(* it read or writes from then on (HoldsLocks, Undisturbed).               *)
(***************************************************************************)
EXTENDS AgentFiles, TLAPS
LOCAL INSTANCE SequencesExt

Indices == 1..Len(File)
Documents == {Absent} \cup {ChainFile(h) : h \in History}
             \cup {WorkspaceFile(h, p) : h \in History, p \in Ops}
Pushes == [base : History, target : History]
Flags == [expectHead : BOOLEAN, expectState : BOOLEAN, signPending : BOOLEAN, dry : BOOLEAN]

(* The steps at which a command holds the locks it asked for. *)
Holding == {"read", "info", "page", "final", "push", "write", "sync"}

Command ==
  [cmd : {"none", "init", "apply", "pull", "push"}, step : {"none", "lock"} \cup Holding,
   from : Nat, into : Nat, wants : SUBSET Nat, flags : Flags, edit : Ops,
   doc : Documents, result : Documents, info : History, got : History, done : Nat,
   inflight : BOOLEAN, own : SUBSET Name]

TypeOK ==
  /\ file \in [Indices -> Documents]
  /\ disk \in [Indices -> SUBSET Documents]
  /\ lock \in [Indices -> Agent \cup {Free}]
  /\ run \in [Agent -> Command]
  /\ seen \in [Agent -> [chain : History, pending : Ops]]
  /\ remote \in History
  /\ late \subseteq Pushes
  /\ told \in [Indices -> Documents] /\ shown \in [Indices -> Documents]

(* A command at work has locked its files, in all or those it got so far. *)
HoldsLocks(a) ==
  LET c == run[a]
  IN /\ c.step = "none" => c = Idle
     /\ c.step # "none" => c.from \in Indices /\ c.into \in Indices
                           /\ (c.cmd # "apply" => c.from = c.into /\ ~c.flags.dry)
     /\ c.step = "lock" => /\ c.wants \subseteq {c.from, c.into} /\ ~c.flags.dry
                           /\ \A f \in {c.from, c.into} \ c.wants : lock[f] = a
     /\ c.step \in Holding /\ ~c.flags.dry => lock[c.from] = a /\ lock[c.into] = a
     /\ c.step \in Holding \ {"read"} => ~c.flags.dry
     /\ c.step \in {"info", "page", "final"} => c.cmd \in {"pull", "push"}
     /\ c.step = "push" => c.cmd = "push"
     /\ c.inflight => c.step = "push"

Told(f, doc) == told[f] = Absent \/ Keeps(told[f], doc)
Shown(f, doc) == shown[f] = Absent \/ Keeps(shown[f], doc)
Answered(f, doc) == Told(f, doc) /\ Shown(f, doc)

(* What a command is about to write, or has written, continues what is there. *)
WritesWell(a) ==
  LET c == run[a]
  IN /\ c.step = "write" =>
          c.result # Absent /\ (c.into = c.from => Answered(c.into, c.result))
     /\ c.step = "sync" => c.result # Absent /\ file[c.into] = c.result
     /\ c.step \in {"info", "page", "final"} =>
          /\ c.doc = file[c.from]
          /\ IF c.doc = Absent THEN c.cmd = "pull" ELSE c.doc.pending = << >>
     /\ At(a, "apply", "write") =>
          LET doc == file[c.from]
          IN /\ doc # Absent
             /\ c.flags.expectHead => doc.chain = seen[a].chain
             /\ c.flags.expectState => State(doc) = seen[a]
             /\ c.result.chain # << >>
             /\ IsPrefix(doc.pending, Last(c.result.chain).ops)

(* A download is a piece of the project's history, and so is what a push
   counts as published. *)
KnowsRemote(a) ==
  LET c == run[a]
  IN /\ c.step \in {"lock", "read", "info"} => c.got = << >>
     /\ c.step \in {"page", "final"} => IsPrefix(c.got, c.info)
     /\ c.step = "push" => /\ c.doc # Absent /\ c.done <= Len(c.doc.chain)
                           /\ IsPrefix(SubSeq(c.doc.chain, 1, c.done), remote)

AgentInv(a) == HoldsLocks(a) /\ WritesWell(a) /\ KnowsRemote(a)

(* Whatever a file may hold after a power loss keeps what was told of it, and
   what it holds now what was shown as well. *)
FilesInv ==
  \A f \in Indices :
    file[f] \in disk[f] /\ (\A doc \in disk[f] : Told(f, doc)) /\ Shown(f, file[f])

LateInv == \A push \in late : IsPrefix(push.base, push.target)

Inv == TypeOK /\ (\A a \in Agent : AgentInv(a)) /\ FilesInv /\ LateInv

-----------------------------------------------------------------------------

(* A prefix is shorter and agrees at each of its places. *)
LEMMA PrefixMeans ==
  ASSUME NEW S, NEW s \in Seq(S), NEW t \in Seq(S)
  PROVE  IsPrefix(s, t) <=> Len(s) <= Len(t) /\ \A i \in 1..Len(s) : s[i] = t[i]
<1>1. SubSeq(s, 1, Len(s)) = s
  OBVIOUS
<1>2. ASSUME Len(s) <= Len(t)
      PROVE  /\ SubSeq(t, 1, Len(s)) \in Seq(S) /\ Len(SubSeq(t, 1, Len(s))) = Len(s)
             /\ \A i \in 1..Len(s) : SubSeq(t, 1, Len(s))[i] = t[i]
  BY <1>2
<1> QED BY <1>1, <1>2 DEF IsPrefix

LEMMA PrefixOrder ==
  ASSUME NEW S, NEW s \in Seq(S), NEW t \in Seq(S), NEW u \in Seq(S)
  PROVE  /\ IsPrefix(s, s) /\ IsPrefix(<< >>, s)
         /\ IsPrefix(s, t) /\ IsPrefix(t, u) => IsPrefix(s, u)
         /\ IsPrefix(s, s \o t)
<1>1. IsPrefix(s, s)
  BY PrefixMeans
<1>2. IsPrefix(<< >>, s)
  <2> DEFINE none == << >>
  <2>1. none \in Seq(S) /\ Len(none) = 0
    OBVIOUS
  <2> HIDE DEF none
  <2>2. Len(none) <= Len(s) /\ \A i \in 1..Len(none) : none[i] = s[i]
    BY <2>1
  <2>3. IsPrefix(none, s)
    BY <2>1, <2>2, PrefixMeans
  <2> QED BY <2>3 DEF none
<1>3. ASSUME IsPrefix(s, t), IsPrefix(t, u) PROVE IsPrefix(s, u)
  <2>1. Len(s) <= Len(t) /\ \A i \in 1..Len(s) : s[i] = t[i]
    BY <1>3, PrefixMeans
  <2>2. Len(t) <= Len(u) /\ \A i \in 1..Len(t) : t[i] = u[i]
    BY <1>3, PrefixMeans
  <2>3. Len(s) <= Len(u) /\ \A i \in 1..Len(s) : s[i] = u[i]
    BY <2>1, <2>2
  <2> QED BY <2>3, PrefixMeans
<1>4. IsPrefix(s, s \o t)
  <2>1. s \o t \in Seq(S) /\ Len(s) <= Len(s \o t) /\ \A i \in 1..Len(s) : s[i] = (s \o t)[i]
    OBVIOUS
  <2> QED BY <2>1, PrefixMeans
<1> QED BY <1>1, <1>2, <1>3, <1>4

LEMMA DocumentTypes ==
  ASSUME NEW doc \in Documents
  PROVE  /\ doc # Absent => /\ doc.chain \in History /\ doc.pending \in Ops
                            /\ doc.kind \in {"chain", "workspace"}
         /\ doc = Absent \/ doc.kind # "absent"
         /\ doc.kind = "chain" => doc # Absent /\ doc.pending = << >>
<1>1. CASE doc = Absent
  BY <1>1 DEF Absent
<1>2. CASE \E h \in History : doc = ChainFile(h)
  <2>1. << >> \in Ops
    BY DEF Ops
  <2> QED BY <1>2, <2>1 DEF ChainFile, Absent
<1>3. CASE \E h \in History, p \in Ops : doc = WorkspaceFile(h, p)
  BY <1>3 DEF WorkspaceFile, Absent
<1> QED BY <1>1, <1>2, <1>3 DEF Documents

LEMMA IsDocumentMeans == \A doc : IsDocument(doc) => doc \in Documents
BY DEF IsDocument, Documents

(* A prefix that is not the whole is shorter. *)
LEMMA PrefixShorter ==
  ASSUME NEW S, NEW s \in Seq(S), NEW t \in Seq(S), IsPrefix(s, t)
  PROVE  s = t \/ Len(s) < Len(t)
<1>1. Len(s) <= Len(t)
  BY PrefixMeans
<1>2. CASE Len(s) = Len(t)
  <2>1. \A i \in 1..Len(s) : s[i] = t[i]
    BY PrefixMeans
  <2> QED BY <1>2, <2>1
<1> QED BY <1>1, <1>2

(* Keeping is transitive: what a document keeps, all that continue it keep. *)
LEMMA KeepsOn ==
  ASSUME NEW old \in Documents, NEW mid \in Documents, NEW new \in Documents,
         old # Absent, Keeps(old, mid), Keeps(mid, new)
  PROVE  Keeps(old, new)
<1> DEFINE n == Len(old.chain) + 1
<1>1. mid # Absent /\ new # Absent
  BY DEF Keeps
<1>2. /\ old.chain \in Seq(Block) /\ mid.chain \in Seq(Block) /\ new.chain \in Seq(Block)
      /\ old.pending \in Ops /\ mid.pending \in Ops /\ new.pending \in Ops
  BY <1>1, DocumentTypes DEF History
<1>3. IsPrefix(old.chain, mid.chain) /\ IsPrefix(mid.chain, new.chain)
  BY DEF Keeps
<1>4. IsPrefix(old.chain, new.chain)
  BY <1>2, <1>3, PrefixOrder
<1>5. ASSUME NEW p \in Ops, NEW q \in Ops, NEW r \in Ops, IsPrefix(p, q), IsPrefix(q, r)
      PROVE  IsPrefix(p, r)
  BY <1>5, PrefixOrder DEF Ops
<1>6. CASE new.chain = old.chain
  <2>1. ~(Len(mid.chain) < Len(new.chain)) \/ ~(Len(old.chain) < Len(mid.chain))
    BY <1>2, <1>6
  <2>2. mid.chain = old.chain
    BY <1>2, <1>3, <1>6, <2>1, PrefixShorter
  <2>3. IsPrefix(old.pending, mid.pending) /\ IsPrefix(mid.pending, new.pending)
    BY <1>6, <2>2 DEF Keeps
  <2> QED BY <1>1, <1>2, <1>4, <1>5, <1>6, <2>3 DEF Keeps
<1>7. CASE new.chain # old.chain
  <2>1. Len(old.chain) < Len(new.chain)
    BY <1>2, <1>4, <1>7, PrefixShorter
  <2>2. new.chain[n] \in Block
    BY <1>2, <2>1
  <2>3. new.chain[n].ops \in Ops
    BY <2>2 DEF Block
  <2>4. IsPrefix(old.pending, new.chain[n].ops)
    <3>1. CASE mid.chain = old.chain
      <4>1. IsPrefix(old.pending, mid.pending) /\ IsPrefix(mid.pending, new.chain[n].ops)
        BY <1>7, <3>1 DEF Keeps
      <4> QED BY <1>2, <1>5, <2>3, <4>1
    <3>2. CASE mid.chain # old.chain
      <4>1. n \in 1..Len(mid.chain)
        BY <1>2, <1>3, <3>2, PrefixShorter
      <4>2. mid.chain[n] = new.chain[n]
        BY <1>2, <1>3, <4>1, PrefixMeans
      <4>3. IsPrefix(old.pending, mid.chain[n].ops)
        BY <3>2 DEF Keeps
      <4> QED BY <4>2, <4>3
    <3> QED BY <3>1, <3>2
  <2> QED BY <1>1, <1>4, <1>7, <2>4 DEF Keeps
<1> QED BY <1>6, <1>7

LEMMA KeepsItself == ASSUME NEW doc \in Documents, doc # Absent PROVE Keeps(doc, doc)
<1>1. doc.chain \in Seq(Block) /\ doc.pending \in Seq(Edit \cup Draft)
  BY DocumentTypes DEF History, Ops
<1> QED BY <1>1, PrefixOrder DEF Keeps

-----------------------------------------------------------------------------

LEMMA IdleTyped == Idle \in Command /\ Absent \in Documents
<1>1. << >> \in Ops /\ << >> \in History
  BY DEF Ops, History
<1> QED BY <1>1 DEF Idle, Command, Documents, Flags, Plain, Holding

LEMMA IdleHolds ==
  ASSUME NEW a \in Agent, run'[a] = Idle
  PROVE  AgentInv(a)'
<1>1. run'[a].step = "none" /\ run'[a].inflight = FALSE
  BY DEF Idle
<1> QED BY <1>1 DEF AgentInv, HoldsLocks, WritesWell, KnowsRemote, Holding, At

(* Nothing touches the files an agent has locked, and the project only grows. *)
LEMMA Undisturbed ==
  ASSUME Inv, NEW b \in Agent, run'[b] = run[b], seen'[b] = seen[b],
         \A f \in Indices : lock[f] = b =>
           lock'[f] = b /\ file'[f] = file[f] /\ told'[f] = told[f] /\ shown'[f] = shown[f],
         remote' \in History, IsPrefix(remote, remote')
  PROVE  AgentInv(b)'
<1> DEFINE c == run[b]
<1>1. c \in Command /\ AgentInv(b)
  BY DEF Inv, TypeOK
<1>2. HoldsLocks(b)'
  <2>1. HoldsLocks(b)
    BY <1>1 DEF AgentInv
  <2>2. c.step # "none" => c.from \in Indices /\ c.into \in Indices
    BY <2>1 DEF HoldsLocks
  <2>3. c.step = "lock" => \A f \in {c.from, c.into} \ c.wants : lock'[f] = b
    BY <2>1, <2>2 DEF HoldsLocks
  <2>4. c.step \in Holding /\ ~c.flags.dry => lock'[c.from] = b /\ lock'[c.into] = b
    BY <2>1, <2>2 DEF HoldsLocks, Holding
  <2> QED BY <2>1, <2>3, <2>4 DEF HoldsLocks
<1>3. ASSUME c.step \in Holding \ {"read"}
      PROVE  /\ file'[c.from] = file[c.from] /\ file'[c.into] = file[c.into]
             /\ told'[c.into] = told[c.into] /\ shown'[c.into] = shown[c.into]
  BY <1>1, <1>3 DEF AgentInv, HoldsLocks, Holding
<1>4. WritesWell(b)'
  BY <1>1, <1>3 DEF AgentInv, WritesWell, Answered, Told, Shown, At, Holding
<1>5. KnowsRemote(b)'
  <2>1. ASSUME c.step = "push"
        PROVE  IsPrefix(SubSeq(c.doc.chain, 1, c.done), remote')
    <3>1. c.doc # Absent /\ c.done \in 0..Len(c.doc.chain)
      BY <1>1, <2>1 DEF AgentInv, KnowsRemote, Command
    <3>2. c.doc.chain \in Seq(Block)
      BY <1>1, <3>1, DocumentTypes DEF Command, History
    <3>3. SubSeq(c.doc.chain, 1, c.done) \in Seq(Block)
      BY <3>1, <3>2
    <3>4. IsPrefix(SubSeq(c.doc.chain, 1, c.done), remote)
      BY <1>1, <2>1 DEF AgentInv, KnowsRemote
    <3>5. remote \in Seq(Block) /\ remote' \in Seq(Block)
      BY DEF Inv, TypeOK, History
    <3> HIDE DEF c
    <3> QED BY <3>3, <3>4, <3>5, PrefixOrder
  <2> QED BY <1>1, <2>1 DEF AgentInv, KnowsRemote
<1> QED BY <1>2, <1>4, <1>5 DEF AgentInv

(* The lock files of one agent move: it gives all of them back, takes a free
   one, or leaves them. *)
LocksOf(a) ==
  \/ lock' = lock
  \/ lock' = Unlocked(a)
  \/ \E f \in Indices : lock[f] = Free /\ lock' = [lock EXCEPT ![f] = a]

LEMMA LocksMove ==
  ASSUME TypeOK, NEW a \in Agent, LocksOf(a)
  PROVE  /\ lock' \in [Indices -> Agent \cup {Free}]
         /\ \A b \in Agent \ {a} : \A f \in Indices : lock[f] = b => lock'[f] = b
BY InitialAssumption DEF TypeOK, LocksOf, Unlocked

(* An action by which an agent goes on with its command, and changes no file. *)
LEMMA GoesOn ==
  ASSUME Inv, NEW a \in Agent, NEW c \in Command, run' = [run EXCEPT ![a] = c],
         LocksOf(a), AgentInv(a)', UNCHANGED <<file, disk, seen, remote, late, answers>>
  PROVE  Inv'
<1>1. TypeOK'
  BY LocksMove DEF Inv, TypeOK, answers
<1>2. ASSUME NEW b \in Agent \ {a} PROVE AgentInv(b)'
  <2>1. run'[b] = run[b]
    BY DEF Inv, TypeOK
  <2>2. \A f \in Indices : lock[f] = b => lock'[f] = b
    BY LocksMove DEF Inv
  <2>3. remote \in Seq(Block) /\ remote' = remote
    BY DEF Inv, TypeOK, History
  <2>4. IsPrefix(remote, remote') /\ remote' \in History
    BY <2>3, PrefixOrder DEF History
  <2> QED BY <2>1, <2>2, <2>4, Undisturbed DEF answers
<1>3. FilesInv' /\ LateInv'
  BY DEF Inv, FilesInv, LateInv, Told, Shown, answers
<1> QED BY <1>1, <1>2, <1>3 DEF Inv

(* A file only its agent has locked is replaced, and what was answered of it
   moves with it. *)
LEMMA OthersUndisturbed ==
  ASSUME Inv, NEW a \in Agent, NEW f \in Indices, lock[f] = a, LocksOf(a),
         \A b \in Agent \ {a} : run'[b] = run[b],
         \A g \in Indices \ {f} : 
           file'[g] = file[g] /\ told'[g] = told[g] /\ shown'[g] = shown[g],
         UNCHANGED <<seen, remote>>
  PROVE  \A b \in Agent \ {a} : AgentInv(b)'
<1> TAKE b \in Agent \ {a}
<1>1. \A g \in Indices : lock[g] = b => lock'[g] = b /\ g # f
  BY LocksMove DEF Inv
<1>2. remote \in Seq(Block) /\ remote' = remote
  BY DEF Inv, TypeOK, History
<1>3. IsPrefix(remote, remote') /\ remote' \in History
  BY <1>2, PrefixOrder DEF History
<1> QED BY <1>1, <1>3, Undisturbed

LEMMA ReturnKeeps ==
  ASSUME Inv, NEW a \in Agent, Return(a), UNCHANGED <<file, disk, seen, remote, late, answers>>
  PROVE  Inv'
<1>1. run' = [run EXCEPT ![a] = Idle] /\ LocksOf(a)
  BY DEF Return, LocksOf
<1>2. run'[a] = Idle
  BY <1>1 DEF Inv, TypeOK
<1>3. AgentInv(a)'
  BY <1>2, IdleHolds
<1> QED BY <1>1, <1>3, IdleTyped, GoesOn

-----------------------------------------------------------------------------

LEMMA ObserveKeeps ==
  ASSUME Inv, NEW a \in Agent, NEW call \in Calls, Observe(a, call)
  PROVE  Inv'
<1> DEFINE doc == file[Target[call.name]]
<1>1. Target[call.name] \in Indices
  BY FilesAssumption DEF Indices
<1>2. doc \in Documents /\ doc # Absent
  BY <1>1 DEF Observe, Absent, Inv, TypeOK
<1>3. State(doc) \in [chain : History, pending : Ops]
  BY <1>2, DocumentTypes DEF State
<1>4. TypeOK'
  BY <1>3 DEF Inv, TypeOK, Observe, answers
<1>5. ASSUME NEW b \in Agent PROVE AgentInv(b)'
  <2>1. CASE b = a
    <3>1. run'[a] = Idle
      BY DEF Observe
    <3> QED BY <2>1, <3>1, IdleHolds
  <2>2. CASE b # a
    <3>1. remote \in Seq(Block) /\ remote' = remote
      BY DEF Inv, TypeOK, Observe, History
    <3>2. IsPrefix(remote, remote') /\ remote' \in History
      BY <3>1, PrefixOrder DEF History
    <3>3. run'[b] = run[b] /\ seen'[b] = seen[b]
      BY <2>2 DEF Observe, Inv, TypeOK
    <3>4. lock' = lock /\ file' = file /\ told' = told /\ shown' = shown
      BY DEF Observe, answers
    <3> QED BY <3>2, <3>3, <3>4, Undisturbed
  <2> QED BY <2>1, <2>2
<1>6. FilesInv' /\ LateInv'
  BY DEF Inv, FilesInv, LateInv, Told, Shown, Observe, answers
<1> QED BY <1>4, <1>5, <1>6 DEF Inv

LEMMA StartKeeps ==
  ASSUME Inv, NEW a \in Agent, NEW call \in Calls, NEW e \in Edit, Start(a, call, e)
  PROVE  Inv'
<1> DEFINE wants == {Target[call.name], Target[call.out]}
           edit == IF call.cmd = "apply" THEN << e >> ELSE << >>
           c == [Idle EXCEPT !.cmd = call.cmd, !.flags = call.flags,
                    !.edit = edit,
                    !.step = IF call.flags.dry \/ wants = {} THEN "read" ELSE "lock",
                    !.from = Target[call.name], !.into = Target[call.out],
                    !.wants = wants, !.own = {}]
<1>1. /\ Target[call.name] \in Indices /\ Target[call.out] \in Indices
      /\ call.flags \in Flags /\ call.flags.dry \in BOOLEAN
      /\ call.cmd # "apply" => call.name = call.out /\ ~call.flags.dry
      /\ call.cmd \in {"init", "apply", "pull", "push"}
  BY FilesAssumption DEF Indices, Flags, Start, Begin
<1>2. edit \in Ops
  <2>1. << e >> \in Ops /\ << >> \in Ops
    BY DEF Ops
  <2> QED BY <2>1
<1> HIDE DEF edit
<1>3. Target[call.name] \in Nat /\ Target[call.out] \in Nat
  BY <1>1 DEF Indices
<1>4. c \in Command
  <2>1. wants \in SUBSET Nat /\ {} \in SUBSET Name /\ wants # {}
    BY <1>3
  <2> HIDE DEF wants
  <2> QED BY <1>1, <1>2, <1>3, <2>1, IdleTyped DEF Command, Idle, Holding
<1>5. /\ c.cmd = call.cmd /\ c.flags = call.flags
      /\ c.step = (IF call.flags.dry THEN "read" ELSE "lock")
      /\ c.from = Target[call.name] /\ c.into = Target[call.out]
      /\ c.wants = {c.from, c.into} /\ c.inflight = FALSE /\ c.got = << >>
  BY DEF Idle
<1>6. run' = [run EXCEPT ![a] = c]
  BY DEF Start, Begin, edit
<1> HIDE DEF c
<1>7. run'[a] = c
  BY <1>6 DEF Inv, TypeOK
<1>8. AgentInv(a)'
  <2>1. HoldsLocks(a)'
    BY <1>1, <1>5, <1>7 DEF HoldsLocks, Holding
  <2>2. WritesWell(a)' /\ KnowsRemote(a)'
    BY <1>5, <1>7 DEF WritesWell, KnowsRemote, At
  <2> QED BY <2>1, <2>2 DEF AgentInv
<1> QED BY <1>4, <1>6, <1>8, GoesOn DEF LocksOf, Start, Begin

LEMMA LockKeeps ==
  ASSUME Inv, NEW a \in Agent, Lock(a)
  PROVE  Inv'
<1>1. PICK f \in run[a].wants :
        IF lock[f] # Free THEN Return(a)
        ELSE /\ lock' = [lock EXCEPT ![f] = a]
             /\ run' = [run EXCEPT
                  ![a].wants = @ \ {f},
                  ![a].step = IF run[a].wants = {f} THEN "read" ELSE "lock"]
  BY DEF Lock
<1>2. run[a] \in Command /\ AgentInv(a) /\ run[a].step = "lock"
  BY DEF Inv, TypeOK, Lock
<1>3. UNCHANGED <<file, disk, seen, remote, late, answers>>
  BY DEF Lock
<1>4. CASE lock[f] # Free
  BY <1>1, <1>3, <1>4, ReturnKeeps
<1>5. CASE lock[f] = Free
  <2> DEFINE c == [run[a] EXCEPT !.wants = @ \ {f},
                     !.step = IF run[a].wants = {f} THEN "read" ELSE "lock"]
  <2>1. run' = [run EXCEPT ![a] = c]
    BY <1>1, <1>5 DEF Inv, TypeOK
  <2>2. c \in Command
    BY <1>2 DEF Command, Holding
  <2>3. /\ c.cmd = run[a].cmd /\ c.flags = run[a].flags /\ c.from = run[a].from
        /\ c.into = run[a].into /\ c.inflight = run[a].inflight
        /\ c.wants = run[a].wants \ {f} /\ c.got = run[a].got
        /\ c.step = (IF run[a].wants = {f} THEN "read" ELSE "lock")
    BY <1>2 DEF Command
  <2> HIDE DEF c
  <2>4. run'[a] = c
    BY <2>1 DEF Inv, TypeOK
  <2>5. HoldsLocks(a)
    BY <1>2 DEF AgentInv
  <2>6. /\ c.from \in Indices /\ c.into \in Indices /\ c.wants \subseteq {c.from, c.into}
        /\ c.cmd # "apply" => c.from = c.into /\ ~c.flags.dry
        /\ ~c.flags.dry /\ ~c.inflight /\ f \in Indices
    BY <1>2, <2>3, <2>5 DEF HoldsLocks
  <2>7. \A g \in {c.from, c.into} \ c.wants : lock'[g] = a
    <3>1. lock' = [lock EXCEPT ![f] = a] /\ lock \in [Indices -> Agent \cup {Free}]
      BY <1>1, <1>5 DEF Inv, TypeOK
    <3>2. \A g \in {c.from, c.into} \ run[a].wants : lock[g] = a
      BY <1>2, <2>3, <2>5 DEF HoldsLocks
    <3> QED BY <2>3, <2>6, <3>1, <3>2
  <2>8. HoldsLocks(a)'
    <3>1. CASE run[a].wants = {f}
      <4>1. c.step = "read" /\ lock'[c.from] = a /\ lock'[c.into] = a
        BY <2>3, <2>7, <3>1
      <4> QED BY <2>4, <2>6, <4>1 DEF HoldsLocks, Holding
    <3>2. CASE run[a].wants # {f}
      <4>1. c.step = "lock"
        BY <2>3, <3>2
      <4> QED BY <2>4, <2>6, <2>7, <4>1 DEF HoldsLocks, Holding
    <3> QED BY <3>1, <3>2
  <2>9. WritesWell(a)' /\ KnowsRemote(a)'
    BY <1>2, <2>3, <2>4 DEF AgentInv, WritesWell, KnowsRemote, At
  <2> QED BY <1>1, <1>3, <1>5, <2>1, <2>2, <2>6, <2>8, <2>9, GoesOn DEF LocksOf, AgentInv
<1> QED BY <1>4, <1>5

-----------------------------------------------------------------------------

(* A command that goes on with the same files has them locked still. *)
LEMMA StillHolds ==
  ASSUME Inv, NEW a \in Agent, NEW c \in Command, run' = [run EXCEPT ![a] = c],
         lock' = lock, run[a].step \in Holding, c.step \in Holding \ {"read"},
         c.cmd = run[a].cmd, c.from = run[a].from, c.into = run[a].into,
         c.flags = run[a].flags, ~c.flags.dry,
         c.step \in {"info", "page", "final"} => c.cmd \in {"pull", "push"},
         c.step = "push" => c.cmd = "push", c.inflight => c.step = "push"
  PROVE  HoldsLocks(a)'
<1>1. HoldsLocks(a) /\ run'[a] = c
  BY DEF Inv, AgentInv, TypeOK
<1> QED BY <1>1 DEF HoldsLocks, Holding

(* What holds of a command that is past its locks. *)
LEMMA Working ==
  ASSUME Inv, NEW a \in Agent, run[a].step \in Holding
  PROVE  /\ run[a] \in Command /\ run[a].from \in Indices /\ run[a].into \in Indices
         /\ run[a].cmd # "apply" => run[a].from = run[a].into /\ ~run[a].flags.dry
         /\ run[a].step # "push" => ~run[a].inflight
         /\ file[run[a].from] \in Documents /\ file[run[a].into] \in Documents
<1>1. run[a] \in Command /\ HoldsLocks(a)
  BY DEF Inv, TypeOK, AgentInv
<1>2. /\ run[a].from \in Indices /\ run[a].into \in Indices
      /\ run[a].cmd # "apply" => run[a].from = run[a].into /\ ~run[a].flags.dry
      /\ run[a].step # "push" => ~run[a].inflight
  BY <1>1 DEF HoldsLocks, Holding
<1> QED BY <1>1, <1>2 DEF Inv, TypeOK

(* What continues the document in a file continues what was answered of it. *)
LEMMA ToldOn ==
  ASSUME Inv, NEW f \in Indices, NEW new \in Documents,
         file[f] = Absent \/ Keeps(file[f], new)
  PROVE  Answered(f, new)
<1>1. /\ told[f] \in Documents /\ shown[f] \in Documents /\ file[f] \in Documents
      /\ Told(f, file[f]) /\ Shown(f, file[f])
  BY DEF Inv, TypeOK, FilesInv
<1>2. ASSUME NEW old \in Documents, old # Absent, Keeps(old, file[f])
      PROVE  Keeps(old, new)
  <2>1. file[f] # Absent
    BY <1>2 DEF Keeps
  <2> QED BY <1>1, <1>2, <2>1, KeepsOn
<1>3. Told(f, new)
  BY <1>1, <1>2 DEF Told
<1>4. Shown(f, new)
  BY <1>1, <1>2 DEF Shown
<1> QED BY <1>3, <1>4 DEF Answered

LEMMA GenesisDocument ==
  /\ ChainFile(NewChain) \in Documents /\ ChainFile(NewChain) # Absent
<1>1. << >> \in Ops
  BY DEF Ops
<1>2. Signed("genesis", << >>) \in Block
  BY <1>1 DEF Signed, Block
<1>3. NewChain \in History
  BY <1>2 DEF NewChain, History
<1> QED BY <1>3 DEF Documents, ChainFile, Absent

LEMMA ReadInitKeeps ==
  ASSUME Inv, NEW a \in Agent, ReadInit(a)
  PROVE  Inv'
<1>1. UNCHANGED <<file, disk, seen, remote, late, answers>>
  BY DEF ReadInit
<1>2. run[a].cmd = "init" /\ run[a].step = "read"
  BY DEF ReadInit, At
<1>3. run[a].step \in Holding
  BY <1>2 DEF Holding
<1>4. CASE file[run[a].into] # Absent
  BY <1>1, <1>4, ReturnKeeps DEF ReadInit
<1>5. CASE file[run[a].into] = Absent
  <2> DEFINE c == [run[a] EXCEPT !.result = ChainFile(NewChain), !.step = "write"]
  <2>1. run' = [run EXCEPT ![a] = c] /\ lock' = lock
    BY <1>5 DEF ReadInit, Inv, TypeOK
  <2>2. c \in Command
    BY <1>3, Working, GenesisDocument DEF Command, Holding
  <2>3. /\ c.cmd = "init" /\ c.step = "write" /\ c.result = ChainFile(NewChain)
        /\ c.flags = run[a].flags /\ c.from = run[a].from /\ c.into = run[a].into
        /\ c.inflight = run[a].inflight
    BY <1>2, <1>3, Working DEF Command
  <2> HIDE DEF c
  <2>4. run'[a] = c
    BY <2>1 DEF Inv, TypeOK
  <2>5. HoldsLocks(a)'
    BY <1>2, <1>3, <2>1, <2>2, <2>3, Working, StillHolds DEF Holding
  <2>6. Answered(c.into, c.result)
    BY <1>3, <1>5, <2>3, Working, GenesisDocument, ToldOn
  <2>7. WritesWell(a)' /\ KnowsRemote(a)'
    BY <1>1, <2>3, <2>4, <2>6, GenesisDocument DEF WritesWell, KnowsRemote, At, Answered, Told, Shown, answers
  <2> QED BY <1>1, <2>1, <2>2, <2>5, <2>7, GoesOn DEF LocksOf, AgentInv
<1> QED BY <1>4, <1>5

(* The document a batch is signed into continues it. *)
LEMMA SealedDocument ==
  ASSUME NEW doc \in Documents, doc # Absent, NEW a \in Agent, NEW ops \in Ops
  PROVE  /\ Sealed(doc, a, ops) \in Documents /\ Sealed(doc, a, ops) # Absent
         /\ Sealed(doc, a, ops).chain # << >> /\ Keeps(doc, Sealed(doc, a, ops))
         /\ IsPrefix(doc.pending, Last(Sealed(doc, a, ops).chain).ops)
<1> DEFINE new == Sealed(doc, a, ops)
           block == Signed(a, doc.pending \o ops)
           chain == Append(doc.chain, block)
<1>1. doc.chain \in Seq(Block) /\ doc.pending \in Seq(Edit \cup Draft)
  BY DocumentTypes DEF History, Ops
<1>2. doc.pending \o ops \in Ops /\ << >> \in Ops
  BY <1>1 DEF Ops
<1>3. block \in Block /\ block.ops = doc.pending \o ops
  BY <1>2 DEF Signed, Block
<1> HIDE DEF block
<1>4. /\ chain \in Seq(Block) /\ Len(chain) = Len(doc.chain) + 1
      /\ chain[Len(doc.chain) + 1] = block /\ chain # << >>
      /\ \A i \in 1..Len(doc.chain) : doc.chain[i] = chain[i]
  BY <1>1, <1>3
<1>a. new = [doc EXCEPT !.chain = chain, !.pending = << >>]
  BY DEF Sealed, block
<1> HIDE DEF chain, new
<1>5. new.chain = chain /\ new.pending = << >> /\ new \in Documents /\ new # Absent
  <2>1. CASE \E h \in History : doc = ChainFile(h)
    <3>0. PICK h \in History : doc = [kind |-> "chain", chain |-> h, pending |-> << >>]
      BY <2>1 DEF ChainFile
    <3>1. new = ChainFile(chain)
      BY <1>a, <3>0 DEF ChainFile
    <3>2. chain \in History
      BY <1>4 DEF History
    <3> QED BY <3>1, <3>2 DEF Documents, ChainFile, Absent
  <2>2. CASE \E h \in History, p \in Ops : doc = WorkspaceFile(h, p)
    <3>0. PICK h \in History, p \in Ops :
            doc = [kind |-> "workspace", chain |-> h, pending |-> p]
      BY <2>2 DEF WorkspaceFile
    <3>1. new = WorkspaceFile(chain, << >>)
      BY <1>a, <3>0 DEF WorkspaceFile
    <3>2. chain \in History
      BY <1>4 DEF History
    <3> QED BY <1>2, <3>1, <3>2 DEF Documents, WorkspaceFile, Absent
  <2> QED BY <2>1, <2>2 DEF Documents
<1>6. IsPrefix(doc.chain, chain)
  BY <1>1, <1>4, PrefixMeans
<1>7. IsPrefix(doc.pending, block.ops)
  BY <1>1, <1>3, PrefixOrder DEF Ops
<1>8. Last(chain) = block /\ chain # doc.chain
  BY <1>1, <1>4 DEF Last
<1> QED BY <1>4, <1>5, <1>6, <1>7, <1>8 DEF new, Keeps

LEMMA ReadApplyKeeps ==
  ASSUME Inv, NEW a \in Agent, ReadApply(a)
  PROVE  Inv'
<1> DEFINE doc == file[run[a].from]
           accepted == /\ doc.kind \in {"chain", "workspace"} /\ Agrees(run[a], doc, seen[a])
                       /\ run[a].flags.signPending \/ doc.pending = << >>
                       /\ Len(doc.chain) < MaxBlocks
                       /\ ~run[a].flags.dry
<1>1. UNCHANGED <<file, disk, seen, remote, late, answers>>
  BY DEF ReadApply
<1>2. run[a].cmd = "apply" /\ run[a].step = "read"
  BY DEF ReadApply, At
<1>3. run[a].step \in Holding
  BY <1>2 DEF Holding
<1>4. CASE ~accepted
  BY <1>1, <1>4, ReturnKeeps DEF ReadApply
<1>5. CASE accepted
  <2> DEFINE new == Sealed(doc, a, run[a].edit)
             c == [run[a] EXCEPT !.result = new, !.step = "write"]
  <2>1. run' = [run EXCEPT ![a] = c] /\ lock' = lock
    BY <1>5 DEF ReadApply, Inv, TypeOK
  <2>2. doc \in Documents /\ doc # Absent /\ run[a] \in Command /\ run[a].edit \in Ops
    BY <1>3, <1>5, Working DEF Absent, Command
  <2>3. /\ new \in Documents /\ new # Absent /\ new.chain # << >> /\ Keeps(doc, new)
        /\ IsPrefix(doc.pending, Last(new.chain).ops)
    BY <2>2, SealedDocument
  <2>4. Agrees(run[a], doc, seen[a]) /\ ~run[a].flags.dry
    BY <1>5
  <2> HIDE DEF new
  <2>5. c \in Command
    BY <2>2, <2>3 DEF Command, Holding
  <2>6. /\ c.cmd = "apply" /\ c.step = "write" /\ c.result = new
        /\ c.flags = run[a].flags /\ c.from = run[a].from /\ c.into = run[a].into
        /\ c.inflight = run[a].inflight
    BY <1>2, <2>2 DEF Command
  <2> HIDE DEF c
  <2>7. run'[a] = c
    BY <2>1 DEF Inv, TypeOK
  <2>8. HoldsLocks(a)'
    BY <1>2, <1>3, <2>1, <2>4, <2>5, <2>6, Working, StillHolds DEF Holding
  <2>9. c.into = c.from => Answered(c.into, new)
    BY <1>3, <2>3, <2>6, Working, ToldOn
  <2>10. /\ c.flags.expectHead => doc.chain = seen[a].chain
         /\ c.flags.expectState => State(doc) = seen[a]
    BY <2>4, <2>6 DEF Agrees
  <2>11. file'[c.from] = doc /\ seen' = seen /\ told' = told /\ shown' = shown
    BY <1>1, <2>6 DEF answers
  <2> HIDE DEF doc
  <2>12. WritesWell(a)'
    BY <2>2, <2>3, <2>6, <2>7, <2>9, <2>10, <2>11 DEF WritesWell, At, Answered, Told, Shown
  <2>13. KnowsRemote(a)'
    BY <2>6, <2>7 DEF KnowsRemote
  <2> QED BY <1>1, <2>1, <2>5, <2>8, <2>12, <2>13, GoesOn DEF LocksOf, AgentInv
<1> QED BY <1>4, <1>5

LEMMA ReadSyncKeeps ==
  ASSUME Inv, NEW a \in Agent, ReadSync(a)
  PROVE  Inv'
<1> DEFINE doc == file[run[a].from]
           accepted == doc.kind = "chain" \/ (doc = Absent /\ run[a].cmd = "pull")
<1>1. UNCHANGED <<file, disk, seen, remote, late, answers>>
  BY DEF ReadSync
<1>2. run[a].cmd \in {"pull", "push"} /\ run[a].step = "read" /\ run[a].step \in Holding
  BY DEF ReadSync, Holding
<1>3. CASE ~accepted
  BY <1>1, <1>3, ReturnKeeps DEF ReadSync
<1>4. CASE accepted
  <2> DEFINE c == [run[a] EXCEPT !.doc = doc, !.step = "info"]
  <2>1. run' = [run EXCEPT ![a] = c] /\ lock' = lock
    BY <1>4 DEF ReadSync, Inv, TypeOK
  <2>2. doc \in Documents /\ run[a] \in Command
    BY <1>2, Working
  <2>3. IF doc = Absent THEN run[a].cmd = "pull" ELSE doc.pending = << >>
    BY <1>4, <2>2, DocumentTypes
  <2>4. c \in Command
    BY <2>2 DEF Command, Holding
  <2>5. /\ c.cmd = run[a].cmd /\ c.step = "info" /\ c.doc = doc /\ c.got = run[a].got
        /\ c.flags = run[a].flags /\ c.from = run[a].from /\ c.into = run[a].into
        /\ c.inflight = run[a].inflight
    BY <2>2 DEF Command
  <2> HIDE DEF c
  <2>6. run'[a] = c
    BY <2>1 DEF Inv, TypeOK
  <2>7. HoldsLocks(a)'
    BY <1>2, <2>1, <2>4, <2>5, Working, StillHolds DEF Holding
  <2>8. KnowsRemote(a)
    BY DEF Inv, AgentInv
  <2>9. WritesWell(a)' /\ KnowsRemote(a)'
    BY <1>1, <1>2, <2>3, <2>5, <2>6, <2>8 DEF WritesWell, KnowsRemote, At
  <2> QED BY <1>1, <2>1, <2>4, <2>7, <2>9, GoesOn DEF LocksOf, AgentInv
<1> QED BY <1>3, <1>4

-----------------------------------------------------------------------------

(* What a download holds to: a chain it read, or none for a pull. *)
LEMMA Downloading ==
  ASSUME Inv, NEW a \in Agent, run[a].step \in {"info", "page", "final"}
  PROVE  /\ run[a].step \in Holding /\ run[a].cmd \in {"pull", "push"}
         /\ ~run[a].flags.dry /\ ~run[a].inflight /\ run[a] \in Command
         /\ run[a].doc \in Documents /\ run[a].info \in History /\ run[a].got \in History
         /\ run[a].doc = file[run[a].from] /\ run[a].into = run[a].from
         /\ IF run[a].doc = Absent THEN run[a].cmd = "pull" ELSE run[a].doc.pending = << >>
         /\ run[a].step = "info" => run[a].got = << >>
         /\ run[a].step \in {"page", "final"} => IsPrefix(run[a].got, run[a].info)
<1>1. run[a].step \in Holding
  BY DEF Holding
<1>2. HoldsLocks(a) /\ WritesWell(a) /\ KnowsRemote(a) /\ run[a] \in Command
  BY DEF Inv, AgentInv, TypeOK
<1>3. run[a].cmd \in {"pull", "push"} /\ run[a].step # "push"
  BY <1>2 DEF HoldsLocks
<1> QED BY <1>1, <1>2, <1>3, Working DEF WritesWell, KnowsRemote, Command

(* A download that goes on as it should. *)
LEMMA DownloadGoesOn ==
  ASSUME Inv, NEW a \in Agent, run[a].step \in {"info", "page", "final"},
         NEW c \in Command, run' = [run EXCEPT ![a] = c], lock' = lock,
         c.step \in {"page", "final"}, c.cmd = run[a].cmd, c.from = run[a].from,
         c.into = run[a].into, c.flags = run[a].flags, c.doc = run[a].doc,
         c.inflight = run[a].inflight, IsPrefix(c.got, c.info),
         UNCHANGED <<file, disk, seen, remote, late, answers>>
  PROVE  Inv'
<1>1. run'[a] = c /\ c.step \in Holding \ {"read"}
  BY DEF Inv, TypeOK, Holding
<1>2. HoldsLocks(a)'
  BY <1>1, Downloading, StillHolds
<1>3. WritesWell(a)' /\ KnowsRemote(a)'
  BY <1>1, Downloading DEF WritesWell, KnowsRemote, At
<1> QED BY <1>2, <1>3, GoesOn DEF LocksOf, AgentInv

LEMMA InfoKeeps ==
  ASSUME Inv, NEW a \in Agent, Info(a)
  PROVE  Inv'
<1> DEFINE c == [run[a] EXCEPT !.info = remote, !.step = "page"]
<1>1. run' = [run EXCEPT ![a] = c] /\ lock' = lock /\ run[a].step = "info"
  BY DEF Info, Inv, TypeOK
<1>2. run[a] \in Command /\ remote \in History
  BY DEF Inv, TypeOK
<1>3. c \in Command
  BY <1>2 DEF Command, Holding
<1>4. /\ c.cmd = run[a].cmd /\ c.step = "page" /\ c.info = remote /\ c.got = run[a].got
      /\ c.flags = run[a].flags /\ c.from = run[a].from /\ c.into = run[a].into
      /\ c.inflight = run[a].inflight /\ c.doc = run[a].doc
  BY <1>2 DEF Command
<1> HIDE DEF c
<1>5. c.got = << >> /\ c.info \in Seq(Block)
  BY <1>1, <1>2, <1>4, Downloading DEF History
<1>6. IsPrefix(c.got, c.info)
  BY <1>5, PrefixOrder
<1> QED BY <1>1, <1>3, <1>4, <1>6, DownloadGoesOn DEF Info

(* A page after what was downloaded is a longer piece of the same history. *)
LEMMA PageGrows ==
  ASSUME NEW h \in History, NEW got \in History, IsPrefix(got, h),
         NEW n \in 0..Len(h) - Len(got)
  PROVE  /\ got \o SubSeq(h, Len(got) + 1, Len(got) + n) \in History
         /\ IsPrefix(got \o SubSeq(h, Len(got) + 1, Len(got) + n), h)
<1> DEFINE page == SubSeq(h, Len(got) + 1, Len(got) + n)
           all == got \o page
<1>1. h \in Seq(Block) /\ got \in Seq(Block)
  BY DEF History
<1>2. Len(got) <= Len(h) /\ \A i \in 1..Len(got) : got[i] = h[i]
  BY <1>1, PrefixMeans
<1>3. /\ page \in Seq(Block) /\ Len(page) = n
      /\ \A i \in 1..n : page[i] = h[Len(got) + i]
  BY <1>1, <1>2
<1> HIDE DEF page
<1>4. /\ all \in Seq(Block) /\ Len(all) = Len(got) + n
      /\ \A i \in 1..Len(all) : all[i] = IF i <= Len(got) THEN got[i] ELSE page[i - Len(got)]
  BY <1>1, <1>3
<1> HIDE DEF all
<1>5. Len(all) <= Len(h)
  BY <1>1, <1>4
<1>6. ASSUME NEW i \in 1..Len(all) PROVE all[i] = h[i]
  <2>1. CASE i <= Len(got)
    BY <1>1, <1>2, <1>4, <2>1
  <2>2. CASE i > Len(got)
    <3>1. i - Len(got) \in 1..n /\ Len(got) + (i - Len(got)) = i
      BY <1>1, <1>4, <2>2
    <3> QED BY <1>1, <1>3, <1>4, <2>2, <3>1
  <2> QED BY <1>1, <2>1, <2>2
<1>7. IsPrefix(all, h)
  BY <1>1, <1>4, <1>5, <1>6, PrefixMeans
<1> QED BY <1>4, <1>7 DEF all, page, History

LEMMA RestLength ==
  ASSUME NEW h \in History, NEW k \in 0..Len(h)
  PROVE  Len([i \in 1..Len(h) - k |-> h[k + i]]) = Len(h) - k
<1> DEFINE rest == [i \in 1..Len(h) - k |-> h[k + i]]
<1>1. Len(h) - k \in Nat /\ DOMAIN rest = 1..Len(h) - k
  BY DEF History
<1>2. \A i \in 1..Len(h) - k : h[k + i] \in Block
  BY DEF History
<1>3. rest \in Seq(Block)
  BY <1>1, <1>2
<1> QED BY <1>1, <1>3

LEMMA PageKeeps ==
  ASSUME Inv, NEW a \in Agent, Page(a)
  PROVE  Inv'
<1> DEFINE from == Len(run[a].got)
           next == [i \in 1..Len(run[a].info) - from |-> run[a].info[from + i]]
           n == IF Len(next) < PageBlocks THEN Len(next) ELSE PageBlocks
           got == run[a].got \o SubSeq(remote, from + 1, from + n)
<1>1. UNCHANGED <<file, disk, seen, remote, late, answers>> /\ run[a].step = "page"
  BY DEF Page
<1>2. CASE remote # run[a].info
  BY <1>1, <1>2, ReturnKeeps DEF Page
<1>3. CASE remote = run[a].info
  <2> DEFINE step == IF Len(next) > PageBlocks THEN "page" ELSE "final"
             c == [run[a] EXCEPT !.got = got, !.step = step]
  <2>1. run' = [run EXCEPT ![a] = c] /\ lock' = lock
    BY <1>3 DEF Page, Inv, TypeOK
  <2>2. /\ run[a] \in Command /\ remote \in History /\ run[a].got \in History
        /\ IsPrefix(run[a].got, remote)
    BY <1>1, <1>3, Downloading
  <2>3. n \in 0..Len(remote) - Len(run[a].got)
    <3>1. Len(run[a].got) <= Len(remote) /\ Len(remote) \in Nat /\ Len(run[a].got) \in Nat
      BY <2>2, PrefixMeans DEF History
    <3>2. run[a].info \in History /\ from \in 0..Len(run[a].info)
      BY <1>3, <2>2, <3>1
    <3>3. Len(next) = Len(run[a].info) - from
      BY <3>2, RestLength, Zenon
    <3> HIDE DEF next
    <3>4. Len(next) = Len(remote) - Len(run[a].got)
      BY <1>3, <3>3
    <3>5. PageBlocks \in Nat
      BY FilesAssumption
    <3> QED BY <3>1, <3>4, <3>5
  <2> HIDE DEF n
  <2>4. got \in History /\ IsPrefix(got, remote)
    BY <2>2, <2>3, PageGrows
  <2>5. step \in {"page", "final"}
    OBVIOUS
  <2> HIDE DEF got, step
  <2>6. c \in Command
    BY <2>2, <2>4, <2>5 DEF Command, Holding
  <2>7. /\ c.cmd = run[a].cmd /\ c.step = step /\ c.info = run[a].info /\ c.got = got
        /\ c.flags = run[a].flags /\ c.from = run[a].from /\ c.into = run[a].into
        /\ c.inflight = run[a].inflight /\ c.doc = run[a].doc
    BY <2>2 DEF Command
  <2> HIDE DEF c
  <2> QED BY <1>1, <1>3, <2>1, <2>4, <2>5, <2>6, <2>7, DownloadGoesOn
<1> QED BY <1>2, <1>3

(* pull writes a chain that continues the one it read. *)
LEMMA FinalPullKeeps ==
  ASSUME Inv, NEW a \in Agent, run[a].step = "final", run[a].cmd = "pull",
         FastForwards(run[a].doc, run[a].got), lock' = lock,
         run' = [run EXCEPT ![a] = Downloaded(run[a]),
                            ![a].result = ChainFile(run[a].got), ![a].step = "write"],
         UNCHANGED <<file, disk, seen, remote, late, answers>>
  PROVE  Inv'
<1> DEFINE doc == run[a].doc
           new == ChainFile(run[a].got)
           c == [run[a] EXCEPT !.info = << >>, !.got = << >>,
                               !.result = new, !.step = "write"]
<1>1. /\ run[a] \in Command /\ run[a].step \in Holding /\ ~run[a].flags.dry
      /\ ~run[a].inflight /\ doc \in Documents /\ run[a].got \in Seq(Block)
      /\ doc = file[run[a].from] /\ run[a].into = run[a].from
      /\ doc # Absent => doc.pending = << >>
      /\ run[a].from \in Indices
  BY Downloading, Working DEF History
<1>2. << >> \in Ops /\ << >> \in History
  BY DEF Ops, History
<1>3. /\ new \in Documents /\ new # Absent
      /\ new.chain = run[a].got /\ new.pending = << >>
  BY <1>1 DEF Documents, ChainFile, Absent, History
<1>4. run' = [run EXCEPT ![a] = c]
  BY <1>1 DEF Inv, TypeOK, Downloaded
<1> HIDE DEF new
<1>5. c \in Command
  BY <1>1, <1>2, <1>3 DEF Command, Holding
<1>6. /\ c.cmd = "pull" /\ c.step = "write" /\ c.result = new
      /\ c.flags = run[a].flags /\ c.from = run[a].from /\ c.into = run[a].into
      /\ c.inflight = run[a].inflight
  BY <1>1 DEF Command
<1> HIDE DEF c
<1>7. run'[a] = c
  BY <1>4 DEF Inv, TypeOK
<1>8. HoldsLocks(a)'
  BY <1>1, <1>4, <1>5, <1>6, StillHolds DEF Holding
<1>9. doc = Absent \/ Keeps(doc, new)
  <2>1. ASSUME doc # Absent PROVE Keeps(doc, new)
    <3>1. doc.chain \in Seq(Block) /\ IsPrefix(doc.chain, new.chain)
      BY <1>1, <1>3, <2>1, DocumentTypes DEF FastForwards, History
    <3>2. doc.pending = << >>
      BY <1>1, <2>1
    <3>3. \A ops \in Ops : IsPrefix(doc.pending, ops)
      BY <3>2, PrefixOrder DEF Ops
    <3>4. ASSUME new.chain # doc.chain
          PROVE  new.chain[Len(doc.chain) + 1].ops \in Ops
      <4>1. Len(doc.chain) < Len(new.chain)
        BY <1>1, <1>3, <3>1, <3>4, PrefixShorter
      <4>2. new.chain[Len(doc.chain) + 1] \in Block
        BY <1>1, <1>3, <3>1, <4>1
      <4> QED BY <4>2 DEF Block
    <3> QED BY <1>2, <1>3, <3>1, <3>3, <3>4 DEF Keeps
  <2> QED BY <2>1
<1>10. Answered(c.into, c.result)
  BY <1>1, <1>3, <1>6, <1>9, ToldOn
<1>11. WritesWell(a)' /\ KnowsRemote(a)'
  BY <1>3, <1>6, <1>7, <1>10 DEF WritesWell, KnowsRemote, At, Answered, Told, Shown, answers
<1> QED BY <1>4, <1>5, <1>8, <1>11, GoesOn DEF LocksOf, AgentInv

(* push starts after the blocks the project has. *)
LEMMA FinalPushKeeps ==
  ASSUME Inv, NEW a \in Agent, run[a].step = "final", run[a].cmd = "push",
         remote = run[a].info, IsPrefix(run[a].got, run[a].doc.chain), lock' = lock,
         run' = [run EXCEPT ![a] = Downloaded(run[a]),
                            ![a].done = Len(run[a].got), ![a].step = "push"],
         UNCHANGED <<file, disk, seen, remote, late, answers>>
  PROVE  Inv'
<1> DEFINE doc == run[a].doc
           c == [run[a] EXCEPT !.info = << >>, !.got = << >>,
                               !.done = Len(run[a].got), !.step = "push"]
<1>1. /\ run[a] \in Command /\ run[a].step \in Holding /\ ~run[a].flags.dry
      /\ ~run[a].inflight /\ doc \in Documents /\ doc # Absent
      /\ run[a].got \in Seq(Block) /\ IsPrefix(run[a].got, remote)
  BY Downloading DEF History
<1>2. doc.chain \in Seq(Block) /\ Len(run[a].got) \in Nat /\ << >> \in History
  BY <1>1, DocumentTypes DEF History
<1>3. run' = [run EXCEPT ![a] = c]
  BY <1>1 DEF Inv, TypeOK, Downloaded
<1>4. c \in Command
  BY <1>1, <1>2 DEF Command, Holding
<1>5. /\ c.cmd = "push" /\ c.step = "push" /\ c.doc = doc /\ c.done = Len(run[a].got)
      /\ c.flags = run[a].flags /\ c.from = run[a].from /\ c.into = run[a].into
      /\ c.inflight = run[a].inflight
  BY <1>1 DEF Command
<1> HIDE DEF c
<1>6. run'[a] = c
  BY <1>3 DEF Inv, TypeOK
<1>7. HoldsLocks(a)'
  BY <1>1, <1>3, <1>4, <1>5, StillHolds DEF Holding
<1>8. Len(run[a].got) <= Len(doc.chain) /\ SubSeq(doc.chain, 1, Len(run[a].got)) = run[a].got
  BY <1>1, <1>2, PrefixMeans DEF IsPrefix
<1>9. WritesWell(a)' /\ KnowsRemote(a)'
  BY <1>1, <1>5, <1>6, <1>8 DEF WritesWell, KnowsRemote, At
<1> QED BY <1>3, <1>4, <1>7, <1>9, GoesOn DEF LocksOf, AgentInv

(* What an up-to-date pull shows is in the file. *)
LEMMA FinalShowsKeeps ==
  ASSUME Inv, NEW a \in Agent, run[a].step = "final", run[a].cmd = "pull",
         run[a].doc = ChainFile(run[a].got), Return(a), Show(run[a].from, run[a].doc),
         UNCHANGED <<file, disk, seen, remote, late, told>>
  PROVE  Inv'
<1> DEFINE f == run[a].from
           doc == run[a].doc
<1>1. /\ f \in Indices /\ lock[f] = a /\ doc \in Documents /\ file[f] = doc
  <2>1. HoldsLocks(a) /\ WritesWell(a) /\ run[a] \in Command /\ run[a].step \in Holding
    BY DEF Inv, AgentInv, TypeOK, Holding
  <2> QED BY <2>1 DEF HoldsLocks, WritesWell, Command, Holding
<1>2. doc # Absent
  BY DEF ChainFile, Absent
<1>3. /\ shown' = [shown EXCEPT ![f] = doc]
      /\ run' = [run EXCEPT ![a] = Idle] /\ LocksOf(a)
  BY DEF Show, Return, LocksOf
<1> HIDE DEF f, doc
<1>4. TypeOK'
  BY <1>1, <1>3, LocksMove, IdleTyped DEF Inv, TypeOK
<1>5. run'[a] = Idle /\ \A b \in Agent \ {a} : run'[b] = run[b]
  BY <1>3 DEF Inv, TypeOK
<1>6. shown'[f] = doc /\ \A g \in Indices \ {f} : shown'[g] = shown[g]
  BY <1>1, <1>3 DEF Inv, TypeOK
<1>7. AgentInv(a)'
  BY <1>5, IdleHolds
<1>8. \A b \in Agent \ {a} : AgentInv(b)'
  BY <1>1, <1>3, <1>5, <1>6, OthersUndisturbed
<1>9. FilesInv'
  <2>1. Keeps(doc, doc)
    BY <1>1, <1>2, KeepsItself
  <2> QED BY <1>1, <1>6, <2>1 DEF Inv, FilesInv, Told, Shown
<1>10. LateInv'
  BY DEF Inv, LateInv
<1> QED BY <1>4, <1>7, <1>8, <1>9, <1>10 DEF Inv

LEMMA FinalKeeps ==
  ASSUME Inv, NEW a \in Agent, Final(a)
  PROVE  Inv'
<1>1. UNCHANGED <<file, disk, seen, remote, late, told>> /\ run[a].step = "final"
  BY DEF Final
<1>2. CASE Return(a) /\ UNCHANGED shown
  BY <1>1, <1>2, ReturnKeeps DEF answers
<1>3. CASE ~(Return(a) /\ UNCHANGED shown) /\ run[a].cmd = "pull"
  <2>1. CASE /\ run[a].doc = ChainFile(run[a].got) /\ Return(a)
             /\ Show(run[a].from, run[a].doc)
    BY <1>1, <1>3, <2>1, FinalShowsKeeps
  <2>2. CASE ~(/\ run[a].doc = ChainFile(run[a].got) /\ Return(a)
               /\ Show(run[a].from, run[a].doc))
    BY <1>1, <1>3, <2>2, FinalPullKeeps DEF Final, answers
  <2> QED BY <2>1, <2>2
<1>4. CASE ~(Return(a) /\ UNCHANGED shown) /\ run[a].cmd = "push"
  BY <1>1, <1>4, FinalPushKeeps DEF Final, answers
<1> QED BY <1>2, <1>3, <1>4 DEF Final

-----------------------------------------------------------------------------

(* A push at work holds a chain, and what it counts as done is published. *)
LEMMA Pushing ==
  ASSUME Inv, NEW a \in Agent, run[a].step = "push" \/ run[a].inflight
  PROVE  /\ run[a].step = "push" /\ run[a].step \in Holding /\ run[a].cmd = "push"
         /\ ~run[a].flags.dry /\ run[a] \in Command
         /\ run[a].doc \in Documents /\ run[a].doc # Absent
         /\ run[a].doc.chain \in Seq(Block) /\ run[a].done \in 0..Len(run[a].doc.chain)
         /\ IsPrefix(SubSeq(run[a].doc.chain, 1, run[a].done), remote)
<1>1. HoldsLocks(a) /\ KnowsRemote(a) /\ run[a] \in Command
  BY DEF Inv, AgentInv, TypeOK
<1>2. run[a].step = "push" /\ run[a].cmd = "push"
  BY <1>1 DEF HoldsLocks
<1>3. run[a].doc \in Documents /\ run[a].doc # Absent /\ run[a].done \in Nat
      /\ run[a].done <= Len(run[a].doc.chain)
  BY <1>1, <1>2 DEF KnowsRemote, Command
<1>4. run[a].doc.chain \in Seq(Block)
  BY <1>3, DocumentTypes DEF History
<1>5. run[a].done \in 0..Len(run[a].doc.chain)
  BY <1>3, <1>4
<1> QED BY <1>1, <1>2, <1>3, <1>4, <1>5, Working DEF KnowsRemote, Holding

(* A batch continues what was done by blocks of the same chain. *)
LEMMA BatchMeans ==
  ASSUME Inv, NEW a \in Agent, run[a].step = "push" \/ run[a].inflight
  PROVE  LET batch == Batch(run[a])
             chain == run[a].doc.chain IN
         /\ batch \in Pushes /\ IsPrefix(batch.base, batch.target)
         /\ Len(batch.target) \in 0..Len(chain)
         /\ batch.target = SubSeq(chain, 1, Len(batch.target))
<1> DEFINE chain == run[a].doc.chain
           done == run[a].done
           end == IF Len(chain) - done < PageBlocks THEN Len(chain) ELSE done + PageBlocks
           base == SubSeq(chain, 1, done)
           target == SubSeq(chain, 1, end)
<1>1. chain \in Seq(Block) /\ done \in 0..Len(chain)
  BY Pushing
<1>2. PageBlocks \in Nat
  BY FilesAssumption
<1>3. Batch(run[a]) = [base |-> base, target |-> target]
  BY DEF Batch
<1> HIDE DEF chain, done
<1>4. end \in done..Len(chain)
  BY <1>1, <1>2
<1> HIDE DEF end
<1>5. /\ base \in Seq(Block) /\ Len(base) = done /\ target \in Seq(Block)
      /\ Len(target) = end /\ end \in 0..Len(chain)
      /\ \A i \in 1..done : base[i] = target[i]
  BY <1>1, <1>4
<1>6. IsPrefix(base, target)
  <2>1. Len(base) <= Len(target) /\ \A i \in 1..Len(base) : base[i] = target[i]
    BY <1>1, <1>4, <1>5
  <2> HIDE DEF base, target
  <2> QED BY <1>5, <2>1, PrefixMeans
<1>7. target = SubSeq(chain, 1, Len(target))
  BY <1>5
<1> HIDE DEF base, target
<1>8. [base |-> base, target |-> target] \in Pushes
  BY <1>5 DEF Pushes, History
<1> QED BY <1>3, <1>5, <1>6, <1>7, <1>8 DEF chain

LEMMA SendKeeps ==
  ASSUME Inv, NEW a \in Agent, Send(a)
  PROVE  Inv'
<1> DEFINE c == [run[a] EXCEPT !.inflight = TRUE]
<1>1. run' = [run EXCEPT ![a] = c] /\ lock' = lock /\ run[a].step = "push"
  BY DEF Send, At, Inv, TypeOK
<1>2. /\ run[a] \in Command /\ run[a].step \in Holding /\ run[a].cmd = "push"
      /\ ~run[a].flags.dry
  BY <1>1, Pushing
<1>3. c \in Command
  BY <1>2 DEF Command
<1>4. /\ c.cmd = "push" /\ c.step = "push" /\ c.doc = run[a].doc /\ c.done = run[a].done
      /\ c.flags = run[a].flags /\ c.from = run[a].from /\ c.into = run[a].into
  BY <1>1, <1>2 DEF Command
<1> HIDE DEF c
<1>5. run'[a] = c
  BY <1>1 DEF Inv, TypeOK
<1>6. HoldsLocks(a)'
  BY <1>1, <1>2, <1>3, <1>4, StillHolds DEF Holding
<1>7. KnowsRemote(a)
  BY DEF Inv, AgentInv
<1>8. WritesWell(a)' /\ KnowsRemote(a)'
  BY <1>1, <1>4, <1>5, <1>7 DEF WritesWell, KnowsRemote, At, Send
<1> QED BY <1>1, <1>3, <1>6, <1>8, GoesOn DEF LocksOf, AgentInv, Send

(* The project grows by what another client, or a late push, adds to it. *)
LEMMA ProjectGrows ==
  ASSUME Inv, remote' \in History, IsPrefix(remote, remote'), late' \subseteq late,
         UNCHANGED <<file, disk, lock, run, seen, answers>>
  PROVE  Inv'
<1>1. TypeOK'
  BY DEF Inv, TypeOK, answers
<1>2. ASSUME NEW b \in Agent PROVE AgentInv(b)'
  BY Undisturbed DEF answers
<1>3. FilesInv' /\ LateInv'
  BY DEF Inv, FilesInv, LateInv, Told, Shown, answers
<1> QED BY <1>1, <1>2, <1>3 DEF Inv

LEMMA ArriveKeeps ==
  ASSUME Inv, NEW batch \in late, Arrive(batch)
  PROVE  Inv'
<1>1. /\ batch.base \in Seq(Block) /\ batch.target \in Seq(Block) /\ remote \in Seq(Block)
      /\ IsPrefix(batch.base, batch.target)
  BY DEF Inv, TypeOK, LateInv, Pushes, History
<1>2. IsPrefix(remote, remote)
  BY <1>1, PrefixOrder
<1>3. remote' \in History /\ IsPrefix(remote, remote')
  BY <1>1, <1>2 DEF Arrive, History
<1> QED BY <1>3, ProjectGrows DEF Arrive

LEMMA OtherPushKeeps ==
  ASSUME Inv, OtherPush
  PROVE  Inv'
<1>1. << >> \in Ops
  BY DEF Ops
<1> DEFINE block == Signed("other", << >>)
<1>2. block \in Block /\ remote \in Seq(Block)
  BY <1>1 DEF Signed, Block, Inv, TypeOK, History
<1>3. remote' = Append(remote, block)
  BY DEF OtherPush
<1> HIDE DEF block
<1>4. /\ remote' \in Seq(Block) /\ Len(remote) <= Len(remote')
      /\ \A i \in 1..Len(remote) : remote[i] = remote'[i]
  BY <1>2, <1>3
<1>5. IsPrefix(remote, remote')
  BY <1>2, <1>4, PrefixMeans
<1>6. UNCHANGED <<file, disk, lock, run, seen, answers>> /\ late' = late
  BY DEF OtherPush
<1> QED BY <1>4, <1>5, <1>6, ProjectGrows DEF History

(* An agent returns while the project, or what is under way, changes. *)
LEMMA LoseKeeps ==
  ASSUME Inv, NEW a \in Agent, Lose(a)
  PROVE  Inv'
<1>1. run' = [run EXCEPT ![a] = Idle] /\ LocksOf(a)
      /\ UNCHANGED <<file, disk, seen, remote, answers>>
  BY DEF Lose, Return, LocksOf
<1>2. Batch(run[a]) \in Pushes /\ IsPrefix(Batch(run[a]).base, Batch(run[a]).target)
  BY BatchMeans DEF Lose
<1>3. late' \subseteq Pushes /\ LateInv'
  BY <1>2 DEF Lose, Inv, TypeOK, LateInv
<1>4. TypeOK'
  BY <1>1, <1>3, LocksMove, IdleTyped DEF Inv, TypeOK, answers
<1>5. ASSUME NEW b \in Agent PROVE AgentInv(b)'
  <2>1. CASE b = a
    <3>1. run'[a] = Idle
      BY <1>1 DEF Inv, TypeOK
    <3> QED BY <2>1, <3>1, IdleHolds
  <2>2. CASE b # a
    <3>1. run'[b] = run[b]
      BY <1>1, <2>2 DEF Inv, TypeOK
    <3>2. \A f \in Indices : lock[f] = b => lock'[f] = b
      BY <1>1, <2>2, LocksMove DEF Inv
    <3>3. remote \in Seq(Block) /\ remote' = remote
      BY <1>1 DEF Inv, TypeOK, History
    <3>4. IsPrefix(remote, remote') /\ remote' \in History
      BY <3>3, PrefixOrder DEF History
    <3> QED BY <1>1, <3>1, <3>2, <3>4, Undisturbed DEF answers
  <2> QED BY <2>1, <2>2
<1>6. FilesInv'
  BY <1>1 DEF Inv, FilesInv, Told, Shown, answers
<1> QED BY <1>3, <1>4, <1>5, <1>6 DEF Inv

LEMMA ReceiveKeeps ==
  ASSUME Inv, NEW a \in Agent, Receive(a)
  PROVE  Inv'
<1> DEFINE batch == Batch(run[a])
           chain == run[a].doc.chain
<1>1. /\ run[a].step = "push" /\ run[a].step \in Holding /\ run[a].cmd = "push"
      /\ ~run[a].flags.dry /\ run[a] \in Command /\ run[a].doc # Absent
  BY Pushing DEF Receive
<1>2. /\ batch.base \in History /\ batch.target \in History
      /\ IsPrefix(batch.base, batch.target)
      /\ Len(batch.target) \in 0..Len(chain)
      /\ batch.target = SubSeq(chain, 1, Len(batch.target))
  BY BatchMeans DEF Receive, Pushes
<1> HIDE DEF batch
<1>3. UNCHANGED <<file, disk, seen, late, answers>>
  BY DEF Receive
<1>4. CASE remote # batch.base
  BY <1>3, <1>4, ReturnKeeps DEF Receive, batch
<1>5. CASE remote = batch.base
  <2> DEFINE c == IF Len(batch.target) = Len(chain) THEN Idle
                  ELSE [run[a] EXCEPT !.done = Len(batch.target), !.inflight = FALSE]
  <2>1. remote' = batch.target /\ run' = [run EXCEPT ![a] = c] /\ LocksOf(a)
    BY <1>5 DEF Receive, batch, Return, LocksOf, Inv, TypeOK
  <2>2. c \in Command
    <3>1. Len(batch.target) \in Nat
      BY <1>2
    <3>2. [run[a] EXCEPT !.done = Len(batch.target), !.inflight = FALSE] \in Command
      BY <1>1, <3>1 DEF Command
    <3> QED BY <3>2, IdleTyped
  <2>3. run'[a] = c
    BY <2>1 DEF Inv, TypeOK
  <2>4. TypeOK'
    BY <1>2, <1>3, <2>1, <2>2, LocksMove DEF Inv, TypeOK, answers
  <2>5. AgentInv(a)'
    <3>1. CASE Len(batch.target) = Len(chain)
      BY <2>3, <3>1, IdleHolds
    <3>2. CASE Len(batch.target) # Len(chain)
      <4>1. /\ c.cmd = "push" /\ c.step = "push" /\ c.doc = run[a].doc
            /\ c.done = Len(batch.target) /\ c.inflight = FALSE
            /\ c.flags = run[a].flags /\ c.from = run[a].from /\ c.into = run[a].into
        BY <1>1, <3>2 DEF Command
      <4>2. lock' = lock
        BY <1>5, <3>2 DEF Receive, batch
      <4> HIDE DEF c
      <4>3. HoldsLocks(a)'
        BY <1>1, <2>1, <2>2, <4>1, <4>2, StillHolds DEF Holding
      <4>4. batch.target \in Seq(Block) /\ IsPrefix(batch.target, batch.target)
        BY <1>2, PrefixOrder DEF History
      <4>5. IsPrefix(SubSeq(c.doc.chain, 1, c.done), remote')
        BY <1>2, <2>1, <4>1, <4>4
      <4>6. WritesWell(a)' /\ KnowsRemote(a)'
        BY <1>1, <1>2, <2>3, <4>1, <4>5 DEF WritesWell, KnowsRemote, At
      <4> QED BY <4>3, <4>6 DEF AgentInv
    <3> QED BY <3>1, <3>2
  <2> HIDE DEF c
  <2>6. ASSUME NEW b \in Agent, b # a PROVE AgentInv(b)'
    <3>1. run'[b] = run[b]
      BY <2>1, <2>6 DEF Inv, TypeOK
    <3>2. \A f \in Indices : lock[f] = b => lock'[f] = b
      BY <2>1, <2>6, LocksMove DEF Inv
    <3>3. IsPrefix(remote, remote') /\ remote' \in History
      BY <1>2, <1>5, <2>1
    <3> QED BY <1>3, <3>1, <3>2, <3>3, Undisturbed DEF answers
  <2>7. FilesInv' /\ LateInv'
    BY <1>3 DEF Inv, FilesInv, LateInv, Told, Shown, answers
  <2> QED BY <2>4, <2>5, <2>6, <2>7 DEF Inv
<1> QED BY <1>4, <1>5

-----------------------------------------------------------------------------

(* What is about to be written, or was. *)
LEMMA Writing ==
  ASSUME Inv, NEW a \in Agent, run[a].step \in {"write", "sync"}
  PROVE  /\ run[a].step \in Holding /\ run[a] \in Command /\ ~run[a].flags.dry
         /\ ~run[a].inflight /\ run[a].into \in Indices /\ lock[run[a].into] = a
         /\ run[a].result \in Documents /\ run[a].result # Absent
         /\ run[a].step = "sync" => file[run[a].into] = run[a].result
         /\ run[a].step = "write" /\ run[a].into = run[a].from =>
              Answered(run[a].into, run[a].result)
<1>1. HoldsLocks(a) /\ WritesWell(a) /\ run[a] \in Command /\ run[a].step \in Holding
  BY DEF Inv, AgentInv, TypeOK, Holding
<1>2. ~run[a].flags.dry /\ lock[run[a].into] = a
  BY <1>1 DEF HoldsLocks, Holding
<1>3. run[a].result \in Documents
  BY <1>1 DEF Command
<1> QED BY <1>1, <1>2, <1>3, Working DEF WritesWell

LEMMA ReplaceKeeps ==
  ASSUME Inv, NEW a \in Agent, Replace(a)
  PROVE  Inv'
<1> DEFINE f == run[a].into
           new == run[a].result
           c == [run[a] EXCEPT !.step = "sync"]
<1>1. /\ run[a].step = "write" /\ lock' = lock /\ UNCHANGED <<seen, remote, late>>
      /\ file' = [file EXCEPT ![f] = new]
      /\ disk' = [disk EXCEPT ![f] = @ \cup {new}]
      /\ told' = IF f = run[a].from THEN told ELSE [told EXCEPT ![f] = Absent]
      /\ shown' = IF f = run[a].from THEN shown ELSE [shown EXCEPT ![f] = Absent]
  BY DEF Replace, Tell, Show, answers
<1>2. /\ run[a].step \in Holding /\ run[a] \in Command /\ ~run[a].flags.dry
      /\ f \in Indices /\ lock[f] = a /\ ~run[a].inflight
      /\ new \in Documents /\ new # Absent /\ (f = run[a].from => Answered(f, new))
  BY <1>1, Writing
<1>3. run' = [run EXCEPT ![a] = c]
  BY DEF Replace, Go, Inv, TypeOK
<1>4. c \in Command
  BY <1>2 DEF Command, Holding
<1>5. /\ c.cmd = run[a].cmd /\ c.step = "sync" /\ c.result = new
      /\ c.flags = run[a].flags /\ c.from = run[a].from /\ c.into = run[a].into
      /\ c.inflight = run[a].inflight
  BY <1>2 DEF Command
<1> HIDE DEF c
<1>6. run'[a] = c
  BY <1>3 DEF Inv, TypeOK
<1>7. TypeOK'
  BY <1>1, <1>2, <1>3, <1>4, IdleTyped DEF Inv, TypeOK
<1>8. AgentInv(a)'
  <2>1. HoldsLocks(a)'
    BY <1>1, <1>2, <1>3, <1>4, <1>5, StillHolds DEF Holding
  <2>2. file'[f] = new
    BY <1>1, <1>2 DEF Inv, TypeOK
  <2>3. WritesWell(a)' /\ KnowsRemote(a)'
    BY <1>2, <1>5, <1>6, <2>2 DEF WritesWell, KnowsRemote, At
  <2> QED BY <2>1, <2>3 DEF AgentInv
<1>9. \A b \in Agent \ {a} : AgentInv(b)'
  <2>1. \A b \in Agent \ {a} : run'[b] = run[b]
    BY <1>3 DEF Inv, TypeOK
  <2>2. \A g \in Indices \ {f} : file'[g] = file[g] /\ told'[g] = told[g]
    BY <1>1 DEF Inv, TypeOK
  <2>3. \A g \in Indices \ {f} : shown'[g] = shown[g]
    BY <1>1 DEF Inv, TypeOK
  <2> QED BY <1>1, <1>2, <2>1, <2>2, <2>3, OthersUndisturbed DEF LocksOf
<1>10. FilesInv'
  <2> SUFFICES ASSUME NEW g \in Indices
               PROVE  /\ file'[g] \in disk'[g] /\ \A doc \in disk'[g] : Told(g, doc)'
                      /\ Shown(g, file[g])'
    BY DEF FilesInv
  <2>1. file[g] \in disk[g] /\ (\A doc \in disk[g] : Told(g, doc)) /\ Shown(g, file[g])
    BY DEF Inv, FilesInv
  <2>2. CASE g # f
    <3>1. file'[g] = file[g] /\ disk'[g] = disk[g] /\ told'[g] = told[g] /\ shown'[g] = shown[g]
      BY <1>1, <2>2 DEF Inv, TypeOK
    <3> QED BY <2>1, <3>1 DEF Told, Shown
  <2>3. CASE g = f /\ f = run[a].from
    <3>1. file'[g] = new /\ disk'[g] = disk[g] \cup {new} /\ told'[g] = told[g] /\ shown'[g] = shown[g]
      BY <1>1, <2>3 DEF Inv, TypeOK
    <3> QED BY <1>2, <2>1, <2>3, <3>1 DEF Answered, Told, Shown
  <2>4. CASE g = f /\ f # run[a].from
    <3>1. file'[g] = new /\ disk'[g] = disk[g] \cup {new} /\ told'[g] = Absent /\ shown'[g] = Absent
      BY <1>1, <2>4 DEF Inv, TypeOK
    <3> QED BY <3>1 DEF Told, Shown
  <2> QED BY <2>2, <2>3, <2>4
<1>11. LateInv'
  BY <1>1 DEF Inv, LateInv
<1> QED BY <1>7, <1>8, <1>9, <1>10, <1>11 DEF Inv

LEMMA SyncDirectoryKeeps ==
  ASSUME Inv, NEW a \in Agent, SyncDirectory(a)
  PROVE  Inv'
<1> DEFINE f == run[a].into
           new == run[a].result
<1>1. /\ run[a].step = "sync" /\ UNCHANGED <<file, seen, remote, late, shown>>
      /\ disk' = [disk EXCEPT ![f] = {file[f]}] /\ told' = [told EXCEPT ![f] = new]
      /\ run' = [run EXCEPT ![a] = Idle] /\ LocksOf(a)
  BY DEF SyncDirectory, Tell, Return, LocksOf
<1>2. f \in Indices /\ lock[f] = a /\ new \in Documents /\ new # Absent /\ file[f] = new
  BY <1>1, Writing
<1> HIDE DEF f, new
<1>3. TypeOK'
  BY <1>1, <1>2, LocksMove, IdleTyped DEF Inv, TypeOK
<1>4. AgentInv(a)'
  <2>1. run'[a] = Idle
    BY <1>1 DEF Inv, TypeOK
  <2> QED BY <2>1, IdleHolds
<1>5. \A b \in Agent \ {a} : AgentInv(b)'
  <2>1. \A b \in Agent \ {a} : run'[b] = run[b]
    BY <1>1 DEF Inv, TypeOK
  <2>2. \A g \in Indices \ {f} : file'[g] = file[g] /\ told'[g] = told[g]
    BY <1>1 DEF Inv, TypeOK
  <2> QED BY <1>1, <1>2, <2>1, <2>2, OthersUndisturbed
<1>6. FilesInv'
  <2> SUFFICES ASSUME NEW g \in Indices
               PROVE  /\ file'[g] \in disk'[g] /\ \A doc \in disk'[g] : Told(g, doc)'
                      /\ Shown(g, file[g])'
    BY DEF FilesInv
  <2>1. CASE g # f
    <3>1. file'[g] = file[g] /\ disk'[g] = disk[g] /\ told'[g] = told[g] /\ shown'[g] = shown[g]
      BY <1>1, <2>1 DEF Inv, TypeOK
    <3> QED BY <3>1 DEF Inv, FilesInv, Told, Shown
  <2>2. CASE g = f
    <3>1. file'[g] = new /\ disk'[g] = {new} /\ told'[g] = new /\ shown'[g] = shown[g]
      BY <1>1, <1>2, <2>2 DEF Inv, TypeOK
    <3>2. Shown(g, new)
      BY <1>2, <2>2 DEF Inv, FilesInv
    <3> QED BY <1>2, <3>1, <3>2, KeepsItself DEF Told, Shown
  <2> QED BY <2>1, <2>2
<1>7. LateInv'
  BY <1>1 DEF Inv, LateInv
<1> QED BY <1>3, <1>4, <1>5, <1>6, <1>7 DEF Inv

LEMMA PowerLossKeeps ==
  ASSUME Inv, PowerLoss
  PROVE  Inv'
<1>1. DOMAIN file = Indices /\ DOMAIN lock = Indices
  BY DEF Inv, TypeOK
<1>2. /\ \A f \in Indices : file'[f] \in disk[f]
      /\ disk' = [f \in Indices |-> {file'[f]}] /\ lock' = [f \in Indices |-> Free]
      /\ run' = [a \in Agent |-> Idle] /\ UNCHANGED <<seen, remote, late, told>>
      /\ shown' = [f \in Indices |-> IF disk[f] = {file[f]} THEN shown[f] ELSE Absent]
  BY <1>1 DEF PowerLoss
<1>3. file' \in [Indices -> Documents]
  <2>1. \E S : file' \in [Indices -> S]
    BY <1>1 DEF PowerLoss
  <2>2. \A f \in Indices : file'[f] \in Documents
    BY <1>2 DEF Inv, TypeOK
  <2> QED BY <2>1, <2>2
<1>4. TypeOK'
  BY <1>2, <1>3, IdleTyped DEF Inv, TypeOK
<1>5. ASSUME NEW a \in Agent PROVE AgentInv(a)'
  BY <1>2, IdleHolds
<1>6. FilesInv' /\ LateInv'
  <2>1. \A f \in Indices : file'[f] \in disk'[f] /\ \A doc \in disk'[f] : Told(f, doc)'
    BY <1>2 DEF Inv, FilesInv, Told
  <2>2. \A f \in Indices : Shown(f, file[f])'
    BY <1>2 DEF Inv, FilesInv, Shown
  <2> QED BY <1>2, <2>1, <2>2 DEF Inv, FilesInv, LateInv
<1> QED BY <1>4, <1>5, <1>6 DEF Inv

-----------------------------------------------------------------------------

LEMMA InitHolds == Init => Inv
<1> SUFFICES ASSUME Init PROVE Inv
  OBVIOUS
<1>1. file = [f \in Indices |-> file[f]] /\ \A f \in Indices : IsDocument(file[f])
  BY InitialAssumption DEF Init, Indices
<1>2. \A f \in Indices : file[f] \in Documents
  BY <1>1, IsDocumentMeans
<1>3. file \in [Indices -> Documents]
  <2>1. [f \in Indices |-> file[f]] \in [Indices -> Documents]
    BY <1>2
  <2> QED BY <1>1, <2>1
<1>4. << >> \in History /\ << >> \in Ops
  BY DEF History, Ops
<1>5. Unseen \in [chain : History, pending : Ops]
  BY <1>4 DEF Unseen
<1>6. remote \in History
  BY InitialAssumption DEF Init
<1>7. TypeOK
  BY <1>1, <1>2, <1>3, <1>5, <1>6, IdleTyped DEF Init, TypeOK
<1>8. ASSUME NEW a \in Agent PROVE AgentInv(a)
  <2>1. run[a].step = "none" /\ run[a] = Idle /\ ~run[a].inflight
    BY DEF Init, Idle
  <2> QED BY <2>1 DEF AgentInv, HoldsLocks, WritesWell, KnowsRemote, Holding, At
<1>9. FilesInv /\ LateInv
  BY <1>1 DEF Init, FilesInv, LateInv, Told, Shown
<1> QED BY <1>7, <1>8, <1>9 DEF Inv

LEMMA StepKeeps ==
  ASSUME Inv, [Next]_vars
  PROVE  Inv'
<1>1. CASE UNCHANGED vars
  BY <1>1 DEF vars, Inv, TypeOK, AgentInv, HoldsLocks, WritesWell, KnowsRemote, At,
              FilesInv, LateInv, Answered, Told, Shown, answers
<1>2. ASSUME NEW a \in Agent, Step(a) PROVE Inv'
  <2>1. ASSUME NEW call \in Calls, Observe(a, call) PROVE Inv'
    BY <2>1, ObserveKeeps
  <2>2. ASSUME NEW call \in Calls, NEW e \in Edit, Start(a, call, e) PROVE Inv'
    BY <2>2, StartKeeps
  <2>3. CASE Lock(a)
    BY <2>3, LockKeeps
  <2>4. CASE Fail(a)
    BY <2>4, ReturnKeeps DEF Fail
  <2>5. CASE ReadInit(a)
    BY <2>5, ReadInitKeeps
  <2>6. CASE ReadApply(a)
    BY <2>6, ReadApplyKeeps
  <2>7. CASE ReadSync(a)
    BY <2>7, ReadSyncKeeps
  <2>8. CASE Info(a)
    BY <2>8, InfoKeeps
  <2>9. CASE Page(a)
    BY <2>9, PageKeeps
  <2>10. CASE Final(a)
    BY <2>10, FinalKeeps
  <2>11. CASE Send(a)
    BY <2>11, SendKeeps
  <2>12. CASE Receive(a)
    BY <2>12, ReceiveKeeps
  <2>13. CASE Lose(a)
    BY <2>13, LoseKeeps
  <2>14. CASE Replace(a)
    BY <2>14, ReplaceKeeps
  <2>15. CASE SyncDirectory(a)
    BY <2>15, SyncDirectoryKeeps
  <2> QED BY <1>2, <2>1, <2>2, <2>3, <2>4, <2>5, <2>6, <2>7, <2>8, <2>9, <2>10, <2>11,
             <2>12, <2>13, <2>14, <2>15 DEF Step
<1>3. ASSUME NEW batch \in late, Arrive(batch) PROVE Inv'
  BY <1>3, ArriveKeeps
<1>4. CASE OtherPush
  BY <1>4, OtherPushKeeps
<1>5. CASE PowerLoss
  BY <1>5, PowerLossKeeps
<1> QED BY <1>1, <1>2, <1>3, <1>4, <1>5 DEF Next

(* The inductive invariant: a command at work holds its locks, what it is      *)
(* about to write continues what was told of the file, and every content a     *)
(* power loss may leave does so too.                                           *)
THEOREM Invariant == Spec => []Inv
<1>1. Init => Inv
  BY InitHolds
<1>2. Inv /\ [Next]_vars => Inv'
  BY StepKeeps
<1> QED BY <1>1, <1>2, PTL DEF Spec

(* What a command answered it saved is in the document, also after a power     *)
(* loss, and what an up-to-date pull answered is there until a power loss      *)
(* that finds the file unsynced, or until a command with another --out         *)
(* replaces it: write_json_atomic, cmd_pull.                                   *)
THEOREM AnsweredStays == Spec => []AnsweredSurvives
<1>1. Inv => AnsweredSurvives
  <2> SUFFICES ASSUME Inv PROVE AnsweredSurvives
    OBVIOUS
  <2>1. DOMAIN file = Indices
    BY DEF Inv, TypeOK
  <2> QED BY <2>1 DEF Inv, FilesInv, Told, Shown, AnsweredSurvives
<1> QED BY <1>1, Invariant, PTL

(* apply with --expected-head or --expected-state commits on exactly that,     *)
(* whatever other commands did since it was observed: cmd_apply.               *)
THEOREM CommitsOnWhatItExpected == Spec => []CommitsOnWhatWasSeen
<1>1. Inv => CommitsOnWhatWasSeen
  BY DEF Inv, AgentInv, WritesWell, CommitsOnWhatWasSeen
<1> QED BY <1>1, Invariant, PTL

(* What a push counts as published is in the project, whatever other clients   *)
(* and late batches add to it: cmd_push.                                       *)
THEOREM ReportedIsPublished == Spec => []PublishedAsReported
<1>1. Inv => PublishedAsReported
  BY DEF Inv, AgentInv, KnowsRemote, PublishedAsReported, At
<1> QED BY <1>1, Invariant, PTL
=============================================================================
