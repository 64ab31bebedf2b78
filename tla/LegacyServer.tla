----------------------------- MODULE LegacyServer -----------------------------
(***************************************************************************)
(* The server without a data directory (main.rs: run, handle): one chain   *)
(* in one file, one request at a time.  Every client keeps a chain of its  *)
(* own, which it extends, pulls into and pushes from; a key may be in      *)
(* several places.                                                         *)
(***************************************************************************)
EXTENDS Chain

CONSTANTS
  Client,
  Keys,        \* those each client signs with
  Commands,    \* the operation lists clients commit
  GenesisId,     \* the chain id of a file that was put there
  MaxBlocks,   \* bound: blocks after the genesis
  MaxFailures  \* bound: removals, failed writes and restarts

ASSUME BoundAssumption == MaxBlocks \in Nat /\ MaxFailures \in Nat
ASSUME KeysAssumption == Keys \in [Client -> SUBSET Author]

VARIABLES
  chain,          \* the server's chain, behind its mutex
  file,           \* what the path shows, << >> when nothing is there
  surviving,      \* the versions of the file a power loss may leave
  writesAllowed,
  up,
  pc,             \* where handle_post_blocks is
  candidate,
  local,          \* the clients' chains
  failures

legacyVars == <<chain, file, surviving, writesAllowed, up, pc, candidate, local, failures>>
disk == <<file, surviving>>

Nothing == << >>

MayFail == failures < MaxFailures /\ failures' = failures + 1

-----------------------------------------------------------------------------

(* load_chain: no file is a fresh chain, and a file that does not validate
   keeps the server from starting. *)
Loads(blocks)  == blocks = Nothing \/ Validates(blocks)
Loaded(blocks) == IF blocks = Nothing THEN <<Genesis(Legacy)>> ELSE blocks

LegacyInit ==
  /\ file \in {Nothing, <<Genesis(Scoped(GenesisId))>>}
  /\ surviving = {file}
  /\ chain = Loaded(file)
  /\ writesAllowed = TRUE /\ up = TRUE
  /\ pc = "idle" /\ candidate = Nothing
  /\ local = [c \in Client |-> Loaded(file)]
  /\ failures = 0

(* A client commits. *)
Commit(c, key, ops) ==
  /\ Len(local[c]) <= MaxBlocks
  /\ LET sealed == Sealed(local[c], key, ops)
     IN /\ sealed # << >>
        /\ local' = [local EXCEPT ![c] = @ \o sealed]
  /\ UNCHANGED <<chain, disk, writesAllowed, up, pc, candidate, failures>>

(* GET /api/blocks?from&limit: a page of the chain, which the client adds to
   its own. *)
Pull(c, from, to) ==
  /\ up /\ pc = "idle"
  /\ LET r == try_extend(local[c], SubSeq(chain, from, to))
     IN /\ r.error = "none" /\ r.chain # local[c]
        /\ local' = [local EXCEPT ![c] = r.chain]
  /\ UNCHANGED <<chain, disk, writesAllowed, up, pc, candidate, failures>>

(* A block the way another program may have made it or a transfer changed it:
   spelled in upper case, under another author's name, with other operations
   under the old hash, under a hash that was not signed, or signed again. *)
Variants(b) ==
  {[b EXCEPT !.sig.hex = Upper],
   Signed(b.author.key, [b EXCEPT !.author.hex = Upper])}
  \cup {Hashed([b EXCEPT !.author.key = key]) : key \in Author \ {b.author.key}}
  \cup UNION {{[b EXCEPT !.ops = ops],
               Hashed([b EXCEPT !.ops = ops]),
               Signed(b.author.key, [b EXCEPT !.ops = ops])} : ops \in Commands \ {b.ops}}

(* The blocks a client may push: any part of its chain, the last of them
   perhaps changed. *)
Pushes(c) ==
  {SubSeq(local[c], i, j) : i \in 2..Len(local[c]), j \in 2..Len(local[c])}
    \cup {SubSeq(local[c], i, Len(local[c]) - 1) \o <<b>> :
            i \in 2..Len(local[c]), b \in Variants(Last(local[c]))}

(* handle_post_blocks up to the write: the candidate extends a copy. *)
Post(c) ==
  /\ up /\ pc = "idle" /\ writesAllowed
  /\ \E blocks \in Pushes(c) :
       LET r == try_extend(chain, blocks)
       IN r.error = "none" /\ candidate' = r.chain
  /\ pc' = "writing"
  /\ UNCHANGED <<chain, disk, writesAllowed, up, local, failures>>

Answered == pc' = "idle" /\ candidate' = Nothing

(* persist_json_inner up to the rename, of a batch that was known as well. *)
Rename ==
  /\ pc = "writing" /\ pc' = "renamed"
  /\ file' = candidate /\ surviving' = surviving \cup {candidate}
  /\ UNCHANGED <<chain, writesAllowed, up, candidate, local, failures>>

(* PersistFailure::NotPublished. *)
RenameFails ==
  /\ pc = "writing" /\ MayFail
  /\ Answered
  /\ UNCHANGED <<chain, disk, writesAllowed, up, local>>

Sync ==
  /\ pc = "renamed"
  /\ chain' = candidate /\ surviving' = {file}
  /\ Answered
  /\ UNCHANGED <<file, writesAllowed, up, local, failures>>

(* PersistFailure::Published: the candidate is served, and the last one. *)
SyncFails ==
  /\ pc = "renamed" /\ MayFail
  /\ chain' = candidate /\ writesAllowed' = FALSE
  /\ Answered
  /\ UNCHANGED <<disk, up, local>>

(* Somebody removes the file; what had been promised of it is void. *)
Unlink ==
  /\ file # Nothing /\ pc = "idle" /\ MayFail
  /\ file' = Nothing /\ surviving' = surviving \cup {Nothing}
  /\ UNCHANGED <<chain, writesAllowed, up, pc, candidate, local>>

(* The process ends, or the power fails and the file is one of the versions it
   may be. *)
Crash ==
  /\ up /\ MayFail
  /\ up' = FALSE /\ Answered
  /\ \/ UNCHANGED disk
     \/ file' \in surviving /\ surviving' = {file'}
  /\ UNCHANGED <<chain, writesAllowed, local>>

Restart ==
  /\ ~up /\ Loads(file)
  /\ up' = TRUE /\ chain' = Loaded(file) /\ writesAllowed' = TRUE
  /\ UNCHANGED <<disk, pc, candidate, local, failures>>

LegacyNext ==
  \/ \E c \in Client :
       \/ \E key \in Keys[c], ops \in Commands : Commit(c, key, ops)
       \/ \E from, to \in 1..Len(chain) : Pull(c, from, to)
       \/ Post(c)
  \/ Rename \/ RenameFails \/ Sync \/ SyncFails \/ Unlink \/ Crash \/ Restart

-----------------------------------------------------------------------------

Chains == {chain} \cup {local[c] : c \in Client} \cup (surviving \ {Nothing})

(* However the blocks came in, a chain that anyone holds is one that validates
   from its genesis: checking only what is new on top of what was trusted is
   enough. *)
AcceptedValidates == \A c \in Chains : Validates(c)

=============================================================================
