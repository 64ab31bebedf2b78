-------------------------------- MODULE Chain --------------------------------
(***************************************************************************)
(* mantis_chain: signed blocks of graph operations, linked by hashes.      *)
(*                                                                         *)
(* A hash is the content it was computed from, so two hashes are equal     *)
(* exactly when the contents are; a signature names the key and the hash   *)
(* it was made with.  Hexadecimal text has two spellings, and a chain of   *)
(* the first format takes both.                                            *)
(***************************************************************************)
EXTENDS Graph, SequencesExt

CONSTANTS
  Author,     \* signing keys
  NotFinite   \* the operations that hold NaN or an infinity

ASSUME NotFiniteAssumption == NotFinite \subseteq GraphOp

Lower == "lower"
Upper == "upper"

GenesisPrev == [zeros |-> 64]
Legacy      == [key |-> "MantisCAD genesis", hex |-> Lower]
Scoped(id)  == [key |-> id, hex |-> Lower]
NoSignature == [key |-> "", of |-> GenesisPrev, hex |-> Lower]

(* compute_hash over signable_json. *)
compute_hash(b) ==
  [index |-> b.index, prev |-> b.prev, author |-> b.author, ops |-> b.ops]

Hashed(b) == [index |-> b.index, prev |-> b.prev, author |-> b.author, ops |-> b.ops,
              hash |-> compute_hash(b), sig |-> b.sig]

(* sign_hash_hex. *)
Signed(key, b) == [Hashed(b) EXCEPT !.sig = [key |-> key, of |-> compute_hash(b), hex |-> Lower]]

(* legacy_genesis_block, scoped_genesis_block: the message tells them apart. *)
Genesis(message) ==
  Hashed([index |-> 0, prev |-> GenesisPrev, author |-> message, ops |-> << >>,
          sig |-> NoSignature])

ValidGenesis(b) == b = Genesis(b.author) /\ b.author.hex = Lower

(* format_version: the second format, of a project's own genesis. *)
Strict(chain) == chain[1].author # Legacy

-----------------------------------------------------------------------------

(* verify_finite_ops. *)
Finite(ops) == \A i \in DOMAIN ops : ops[i] \notin NotFinite

(* verify_sig. *)
VerifiesSignature(b, strict) ==
  /\ b.author.key \in Author
  /\ strict => b.author.hex = Lower /\ b.sig.hex = Lower
  /\ b.sig.key = b.author.key /\ b.sig.of = b.hash

(* verify_linked_block. *)
Linked(b, prev, strict) ==
  /\ b.index = prev.index + 1 /\ b.prev = prev.hash
  /\ b.ops # << >> /\ Finite(b.ops)
  /\ b.hash = compute_hash(b)
  /\ VerifiesSignature(b, strict)

(* The graph of the blocks so far, or Refused. *)
Replayed(graph, blocks) ==
  LET after[i \in 0..Len(blocks)] ==
        IF i = 0 THEN graph ELSE ApplyAll(after[i - 1], blocks[i].ops)
  IN after[Len(blocks)]

Replay(chain) == Replayed(EmptyGraph, chain)

(* validate_and_replay, from_json, and what audit looks at. *)
Validates(chain) ==
  /\ chain # << >> /\ ValidGenesis(chain[1])
  /\ \A i \in 2..Len(chain) : Linked(chain[i], chain[i - 1], Strict(chain))
  /\ Replay(chain) # Refused

-----------------------------------------------------------------------------

(* append seals operations into a block on the head; << >> if it refuses. *)
Sealed(chain, key, ops) ==
  LET block == Signed(key, [index |-> Len(chain), prev |-> Last(chain).hash,
                            author |-> [key |-> key, hex |-> Lower], ops |-> ops,
                            sig |-> NoSignature])
  IN IF /\ ops # << >> /\ Finite(ops) /\ Validates(chain)
        /\ ApplyAll(Replay(chain), ops) # Refused
       THEN <<block>> ELSE << >>

(* What became of a batch of foreign blocks: the chain with those that were
   new, or why it was refused. *)
Extended(chain) == [chain |-> chain, error |-> "none"]
Failed(error)   == [chain |-> << >>, error |-> error]

(* verify_extension_crypto, one block: a block the chain has is skipped, one
   that contradicts it diverges, and a new one has to follow the head. *)
Takes(chain, b) ==
  IF b.index < Len(chain)
    THEN IF chain[b.index + 1].hash = b.hash THEN Extended(chain) ELSE Failed("diverged")
  ELSE IF b.index # Len(chain) \/ b.prev # Last(chain).hash THEN Failed("diverged")
  ELSE IF Linked(b, Last(chain), Strict(chain)) THEN Extended(Append(chain, b))
  ELSE Failed("invalid")

verify_extension_crypto(chain, blocks) ==
  LET after[i \in 0..Len(blocks)] ==
        IF i = 0 THEN Extended(chain)
        ELSE IF after[i - 1].error = "none" THEN Takes(after[i - 1].chain, blocks[i])
        ELSE after[i - 1]
  IN after[Len(blocks)]

(* Mutant: the new blocks' operations are not replayed. *)
TrustedUnreplayed(chain, graph, blocks) == verify_extension_crypto(chain, blocks)

(* try_extend_trusted: graph is the one that chain replays to. *)
try_extend_trusted(chain, graph, blocks) ==
  LET r == verify_extension_crypto(chain, blocks)
      tail == SubSeq(r.chain, Len(chain) + 1, Len(r.chain))
  IN IF r.error # "none" THEN r
     ELSE IF Replayed(graph, tail) = Refused THEN Failed("invalid")
     ELSE r

(* try_extend. *)
try_extend(chain, blocks) ==
  IF Validates(chain) THEN try_extend_trusted(chain, Replay(chain), blocks)
  ELSE Failed("invalid")
=============================================================================
