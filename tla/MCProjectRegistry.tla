------------------------- MODULE MCProjectRegistry -------------------------
(* Workers and two slugs.  MCBootstraps holds a pair that shares a genesis, a
   pair that is legacy, and a pair that may coexist. *)
EXTENDS ProjectRegistry
CONSTANTS w1, w2, w3, s1, s2, g1, g2, g3

MCBootstraps ==
  {[slug |-> s1, genesis |-> g1, legacy |-> TRUE],
   [slug |-> s2, genesis |-> g1, legacy |-> FALSE],
   [slug |-> s2, genesis |-> g2, legacy |-> TRUE],
   [slug |-> s2, genesis |-> g3, legacy |-> FALSE]}

=============================================================================
