------------------------------ MODULE MCCatalog ------------------------------
(* A first start finds nothing, a catalog, or one that does not open; a        *)
(* workspace in it does not replay.  Two keys and one id to be created.        *)
EXTENDS Catalog, TLC
CONSTANTS k1, k2

MCFound ==
  {NoCatalog,
   [active |-> "home", secret |-> k1, saved |-> "home" :> 0],
   [active |-> "home", secret |-> k1, saved |-> "home" :> 0 @@ "broken" :> 0],
   [active |-> "broken", secret |-> k1, saved |-> "home" :> 0 @@ "broken" :> 0]}

(* A behaviour is about keys and two failures, or about several workspaces and
   one. *)
Several ==
  "broken" \in UNION ({deleted, Ids(app.catalog)} \cup {Ids(c) : c \in Findable})

Apart ==
  IF Several THEN /\ up /\ up' /\ app.ready => app'.secret = app.secret
                  /\ store'.failures <= 1
  ELSE "other" \notin Ids(app'.catalog)
=============================================================================
