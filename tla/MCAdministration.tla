-------------------------- MODULE MCAdministration --------------------------
(* A project on one server and an empty replacement; or the data directory    *)
(* of a server that is stopped, with or without a project of its own.         *)
EXTENDS Administration

MCAction == {Grant("ann", "writer", NoLabel), [type |-> "revoke", key |-> "ann"]}

MCInitial ==
  {[s \in Server |-> IF s = "home" THEN Fresh(0, "home", <<Block("home", "op")>>)
                                   ELSE Missing],
   [s \in Server |-> Missing]}

Scoped == Confirmed(Becomes(Entry, Whole(FALSE)))
MCInitialDirs == {[g \in Slug |-> Entry], [g \in Slug |-> IF g = "a" THEN Scoped ELSE Entry]}

(* Directories are missing above one path, and where a key is written or a
   migration runs: where exports are, theirs is there. *)
OnePath ==
  \/ above = [out |-> "settled", data |-> "settled"]
  \/ /\ \A s \in Server : ~IsProject(project[s])
     /\ "settled" \in {above.out, above.data}

(* A behaviour works on servers or on the directory of a stopped one. *)
Apart ==
  IF \E s \in Server : IsProject(project[s]) THEN run'.cmd # "migrate"
  ELSE run'.cmd \in {"none", "migrate", "generate", "create"}
=============================================================================
