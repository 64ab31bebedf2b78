----------------------------- MODULE MCAgentFiles -----------------------------
(* Two agents on two documents, one of which has two names: a workspace with  *)
(* an edit its user did not sign, and a clone of the project or its absence.  *)
EXTENDS AgentFiles, TLC

MCSymmetry == Permutations(Agent)

MCFile == <<"model", "clone">>
MCTarget == [n \in {"model", "link", "clone"} |-> IF n = "clone" THEN 2 ELSE 1]

MCProject == {<<Signed("project", << >>)>>}

Call(cmd, name) == [cmd |-> cmd, name |-> name, out |-> name, flags |-> Plain]
ExpectHead == [Plain EXCEPT !.expectHead = TRUE, !.signPending = TRUE]
ExpectState == [Plain EXCEPT !.expectState = TRUE, !.signPending = TRUE]

(* A workspace by both its names, and a copy made with --out; or a clone. *)
MCCalls ==
  {Call("graph", "model"), Call("init", "clone"),
   [Call("apply", "model") EXCEPT !.flags = ExpectHead],
   [Call("apply", "link") EXCEPT !.flags = ExpectState],
   [Call("apply", "model") EXCEPT !.out = "clone", !.flags = ExpectState],
   [Call("apply", "model") EXCEPT !.flags.dry = TRUE],
   Call("pull", "clone"), Call("push", "clone"), Call("apply", "clone")}
MCInitial ==
  {<<WorkspaceFile(NewChain, <<"dragged">>), Absent>>, <<Absent, Absent>>}

(* A document and a link to it that may be there first. *)
MCNothing == {<<Absent, Absent>>}
MCLinkCalls ==
  {Call("init", "model"), Call("init", "link"), Call("apply", "model")}

(* A behaviour works on the workspace, and copies it once, or with the project. *)
Apart ==
  IF file[1] = Absent THEN \A a \in Agent : run'[a].from # 1
  ELSE /\ remote' = remote
       /\ \A a \in Agent : run'[a].from # 2
       /\ \A a \in Agent :
            run[a] = Idle /\ run'[a].into = 2 => file[2] = Absent
=============================================================================
