------------------------------- MODULE MCServer -------------------------------
(* Two clients of a chain file, whose second command needs the first; two keys *)
(* that push to one project, alone and in one batch.                           *)
EXTENDS Server

MCNaN       == [op |-> "SetParam", id |-> 1, value |-> "nan"]
MCNotFinite == {MCNaN}
MCCommands  == {<<[op |-> "AddNode", id |-> 1, kind |-> "point", pos |-> "here"]>>,
                <<[op |-> "AddNode", id |-> 1, kind |-> "point", pos |-> "there"]>>,
                <<[op |-> "SetParam", id |-> 1, value |-> "low"]>>, <<MCNaN>>}
MCKeys      == [c \in {"one", "two"} |-> {"ann"}]
MCWriters   == [p \in Project |-> Key]
MCBatches   == {<<1>>, <<2, 1>>}
MCArguments == {<<"--data-dir">>, <<"--data-dir", "--chain">>, <<"--port">>}

(* Time passes between requests and not within them; the first request is a
   push, one may read, and a forged batch names both keys. *)
Apart ==
  /\ clock' # clock =>
       backlog = << >> /\ queue = << >> /\ \A w \in Worker : workers[w] = "idle"
  /\ \A id \in DOMAIN requests' :
       LET r == requests'[id]
       IN /\ r.kind = "read" => id = 2
          /\ r.kind = "raw" => id # 1 /\ r.genuine
          /\ ~r.genuine => r.base = << >> /\ Len(r.batch) = 2 /\ id # 3
=============================================================================
