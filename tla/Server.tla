-------------------------------- MODULE Server --------------------------------
(***************************************************************************)
(* mantis-server: main reads its settings from the environment and the     *)
(* command line and runs one of two servers for as long as the process     *)
(* lives.                                                                  *)
(***************************************************************************)
EXTENDS LegacyServer, HttpServer

CONSTANTS
  Arguments,   \* the command lines
  Environment  \* whether MANTIS_DATA_DIR is set

VARIABLE mode

vars == <<mode, legacyVars, registryVars>>

(* parse_args_from: each flag overrides what came before it. *)
Set(dataDir, flag) ==
  CASE flag = "--chain" -> FALSE [] flag = "--data-dir" -> TRUE [] OTHER -> dataDir

(* Config::from_env, and the arguments after it. *)
DataDir(environment, arguments) == FoldLeft(Set, environment, arguments)

Init ==
  /\ \E e \in Environment, arguments \in Arguments :
       mode = IF DataDir(e, arguments) THEN "data directory" ELSE "chain file"
  /\ LegacyInit /\ RegistryInit
  /\ mode = "data directory" => file = Nothing

Next ==
  /\ UNCHANGED mode
  /\ \/ mode = "chain file" /\ LegacyNext /\ UNCHANGED registryVars
     \/ mode = "data directory" /\ RegistryNext /\ UNCHANGED legacyVars

(* In the other mode the registry's actions are never enabled. *)
Spec == Init /\ [][Next]_vars /\ Fairness

=============================================================================
