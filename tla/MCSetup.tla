--------------------------------- MODULE MCSetup ---------------------------------
(***************************************************************************)
(* Instance of Setup for TLC: a user who runs setup of two releases and    *)
(* uninstall, two of three commands side by side, and edits the files they *)
(* touch.  At first no coding agent has a configuration file, and the      *)
(* repository is new or was set up by somebody else.                       *)
(***************************************************************************)
EXTENDS Setup

CONSTANTS s, u, x, t, blank

SetupAndUninstall == [p \in Process |-> IF p = s THEN {"setup"} ELSE {"uninstall"}]

=============================================================================
