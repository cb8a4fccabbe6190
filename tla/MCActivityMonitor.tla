------------------------ MODULE MCActivityMonitor ------------------------
(***************************************************************************)
(* The activity monitor alone, with one process of hooks.                  *)
(***************************************************************************)
EXTENDS ActivityMonitor
=============================================================================
