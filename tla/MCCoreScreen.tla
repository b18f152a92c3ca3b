---------------------------- MODULE MCCoreScreen ----------------------------
(* Small instances of CoreScreen for TLC. *)
EXTENDS CoreScreen

CONSTANTS me, other

Always == {TRUE}
=============================================================================
