--------------------------- MODULE MCCommandSystem ---------------------------
(* One dispatch, fanned out or broadcast, to a group of two devices.        *)
EXTENDS CommandSystem
=============================================================================
