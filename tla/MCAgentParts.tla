---------------------------- MODULE MCAgentParts ----------------------------
(* A device with one worker and a one-place queue, small enough that the   *)
(* queue fills, the cache evicts, and two handlers race over one id; and   *)
(* one device of the fleet: devices share nothing but the reaper's pass    *)
(* and the slots.                                                          *)
EXTENDS AgentParts, TLC

CONSTANTS c1, c2

MCIds == {c1, c2}
MCQuick == {c2}
MCCancelable == {c1}
MCExpirable == {c2}
MCExitOutcomes == {"completed", "timeout"}

Symmetry == Permutations(Sessions) \cup Permutations(Slots)
=============================================================================
