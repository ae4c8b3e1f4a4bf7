---------------------------- MODULE MCProgressParts ---------------------------
EXTENDS ProgressParts

CONSTANTS s1, s2

\* One schedule at even minutes, the other at odd ones.
MCNextSlot == [s \in Schedules |-> [t \in 0..LastMinute |->
                IF s = s1 THEN 2 * (t \div 2) + 2 ELSE 2 * ((t + 1) \div 2) + 1]]
=============================================================================
