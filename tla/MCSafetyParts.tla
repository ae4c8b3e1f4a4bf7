----------------------------- MODULE MCSafetyParts -----------------------------
EXTENDS SafetyParts, TLC

\* Every minute is a slot of every schedule.
MCNextSlot == [s \in Schedules |-> [t \in 0..LastMinute |-> t + 1]]

\* A custom role between Admin and Viewer.
MCCustomRank == [r \in CustomRoles |-> 20]

\* Enough of one stream to fill its ring and go round, and a line of the other.
MCLastUnit == [s \in Streams |-> IF s = "stdout" THEN 5 ELSE 1]

\* Every device is in the group.
MCHostsOf == [g \in Broadcasts |-> Hosts]

\* Requests differ in nothing but their names.
MCSymmetry == Permutations(Requests)
=============================================================================
