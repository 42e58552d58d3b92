---------------------------- MODULE MCPeriodLogs ----------------------------
(***************************************************************************)
(* An instance of PeriodLogs: two elements, three periods, in each two     *)
(* accesses with injection enabled and one without.                        *)
(***************************************************************************)
EXTENDS PeriodLogs, TLC

CONSTANTS c1, c2, c3, c4

MCArrays == {c1, c2, c3, c4}

MCAddresses == 1 .. 2

\* The read rates wrap around in the last period.
MCBerCount == [read |-> 2, write |-> 3]

\* Two with injection enabled: a write and a read, or a write of each element.
MCMaxAccesses == [enabled \in BOOLEAN |-> IF enabled THEN 2 ELSE 1]

\* Arrays are interchangeable, and the properties are all safety properties.
ArraySymmetry == Permutations(MCArrays)
=============================================================================
