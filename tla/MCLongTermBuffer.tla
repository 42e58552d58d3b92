-------------------------- MODULE MCLongTermBuffer --------------------------
(***************************************************************************)
(* An instance of LongTermBuffer: two elements of two bytes, accessed one  *)
(* by one, by vector and scattered.                                        *)
(***************************************************************************)
EXTENDS LongTermBuffer

CONSTANTS v1, v2

MCValues == {v1, v2}

Access(a, n, s) == [address |-> a, size |-> n, simd |-> s]

\* Aligned accesses of whole elements of two bytes in a buffer of two.
WordAccesses == {Access(0, 2, FALSE), Access(2, 2, FALSE), Access(0, 2, TRUE), Access(0, 4, TRUE)}

WordGathers == {<<2, 0>>, <<2, 2>>}

\* The instance is one of those the theorems are about.
ASSUME InstanceAssumption == WholeElementAccesses
=============================================================================
