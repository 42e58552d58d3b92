-------------------------- MODULE MCPintoolControl --------------------------
(***************************************************************************)
(* Instances of PintoolControl.  Default build: one control, two buffers   *)
(* of one range and different parameters, one whose range overlaps it and  *)
(* one that touches it, three periods.  PIN_LOCKED build: two threads, two *)
(* ranges that overlap.                                                    *)
(***************************************************************************)
EXTENDS PintoolControl, TLC

CONSTANTS t1, t2

OneThread == {t1}

TwoThreads == {t1, t2}

R(first, final) == [first |-> first, final |-> final]

FourRequests ==
  { [range |-> R(1, 4), parameters |-> "a"],
    [range |-> R(1, 4), parameters |-> "b"],
    [range |-> R(2, 6), parameters |-> "a"],
    [range |-> R(4, 6), parameters |-> "a"] }

TwoRequests ==
  { [range |-> R(1, 4), parameters |-> "a"],
    [range |-> R(2, 6), parameters |-> "a"] }

\* A level ended without a start takes m_level below 0.
OneEnded == -1

MCAddresses == 0 .. 7

\* Threads are interchangeable, and the properties are all safety properties.
ThreadSymmetry == Permutations(TwoThreads)
=============================================================================
