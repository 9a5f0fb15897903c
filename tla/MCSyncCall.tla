------------------------------ MODULE MCSyncCall ------------------------------
(***************************************************************************)
(* Instances of SyncCall for TLC.                                          *)
(***************************************************************************)
EXTENDS SyncCall

\* Ids in the order an unseeded rand() yields them, all different.
MCRequestId == [n \in Calls |-> 10 + n]

\* The ids of another driver, none of them ours.
MCOtherIds == {99}

NoIds == {}

\* The application threads are interchangeable.
ThreadSymmetry == Permutations(Threads)
=============================================================================
