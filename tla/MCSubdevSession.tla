--------------------------- MODULE MCSubdevSession ---------------------------
(***************************************************************************)
(* Instances of SubdevSession for TLC.                                     *)
(***************************************************************************)
EXTENDS SubdevSession

\* Serial numbers none of which is a prefix of another.
MCNoPrefixes == {<<c, c>> : c \in Clients}

ThreadSymmetry == Permutations(Threads)
=============================================================================
