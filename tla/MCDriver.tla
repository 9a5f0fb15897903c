------------------------------- MODULE MCDriver -------------------------------
(* Instances of Driver for TLC. *)
EXTENDS Driver

\* Configuration files: complete, or without the driver's name.
MCContents == {Keys, {"driverID", "driverInfo"}}
MCReaders == {App} \union Others \union Callbacks
=============================================================================
