------------------------------ MODULE MCDatabases ------------------------------
(* Databases with client ids in the order in which they are given out.     *)
EXTENDS Databases
=============================================================================
