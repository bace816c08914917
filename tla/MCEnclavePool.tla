---------------------------- MODULE MCEnclavePool ----------------------------
(* EnclavePool with as many workers as clients, as run_test starts them.   *)
EXTENDS EnclavePool
=============================================================================
