--------------------------- MODULE MCEnclaveInit ---------------------------
(* Instances of EnclaveInit: the configurations give the constants values  *)
(* that are those of the code, in seconds.                                 *)
EXTENDS EnclaveInit
=============================================================================
