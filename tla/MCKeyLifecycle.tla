--------------------------- MODULE MCKeyLifecycle ---------------------------
(* Two keys that can be drawn for one algorithm, one for the other.         *)
EXTENDS KeyLifecycle, TLC

CONSTANTS k1, k2, k3, bls, ed25519

MCAlgOf == [k \in Keys |-> IF k = k3 THEN ed25519 ELSE bls]
=============================================================================
