----------------------------- MODULE MCInitGate -----------------------------
(* Two concurrent RPCs, one stored key and two that can be drawn.           *)
EXTENDS InitGateProofs, TLC

CONSTANTS c1, c2, stored, fresh, other, bls, ed25519

MCAlgOf == stored :> bls @@ fresh :> bls @@ other :> ed25519
=============================================================================
