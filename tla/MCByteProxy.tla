---------------------------- MODULE MCByteProxy ----------------------------
(* Two services with one slot each, and two connections to either of them.  *)
EXTENDS ByteProxy, TLC

CONSTANTS kms, sts, i1, i2
=============================================================================
