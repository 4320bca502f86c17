----------------------------- MODULE MCAwsPath -----------------------------
(* Two connections, a slot in each proxy, a region the host allows and one  *)
(* it does not.                                                             *)
EXTENDS AwsPath, TLC

CONSTANTS i1, i2, east, west
=============================================================================
