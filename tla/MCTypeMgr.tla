------------------------------ MODULE MCTypeMgr ------------------------------
(***************************************************************************)
(* TypeMgr with the hash functions of the code on a table that starts with *)
(* one bucket, so that it grows at the second and the fourth type.         *)
(***************************************************************************)
EXTENDS TypeMgr

MCHash == INSTANCE TypeHash
MCHashReq(s) == MCHash!RequestHash(s)
MCHashType(s) == MCHash!StoredHash(s)
==============================================================================
