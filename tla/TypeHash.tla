------------------------------ MODULE TypeHash -------------------------------
(***************************************************************************)
(* The hash functions of TypeMgr.cc over the ids of the component types.   *)
(* The code computes them on ymuint; with ids below 2^20 nothing wraps.    *)
(***************************************************************************)
EXTENDS Integers, Sequences, FiniteSetsExt

hash_array(elem) == elem
hash_set(elem) == elem + 511
hash_map(key, elem) == key * 2047 + elem + 511

(* Input i (from 0) contributes its id times i: the first one nothing. *)
hash_func(out, ins) ==
  out + 253 + MapThenSumSet(LAMBDA i : ins[i] * (i - 1), DOMAIN ins)

(* hash_func2 reads the inputs back from the registered type. *)
hash_func2(args) ==
  args[1] + 253 + MapThenSumSet(LAMBDA k : args[k] * (k - 2), 2 .. Len(args))

(* The hash the get functions search with. *)
RequestHash(s) ==
  CASE s.kind = "array" -> hash_array(s.args[1])
    [] s.kind = "set" -> hash_set(s.args[1])
    [] s.kind = "map" -> hash_map(s.args[1], s.args[2])
    [] s.kind = "func" -> hash_func(s.args[1], Tail(s.args))

(* The hash hash_type files a registered type under, before the modulus. *)
StoredHash(s) ==
  CASE s.kind = "array" -> hash_array(s.args[1])
    [] s.kind = "set" -> hash_set(s.args[1])
    [] s.kind = "map" -> hash_map(s.args[1], s.args[2])
    [] s.kind = "func" -> hash_func2(s.args)
=============================================================================
