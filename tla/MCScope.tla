------------------------------- MODULE MCScope -------------------------------
(***************************************************************************)
(* Instances of Scope for TLC.  Two unguarded handles share the name "a"   *)
(* (two import aliases, or two enum constants); the other names are        *)
(* declared through check_name, "c" by two competing declarations.  The    *)
(* hash values collide in every small table and separate as it grows.      *)
(***************************************************************************)
EXTENDS Scope

MCHandle == {"a1", "a2", "b1", "c1", "c2", "d1", "e1"}
MCName == {"a", "b", "c", "d", "e", "none"}
MCNameOf == [a1 |-> "a", a2 |-> "a", b1 |-> "b", c1 |-> "c", c2 |-> "c",
             d1 |-> "d", e1 |-> "e"]
MCHashOf == [a |-> 0, b |-> 2, c |-> 6, d |-> 3, e |-> 10, none |-> 6]
MCChecked == MCHandle \ {"a1", "a2"}
==============================================================================
