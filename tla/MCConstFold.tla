---------------------------- MODULE MCConstFold -----------------------------
(* Two names and ints of three bits: constants of two operators over        *)
(* literals of every type, and enums with constants beside them.            *)
EXTENDS ConstFold

MCConstants ==
  [literals |-> {[type |-> "boolean", val |-> TRUE], [type |-> "int", val |-> 1],
                 [type |-> "int", val |-> -3], [type |-> "float", val |-> <<3, 2>>]},
   uniops |-> {"BitNeg", "LogNot", "UniMinus"},
   binops |-> {"Sub", "Div", "Mod", "Rshift", "LogOr", "Equal", "Lt"},
   ops |-> 2, depth |-> 3, elems |-> 0]
MCEnums == [literals |-> {[type |-> "int", val |-> 1]}, uniops |-> {},
            binops |-> {"Sub"}, ops |-> 1, depth |-> 3, elems |-> 3]

MCPrograms == {MCConstants, MCEnums}
=============================================================================
