----------------------------- MODULE TypeIntern ------------------------------
(***************************************************************************)
(* What TypeMgr promises to the elaborator, which compares types by        *)
(* address: an interning table.  Asking for a structural type returns the  *)
(* one entry with that shape, made on first request; a nominal type (an    *)
(* enum) is a new entry every time.  Entries are never changed or dropped  *)
(* until the manager is destroyed.                                         *)
(***************************************************************************)
EXTENDS Integers, Sequences

CONSTANTS Shape,           \* the shapes types may have
          Structural(_),   \* is a type of this shape shared by structure?
          PrimShapes,      \* the entries present from the start
          NULL

VARIABLES list,            \* the entries; a type is its index, from 0
          asked,           \* the shape of the last request
          answer           \* the type it returned

IdsOf(s) == {i \in 0 .. Len(list) - 1 : list[i + 1] = s}

InternInit == list = PrimShapes /\ asked = NULL /\ answer = NULL

Reuse(s) ==
  /\ Structural(s)
  /\ asked' = s /\ answer' \in IdsOf(s)
  /\ UNCHANGED list

Create(s) ==
  /\ Structural(s) => IdsOf(s) = {}
  /\ list' = Append(list, s)
  /\ asked' = s /\ answer' = Len(list)

Discard == list' = <<>> /\ asked' = NULL /\ answer' = NULL

InternNext == (\E s \in Shape : Reuse(s) \/ Create(s)) \/ Discard

InternSpec == InternInit /\ [][InternNext]_<<list, asked, answer>>
==============================================================================
