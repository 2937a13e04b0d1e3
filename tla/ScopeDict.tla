------------------------------ MODULE ScopeDict ------------------------------
(***************************************************************************)
(* What a single Scope promises to the elaborator: a growing dictionary of *)
(* handles.  A handle is never removed, and a handle whose declaration is  *)
(* guarded by IrMgr::check_name enters only when its name is still free.   *)
(* The hash table of module Scope implements this specification.           *)
(***************************************************************************)
CONSTANTS Handle,    \* the IrHandle objects the elaborator may create
          NameOf,    \* the name each handle was created with
          Checked    \* handles added only after check_name succeeded

VARIABLE dict        \* the handles that have been added

DictInit == dict = {}

(***************************************************************************)
(* The handles of dict that carry name n: the answers find_local may give. *)
(***************************************************************************)
Bound(n) == {h \in dict : NameOf[h] = n}

DictAdd(h) ==
  /\ h \notin dict
  /\ h \in Checked => Bound(NameOf[h]) = {}
  /\ dict' = dict \cup {h}

DictNext == \E h \in Handle : DictAdd(h)

DictSpec == DictInit /\ [][DictNext]_dict
==============================================================================
