------------------------------ MODULE MCImport ------------------------------
(* Small sets of source files: main imports up to three of a and b, which  *)
(* may import c, and every file may be missing, broken or compiled only.   *)
EXTENDS Import

CONSTANTS main, a, b, c

MCModule == {main, a, b, c}

MCSymbol == MCModule \cup {"f", "g", "v"}

Statements(ms) == {[module |-> m, alias |-> m] : m \in ms}
Heads(ms, n) == UNION {[1 .. k -> Statements(ms)] : k \in 0 .. n}

File(file, parses, labels, head) ==
  [file |-> file, parses |-> parses, labels |-> labels, head |-> head,
   funcs |-> <<"f", "g">>, vars |-> <<"v">>]

Broken == {File("none", TRUE, TRUE, <<>>), File("ymc", TRUE, TRUE, <<>>),
           File("ym", FALSE, TRUE, <<>>)}
Sources(heads) == Broken \cup {File("ym", TRUE, l, h) : l \in BOOLEAN, h \in heads}

ProgramsOf(mh, ah, bh, ch) ==
  {(main :> p) @@ (a :> q) @@ (b :> r) @@ (c :> s) :
     p \in {File("ym", TRUE, TRUE, h) : h \in mh},
     q \in Sources(ah), r \in Sources(bh), s \in Sources(ch)}

(* No module imports itself, directly or through others. *)
AcyclicPrograms ==
  ProgramsOf(Heads({a, b}, 3), Heads({b, c}, 1), Heads({c}, 2), {<<>>})
=============================================================================
