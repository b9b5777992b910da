----------------------- MODULE MCDefinedFarFromUse -----------------------
(* Instances of DefinedFarFromUse. *)
EXTENDS DefinedFarFromUse

E(kind, args) == [kind |-> kind, args |-> args]
None == E("none", <<>>)
St(op, x, e) == [op |-> op, x |-> x, e |-> e]
Assign(x, e) == St("assign", x, e)
Do(kind, n) == St("do", "none", E(kind, <<n>>))
On(op, x) == St(op, x, None)
Exit(op) == St(op, "none", None)
If(n) == St("if", "none", E("name", <<n>>))
For(x, n) == St("for", x, E("name", <<n>>))
RaiseOf(kind) == St("raise", "none", E(kind, <<>>))
Except(x, kind) == St("except", x, E(kind, <<>>))

Choice == [statements |-> {}, redeclared |-> {}, level |-> "conservative", length |-> 6, depth |-> 1]

\* Literals and names, and all the ways out of a block
Ways == [Choice EXCEPT !.depth = 2, !.statements =
  {Assign("x", E("const", <<>>)), Assign("x", E("name", <<"y">>)), Assign("x", E("list", <<"y">>)),
   On("del", "y"), On("import", "y"), Do("call", "y"), Do("name", "x"), If("z"), For("z", "z"),
   Exit("return"), Exit("continue")}]

\* What raises in a try, and who catches it
Tries == [Choice EXCEPT !.length = 7, !.statements =
  {Assign("x", E("name", <<"y">>)), Do("name", "x"), Do("call", "y"), Exit("return"),
   On("try", "none"), Except("none", "all"), Except("y", "key"), RaiseOf("value"), RaiseOf("any")}]

\* Values that calls make, at the aggressive level
Calling == [Choice EXCEPT !.length = 5, !.level = "aggressive", !.redeclared = {"w"}, !.statements =
  {Assign("x", E(k, <<"y">>)) : k \in {"call", "pure", "attr", "mutator"}}
    \cup {Assign("x", E("pure", <<"w">>)), Assign("y", E("call", <<"z">>)), Do("call", "y"), Do("pure", "z"), Do("name", "w"), Do("name", "y"),
          St("setattr", "y", E("const", <<>>)), St("aug", "y", E("pure", <<"z">>)), Do("name", "x"), If("z"), Exit("return")}]

\* The name of a handler, unbound where the handler ends, read by an assignment behind the try
Handled == [Choice EXCEPT !.length = 8, !.statements =
  {On("try", "none"), Except("y", "all"), Assign("x", E("name", <<"y">>)), Do("call", "z"), Do("name", "x")}]

MCGrammars == [exits |-> Ways, tries |-> Tries, calling |-> Calling, handled |-> Handled]

-----------------------------------------------------------------------------
(* Grammars whose bodies show where the analyser is wrong: not in the run *)

\* A loop whose body deletes what the value reads
Looping == [Choice EXCEPT !.length = 8, !.depth = 2,
  !.statements = {Assign("x", E("name", <<"y">>)), On("del", "y"), If("z"), For("z", "z"), Exit("continue"), Do("name", "x")}]
\* The variable is bound again by an import.
Importing == [Choice EXCEPT !.length = 7,
  !.statements = {Assign("x", E("const", <<>>)), On("import", "x"), If("z"), Exit("return"), Do("name", "x")}]

Disagreements == [looping |-> Looping, importing |-> Importing]
=============================================================================
