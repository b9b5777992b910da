---------------------- MODULE MCRedundantAssignment ----------------------
(* Instances of RedundantAssignment. *)
EXTENDS RedundantAssignment

Const      == [base |-> "const", n |-> "1", suffix |-> <<>>]
Name(n)    == [base |-> "name", n |-> n, suffix |-> <<>>]
Attr(n)    == [base |-> "name", n |-> n, suffix |-> <<"attr">>]
Method(n)  == [base |-> "name", n |-> n, suffix |-> <<"attr", "call">>]
G          == [base |-> "call", n |-> "g", suffix |-> <<>>]
Yield      == [base |-> "yield", n |-> "none", suffix |-> <<>>]

St(op, x, args) == [op |-> op, x |-> x, args |-> args]
Assign(x, e)  == St("assign", x, <<e>>)
Out(args)   == St("emit", "print", args)
Rebound(args) == St("emit", "h", args)
Or(d, e)      == St("or", "none", <<d, e>>)
AssertMsg(d, e)  == St("assert", "none", <<d, e>>)
On(op, x)     == St(op, x, <<>>)
If(e)         == St("if", "none", <<e>>)
For(x, e)     == St("for", x, <<e>>)
While(e)      == St("while", "none", <<e>>)
End1          == On("end", "none")

Choice == [statements |-> {}, joined |-> FALSE, length |-> 5, depth |-> 0, passes |-> 1]

\* Statements in a row: what may move past what, in two passes
Row == [Choice EXCEPT !.length = 4, !.passes = 2, !.statements =
  {Assign("x", e) : e \in {Const, Name("y"), Attr("y"), G, Method("y")}}
    \cup {Assign("z", e) : e \in {Name("x"), Attr("x"), Name("y")}}
    \cup {Out(<<Name("x")>>), Out(<<Name("z"), Name("x")>>), Out(<<G, Name("x")>>), Out(<<Attr("x")>>), Rebound(<<Name("x")>>),
          Or(Name("z"), Name("x")), St("aug", "y", <<Name("x")>>), St("unpack", "y", <<Const>>), On("store", "y")}]

\* Closures, suspensions, and what they see
Closures == [Choice EXCEPT !.statements =
  {Assign("x", e) : e \in {Const, Name("y"), Attr("y"), G}}
    \cup {On("reader", "x"), On("writer", "x"), On("reader", "y"), Out(<<Yield>>), Out(<<Yield, Name("x")>>),
          Out(<<Name("x")>>), Assign("y", Const)}]

\* A closure that rebinds what the value reads, or another name of the same value
Rebinders == [Choice EXCEPT !.statements =
  {Assign("x", e) : e \in {Const, Attr("y"), G, Method("y")}}
    \cup {On("writer", "y"), On("reader", "y"), On("writer", "z"), Assign("z", G), Assign("y", Name("x")),
          Out(<<Name("x")>>), Out(<<Name("x"), Name("z")>>), Out(<<Attr("x")>>), Out(<<Yield, Name("x")>>)}]

\* Branches and loops
Branching == [Choice EXCEPT !.depth = 2, !.statements =
  {Assign("x", e) : e \in {Const, Attr("y"), G}}
    \cup {Out(<<Name("x")>>), Out(<<Name("c")>>), If(Name("x")), If(Const), For("y", Name("x")), For("y", Const), While(Name("x")),
          On("try", "none"), St("with", "y", <<Name("x")>>), End1}]

\* A name that is bound again in branches and loops
NamesBound == [Choice EXCEPT !.length = 6, !.depth = 2, !.statements =
  {Assign("x", Name("y")), Assign("y", Const), St("aug", "y", <<Const>>), Out(<<Name("x")>>), If(Name("x")), For("y", Const),
   St("with", "y", <<Name("x")>>), End1}]

MCGrammars == [row |-> Row, closures |-> Closures, rebinders |-> Rebinders, branching |-> Branching, names |-> NamesBound]

-----------------------------------------------------------------------------
(* Grammars whose bodies show where the fixer is wrong: not in the run *)

\* A loop brings the rebinding of y before the use.
Looping == [Choice EXCEPT !.length = 6, !.depth = 1,
  !.statements = {Assign("x", Name("y")), Assign("y", Const), Out(<<Name("x")>>), For("z", Const), End1}]
\* y is deleted before the use.
Deleted == [Choice EXCEPT !.statements = {Assign("x", Name("y")), Out(<<Name("x")>>), On("del", "y")}]
\* x is bound again by an import.
Imported == [Choice EXCEPT !.length = 6, !.depth = 1,
  !.statements = {Assign("x", Const), Out(<<Name("x")>>), On("import", "x"), If(Name("y")), End1}]
\* The value is a global name.
GlobalRead == [Choice EXCEPT !.statements = {Assign("x", Name("c")), Out(<<Name("x")>>), Out(<<G>>)}]
\* The use is the message of an assert.
Asserted == [Choice EXCEPT !.length = 4, !.statements = {Assign("x", G), Out(<<Name("c")>>), AssertMsg(Name("y"), Name("x"))}]
\* The body of a class reads x.
ClassBody == [Choice EXCEPT !.statements = {Assign("x", Const), On("class", "x"), Out(<<Name("x")>>)}]
\* Two statements share the line.
OneLine == [Choice EXCEPT !.length = 4, !.joined = TRUE,
  !.statements = {Assign("x", Const), Out(<<Name("x")>>), Out(<<Name("y")>>)}]
\* A global name, or one a closure rebinds, is loaded before the call that is moved behind it.
LoadedFirst == [Choice EXCEPT !.length = 4,
  !.statements = {Assign("x", G), Out(<<Name("c"), Name("x")>>), Out(<<Name("x")>>), On("writer", "z"), Out(<<Name("z"), Name("x")>>)}]
\* A closure rebinds y before the use.
Captured == [Choice EXCEPT !.length = 4, !.statements = {Assign("x", Name("y")), On("writer", "y"), Out(<<Name("x")>>), Out(<<G>>)}]

Disagreements == [looping |-> Looping, deleted |-> Deleted, imported |-> Imported, globalRead |-> GlobalRead,
                  asserted |-> Asserted, classBody |-> ClassBody, oneLine |-> OneLine, loadedFirst |-> LoadedFirst,
                  captured |-> Captured]
=============================================================================
