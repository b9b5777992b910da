------------------------------ MODULE MCDictGet ------------------------------
(* Instances of DictGet. *)
EXTENDS DictGet

Dict(x, ks) == [op |-> "dict", x |-> x, keys |-> ks]
Coll(x, ks) == [op |-> "coll", x |-> x, keys |-> ks]
Alias(x, y) == [op |-> "alias", x |-> x, y |-> y]
Key(x, a)   == [op |-> "key", x |-> x, key |-> a]
Box(x, y)   == [op |-> "box", x |-> x, y |-> y]
Lose(x)     == [op |-> "lose", x |-> x]
Swap(x, y)  == [op |-> "swap", x |-> x, y |-> y]
Item(op, x, a) == [op |-> op, x |-> x, key |-> a]
Op(op)      == [op |-> op]

In(k, x, not) == [op |-> "in", k |-> k, x |-> x, not |-> not]
Subset(c, x)  == [op |-> "subset", c |-> c, x |-> x, not |-> FALSE]
Opaquely      == [op |-> "opaque", not |-> FALSE]
Constant      == [op |-> "const", not |-> FALSE]
And(t, u)     == [op |-> "and", one |-> t, two |-> u]
Or(t, u)      == [op |-> "or", one |-> t, two |-> u]

NoParam == [name |-> "none", keys |-> {}]

Choice == [statements |-> {}, tests |-> {}, blocks |-> {}, params |-> {NoParam}, length |-> 5, depth |-> 2]

\* One dict and one key variable, no alias: every kind of block
Paths == [Choice EXCEPT
  !.statements = {Dict("d", {}), Dict("d", {"a"}), Key("k", "a"), Key("k", "b"), Lose("d"), Item("delitem", "d", "a"),
                  Op("return"), Op("raise"), Op("call"), Op("pass")},
  !.tests = {In("k", "d", FALSE), In("k", "d", TRUE), Opaquely, Constant,
             And(In("k", "d", FALSE), Constant), Or(In("k", "d", TRUE), Constant)},
  !.blocks = {"if", "match", "try", "opaque"},
  !.params = {NoParam, [name |-> "d", keys |-> {"a"}]}]

\* A validated collection and a loop over it
Loops == [Choice EXCEPT
  !.statements = {Dict("d", {"a", "b"}), Coll("c", {"a", "b"}), Coll("c", {"a"}), Key("k", "a"),
                  Item("delitem", "d", "a"), Op("break")},
  !.tests = {Subset("c", "d"), In("k", "c", FALSE), And(Subset("c", "d"), In("k", "c", FALSE))},
  !.blocks = {"if", "for"}, !.length = 6]

\* Two names for one dict
Aliases == [Choice EXCEPT
  !.statements = {Dict("d", {}), Dict("d", {"a"}), Dict("e", {"a"}), Alias("d", "e"), Alias("e", "d"), Swap("d", "e"),
                  Lose("d"), Item("delitem", "e", "a"), Item("setitem", "d", "b")},
  !.tests = {In("k", "d", FALSE)}, !.blocks = {"try", "opaque"},
  !.params = {NoParam, [name |-> "d", keys |-> {"a"}]}, !.length = 6]

\* Nothing that leaves a try
Quiet == [Choice EXCEPT
  !.statements = {Dict("d", {}), Dict("d", {"a"}), Key("k", "a"), Key("k", "b"), Lose("d")},
  !.tests = {Constant, Opaquely}, !.blocks = {"if", "finally", "try"},
  !.params = {NoParam, [name |-> "d", keys |-> {"a"}]}]

MCGrammars == [paths |-> Paths, loops |-> Loops, aliases |-> Aliases, quiet |-> Quiet]

-----------------------------------------------------------------------------
(* Grammars whose programs show where the analyser is wrong: not in the run *)

\* An exception leaves a try before the key is there.
Finally_ == [Choice EXCEPT !.statements = {Dict("d", {}), Dict("d", {"a"}), Op("pass")},
                           !.tests = {Opaquely}, !.blocks = {"try", "finally"}]

\* A case whose pattern does not match, with a guard
Guarded == [Choice EXCEPT !.statements = {Key("k", "a"), Key("k", "b"), Dict("d", {"a"}), Op("return")},
                          !.tests = {In("k", "d", TRUE)}, !.blocks = {"match", "guard"}, !.length = 6]

\* A key is deleted through an expression that is not a name.
Nested == [Choice EXCEPT !.statements = {Dict("d", {"a"}), Box("e", "d"), Item("delnested", "e", "a")},
                         !.tests = {Opaquely}, !.depth = 1]

\* A root is given out again while another name has it.
Reused == [Choice EXCEPT !.statements = {Dict("d", {"a"}), Dict("d", {"b"}), Coll("d", {"a"}), Alias("e", "d")},
                         !.tests = {Opaquely}, !.blocks = {"if"}, !.length = 6, !.depth = 1]

\* In a loop a key is deleted through a name that is made an alias there.
Aliased == [Choice EXCEPT
  !.statements = {Dict("d", {"a", "b"}), Coll("c", {"a", "b"}), Alias("e", "d"), Item("delitem", "e", "a")},
  !.tests = {Subset("c", "d")}, !.blocks = {"if", "for"}, !.length = 6]

Disagreements == [finally |-> Finally_, guarded |-> Guarded, nested |-> Nested, reused |-> Reused,
                  aliased |-> Aliased]
=============================================================================
