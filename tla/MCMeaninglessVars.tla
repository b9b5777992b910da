--------------------------- MODULE MCMeaninglessVars ---------------------------
(* Instances of MeaninglessVars. *)
EXTENDS MeaninglessVars

Scope(kind, up) == [kind |-> kind, up |-> up]
Occ(op, in, n) == [op |-> op, in |-> in, n |-> n, head |-> FALSE]
InHead(op, in, n) == [op |-> op, in |-> in, n |-> n, head |-> TRUE]

Kinds == {"def", "class", "lambda", "comp"}
Tree(scopes) == [d \in 0..Len(scopes) |-> IF d = 0 THEN Scope("module", 0) ELSE scopes[d]]

(* A function, a scope in it, and a third in either *)
AllTrees ==
  {Tree(<<Scope("def", 0), Scope(k, 1), Scope(l, u)>>) :
     <<k, l, u>> \in {t \in Kinds \X Kinds \X {1, 2} : t[3] = 2 /\ t[1] \in {"lambda", "comp"} => t[2] \in {"lambda", "comp"}}}

FitNames == [n \in {"data", "result"} |-> <<"response", "response_2", "response_3", "response_4", "response_5">>]

(* The assignment of the function first; then one name, all over its scopes *)
InScope(d) ==
  <<Occ("load", d, "data"), Occ("store", d, "data"), Occ("param", d, "data"), Occ("bind", d, "data"),
    Occ("del", d, "data"), Occ("global", d, "data"), Occ("nonlocal", d, "data")>>
InHeadOf(d) == <<InHead("load", d, "data"), InHead("store", d, "data")>>
ScopeShapes ==
  <<Occ("assign", 1, "data"), Occ("load", 1, "data"), Occ("param", 1, "data"), Occ("store", 1, "data")>>
    \o InScope(2) \o InHeadOf(2) \o InScope(3) \o InHeadOf(3)

(* Several names to be given, in functions within functions and in methods, *)
(* and the wanted name in use already                                       *)
NestedTrees == {t \in AllTrees : {t[2].kind, t[3].kind} \subseteq {"def", "class"}}
PlanShapes ==
  <<Occ("assign", 1, "data"), Occ("assign", 1, "result"), Occ("load", 1, "data"), Occ("load", 1, "response_2"),
    Occ("assign", 2, "data"), Occ("load", 2, "data"), Occ("load", 2, "result"), Occ("store", 2, "response"), Occ("global", 2, "response"),
    Occ("assign", 3, "result"), Occ("load", 3, "result"), Occ("load", 3, "response"), Occ("load", 3, "data")>>

Scopes == [trees |-> AllTrees, shapes |-> ScopeShapes, size |-> 4, ignore |-> FALSE, break |-> FALSE]
Planned == [trees |-> NestedTrees, shapes |-> PlanShapes, size |-> 4, ignore |-> TRUE, break |-> FALSE]

MCGrammars == [scopes |-> Scopes, planned |-> Planned]

-----------------------------------------------------------------------------
(* Grammars whose programs show where the rule is wrong: not in the run.    *)
(* OneRunIsEnough fails under Planned.                                      *)

Flat(shapes) == [Scopes EXCEPT !.trees = {Tree(<<Scope("def", 0), Scope("comp", 1)>>)}, !.shapes = shapes]

\* from . import data
Relative == Flat(<<Occ("relative", 1, "data"), Occ("load", 1, "data"), Occ("assign", 1, "data"), Occ("store", 1, "data"),
                   Occ("load", 2, "data"), Occ("param", 2, "data"), Occ("load", 1, "response")>>)
\* A comprehension whose target is an item of the variable
Target == Flat(<<Occ("assign", 1, "data"), Occ("subscripted", 2, "data"), Occ("load", 2, "data"), Occ("load", 1, "data"),
                 Occ("param", 2, "data"), Occ("load", 1, "response")>>)
\* eval in a comprehension
Evaluated == Flat(<<Occ("assign", 1, "data"), Occ("eval", 1, "data"), Occ("eval", 2, "data"), Occ("load", 2, "data"),
                    Occ("load", 1, "data"), Occ("load", 1, "response")>>)
\* A form feed above the assignment
Broken == [Flat(<<Occ("load", 1, "size"), Occ("store", 1, "size"), Occ("assign", 1, "data"), Occ("load", 1, "data"),
                  Occ("load", 2, "size"), Occ("load", 1, "response")>>) EXCEPT !.break = TRUE]

Disagreements == [relative |-> Relative, target |-> Target, evaluated |-> Evaluated, broken |-> Broken]
=============================================================================
