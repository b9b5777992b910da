---------------------------- MODULE MeaninglessVars ----------------------------
(***************************************************************************)
(* meaningless-vars (TR1) and its rename.  A behaviour writes a function   *)
(* with the scopes nested in it, occurrence by occurrence, has the check   *)
(* plan new names and the fix write them, and compares what every          *)
(* occurrence means to Python before and after.                            *)
(*                                                                         *)
(* Scope 0 is the module, scope 1 the function.  An occurrence stands in   *)
(* the body of a scope, or in its head: decorators, defaults, bases, the   *)
(* first iterable of a comprehension, all evaluated outside of it.  Type   *)
(* parameters and deferred annotations are left out.                       *)
(***************************************************************************)
EXTENDS Naturals, Sequences, SequencesExt, FiniteSets, FiniteSetsExt

CONSTANTS
  Wanted,        \* for a meaningless name the name that fits, and that name numbered
  Grammars       \* by name, which programs there are, see below

ASSUME GrammarsAreValid ==
  \A g \in {Grammars[n] : n \in DOMAIN Grammars} : g.size \in Nat /\ {g.ignore, g.break} \subseteq BOOLEAN

VARIABLES
  grammar,       \* that of this program
  tree, prog,    \* the scopes, and the occurrences of the program (places in Shapes)
  name,          \* of each occurrence the name it has now
  ignored,       \* the occurrences on lines suppressed for TR1
  break,         \* the line with the form feed, or 0
  phase

vars == <<grammar, tree, prog, name, ignored, break, phase>>

Trees     == Grammars[grammar].trees   \* for each scope its kind and the scope it stands in
Shapes    == Grammars[grammar].shapes  \* the occurrences a program may have, in the order of the text
MaxSize   == Grammars[grammar].size    \* how many of them it has at most
MayIgnore == Grammars[grammar].ignore  \* whether a line may be suppressed
MayBreak  == Grammars[grammar].break   \* whether a line may hold a form feed, or a U+2028 in a string

-----------------------------------------------------------------------------
(* Scopes and occurrences *)

Up(d) == tree[d].up
Kind(d) == tree[d].kind
Above[d \in DOMAIN tree] == IF d = 0 THEN {0} ELSE {d} \cup Above[Up(d)]
Within(s) == {d \in DOMAIN tree : s \in Above[d]}

Op(i) == Shapes[i].op
Place(i) == Shapes[i].in
AtHead(i) == Shapes[i].head
Line(i) == Cardinality({j \in prog : j <= i})

Called(nm, n) == {i \in prog : nm[i] = n}
InBody(d, i, ops) == Place(i) = d /\ ~AtHead(i) /\ Op(i) \in ops

(* _walrus_targets: from a comprehension through those it holds *)
ThroughComprehensions(s, d) == s \in Above[d] \ {d} /\ \A e \in Above[d] \ Above[s] : Kind(e) = "comp"

(* Nodes of the kind ast.Name: what the rename can write *)
IsNameNode(i) == Op(i) \in {"assign", "load", "store", "del", "subscripted"} \/ (Op(i) = "param" /\ Kind(Place(i)) = "comp")

-----------------------------------------------------------------------------
(* What Python takes a name for *)

(* The scope in which an occurrence is looked up *)
Statement[d \in DOMAIN tree] == IF Kind(d) = "comp" THEN Statement[Up(d)] ELSE d
Start(i) == IF AtHead(i) THEN Up(Place(i)) ELSE IF Op(i) \in {"store", "eval"} THEN Statement[Place(i)] ELSE Place(i)

Declares(nm, d, n, op) == \E i \in Called(nm, n) : InBody(d, i, {op})
Binds(nm, d, n) ==
  \E i \in Called(nm, n) : \/ Start(i) = d /\ Op(i) \in {"assign", "store", "del", "bind", "relative"}
                           \/ Place(i) = d /\ Op(i) = "param"

(* The scope that n belongs to where it is looked up in d: classes do not   *)
(* count for the scopes within them.                                        *)
Home(nm, n) ==
  LET own(d) == Binds(nm, d, n) /\ ~Declares(nm, d, n, "nonlocal")
      outside[d \in DOMAIN tree] ==
        CASE d = 0                                                -> 0
          [] d # 0 /\ Kind(d) = "class"                           -> outside[Up(d)]
          [] Kind(d) # "class" /\ Declares(nm, d, n, "global")    -> 0
          [] OTHER                                                -> IF own(d) THEN d ELSE outside[Up(d)]
  IN  [d \in DOMAIN tree |-> IF Declares(nm, d, n, "global") THEN 0 ELSE IF d # 0 /\ own(d) THEN d ELSE outside[d]]

HomeOf(nm, i) == Home(nm, nm[i])[Start(i)]

Allowed(d) ==
  CASE Kind(d) = "def"    -> {"assign", "load", "store", "del", "bind", "relative", "param", "global", "nonlocal", "eval"}
    [] Kind(d) = "class"  -> {"load", "store", "del", "bind", "relative", "global", "nonlocal"}
    [] Kind(d) = "lambda" -> {"load", "store", "param"}
    [] Kind(d) = "comp"   -> {"load", "store", "param", "subscripted", "eval"}
    [] OTHER              -> {}

(* Programs that compile *)
Compiles ==
  /\ \A i \in prog :
       /\ AtHead(i) => Op(i) = "load" \/ (Op(i) = "store" /\ Kind(Place(i)) # "comp" /\ Kind(Up(Place(i))) \in {"def", "lambda"})
       /\ Op(i) = "store" /\ Kind(Place(i)) = "comp" => Kind(Statement[Place(i)]) # "class"
       /\ Op(i) = "eval" => Home(name, name[i])[Start(i)] = Start(i)
       /\ Op(i) = "nonlocal" => Home(name, name[i])[Place(i)] # 0
  /\ \A i, j \in prog : name[i] = name[j] /\ i # j =>
       /\ Place(i) = Place(j) => ~(Op(i) \in {"global", "nonlocal"} /\ Op(j) \in {"global", "nonlocal", "param", "assign"})
       /\ Op(i) = "param" /\ Op(j) = "store" => ~(Kind(Place(i)) = "comp" /\ Place(i) \in Above[Place(j)])
       /\ Op(i) = "param" /\ Op(j) = "param" => Place(i) # Place(j)

-----------------------------------------------------------------------------
(* The index of scopes (plan_suggestions) *)

Functions == {d \in DOMAIN tree : Kind(d) = "def"}

(* A relative import, `from . import n`, has no module and is not recorded. *)
Recorded == {"assign", "store", "del", "bind"}
Bindings(s, n) ==
  {i \in Called(name, n) : \/ InBody(s, i, Recorded \cup {"param"})
                           \/ Op(i) = "store" /\ \E c \in Above[Place(i)] : Kind(c) = "comp" /\ Up(c) = s}

(* Mutant: what a nested function declares is not looked at. *)
DeclaredHere(s, n) == \E i \in Called(name, n) : Op(i) \in {"global", "nonlocal"} /\ Place(i) = s
Declared(s, n) == \E i \in Called(name, n) : Op(i) \in {"global", "nonlocal"} /\ Place(i) \in Within(s)

Eligible(i) == ~Declared(Place(i), name[i]) /\ Bindings(Place(i), name[i]) = {i}

(* _scope_names: all that is named from the head of s on down *)
Reachable(s) == {name[i] : i \in {j \in prog : Place(j) \in Within(s) /\ Op(j) # "eval"}}
Bound(s) == {name[i] : i \in {j \in prog : Place(j) \in Within(s) /\ Op(j) \notin {"load", "subscripted", "eval"}}}

(* Calls of eval and the like, in the statements of s and of the functions  *)
(* nested in it; lambdas, comprehensions and classes are not looked into.   *)
Reflective(s) == \E i \in prog : Op(i) = "eval" /\ Place(i) \in Within(s) \cap Functions

Candidates ==
  {i \in prog \ ignored :
     /\ InBody(Place(i), i, {"assign"}) /\ Kind(Place(i)) = "def" /\ name[i] \in DOMAIN Wanted
     /\ Eligible(i)
     /\ Wanted[name[i]][1] \notin Reachable(Place(i)) \ Bound(Place(i))}

-----------------------------------------------------------------------------
(* Names that collide with nothing (_remove_collisions) *)

(* Mutant: the names that scopes around have got are forgotten. *)
TakenHere(s, plan, candidates) == Reachable(s) \cup {w[2] : w \in {v \in plan : Place(v[1]) = s}}
Taken(s, plan, candidates) ==
  LET planning == {Place(i) : i \in candidates} \cap Above[s]
  IN  UNION {Reachable(d) : d \in planning} \cup {w[2] : w \in {v \in plan : Place(v[1]) \in planning}}

(* Mutant: where the name is taken there is none. *)
FreeName(names, taken) == IF names[1] \in taken THEN "none" ELSE names[1]
AvailableName(names, taken) == names[CHOOSE k \in DOMAIN names : names[k] \notin taken /\ \A l \in 1..(k - 1) : names[l] \in taken]

(* Outer scopes first, and within a scope in the order of the text *)
Visits(candidates) == SetToSortSeq(candidates, LAMBDA i, j : Place(i) < Place(j) \/ (Place(i) = Place(j) /\ i < j))
Plan(candidates) ==
  FoldLeft(LAMBDA plan, i : plan \cup {<<i, AvailableName(Wanted[name[i]], Taken(Place(i), plan, candidates))>>},
           {}, Visits(candidates))

-----------------------------------------------------------------------------
(* What belongs to a name (_collect_replacements) *)

(* Mutant: only parameters shadow a name. *)
BindsParameter(d, n) == \E i \in Called(name, n) : InBody(d, i, {"param"})
BindsNested(d, n) ==
  \E i \in Called(name, n) :
    \/ InBody(d, i, {"param"})
    \/ Kind(d) = "comp" /\ InBody(d, i, {"subscripted"})
    \/ Kind(d) # "comp" /\ InBody(d, i, Recorded \cup {"relative"})
    \/ Kind(d) # "comp" /\ Op(i) = "store" /\ ThroughComprehensions(d, Place(i))

ClassBinds(d, n) == \E i \in Called(name, n) : InBody(d, i, Recorded \cup {"relative"}) \/ (AtHead(i) /\ Op(i) = "store" /\ Up(Place(i)) = d)

(* replace_names and outer_replace_names, for n renamed in s: whether n is  *)
(* among them in the body of d                                              *)
Replaces(s, n) ==
  LET names[d \in Within(s)] ==
        IF d = s THEN [here |-> TRUE, nested |-> TRUE]
        ELSE LET outer == names[Up(d)].nested IN
             IF Kind(d) = "class" THEN [here |-> outer /\ ~ClassBinds(d, n), nested |-> outer]
             ELSE [here |-> outer /\ ~BindsNested(d, n), nested |-> outer /\ ~BindsNested(d, n)]
  IN  names

Collected(s, n) ==
  {i \in Called(name, n) : /\ IsNameNode(i) /\ Place(i) \in Within(s) /\ (AtHead(i) => Place(i) # s)
                           /\ Replaces(s, n)[IF AtHead(i) THEN Up(Place(i)) ELSE Place(i)].here}

(* One suppressed line among them, and the name stays. *)
(* Mutant: the line of the assignment decides alone. *)
RenamesCandidate(i) == Collected(Place(i), name[i])
Renames(i) == IF Collected(Place(i), name[i]) \cap ignored = {} THEN Collected(Place(i), name[i]) ELSE {}

-----------------------------------------------------------------------------
(* Actions *)

Init ==
  /\ grammar \in DOMAIN Grammars /\ tree \in Trees
  /\ prog = {} /\ name = <<>> /\ ignored = {} /\ break = 0 /\ phase = "write"

Write(i) ==
  /\ phase = "write" /\ Cardinality(prog) < MaxSize /\ \A j \in prog : j < i
  /\ Place(i) \in DOMAIN tree /\ Op(i) \in Allowed(Place(i))
  /\ prog' = prog \cup {i}
  /\ name' = [j \in prog' |-> Shapes[j].n]
  /\ UNCHANGED <<grammar, tree, ignored, break, phase>>

Written ==
  /\ phase = "write" /\ Compiles /\ \E i \in prog : Op(i) = "assign"
  /\ phase' = "check"
  /\ \E at \in {{}} \cup IF MayIgnore THEN {{i} : i \in prog} ELSE {} : ignored' = at
  /\ \E l \in {0} \cup IF MayBreak THEN {Line(i) : i \in prog} ELSE {} : break' = l
  /\ UNCHANGED <<grammar, tree, prog, name>>

(* Mutant: the lines are counted from 1 in the list as well. *)
LandingAbove(i) == {j \in prog : Line(j) = Line(i) + 1}
(* splitlines() takes a form feed for the end of a line, the parser does    *)
(* not: behind one, the text written over is that of the line before.       *)
Landing(i) == IF break # 0 /\ Line(i) > break THEN {j \in prog : Line(j) = Line(i) - 1} ELSE {i}

(* _apply_fixes: all the names of the plan that may be fixed, at once *)
Fix ==
  /\ phase \in {"check", "again"}
  /\ LET fixable == {w \in Plan(Candidates) : ~Reflective(Place(w[1]))}
         edits   == UNION {(UNION {Landing(k) : k \in Renames(w[1])}) \X {w[2]} : w \in fixable}
     IN  /\ phase' = IF edits # {} THEN "again" ELSE "done"
         /\ name' = [j \in prog |-> IF \E e \in edits : e[1] = j THEN (CHOOSE e \in edits : e[1] = j)[2] ELSE name[j]]
  /\ UNCHANGED <<grammar, tree, prog, ignored, break>>

Next == (\E i \in DOMAIN Shapes : Write(i)) \/ Written \/ Fix
Spec == Init /\ [][Next]_vars

-----------------------------------------------------------------------------
(* Properties *)

Occurring == {Shapes[i].n : i \in DOMAIN Shapes} \cup UNION {Range(Wanted[n]) : n \in DOMAIN Wanted}
TypeOK ==
  /\ tree \in Trees /\ prog \subseteq DOMAIN Shapes /\ name \in [prog -> Occurring]
  /\ ignored \subseteq prog /\ break \in 0..MaxSize
  /\ phase \in {"write", "check", "again", "done"}

(* Two occurrences are the same variable after the rename just when they    *)
(* were before, each variable in the scope it was in, and names of the      *)
(* module are the names they were: the rename neither leaves an occurrence  *)
(* behind, nor takes one along, nor captures one.                           *)
SameBindings ==
  LET before == [i \in prog |-> Shapes[i].n]
      homes  == {<<HomeOf(before, i), HomeOf(name, i), before[i], name[i]>> : i \in prog}
  IN  name # before =>
        /\ \A u \in homes : u[1] = u[2] /\ (u[1] = 0 => u[3] = u[4])
        /\ \A u, v \in homes : u[1] = v[1] => ((u[3] = v[3]) <=> (u[4] = v[4]))

(* Nothing on a suppressed line is rewritten, whichever line the finding    *)
(* is on (_apply_fixes).                                                    *)
SuppressedStay == \A i \in ignored : name[i] = Shapes[i].n

(* The rename is a rename: the same bindings, and no suppressed line         *)
(* touched.                                                                  *)
RenameSound == TypeOK /\ SameBindings /\ SuppressedStay

(* A fix that has written leaves fewer assignments of meaningless names     *)
(* than it found, so that runs of it, one after the other, come to an end.  *)
Assigned(nm) == {i \in prog : Op(i) = "assign" /\ nm[i] \in DOMAIN Wanted}
LeavesFewer == [][phase' = "again" => Cardinality(Assigned(name')) < Cardinality(Assigned(name))]_vars

(* One run of the fix does all it can: a second changes nothing. *)
OneRunIsEnough == [][phase = "again" => UNCHANGED name]_vars
===============================================================================
