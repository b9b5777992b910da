------------------------- MODULE RedundantAssignment -------------------------
(***************************************************************************)
(* redundant-assignment (TR5) and its fixer.  A behaviour writes the body  *)
(* of a function statement by statement, has the fixer inline some of the  *)
(* assignments the analyser takes for redundant and safe, and then runs    *)
(* the text before and after the fix side by side: whoever looks must not  *)
(* be able to tell them apart.                                             *)
(*                                                                         *)
(* An expression is a base (a constant, a name, a call of g() or a yield)  *)
(* and what follows it: attributes and calls.  Calls, and whoever runs     *)
(* while the function is suspended, may change every attribute, every      *)
(* global name, and run the closures the function has made.                *)
(***************************************************************************)
EXTENDS Naturals, Sequences, SequencesExt, FiniteSets, FiniteSetsExt

CONSTANTS
  Locals, Globals,   \* names of the function, and of its module
  Grammars           \* by name, which bodies there are, see below

ASSUME BoundsAreNatural ==
  \A g \in {Grammars[n] : n \in DOMAIN Grammars} :
    {g.length, g.depth, g.passes} \subseteq Nat /\ g.joined \in BOOLEAN

VARIABLES
  grammar,       \* that of this body
  prog, twin,    \* the body, and the body as it is after the fix
  open,          \* the blocks that are open while it is written, innermost first
  phase, passes,
  pc, loops,     \* where Python is, in both, and the rounds its loops have left
  one, two       \* what the two runs have made of it

vars == <<grammar, prog, twin, open, phase, passes, pc, loops, one, two>>

Statements == Grammars[grammar].statements  \* blocks and their "end" among them
Joined     == Grammars[grammar].joined      \* whether two statements may stand on one line
MaxLength  == Grammars[grammar].length
MaxDepth   == Grammars[grammar].depth
MaxPasses  == Grammars[grammar].passes

-----------------------------------------------------------------------------
(* The body, as VariableTracker visits it *)

Blocks == {"if", "for", "while", "try", "with"}
Loops == {"for", "while"}

Depth(kinds) == Cardinality({k \in DOMAIN open : prog[open[k]].op \in kinds})

(* What the statement stands in *)
Placed(st, line) ==
  [op |-> st.op, x |-> st.x, args |-> st.args, line |-> line, end |-> 0,
   top |-> (open = <<>> /\ st.op \notin Blocks) \/ (Len(open) = 1 /\ st.op = "end"),
   loop |-> Depth(Loops) > 0,                      \* loop_depth
   cf |-> st.op = "with" \/ Depth({"if", "try", "with"}) > 0,   \* control_flow_depth
   try |-> Depth({"try"}) > 0,                     \* try_depth
   test |-> st.op = "while"]                       \* the test of a while is visited as part of its loop

(* stmt_index counts the statements of the body itself: what stands inside  *)
(* of one shares its index.                                                 *)
StmtIndex(p, i) == Cardinality({j \in 1..(i - 1) : p[j].top /\ p[j].op # "blank"})

NameIn(e) == IF e.base = "name" THEN e.n ELSE "none"
Before(p, i, j) == p[i].line < p[j].line \/ (p[i].line = p[j].line /\ i < j)

(* Statements that bind n for the tracker: an assignment, or a target among *)
(* others, in a for or in a with (a rebinding marker).  An import, a def, a *)
(* class, a capture of a pattern and the name of an exception bind n as     *)
(* well ("import" stands for all of them) but are not recorded.             *)
Of(p, n, ops) == {i \in DOMAIN p : p[i].x = n /\ p[i].op \in ops}
PlainlyAssigned(p, n) == Of(p, n, {"assign"})
Markers(p, n) == Of(p, n, {"unpack", "for", "with"})
Assigned(p, n) == PlainlyAssigned(p, n) \cup Markers(p, n)

UsesAt(places, context, scope) == {[at |-> i, arg |-> 0, context |-> context, scope |-> scope] : i \in places}

(* What n = ... says of n itself does not count, and the body of a class is *)
(* not visited.                                                             *)
Loads(p, n) ==
  {[at |-> w[1], arg |-> w[2], context |-> "unknown", scope |-> "here"] :
     w \in {v \in UNION {{i} \X DOMAIN p[i].args : i \in DOMAIN p \ PlainlyAssigned(p, n)} : NameIn(p[v[1]].args[v[2]]) = n}}
Augmented(p, n) == UsesAt(Of(p, n, {"aug"}), "augmented_assignment", "here")
Mutations(p, n) == UsesAt(Of(p, n, {"store"}), "attribute_or_subscript_assignment", "here")
Deletions(p, n) == UsesAt(Of(p, n, {"del"}), "deletion", "here")

(* Mutant: closures are not looked into. *)
InNoClosure(p, n) == {}
InClosures(p, n) == UsesAt(Of(p, n, {"reader"}), "unknown", "closure")

Uses(p, n) == Loads(p, n) \cup Augmented(p, n) \cup Mutations(p, n) \cup Deletions(p, n) \cup InClosures(p, n)

CapturedByNonlocal(p, n) == Of(p, n, {"writer"}) # {}

(* The uses of what is assigned at i *)
Lifecycle(p, i) == {u \in Uses(p, p[i].x) : u.scope = "closure" \/ StmtIndex(p, u.at) >= StmtIndex(p, i)}

-----------------------------------------------------------------------------
(* Expressions *)

IsConstant(e) == e.base = "const" /\ e.suffix = <<>>
IsName(e) == e.base = "name" /\ e.suffix = <<>>
IsAttribute(e) == e.suffix # <<>> /\ Last(e.suffix) = "attr"
IsCall(e) == (e.suffix # <<>> /\ Last(e.suffix) = "call") \/ (e.base = "call" /\ e.suffix = <<>>)
MayHaveEffect(e) == e.suffix # <<>> \/ e.base \in {"call", "yield"}

(* _unwind_to_base_name, of an attribute or of what a call calls *)
BaseName(e) ==
  LET chain == IF IsCall(e) THEN Front(e.suffix) ELSE e.suffix
  IN  IF e.base = "name" /\ Range(chain) \subseteq {"attr"} THEN e.n ELSE "none"

(* _call_precedes_target: what is evaluated before the use, or the use      *)
(* itself only sometimes.  The message of an assert counts as always.       *)
Precedes(st, a, effects) == (1..(a - 1)) \cap effects # {} \/ (st.op = "or" /\ a > 1)

(* Mutant: the order of evaluation within a statement is forgotten. *)
PrecededByNothing(p, u) == FALSE
PrecededByCall(p, u) ==
  LET args == p[u.at].args
  IN  Precedes(p[u.at], u.arg, {b \in DOMAIN args : MayHaveEffect(args[b])})

IsSuspension(e) == e.base = "yield"
Suspensions(st) == {b \in DOMAIN st.args : IsSuspension(st.args[b])}

SuspendedBetween(p, i, u) ==
  \E j \in DOMAIN p : \E a \in DOMAIN p[j].args :
    /\ Before(p, i, j) /\ IsSuspension(p[j].args[a])
    /\ StmtIndex(p, j) < StmtIndex(p, u.at) \/ Before(p, j, u.at)
       \/ (j = u.at /\ Precedes(p[j], u.arg, Suspensions(p[j])))

-----------------------------------------------------------------------------
(* Redundant assignments *)

InRange(p, i, j, u) == Before(p, i, j) /\ StmtIndex(p, j) <= StmtIndex(p, u.at) /\ p[j].line <= p[u.at].line

(* Mutant: only assignments count, not the targets of loops and the like. *)
RebindsPlainly(p, n, j) == p[j].op = "assign" /\ p[j].x = n

(* An assignment, a marker or an augmented assignment of n *)
Rebinds(p, n, j) == j \in Assigned(p, n) \/ (p[j].op = "aug" /\ p[j].x = n)

(* _rhs_reference_reassigned *)
Reassigned(p, i, u) ==
  LET e == p[i].args[1]
      between == {j \in DOMAIN p : InRange(p, i, j, u)}
      mutated(n) == \E j \in between : p[j].op = "store" /\ p[j].x = n
      used(n) == \E v \in Uses(p, n) : v.scope = "here" /\ v.at \in between /\ v.at # u.at
      rebound(n) == \E j \in between : Rebinds(p, n, j)
  IN  CASE IsName(e)      -> rebound(e.n)
        [] IsAttribute(e) -> SuspendedBetween(p, i, u) \/ rebound(BaseName(e)) \/ mutated(BaseName(e))
        [] IsCall(e)      -> SuspendedBetween(p, i, u) \/ rebound(BaseName(e)) \/ used(BaseName(e))
        [] OTHER          -> FALSE

(* Mutant: the test of a while is evaluated once. *)
InBody(p, u) == p[u.at].loop
InLoop(p, u) == p[u.at].loop \/ p[u.at].test

UseOf(p, i) == CHOOSE u \in Lifecycle(p, i) : TRUE

(* A name that a closure rebinds has no lifecycle, whatever it is assigned. *)
Tracked(p, i) == p[i].op = "assign" /\ ~CapturedByNonlocal(p, p[i].x)

(* check: a name assigned once, to something no other name is assigned      *)
Candidate(p, i) ==
  /\ Tracked(p, i) /\ p[i].x \in Locals /\ Assigned(p, p[i].x) = {i}
  /\ \A j \in DOMAIN p : Tracked(p, j) /\ p[j].args[1] = p[i].args[1] => p[j].x = p[i].x

(* detect_redundancy: used once, and the value still means the same there   *)
Redundant(p, i) ==
  LET u == UseOf(p, i)
      e == p[i].args[1]
  IN  /\ Cardinality(Lifecycle(p, i)) = 1 /\ u.scope = "here" /\ u.context = "unknown"
      /\ (IsAttribute(e) \/ IsCall(e)) => ~InLoop(p, u)
      /\ ~Reassigned(p, i, u)

(* report_reason, but for names, comments and layout *)
Reported(p, i) ==
  Candidate(p, i) /\ Redundant(p, i) /\ ~p[i].loop /\ ~p[i].try /\ p[i].cf = p[UseOf(p, i).at].cf

Immediate(p, i, u) == StmtIndex(p, u.at) <= StmtIndex(p, i) + 1

(* f(x) where f may be something else after the call that is to move there  *)
RebindableCallee(p, u) ==
  p[u.at].op = "emit" /\ p[u.at].x \in Globals /\ IsName(p[u.at].args[u.arg])

(* should_autofix *)
Fixable(p, i) ==
  LET e == p[i].args[1]
      u == UseOf(p, i)
  IN  /\ Reported(p, i) /\ ~p[i].cf
      /\ \/ IsConstant(e) \/ IsName(e)
         \/ /\ IsAttribute(e) \/ IsCall(e)
            /\ Immediate(p, i, u) /\ ~RebindableCallee(p, u)
            /\ ~InLoop(p, u) /\ ~PrecededByCall(p, u)

-----------------------------------------------------------------------------
(* apply_fixes *)

Blank(st) == [st EXCEPT !.op = "blank", !.args = <<>>, !.x = "none"]

UseOrder(u, v) == u.at > v.at \/ (u.at = v.at /\ u.arg > v.arg)

(* Mutant: the line is taken out, and those below it move up. *)
InlinedShorter(lines, fix) ==
  IF fix.use.arg \notin DOMAIN lines[fix.use.at].args THEN lines
  ELSE RemoveAt([lines EXCEPT ![fix.use.at].args[fix.use.arg] = [fix.rhs EXCEPT !.suffix = @ \o lines[fix.use.at].args[fix.use.arg].suffix]], fix.at)

(* The name at the place of the use gives way to the text of the value, and *)
(* the line of the assignment to nothing.  When the name is not there any   *)
(* more, because its line has been blanked, nothing is done.                *)
Inlined(lines, fix) ==
  LET there == lines[fix.use.at].args
      line  == lines[fix.at].line
  IN  IF fix.use.arg \notin DOMAIN there \/ NameIn(there[fix.use.arg]) # fix.name THEN lines
      ELSE LET used == [lines EXCEPT ![fix.use.at].args[fix.use.arg] =
                          [fix.rhs EXCEPT !.suffix = @ \o there[fix.use.arg].suffix]]
           IN  [i \in DOMAIN lines |-> IF lines[i].line = line THEN Blank(used[i]) ELSE used[i]]

Fixed(p, chosen) ==
  LET fixes == {[at |-> i, name |-> p[i].x, rhs |-> p[i].args[1], use |-> UseOf(p, i)] : i \in chosen}
      inOrder == SetToSortSeq(fixes, LAMBDA f, g : UseOrder(f.use, g.use))
  IN  FoldLeft(Inlined, p, inOrder)

-----------------------------------------------------------------------------
(* Python.  A value is where it comes from, how far from it, and since when. *)

Unbound == <<"unbound", 0, 0>>
Start == [env |-> [n \in Locals |-> <<n, 0, 0>>], tick |-> 0, calls |-> 0, readers |-> {}, writers |-> {},
          out |-> <<>>, on |-> TRUE]

Raise(m) == [m EXCEPT !.on = FALSE, !.out = Append(@, <<Unbound>>)]
Bind(m, n, v) == IF n \in Locals THEN [m EXCEPT !.env[n] = v] ELSE m

(* Foreign code runs: it may change attributes and global names, and calls  *)
(* the closures of the function.                                            *)
Foreign(m) ==
  LET env == [n \in Locals |-> IF n \in m.writers THEN <<"written", 0, m.calls>> ELSE m.env[n]]
  IN  [m EXCEPT !.tick = @ + 1, !.calls = @ + 1, !.env = env,
         !.out = IF m.readers = {} THEN @ ELSE Append(@, [k \in 1..Cardinality(m.readers) |-> env[SetToSeq(m.readers)[k]]])]

Load(m, n) ==
  IF n \in Locals THEN (IF m.env[n] = Unbound THEN [v |-> Unbound, m |-> Raise(m)] ELSE [v |-> m.env[n], m |-> m])
  ELSE [v |-> <<n, 0, IF n \in Globals THEN m.calls ELSE 0>>, m |-> m]

Follow(r, suffix) ==
  IF ~r.m.on THEN r
  ELSE [v |-> <<r.v[1], r.v[2] + 1, r.m.tick>>, m |-> IF suffix = "call" THEN Foreign(r.m) ELSE r.m]

Eval(e, m) ==
  LET base == CASE e.base = "const" -> [v |-> <<e.n, 0, 0>>, m |-> m]
                [] e.base = "name"  -> Load(m, e.n)
                [] OTHER            -> [v |-> <<e.base, 0, m.calls>>, m |-> Foreign(m)]
  IN  FoldLeft(Follow, base, e.suffix)

EvalAll(args, m) ==
  LET more(r, e) == IF ~r.m.on THEN r
                    ELSE LET s == Eval(e, r.m) IN [v |-> Append(r.v, s.v), m |-> s.m]
  IN  FoldLeft(more, [v |-> <<>>, m |-> m], args)

Emit(m, values) == IF m.on THEN Foreign([m EXCEPT !.out = Append(@, values)]) ELSE m

(* A statement, b telling whether the first operand is true *)
Exec(st, m, b) ==
  LET args == EvalAll(IF st.op \in {"or", "assert"} /\ b THEN SubSeq(st.args, 1, 1) ELSE st.args, m)
      done(t) == IF args.m.on THEN t ELSE args.m
  IN  CASE ~m.on -> m
        [] st.op \in {"assign", "unpack"} -> done(Bind(args.m, st.x, Last(args.v)))
        [] st.op = "emit" ->
             LET f == Load(m, st.x)
                 r == EvalAll(st.args, f.m)
             IN  Emit(r.m, <<f.v>> \o r.v)
        [] st.op = "or" -> Emit(args.m, args.v)
        [] st.op = "assert" -> IF b THEN args.m ELSE [args.m EXCEPT !.on = FALSE, !.out = Append(@, args.v)]
        [] st.op = "aug" ->
             LET f == Load(m, st.x)
                 r == EvalAll(st.args, f.m)
             IN  IF r.m.on THEN Bind([r.m EXCEPT !.out = Append(@, <<f.v>> \o r.v)], st.x, Last(r.v)) ELSE r.m
        [] st.op = "store" -> done([Load(args.m, st.x).m EXCEPT !.tick = @ + 1])
        [] st.op = "del" -> Bind(Load(m, st.x).m, st.x, Unbound)
        [] st.op = "import" -> Bind(m, st.x, <<"imported", 0, 0>>)
        [] st.op = "class" -> LET r == Load(m, st.x) IN IF r.m.on THEN [r.m EXCEPT !.out = Append(@, <<r.v>>)] ELSE r.m
        [] st.op = "reader" -> [m EXCEPT !.readers = @ \cup {st.x}]
        [] st.op = "writer" -> [m EXCEPT !.writers = @ \cup {st.x}]
        [] OTHER -> args.m

-----------------------------------------------------------------------------

Init ==
  /\ grammar \in DOMAIN Grammars
  /\ prog = <<>> /\ twin = <<>> /\ open = <<>> /\ phase = "write" /\ passes = 0
  /\ pc = 1 /\ loops = <<>> /\ one = Start /\ two = Start

Write ==
  /\ phase = "write" /\ Len(prog) < MaxLength
  /\ \E st \in Statements, same \in BOOLEAN :
       LET line == IF prog = <<>> THEN 1 ELSE Last(prog).line + (IF same THEN 0 ELSE 1)
       IN  /\ same => Joined /\ prog # <<>> /\ {st.op, Last(prog).op} \cap (Blocks \cup {"end"}) = {}
           /\ st.op \in Blocks => Len(open) < MaxDepth
           /\ st.op = "end" => open # <<>>
           /\ prog' = LET p == Append(prog, Placed(st, line))
                      IN  IF st.op = "end" THEN [p EXCEPT ![Head(open)].end = Len(p)] ELSE p
           /\ open' = CASE st.op \in Blocks -> <<Len(prog) + 1>> \o open
                        [] st.op = "end"    -> Tail(open)
                        [] OTHER            -> open
  /\ twin' = prog' /\ UNCHANGED <<grammar, phase, passes, pc, loops, one, two>>

(* The fixer works on the text as it is, and may be called again.           *)
Fix ==
  /\ phase \in {"write", "fixed"} /\ open = <<>> /\ passes < MaxPasses
  /\ \E chosen \in SUBSET {i \in DOMAIN twin : Fixable(twin, i)} :
       chosen # {} /\ twin' = Fixed(twin, chosen)
  /\ phase' = "fixed" /\ passes' = passes + 1 /\ UNCHANGED <<grammar, prog, open, pc, loops, one, two>>

Call == phase = "fixed" /\ phase' = "run" /\ UNCHANGED <<grammar, prog, twin, open, passes, pc, loops, one, two>>

At(op) == phase = "run" /\ pc \in DOMAIN prog /\ prog[pc].op = op
Both(b) == one' = Exec(prog[pc], one, b) /\ two' = Exec(twin[pc], two, b)
Rest == UNCHANGED <<grammar, prog, twin, open, phase, passes>>

Simple ==
  /\ phase = "run" /\ pc \in DOMAIN prog /\ prog[pc].op \notin Blocks \cup {"end"}
  /\ \E b \in BOOLEAN : (b => prog[pc].op \in {"or", "assert"}) /\ Both(b)
  /\ pc' = pc + 1 /\ UNCHANGED loops /\ Rest

(* Only a branch or a loop may be passed by. *)
Enter ==
  /\ \E op \in Blocks : At(op)
  /\ \/ /\ prog[pc].op \in {"if", "for", "while"} /\ Both(FALSE)
        /\ pc' = prog[pc].end + 1
        /\ loops' = IF loops # <<>> /\ Head(loops).at = pc THEN Tail(loops) ELSE loops
     \/ /\ LET item(m) == IF m.on /\ prog[pc].op \in {"for", "with"} THEN Bind(m, prog[pc].x, <<"item", 0, 0>>) ELSE m
           IN  one' = item(Exec(prog[pc], one, FALSE)) /\ two' = item(Exec(twin[pc], two, FALSE))
        /\ pc' = pc + 1
        /\ loops' = IF prog[pc].op \in Loops /\ (loops = <<>> \/ Head(loops).at # pc)
                    THEN <<[at |-> pc, left |-> 1]>> \o loops ELSE loops
  /\ Rest

(* An exception that is caught leaves the body of a try half way.           *)
Leave ==
  /\ phase = "run" /\ \E i \in 1..(pc - 1) : prog[i].op = "try" /\ pc < prog[i].end /\ pc' = prog[i].end + 1
        /\ loops' = SelectSeq(loops, LAMBDA l : l.at < i)
  /\ UNCHANGED <<one, two>> /\ Rest

End ==
  /\ At("end")
  /\ LET loop == loops # <<>> /\ prog[Head(loops).at].end = pc
     IN  IF loop /\ Head(loops).left > 0
         THEN LET at == Head(loops).at
                  item(m) == IF m.on /\ prog[at].op = "for" THEN Bind(m, prog[at].x, <<"item", 0, 1>>) ELSE m
              IN  /\ one' = item(one) /\ two' = item(two)
                  /\ pc' = IF prog[at].op = "while" THEN at ELSE at + 1
                  /\ loops' = [loops EXCEPT ![1].left = @ - 1]
         ELSE pc' = pc + 1 /\ loops' = (IF loop THEN Tail(loops) ELSE loops) /\ UNCHANGED <<one, two>>
  /\ Rest

Next == Write \/ Fix \/ Call \/ Simple \/ Enter \/ Leave \/ End

Spec == Init /\ [][Next]_vars

-----------------------------------------------------------------------------
(* Properties *)

Values == (Locals \cup Globals \cup STRING) \X Nat \X Nat

TypeOK ==
  /\ DOMAIN twin = DOMAIN prog /\ Len(prog) <= MaxLength /\ passes \in 0..MaxPasses
  /\ \A i \in DOMAIN prog : twin[i] = prog[i] \/ phase # "write"
  /\ phase \in {"write", "fixed", "run"} /\ pc \in 1..(MaxLength + 1)
  /\ \A m \in {one, two} : m.env \in [Locals -> Values] /\ m.readers \cup m.writers \subseteq Locals

(* Whatever the function tells its callers and callees, before and after    *)
(* the fix it is the same: "automatically inlines simple, low-value         *)
(* assignments when mechanically safe" (docs/rules/redundant-assignment.md).*)
SameToOthers ==
  /\ TypeOK
  /\ IsPrefix(one.out, two.out) \/ IsPrefix(two.out, one.out)
  /\ phase = "run" /\ pc > Len(prog) => one.out = two.out
=============================================================================
