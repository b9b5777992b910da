-------------------------- MODULE DefinedFarFromUse --------------------------
(***************************************************************************)
(* defined-far-from-use (TR11).  A behaviour writes the body of a function *)
(* statement by statement and picks a finding of the rule; the body is     *)
(* then run twice side by side, as it is and with the assignment moved to  *)
(* where the finding says.                                                 *)
(*                                                                         *)
(* An expression is of a kind and mentions names.  Every name means an     *)
(* object of its own at first; who is called may change what it is given   *)
(* and, when the function or a closure says so, rebind a name.             *)
(***************************************************************************)
EXTENDS Naturals, Sequences, SequencesExt, FiniteSets, FiniteSetsExt

CONSTANTS
  Names, Params,
  MaxDistance,
  Grammars          \* by name, which bodies there are, see below

ASSUME NamesAreKnown ==
  /\ Params \subseteq Names
  /\ \A g \in {Grammars[n] : n \in DOMAIN Grammars} :
       g.redeclared \subseteq Names /\ g.level \in {"conservative", "aggressive"}
ASSUME BoundsAreNatural ==
  MaxDistance \in Nat /\ \A n \in DOMAIN Grammars : {Grammars[n].length, Grammars[n].depth} \subseteq Nat

VARIABLES
  grammar,         \* that of this body
  prog, open,      \* the body, and the blocks that are open while it is written
  phase,
  moved, below,    \* the assignment that is moved, and the statement it is put before
  pc, rounds,      \* where Python is, and the rounds left of the loops it is in
  one, two         \* what the two runs have made of it

vars == <<grammar, prog, open, phase, moved, below, pc, rounds, one, two>>

Statements == Grammars[grammar].statements  \* "except" and "end" among them
Redeclared == Grammars[grammar].redeclared  \* the names that are global or nonlocal here or in a closure
Level      == Grammars[grammar].level       \* "conservative" or "aggressive"
MaxLength  == Grammars[grammar].length
MaxDepth   == Grammars[grammar].depth

Openers == {"if", "for", "try"}
Compounds == Openers \cup {"except"}

-----------------------------------------------------------------------------
(* The body.  A statement stands in a block, known by the statement that    *)
(* opens it (0 for the function), and reaches as far as its end.            *)

(* Mutant: what is in an inner block is in this one. *)
AnyBlock(b) == {i \in DOMAIN prog : i > b /\ prog[i].op \notin {"end", "except"}}
Block(b) == {i \in DOMAIN prog : prog[i].in = b /\ prog[i].op \notin {"end", "except"}}
Whole(i) == IF prog[i].op \in Openers THEN i..prog[i].end ELSE {i}

Loaded(i) == Range(prog[i].e.args) \cup (IF prog[i].op \in {"aug", "setattr"} THEN {prog[i].x} ELSE {})
Stored(i) == IF prog[i].op \in {"assign", "aug", "for", "del"} THEN {prog[i].x} ELSE {}

(* Mutant: only what is a Name binds. *)
NamesBound(i) == Stored(i)
(* iter_binding_names; import stands for def, class, except ... as and      *)
(* match as well, where the name is not a Name of the syntax tree.          *)
Binding(i) == Stored(i) \cup (IF prog[i].op \in {"import", "except"} THEN {prog[i].x} \ {"none"} ELSE {})

Mentions(i, n) == n \in Loaded(i) \cup Stored(i)
MentionedIn(i, n) == \E j \in Whole(i) : Mentions(j, n)
Occurrences(n, places) == {j \in places : Mentions(j, n)}

-----------------------------------------------------------------------------
(* reorder.py *)

CallKinds == {"pure", "call", "mutator", "check"}

(* _mutation_roots *)
Mutated(e) == IF e.kind \in {"call", "mutator", "check"} THEN Range(e.args) ELSE {}

(* statement_effects, of a statement and all that is in it *)
Rebound(i) == UNION {Binding(j) : j \in Whole(i)}

Exposed(i) ==
  Rebound(i) \cup UNION {Mutated(prog[j].e) \cup (IF prog[j].op = "setattr" THEN {prog[j].x} ELSE {}) : j \in Whole(i)}
Read(i) == UNION {Range(prog[j].e.args) \cup (IF prog[j].op = "setattr" THEN {prog[j].x} ELSE {}) : j \in Whole(i)}
Calls(i) == \E j \in Whole(i) : prog[j].e.kind \in CallKinds

OrderIndependent(e, stable) == e.kind = "const" \/ (e.kind \in {"name", "list"} /\ Range(e.args) \subseteq stable)

(* Mutant: the value is free to change what is read on the way. *)
MayReorderReads(e, window, bound) ==
  LET exposed == UNION {Exposed(i) : i \in window} \cup (IF \E i \in window : Calls(i) THEN Redeclared ELSE {})
  IN  IF Level = "conservative"
      THEN OrderIndependent(e, (bound \ Redeclared) \ UNION {Rebound(i) : i \in window})
      ELSE e.kind # "check" /\ Range(e.args) \cap exposed = {}

MayReorder(e, window, bound) ==
  LET exposed == UNION {Exposed(i) : i \in window} \cup (IF \E i \in window : Calls(i) THEN Redeclared ELSE {})
      mutated == Mutated(e) \cup (IF e.kind \in CallKinds THEN Redeclared ELSE {})
      read    == UNION {Read(i) : i \in window}
  IN  IF Level = "conservative"
      THEN OrderIndependent(e, (bound \ Redeclared) \ UNION {Rebound(i) : i \in window})
      ELSE e.kind # "check" /\ Range(e.args) \cap exposed = {} /\ mutated \cap read = {}

-----------------------------------------------------------------------------
(* analysis.py *)

(* Mutant: what is deleted stays bound. *)
BoundKept(before, i) == before \cup (IF prog[i].op \in {"assign", "aug", "import"} THEN {prog[i].x} ELSE {})

(* _update_definitely_bound: the targets of the statement itself, less what *)
(* it, or anything in it, deletes; the name of a handler is deleted at its  *)
(* end.                                                                     *)
BoundAfter(before, i) ==
  (before \cup (IF prog[i].op \in {"assign", "aug", "import"} THEN {prog[i].x} ELSE {}))
    \ {prog[j].x : j \in {k \in Whole(i) : prog[k].op \in {"del", "except"}}}

(* _iter_blocks: what is bound before the statement at i, on the way to it  *)
(* through the blocks it is in                                              *)
Ancestors(i) == {b \in 1..(i - 1) : prog[b].op \in Compounds /\ i \in (b + 1)..(prog[b].end - 1)
                                      /\ (prog[b].op = "try" => ~\E j \in b..i : prog[j].op = "except" /\ prog[j].end = prog[b].end)}
BoundBefore(i) ==
  LET scopes == {0} \cup Ancestors(i)
      earlier == {j \in 1..(i - 1) : prog[j].in \in scopes /\ prog[j].op \notin {"end", "except"} /\ i \notin Whole(j)}
  IN  FoldLeft(BoundAfter, Params \ Redeclared, SetToSortSeq(earlier, LAMBDA j, k : j < k))

(* _contains_exit, as seen from the block that has the statement *)
Guards(i, j) == {k \in Whole(i) : prog[k].op = "except" /\ j < k /\ \E t \in i..j : prog[t].op = "try" /\ prog[t].end = prog[k].end /\ t < j}
MayCatch(k, kind) == ~(prog[k].e.kind = "key" /\ kind = "value")
(* Mutant: whatever is raised leaves the statement. *)
EscapesAlways(i, j) == TRUE
Escapes(i, j) ==
  Guards(i, j) = {} \/ (prog[j].e.kind = "value" /\ ~\E k \in Guards(i, j) : MayCatch(k, prog[j].e.kind))
InLoop(i, j) == \E k \in Whole(i) : prog[k].op = "for" /\ j \in (k + 1)..prog[k].end

(* Mutant: an exit that has a loop of its own is one. *)
ExitsAnyLoop(i) ==
  {j \in Whole(i) : prog[j].op \in {"return", "break", "continue"} \/ (prog[j].op = "raise" /\ Escapes(i, j))}
Exits(i) ==
  {j \in Whole(i) : \/ prog[j].op = "return"
                    \/ prog[j].op = "raise" /\ Escapes(i, j)
                    \/ prog[j].op \in {"break", "continue"} /\ ~InLoop(i, j)}
ContainsExit(i) == Exits(i) # {}

Terminal(i) == prog[i].op \in {"return", "raise", "continue", "break"}

(* _reads_before_rebinding: what binds the name in the use reads it first   *)
ReadsBeforeRebinding(i, n) ==
  \A j \in Whole(i) : n \in Binding(j) => prog[j].op = "aug" \/ (prog[j].op = "assign" /\ n \in Range(prog[j].e.args))

(* _unrelated_statement_count: what prepares an input of the use is not     *)
(* unrelated                                                                *)
StatementCount(i) == Cardinality({j \in Whole(i) : prog[j].op \notin {"end", "except"}})
Unrelated(window, use, n) ==
  LET inputs == (UNION {Range(prog[j].e.args) \cup (IF prog[j].op = "setattr" THEN {prog[j].x} ELSE {}) : j \in Whole(use)}) \ {n}
  IN  MapThenSumSet(StatementCount, {i \in window : Exposed(i) \cap inputs = {}})

(* _candidate_finding: where the assignment at i should be, 0 for nothing   *)
Between(i, j) == {k \in Block(prog[i].in) : i < k /\ k < j}
FirstOf(S) == CHOOSE i \in S : \A j \in S : i <= j
LastOf(S) == CHOOSE i \in S : \A j \in S : j <= i
Suggested(i) ==
  LET n     == prog[i].x
      later == {j \in Block(prog[i].in) : j > i /\ MentionedIn(j, n)}
      use   == FirstOf(later)
      exits == {j \in Between(i, use) : ContainsExit(j)}
      stop  == LastOf(exits)
      below_exit == FirstOf({j \in Block(prog[i].in) : j > stop})
      movable(window) == MayReorder(prog[i].e, window, BoundBefore(i))
  IN  IF \/ later = {} \/ ~ReadsBeforeRebinding(use, n)
         \/ \E j \in DOMAIN prog \ {i} : Mentions(j, n) /\ ~\E k \in later : j \in Whole(k)
         \/ n \in Range(prog[i].e.args) \/ n \in Redeclared \/ \E j \in Between(i, use) : Terminal(j)
      THEN 0
      ELSE IF exits # {} THEN IF movable(Between(i, stop) \cup {stop}) THEN below_exit ELSE 0
      ELSE IF Unrelated(Between(i, use), use, n) > MaxDistance /\ movable(Between(i, use)) THEN use ELSE 0

-----------------------------------------------------------------------------
(* Python.  A value is a constant, an object, a list of an object, or what  *)
(* a call made of an object as it was.                                      *)

Unbound == <<"unbound", "none", 0>>
Start ==
  [env |-> [n \in Names |-> IF n \in Params \cup Redeclared THEN <<"object", n, 0>> ELSE Unbound],
   version |-> [n \in Names |-> 0], out |-> <<>>, on |-> TRUE]

Seen(m, v) == IF v[1] \in {"object", "list"} THEN <<v[1], v[2], m.version[v[2]]>> ELSE v
Touch(m, names) == [m EXCEPT !.version = [n \in Names |-> IF \E k \in names : m.env[k][1] \in {"object", "list"} /\ m.env[k][2] = n
                                                           THEN @[n] + 1 ELSE @[n]]]
Fail(m) == [m EXCEPT !.on = FALSE, !.out = Append(@, <<Unbound>>)]

(* Foreign code may rebind what is redeclared. *)
Foreign(m, e) ==
  IF e.kind \notin CallKinds THEN m
  ELSE [Touch(m, Mutated(e)) EXCEPT
          !.env = [n \in Names |-> IF n \in Redeclared THEN <<"result", n, @[n][3] + 1>> ELSE @[n]]]

Result(m, e) ==
  CASE e.kind = "const" -> <<"const", "none", 0>>
    [] e.kind = "name"  -> m.env[e.args[1]]
    [] e.kind = "list"  -> IF m.env[e.args[1]][1] = "object" THEN <<"list", m.env[e.args[1]][2], 0>> ELSE m.env[e.args[1]]
    [] OTHER            -> LET v == Seen(m, m.env[e.args[1]]) IN <<"result", v[2], v[3]>>

(* A statement: what it sees is told to others, except for the assignment   *)
(* that is moved, the value of which its uses tell.                         *)
Exec(m, i) ==
  LET st == prog[i]
      reads == [k \in DOMAIN st.e.args |-> Seen(m, m.env[st.e.args[k]])]
      missing == Unbound \in Range(reads) \/ (st.op \in {"aug", "setattr", "del"} /\ m.env[st.x] = Unbound)
      told == IF i = moved THEN m ELSE [m EXCEPT !.out = Append(@, reads \o (IF st.op = "aug" THEN <<Seen(m, m.env[st.x])>> ELSE <<>>))]
      after == Foreign(told, st.e)
  IN  CASE ~m.on -> m
        [] missing -> Fail(m)
        [] st.op \in {"assign", "aug"} -> [after EXCEPT !.env[st.x] = Result(m, st.e)]
        [] st.op = "setattr" -> Touch(after, {st.x})
        [] st.op = "del" -> [m EXCEPT !.env[st.x] = Unbound]
        [] st.op = "import" -> [m EXCEPT !.env[st.x] = <<"module", "none", 0>>]
        [] OTHER -> after

-----------------------------------------------------------------------------

Init ==
  /\ grammar \in DOMAIN Grammars
  /\ prog = <<>> /\ open = <<>> /\ phase = "write" /\ moved = 0 /\ below = 0
  /\ pc = 1 /\ rounds = <<>> /\ one = Start /\ two = Start

In == IF open = <<>> THEN 0 ELSE Head(open)
Written == phase = "write" /\ UNCHANGED <<grammar, phase, moved, below, pc, rounds, one, two>>

Write ==
  /\ Written /\ Len(prog) < MaxLength
  /\ \E st \in Statements :
       /\ st.op \in Openers => Len(open) < MaxDepth
       /\ st.op \in {"break", "continue"} => \E k \in DOMAIN open : prog[open[k]].op = "for"
       /\ st.op \notin {"except", "end"}
       /\ prog' = Append(prog, [op |-> st.op, x |-> st.x, e |-> st.e, in |-> In, end |-> 0])
       /\ open' = IF st.op \in Openers THEN <<Len(prog) + 1>> \o open ELSE open

(* A try has one handler; its body ends where that begins. *)
WriteExcept ==
  /\ Written /\ Len(prog) < MaxLength /\ open # <<>> /\ prog[Head(open)].op = "try" /\ Last(prog).op \notin Openers
  /\ \E st \in Statements :
       /\ st.op = "except"
       /\ prog' = Append(prog, [op |-> st.op, x |-> st.x, e |-> st.e, in |-> Head(open), end |-> 0])
  /\ open' = <<Len(prog) + 1>> \o open

WriteEnd ==
  /\ Written /\ Len(prog) < MaxLength /\ open # <<>> /\ prog[Head(open)].op # "try" /\ prog[Len(prog)].op \notin Openers
  /\ LET closes == IF prog[Head(open)].op = "except" THEN {open[1], open[2]} ELSE {open[1]}
         last == Len(prog) + 1
     IN  /\ prog' = [i \in 1..last |-> IF i = last THEN [op |-> "end", x |-> "none", e |-> [kind |-> "none", args |-> <<>>], in |-> Head(open), end |-> 0]
                                       ELSE IF i \in closes THEN [prog[i] EXCEPT !.end = last] ELSE prog[i]]
         /\ open' = SubSeq(open, Cardinality(closes) + 1, Len(open))

(* find_findings: the reader moves one of the assignments it names          *)
Move ==
  /\ phase = "write" /\ open = <<>>
  /\ \E i \in {j \in DOMAIN prog : prog[j].op = "assign"} : Suggested(i) # 0 /\ moved' = i /\ below' = Suggested(i)
  /\ phase' = "run" /\ UNCHANGED <<grammar, prog, open, pc, rounds, one, two>>

Moved(m) == IF pc = below THEN Exec(m, moved) ELSE m
Runs == phase = "run" /\ pc \in DOMAIN prog /\ UNCHANGED <<grammar, prog, open, phase, moved, below>>
BothRun == one' = Exec(one, pc) /\ two' = (IF pc = moved THEN two ELSE Exec(Moved(two), pc))

Simple ==
  /\ Runs /\ prog[pc].op \notin Compounds \cup {"end", "return", "raise", "break", "continue"}
  /\ BothRun /\ pc' = pc + 1 /\ UNCHANGED rounds

InLoopAt(k) == rounds # <<>> /\ Head(rounds).at = k
Bind(m, n, v) == IF m.on /\ n # "none" THEN [m EXCEPT !.env[n] = v] ELSE m

Enter ==
  /\ Runs /\ prog[pc].op \in Openers
  /\ \/ prog[pc].op # "try" /\ BothRun /\ pc' = prog[pc].end + 1 /\ UNCHANGED rounds
     \/ /\ one' = Bind(Exec(one, pc), prog[pc].x, <<"item", "none", 0>>)
        /\ two' = Bind(Exec(Moved(two), pc), prog[pc].x, <<"item", "none", 0>>)
        /\ pc' = pc + 1
        /\ rounds' = IF prog[pc].op = "for" THEN <<[at |-> pc, left |-> 1]>> \o rounds ELSE rounds

Again(k) ==
  /\ InLoopAt(k) /\ Head(rounds).left > 0
  /\ rounds' = [rounds EXCEPT ![1].left = 0] /\ pc' = k + 1
  /\ one' = Bind(one, prog[k].x, <<"item", "none", 0>>) /\ two' = Bind(two, prog[k].x, <<"item", "none", 0>>)
Over(k) == InLoopAt(k) /\ rounds' = Tail(rounds) /\ pc' = prog[k].end + 1 /\ UNCHANGED <<one, two>>

(* The end of a block: of a loop, of a handler, whose name is gone then, or *)
(* of the body of a try, whose handler is passed by.                        *)
End ==
  /\ Runs /\ prog[pc].op \in {"end", "except"}
  /\ LET b == IF prog[pc].op = "except" THEN pc ELSE prog[pc].in
     IN  \/ prog[b].op = "for" /\ (Again(b) \/ (Head(rounds).left = 0 /\ Over(b)))
         \/ prog[b].op # "for" /\ UNCHANGED rounds /\ pc' = prog[b].end + 1
            /\ LET leave(m) == IF prog[pc].op = "end" /\ prog[b].op = "except" THEN Bind(m, prog[b].x, Unbound) ELSE m
               IN  one' = leave(one) /\ two' = leave(two)

Jump ==
  /\ Runs /\ prog[pc].op \in {"break", "continue"}
  /\ LET k == Head(rounds).at
     IN  IF prog[pc].op = "break" THEN Over(k) ELSE (Again(k) \/ (Head(rounds).left = 0 /\ Over(k)))

(* A statement raises: a handler around it takes over, or the function is   *)
(* left.                                                                    *)
Raise ==
  /\ Runs /\ prog[pc].op \notin Openers \cup {"end", "except", "return", "break", "continue"}
  /\ LET kind == IF prog[pc].op = "raise" THEN prog[pc].e.kind ELSE "any"
         handlers == {k \in DOMAIN prog : prog[k].op = "except" /\ pc < k /\ MayCatch(k, kind)
                        /\ \E t \in 1..pc : prog[t].op = "try" /\ prog[t].end = prog[k].end}
     IN  \/ \E k \in handlers :
              /\ pc' = k + 1 /\ rounds' = SelectSeq(rounds, LAMBDA l : prog[l.at].end > k)
              /\ one' = Bind(one, prog[k].x, <<"error", "none", 0>>) /\ two' = Bind(two, prog[k].x, <<"error", "none", 0>>)
         \/ pc' = MaxLength + 1 /\ UNCHANGED <<rounds, one, two>>

Return == Runs /\ prog[pc].op = "return" /\ pc' = MaxLength + 1 /\ UNCHANGED <<rounds, one, two>>

Next == Write \/ WriteExcept \/ WriteEnd \/ Move \/ Simple \/ Enter \/ End \/ Jump \/ Raise \/ Return

Spec == Init /\ [][Next]_vars

-----------------------------------------------------------------------------
(* Properties *)

TypeOK ==
  /\ phase \in {"write", "run"} /\ Len(prog) <= MaxLength /\ pc \in 1..(MaxLength + 1)
  /\ phase = "run" => moved < below /\ prog[moved].in = prog[below].in
  /\ \A m \in {one, two} : DOMAIN m.env = Names /\ m.version \in [Names -> Nat]

(* "The default level never reports a move that changes behavior" (ADR      *)
(* 0062): every statement sees the same values, the moved one included.     *)
SameValues == TypeOK /\ one.out = two.out

(* "an early exit that does not use it" (the message): what the rule counts *)
(* as an exit on the way leaves the statement it is in, so that the work of *)
(* the assignment is saved there.                                           *)
StaysInside ==
  phase = "run" /\ \E i \in Between(moved, below) : pc \in Exits(i) /\ pc' \in Whole(i)
ExitsAreExits == [][~StaysInside]_vars

=============================================================================
