------------------------------- MODULE DictGet -------------------------------
(***************************************************************************)
(* redundant-dict-get (redundant_dict_get/local.py) next to the program it *)
(* judges.  A behaviour writes a program statement by statement; every     *)
(* statement is run by Python and visited by the analyser, so that what    *)
(* the analyser believes and what is so can be compared at every place     *)
(* where a d.get(k) may stand.                                             *)
(*                                                                         *)
(* A branch that is not executed is visited all the same: mode tells       *)
(* whether Python is here.  The body of a loop is visited once and run     *)
(* again for every element of the collection.                              *)
(***************************************************************************)
EXTENDS Naturals, Sequences, SequencesExt, FiniteSets, TLC

CONSTANTS
  Names, Keys, Objects,
  Grammars      \* by name, which programs there are, see below

VARIABLES
  grammar,  \* that of this program
  abs,      \* _State, or Dead where visit_scope has met a structural exit
  env, heap, mode,   \* what names mean, the objects, and whether Python is here
  blocks,   \* the compound statements that are open, innermost first
  length

vars == <<grammar, abs, env, heap, mode, blocks, length>>

ASSUME NamesAreNames == IsFiniteSet(Names) /\ "" \notin Names

ASSUME ValuesAreApart ==
  /\ IsFiniteSet(Keys) /\ Objects # {} /\ Keys \cap Objects = {} /\ "other" \notin Keys \cup Objects

Ops == {"dict", "coll", "alias", "key", "box", "lose", "swap", "setitem", "delitem", "delnested",
        "call", "return", "raise", "break", "pass"}

IsStatement(st) ==
  /\ st.op \in Ops
  /\ st.op \notin {"call", "return", "raise", "break", "pass"} => st.x \in Names
  /\ st.op \in {"alias", "box", "swap"} => st.y \in Names
  /\ st.op \in {"dict", "coll"} => st.keys \subseteq Keys
  /\ st.op \in {"key", "setitem", "delitem", "delnested"} => st.key \in Keys

IsAtom(t) ==
  /\ t.op \in {"in", "subset", "opaque", "const"} /\ t.not \in BOOLEAN
  /\ t.op = "in" => t.k \in Names /\ t.x \in Names
  /\ t.op = "subset" => t.c \in Names /\ t.x \in Names

IsTest(t) == IF t.op \in {"and", "or"} THEN IsAtom(t.one) /\ IsAtom(t.two) ELSE IsAtom(t)

ASSUME GrammarsAreSyntax == \A g \in DOMAIN Grammars :
  /\ \A st \in Grammars[g].statements : IsStatement(st)
  /\ \A t \in Grammars[g].tests : IsTest(t)
  /\ \A p \in Grammars[g].params : p.keys \subseteq Keys
  /\ Grammars[g].length \in Nat /\ Grammars[g].depth \in Nat

Statements == Grammars[grammar].statements  \* the simple statements a program may have
Tests      == Grammars[grammar].tests       \* the conditions of its branches
Blocks     == Grammars[grammar].blocks      \* the compound statements it may have: "if", "match", "guard",
                                  \* "try", "finally", "for", "opaque"
Params     == Grammars[grammar].params      \* the parameters of the function: a name and its required keys
MaxLength  == Grammars[grammar].length
MaxDepth   == Grammars[grammar].depth

-----------------------------------------------------------------------------
(* _State.  A root stands for one object: the name it was bound to first    *)
(* and a suffix.                                                            *)

MaxSuffix == Cardinality(Names)
Roots == Names \X (0..MaxSuffix)
NoRoot == <<"", 0>>

Fresh == [alias |-> [n \in Names |-> NoRoot], dicts |-> {}, keys |-> [r \in Roots |-> {}],
          colls |-> {}, elems |-> [r \in Roots |-> {}], rel |-> {}, present |-> [r \in Roots |-> {}]]
Dead == [alias |-> {}]

ValuesOf(s) == {s.alias[n] : n \in Names}

(* Mutant: the relations of a forgotten root stay. *)
ForgetAllButRelations(s, root) ==
  [s EXCEPT !.dicts = @ \ {root}, !.keys[root] = {}, !.colls = @ \ {root}, !.elems[root] = {},
     !.present[root] = {}]

Forget(s, root) ==
  [s EXCEPT !.dicts = @ \ {root}, !.keys[root] = {}, !.colls = @ \ {root}, !.elems[root] = {},
     !.present[root] = {}, !.rel = {p \in @ : root \notin {p[1], p[2]}}]

Drop(s, name) ==
  LET root    == s.alias[name]
      without == [s EXCEPT !.alias[name] = NoRoot, !.present = [r \in Roots |-> @[r] \ {name}]]
  IN  IF root = NoRoot \/ root \in ValuesOf(without) THEN without
      ELSE Forget(without, root)

(* Mutant: a root is the name alone. *)
NewRootPlain(s, name) == <<name, 0>>

NewRoot(s, name) ==
  LET free == {i \in 0..MaxSuffix : <<name, i>> \notin s.dicts \cup s.colls}
  IN  <<name, CHOOSE i \in free : \A j \in free : i <= j>>

BindDict(s, name, ks) ==
  LET t == Drop(s, name)
      r == NewRoot(t, name)
  IN  [t EXCEPT !.alias[name] = r, !.dicts = @ \cup {r}, !.keys[r] = ks]

BindCollection(s, name, ks) ==
  LET t == Drop(s, name)
      r == NewRoot(t, name)
  IN  [t EXCEPT !.alias[name] = r, !.colls = @ \cup {r}, !.elems[r] = ks]

BindAlias(s, name, source) ==
  IF s.alias[source] = NoRoot THEN Drop(s, name)
  ELSE [Drop(s, name) EXCEPT !.alias[name] = s.alias[source]]

AddPresent(s, dict, name) ==
  IF s.alias[dict] \in s.dicts THEN [s EXCEPT !.present[s.alias[dict]] = @ \cup {name}] ELSE s

AddRelation(s, coll, dict) ==
  IF s.alias[coll] \in s.colls /\ s.alias[dict] \in s.dicts
  THEN [s EXCEPT !.rel = @ \cup {<<s.alias[coll], s.alias[dict]>>}] ELSE s

AddMembership(s, coll, name) ==
  [s EXCEPT !.present = [r \in Roots |-> IF <<s.alias[coll], r>> \in s.rel THEN @[r] \cup {name} ELSE @[r]]]

(* contains: what would be reported of name.get(key) *)
ProvedKeys(s, name) == IF s.alias[name] \in s.dicts THEN s.keys[s.alias[name]] ELSE {}
ProvedNames(s, name) == IF s.alias[name] \in s.dicts THEN s.present[s.alias[name]] ELSE {}

(* Mutant: the path that knows most keys speaks for all. *)
MergedMost(paths) ==
  CHOOSE s \in paths : \A t \in paths : Cardinality(UNION {t.keys[r] : r \in Roots}) <= Cardinality(UNION {s.keys[r] : r \in Roots})

Merged(paths) ==
  LET some  == CHOOSE s \in paths : TRUE
      alias == [n \in Names |-> IF \A s \in paths : s.alias[n] = some.alias[n] THEN some.alias[n] ELSE NoRoot]
      roots == {alias[n] : n \in Names}
      dicts == {r \in roots : \A s \in paths : r \in s.dicts}
      colls == {r \in roots : \A s \in paths : r \in s.colls /\ s.elems[r] = some.elems[r]}
  IN  [alias |-> alias, dicts |-> dicts, colls |-> colls,
       keys |-> [r \in Roots |-> {a \in Keys : r \in dicts /\ \A s \in paths : a \in s.keys[r]}],
       elems |-> [r \in Roots |-> IF r \in colls THEN some.elems[r] ELSE {}],
       rel |-> {p \in some.rel : \A s \in paths : p \in s.rel},
       present |-> [r \in Roots |-> {n \in Names : r \in dicts /\ \A s \in paths : n \in s.present[r]}]]

(* Mutant: a path that ends takes the others with it. *)
JoinStopped(paths) == IF Dead \in paths THEN Dead ELSE Merged(paths)

(* _join: what all paths agree on, of those that come here *)
Join(paths) == IF paths \subseteq {Dead} THEN Dead ELSE Merged(paths \ {Dead})

OrFresh(s) == IF s = Dead THEN Fresh ELSE s

-----------------------------------------------------------------------------
(* Conditions *)

(* condition_states: what holds after the condition, by its truth *)
Atom(t, s) ==
  CASE t.op = "in"     -> [true |-> AddMembership(AddPresent(s, t.x, t.k), t.x, t.k), false |-> s]
    [] t.op = "subset" -> [true |-> AddRelation(s, t.c, t.x), false |-> s]
    [] t.op = "const"  -> [true |-> s, false |-> s]
    [] OTHER           -> [true |-> Fresh, false |-> Fresh]

Negate(b) == [true |-> b.false, false |-> b.true]
Signed(t, s) == IF t.not THEN Negate(Atom(t, s)) ELSE Atom(t, s)

Condition(t, s) ==
  IF t.op \notin {"and", "or"} THEN Signed(t, s)
  ELSE LET one == Signed(t.one, s)
           two == Signed(t.two, IF t.op = "and" THEN one.true ELSE one.false)
       IN  IF t.op = "and" THEN [true |-> two.true, false |-> Join({one.false, two.false})]
           ELSE [true |-> Join({one.true, two.true}), false |-> two.false]

(* What Python makes of it: the truths it may have, none when it raises *)
Is(name, kind) == env[name] \in Objects /\ heap[env[name]].kind = kind
KeysOf(name) == heap[env[name]].keys

AtomTruths(t) ==
  LET of(b) == {b # t.not}
  IN  CASE t.op = "in" -> IF (Is(t.x, "dict") \/ Is(t.x, "coll")) /\ env[t.k] \notin Objects
                          THEN of(env[t.k] \in KeysOf(t.x)) ELSE {}
        [] t.op = "subset" -> IF Is(t.c, "coll") /\ Is(t.x, "dict") THEN of(KeysOf(t.c) \subseteq KeysOf(t.x)) ELSE {}
        [] OTHER -> BOOLEAN

Truths(t) ==
  IF t.op \notin {"and", "or"} THEN AtomTruths(t)
  ELSE LET stop == t.op = "or"
       IN  (AtomTruths(t.one) \cap {stop})
             \cup (IF (~stop) \in AtomTruths(t.one) THEN AtomTruths(t.two) ELSE {})

-----------------------------------------------------------------------------
(* Simple statements *)

(* Mutant: deleting an item leaves what is known. *)
VisitedDelKept(st, s) ==
  CASE st.op = "dict" -> BindDict(s, st.x, st.keys)
    [] st.op = "alias" -> BindAlias(s, st.x, st.y)
    [] st.op = "swap" -> Drop(Drop(s, st.x), st.y)
    [] st.op = "lose" -> Drop(s, st.x)
    [] st.op = "setitem" -> Fresh
    [] OTHER -> s

(* visit_statement.  An item of a name clears the state, an item of         *)
(* anything else is not seen to be one.                                     *)
Visited(st, s) ==
  CASE st.op = "dict" -> BindDict(s, st.x, st.keys)
    [] st.op = "coll" -> BindCollection(s, st.x, st.keys)
    [] st.op = "alias" -> BindAlias(s, st.x, st.y)
    [] st.op \in {"key", "box", "lose"} -> Drop(s, st.x)
    [] st.op = "swap" -> Drop(Drop(s, st.x), st.y)
    [] st.op \in {"setitem", "delitem", "call"} -> Fresh
    [] st.op \in {"return", "raise", "break"} -> Dead
    [] OTHER -> s   \* delnested, pass

Outcome(e, h, m) == [env |-> e, heap |-> h, mode |-> m]
Raised == Outcome(env, heap, "raised")

InUse == {env[n] : n \in Names} \cup {heap[o].of : o \in Objects}
New(st, object) ==
  IF Objects \subseteq InUse THEN {}
  ELSE LET o == CHOOSE p \in Objects \ InUse : TRUE
       IN  {Outcome([env EXCEPT ![st.x] = o], [heap EXCEPT ![o] = object], "on")}

Object(kind, ks, of) == [kind |-> kind, keys |-> ks, of |-> of]
Free == Object("free", {}, "other")

(* What Python may make of a simple statement *)
Outcomes(st) ==
  LET bind(x, v) == {Outcome([env EXCEPT ![x] = v], heap, "on")}
      item(o, ks) == IF o \in Objects /\ heap[o].kind = "dict"
                     THEN {Outcome(env, [heap EXCEPT ![o].keys = ks], "on")} ELSE {Raised}
      keys(o) == IF o \in Objects THEN heap[o].keys ELSE {}
  IN  CASE st.op = "dict" -> New(st, Object("dict", st.keys, "other"))
        [] st.op = "coll" -> New(st, Object("coll", st.keys, "other"))
        [] st.op = "box" -> New(st, Object("box", {}, env[st.y]))
        [] st.op = "alias" -> bind(st.x, env[st.y])
        [] st.op = "key" -> bind(st.x, st.key)
        [] st.op = "lose" -> bind(st.x, "other")
        [] st.op = "swap" -> {Outcome([env EXCEPT ![st.x] = env[st.y], ![st.y] = env[st.x]], heap, "on")}
        [] st.op = "setitem" -> item(env[st.x], keys(env[st.x]) \cup {st.key})
        [] st.op = "delitem" -> item(env[st.x], keys(env[st.x]) \ {st.key})
        [] st.op = "delnested" ->
             IF Is(st.x, "box") THEN item(heap[env[st.x]].of, keys(heap[env[st.x]].of) \ {st.key}) ELSE {Raised}
        [] st.op = "call" ->
             {Raised} \cup {Outcome(env, [heap EXCEPT ![o].keys = {}], "on") : o \in Objects}
        [] st.op = "pass" -> {Outcome(env, heap, "on"), Raised}
        [] st.op = "return" -> {Outcome(env, heap, "returned")}
        [] st.op = "break" -> {Outcome(env, heap, "broke")}
        [] OTHER -> {Raised}

-----------------------------------------------------------------------------
(* Writing a program.  Modes: Python is here ("on"), elsewhere ("off"), or  *)
(* on its way out ("raised", "returned", "broke").                          *)

Either(m, n) == IF m # "off" THEN m ELSE n
Top == Head(blocks)
Inside(kind) == blocks # <<>> /\ Top.kind = kind
Part(p) == blocks # <<>> /\ Top.part = p

Init ==
  /\ grammar \in DOMAIN Grammars
  /\ \E p \in Params : \E has \in SUBSET Keys :
       /\ p.keys \subseteq has
       /\ env = [n \in Names |-> IF n = p.name THEN CHOOSE o \in Objects : TRUE ELSE "other"]
       /\ heap = [o \in Objects |-> IF o \in {env[n] : n \in Names} THEN Object("dict", has, "other") ELSE Free]
       /\ abs = IF p.name \in Names THEN BindDict(Fresh, p.name, p.keys) ELSE Fresh
  /\ mode = "on" /\ blocks = <<>> /\ length = 0

Grow == length < MaxLength /\ length' = length + 1 /\ UNCHANGED grammar

Simple ==
  /\ abs # Dead /\ Grow /\ ~Part("cases") /\ ~Part("again") /\ ~Part("closed")
  /\ \E st \in Statements :
       /\ st.op = "break" => Inside("for")
       /\ abs' = Visited(st, abs)
       /\ blocks' = IF Inside("for") THEN <<[Top EXCEPT !.log = Append(@, [st |-> st, abs |-> abs])]>> \o Tail(blocks)
                    ELSE blocks
       /\ IF mode = "on"
          THEN \E o \in Outcomes(st) : env' = o.env /\ heap' = o.heap /\ mode' = o.mode
          ELSE UNCHANGED <<env, heap, mode>>

(* A compound statement: fall is the state of the part that is next, paths  *)
(* those of the parts that ended, rest the mode of what is not in any part  *)
(* yet, after that of what has left one.                                    *)
Frame(kind, part, fall, rest) ==
  [kind |-> kind, part |-> part, fall |-> fall, paths |-> {}, rest |-> rest, after |-> "off",
   log |-> <<>>, at |-> 0, todo |-> <<>>, name |-> "other"]

Open(kind) == kind \in Blocks /\ abs # Dead /\ Grow /\ ~Inside("for") /\ ~Part("cases") /\ ~Part("closed")
              /\ Len(blocks) < MaxDepth
Push(f) == blocks' = <<f>> \o blocks
Set(f) == blocks' = <<f>> \o Tail(blocks)
Pop == blocks' = Tail(blocks)

(* Python takes the part when it is here and the truth allows it; a test    *)
(* that raises leaves the whole.                                            *)
Branch(truths, m) ==
  IF m # "on" THEN {[here |-> "off", rest |-> m]}
  ELSE IF truths = {} THEN {[here |-> "off", rest |-> "raised"]}
  ELSE {[here |-> IF b THEN "on" ELSE "off", rest |-> IF b THEN "off" ELSE "on"] : b \in truths}

If ==
  /\ Open("if")
  /\ \E t \in Tests : \E way \in Branch(Truths(t), mode) :
       /\ mode' = way.here /\ abs' = Condition(t, abs).true
       /\ Push(Frame("if", "body", Condition(t, abs).false, way.rest))
  /\ UNCHANGED <<env, heap>>

Else ==
  /\ Inside("if") /\ Part("body") /\ Grow
  /\ Set([Top EXCEPT !.part = "else", !.paths = {abs}, !.after = mode, !.rest = "off"])
  /\ mode' = Top.rest /\ abs' = Top.fall /\ UNCHANGED <<env, heap>>

(* if without else goes on in the state of the false test. *)
EndIf ==
  /\ Inside("if") /\ Pop
  /\ abs' = Join(Top.paths \cup {abs} \cup (IF Part("body") THEN {Top.fall} ELSE {}))
  /\ mode' = Either(mode, Either(Top.rest, Top.after)) /\ UNCHANGED <<env, heap, length, grammar>>

Match ==
  /\ Open("match") /\ Push(Frame("match", "cases", abs, mode))
  /\ mode' = "off" /\ UNCHANGED <<abs, env, heap>>

(* A case with a pattern that can fail, one that cannot, one with a guard.  *)
(* What follows a guarded case is visited in the state of the false guard,  *)
(* whether the pattern can fail or not.                                     *)
Case ==
  /\ Inside("match") /\ Part("cases") /\ Grow
  /\ \/ \E irrefutable \in BOOLEAN : \E way \in Branch(IF irrefutable THEN {TRUE} ELSE BOOLEAN, Top.rest) :
          /\ mode' = way.here /\ abs' = Top.fall
          /\ Set([Top EXCEPT !.part = IF irrefutable THEN "last" ELSE "body", !.rest = way.rest])
     \/ \E t \in Tests, irrefutable \in BOOLEAN :
        \E way \in Branch(Truths(t) \cup (IF irrefutable THEN {} ELSE {FALSE}), Top.rest) :
          /\ irrefutable \/ "guard" \in Blocks
          /\ mode' = way.here /\ abs' = Condition(t, Top.fall).true
          /\ Set([Top EXCEPT !.part = "body", !.rest = way.rest, !.fall = Condition(t, @).false])
  /\ UNCHANGED <<env, heap>>

EndCase ==
  /\ Inside("match") /\ (Part("body") \/ Part("last"))
  /\ Set([Top EXCEPT !.part = IF Part("last") THEN "closed" ELSE "cases", !.paths = @ \cup {abs}, !.after = Either(@, mode)])
  /\ mode' = "off" /\ UNCHANGED <<abs, env, heap, length, grammar>>

EndMatch ==
  /\ Inside("match") /\ Top.paths # {} /\ (Part("cases") \/ Part("closed")) /\ Pop
  /\ abs' = Join(Top.paths \cup (IF Part("cases") THEN {Top.fall} ELSE {}))
  /\ mode' = Either(Top.after, Top.rest) /\ UNCHANGED <<env, heap, length, grammar>>

(* Mutant: a handler is visited in the state of before the try. *)
HandlerStateKept(entry) == entry

(* A handler knows nothing: the body may have stopped anywhere. *)
HandlerState(entry) == Fresh

Try ==
  /\ Open("try") /\ UNCHANGED <<abs, env, heap>>
  /\ IF mode = "on" THEN Push(Frame("try", "body", abs, "off")) /\ UNCHANGED mode
     ELSE Push(Frame("try", "body", abs, mode)) /\ mode' = "off"

(* A handler catches what the body raises, or not. *)
Handler ==
  /\ Inside("try") /\ Part("body") /\ Grow
  /\ \E caught \in BOOLEAN :
       /\ mode' = IF mode = "raised" /\ caught THEN "on" ELSE "off"
       /\ Set([Top EXCEPT !.part = "handler", !.paths = {abs},
                 !.after = IF mode = "raised" /\ caught THEN "off" ELSE mode])
  /\ abs' = HandlerState(Top.fall) /\ UNCHANGED <<env, heap>>

(* The else part runs, and is visited, after the body. *)
Orelse ==
  /\ Inside("try") /\ Part("handler") /\ Grow
  /\ \E body \in Top.paths \ {Dead} : abs' = body
  /\ LET done == Top.after = "on"
     IN  /\ mode' = IF done THEN "on" ELSE "off"
         /\ Set([Top EXCEPT !.part = "orelse", !.paths = @ \cup {abs},
                   !.after = IF done THEN "off" ELSE Either(mode, @)])
  /\ UNCHANGED <<env, heap>>

EndTry ==
  /\ Inside("try") /\ (Part("handler") \/ Part("orelse")) /\ Pop
  /\ abs' = Join(Top.paths \cup {abs})
  /\ mode' = Either(mode, Either(Top.after, Top.rest))
  /\ UNCHANGED <<env, heap, length, grammar>>

(* finally runs whatever happened, and is visited in the state of the       *)
(* normal ends.                                                             *)
Finally ==
  /\ Inside("try") /\ "finally" \in Blocks /\ Grow
  /\ abs' = OrFresh(Join(Top.paths \cup {abs}))
  /\ LET pending == Either(mode, Top.after)
     IN  /\ mode' = IF pending = "off" THEN "off" ELSE "on"
         /\ Set(Frame("finally", "body", Fresh, Either(pending, Top.rest)))
  /\ UNCHANGED <<env, heap>>

EndFinally ==
  /\ Inside("finally") /\ Pop
  /\ mode' = IF mode \in {"on", "off"} THEN Top.rest ELSE mode
  /\ UNCHANGED <<abs, env, heap, length, grammar>>

(* Mutant: items do not count. *)
InvalidatesNames(log, entry) ==
  \E i \in DOMAIN log :
    LET st      == log[i].st
        tracked == {n \in Names : entry.alias[n] # NoRoot}
    IN  \/ st.op = "call" /\ tracked # {}
        \/ st.op \in {"dict", "coll", "alias", "key", "box", "lose"} /\ st.x \in tracked
        \/ st.op = "swap" /\ {st.x, st.y} \cap tracked # {}

(* _loop_body_invalidates_state *)
Invalidates(log, entry) ==
  \E i \in DOMAIN log :
    LET st      == log[i].st
        tracked == {n \in Names : entry.alias[n] # NoRoot}
    IN  \/ st.op = "call" /\ tracked # {}
        \/ st.op \in {"dict", "coll", "alias", "key", "box", "lose", "setitem", "delitem"} /\ st.x \in tracked
        \/ st.op = "swap" /\ {st.x, st.y} \cap tracked # {}

AfterLoop(entry, exit, log) ==
  IF \E i \in DOMAIN log : log[i].st.op = "break" THEN Fresh ELSE OrFresh(Join({entry, exit}))

(* for name in coll: the body is visited knowing that name is an element,   *)
(* and nothing else when a statement of it may change what is known.        *)
BodyState(entry, coll, name, invalidates) ==
  LET body == Drop([entry EXCEPT !.keys = [r \in Roots |-> {}], !.present = [r \in Roots |-> {}]], name)
  IN  IF ~invalidates /\ body.alias[coll] \in body.colls THEN AddMembership(body, coll, name) ELSE Fresh

For ==
  /\ Open("for")
  /\ \E coll, name \in Names, invalidates \in BOOLEAN :
       LET frame(todo, m) == [Frame("for", IF invalidates THEN "clear" ELSE "body", abs, m)
                                EXCEPT !.todo = todo, !.name = name]
       IN  /\ abs' = BodyState(abs, coll, name, invalidates)
           /\ IF mode = "on" /\ Is(coll, "coll") /\ KeysOf(coll) # {}
              THEN \E order \in SetToSeqs(KeysOf(coll)) :
                     /\ env' = [env EXCEPT ![name] = Head(order)]
                     /\ Push(frame(Tail(order), "off")) /\ UNCHANGED mode
              ELSE /\ mode' = "off" /\ UNCHANGED env
                   /\ Push(frame(<<>>, IF mode = "on" /\ ~Is(coll, "coll") THEN "raised" ELSE mode))
  /\ UNCHANGED heap

(* The body is written: what it may change is what the visit assumed.      *)
EndBody ==
  /\ Inside("for") /\ ~Part("again") /\ Invalidates(Top.log, Top.fall) = Part("clear")
  /\ Set([Top EXCEPT !.part = "again", !.at = Len(Top.log) + 1,
            !.log = Append(@, [st |-> [op |-> "pass"], abs |-> abs])])
  /\ UNCHANGED <<abs, env, heap, mode, length, grammar>>

(* Python runs the body again for the next element; each statement meets    *)
(* the state it was visited in.                                             *)
NextElement ==
  /\ Part("again") /\ mode = "on" /\ Top.at = Len(Top.log) /\ Top.todo # <<>>
  /\ env' = [env EXCEPT ![Top.name] = Head(Top.todo)]
  /\ Set([Top EXCEPT !.at = 1, !.todo = Tail(@)]) /\ abs' = Top.log[1].abs
  /\ UNCHANGED <<heap, mode, length, grammar>>

RunAgain ==
  /\ Part("again") /\ mode = "on" /\ Top.at < Len(Top.log)
  /\ \E o \in Outcomes(Top.log[Top.at].st) : env' = o.env /\ heap' = o.heap /\ mode' = o.mode
  /\ Set([Top EXCEPT !.at = @ + 1]) /\ abs' = Top.log[Top.at + 1].abs /\ UNCHANGED <<length, grammar>>

(* An else of the loop is visited like what follows it. *)
EndFor ==
  /\ Part("again") /\ (mode = "on" => Top.at = Len(Top.log) /\ Top.todo = <<>>) /\ Pop
  /\ abs' = AfterLoop(Top.fall, Last(Top.log).abs, Top.log)
  /\ mode' = IF mode = "broke" THEN "on" ELSE Either(mode, Top.rest)
  /\ UNCHANGED <<env, heap, length, grammar>>

(* while, with, def and class: nothing is known in them, nor after them.    *)
AfterOpaque(before) == Fresh

Opaque ==
  /\ Open("opaque") /\ abs' = Fresh
  /\ \/ mode' = mode /\ Push(Frame("opaque", "body", abs, "off"))
     \/ mode' = "off" /\ Push(Frame("opaque", "body", abs, mode))
  /\ UNCHANGED <<env, heap>>

EndOpaque ==
  /\ Inside("opaque") /\ Pop /\ abs' = AfterOpaque(Top.fall)
  /\ mode' = Either(mode, Top.rest) /\ UNCHANGED <<env, heap, length, grammar>>

Next ==
  \/ Simple \/ If \/ Else \/ EndIf \/ Match \/ Case \/ EndCase \/ EndMatch
  \/ Try \/ Handler \/ Orelse \/ EndTry \/ Finally \/ EndFinally
  \/ For \/ EndBody \/ NextElement \/ RunAgain \/ EndFor \/ Opaque \/ EndOpaque

Spec == Init /\ [][Next]_vars

-----------------------------------------------------------------------------
(* Properties *)

States == [alias : [Names -> Roots \cup {NoRoot}], dicts : SUBSET Roots, keys : [Roots -> SUBSET Keys],
           colls : SUBSET Roots, elems : [Roots -> SUBSET Keys], rel : SUBSET (Roots \X Roots),
           present : [Roots -> SUBSET Names]]

TypeOK ==
  /\ abs = Dead \/ abs \in States
  /\ env \in [Names -> Keys \cup Objects \cup {"other"}]
  /\ heap \in [Objects -> [kind : {"free", "dict", "coll", "box"}, keys : SUBSET Keys,
                           of : Keys \cup Objects \cup {"other"}]]
  /\ mode \in {"on", "off", "raised", "returned", "broke"}
  /\ length \in 0..MaxLength /\ Len(blocks) <= MaxDepth
  /\ abs = Dead => mode # "on"

(* Where the analyser would report name.get(key), the name means a dict     *)
(* that has the key, however the program came here: name[key] is the same   *)
(* (docs/rules/redundant-dict-get.md).                                      *)
ReportsHold ==
  mode = "on" /\ abs # Dead => \A n \in Names :
    /\ \A a \in ProvedKeys(abs, n) : Is(n, "dict") /\ a \in KeysOf(n)
    /\ \A k \in ProvedNames(abs, n) : Is(n, "dict") /\ env[k] \in KeysOf(n)

(* Names with one root mean one object. *)
OneObject ==
  mode = "on" /\ abs # Dead => \A m, n \in Names :
    abs.alias[m] = abs.alias[n] /\ abs.alias[m] # NoRoot => env[m] = env[n]

(* What is believed is about objects that a name still means: a root that   *)
(* is given out again has nothing to inherit.                               *)
NothingInherited ==
  abs # Dead =>
    LET named == {abs.alias[n] : n \in Names}
        known == abs.dicts \cup abs.colls
    IN  /\ known \subseteq named
        /\ \A p \in abs.rel : p[1] \in named /\ p[2] \in abs.dicts
        /\ \A r \in Roots \ abs.dicts : abs.present[r] = {}

(* What the analyser believes is so: the keys it would report are there,     *)
(* names it takes for one object are one, and nothing is believed of an      *)
(* object no name means.                                                     *)
BeliefsHold == TypeOK /\ ReportsHold /\ OneObject /\ NothingInherited

(* Where the analyser is right about any program: the grammar has none of   *)
(* the statements it is known to be wrong about.  These are a deletion      *)
(* through an expression that is no name, a guard, a finally, a name        *)
(* assigned to itself, and aliases beside collections (a root given out     *)
(* again, a mutation by an alias in a loop).                                *)
Uses(op) == \E st \in Statements : st.op = op
Careful ==
  /\ ~Uses("delnested") /\ {"guard", "finally"} \cap Blocks = {}
  /\ \A st \in Statements : st.op = "alias" => st.x # st.y
  /\ ~(Uses("alias") /\ Uses("coll"))
=============================================================================
