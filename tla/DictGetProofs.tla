---------------------------- MODULE DictGetProofs ----------------------------
(* redundant-dict-get is right about every program a careful grammar has,   *)
(* however long, deep and branched it is, for any names, keys and objects.  *)
EXTENDS DictGet, FiniteSetTheorems, WellFoundedInduction, SequenceTheorems, TLAPS

-----------------------------------------------------------------------------
(* The inductive invariant *)

Apart(g) == \A st \in Grammars[g].statements : st.op # "alias"

Known(s) == s.dicts \cup s.colls

(* What an analyser's state is like, whatever the program does.  Without    *)
(* aliases a root belongs to the name it is called after, without           *)
(* collections every root a name has is a dict.                             *)
Wf(g, s) ==
  /\ s \in States
  /\ Known(s) \subseteq ValuesOf(s)
  /\ \A p \in s.rel : p[1] \in ValuesOf(s) /\ p[2] \in s.dicts
  /\ \A r \in Roots \ s.dicts : s.present[r] = {}
  /\ Apart(g) => \A n \in Names : s.alias[n] # NoRoot => s.alias[n][1] = n
  /\ ~Apart(g) => s.colls = {} /\ s.rel = {} /\ \A n \in Names : s.alias[n] # NoRoot => s.alias[n] \in s.dicts

(* What it believes is so. *)
IsA(kind, v, h) == v \in Objects /\ h[v].kind = kind
DictsOk(s, e, h) == \A n \in Names : s.alias[n] \in s.dicts =>
  /\ IsA("dict", e[n], h) /\ s.keys[s.alias[n]] \subseteq h[e[n]].keys
  /\ \A k \in s.present[s.alias[n]] : e[k] \in h[e[n]].keys
RelationsOk(s, e, h) == \A m, n \in Names : <<s.alias[m], s.alias[n]>> \in s.rel =>
  IsA("coll", e[m], h) /\ IsA("dict", e[n], h) /\ h[e[m]].keys \subseteq h[e[n]].keys
RootsOk(s, e) == \A m, n \in Names : s.alias[m] = s.alias[n] /\ s.alias[m] # NoRoot => e[m] = e[n]
Ok(s, e, h) == DictsOk(s, e, h) /\ RelationsOk(s, e, h) /\ RootsOk(s, e)

(* Where Python may come to *)
Live(s, e, h) == s # Dead /\ Ok(s, e, h)
Visitable(g, s) == s = Dead \/ Wf(g, s)

Envs == [Names -> Keys \cup Objects \cup {"other"}]
Heaps == [Objects -> [kind : {"free", "dict", "coll", "box"}, keys : SUBSET Keys, of : Keys \cup Objects \cup {"other"}]]

(* Without aliases names are apart; without collections nothing is one. *)
World(g, e, h) ==
  /\ e \in Envs /\ h \in Heaps
  /\ Apart(g) => \A m, n \in Names : e[m] = e[n] /\ e[m] \in Objects => m = n
  /\ ~Apart(g) => \A o \in Objects : h[o].kind # "coll"

Modes == {"on", "off", "raised", "returned", "broke"}
Pass == [op |-> "pass"]
AllStatements == UNION {Grammars[g].statements : g \in DOMAIN Grammars}
Logged == [st : AllStatements \cup {Pass}, abs : States \cup {Dead}]
Frames ==
  [kind : {"if", "match", "try", "for", "opaque"},
   part : {"body", "else", "cases", "last", "closed", "handler", "orelse", "clear", "again"},
   fall : States, paths : SUBSET (States \cup {Dead}), rest : Modes \ {"broke"}, after : Modes \ {"broke"},
   log : Seq(Logged), at : Nat, todo : Seq(Keys), name : Names \cup {"other"}]

Idle(f) == f.rest = "off" /\ f.after = "off"

(* A compound statement keeps states of the code's, and where Python may    *)
(* come back to one of them it holds.                                       *)
FrameOk(g, f, e, h) ==
  /\ f \in Frames
  /\ Wf(g, f.fall) /\ \A s \in f.paths : Visitable(g, s)
  /\ f.rest = "on" => Ok(f.fall, e, h)
  /\ f.after = "on" => \E s \in f.paths : Live(s, e, h)
  /\ f.rest = "off" \/ f.after = "off"
  /\ f.part \in {"last", "closed", "else"} \/ f.kind = "try" => f.rest # "on"
  /\ f.part = "handler" => \A s, t \in f.paths : s = t
  /\ f.kind = "if" => f.part \in {"body", "else"}
  /\ f.part = "again" => f.kind = "for"

(* Python is in one place at most, and only the innermost statement is a    *)
(* loop.                                                                    *)
BlocksOk(g, bs, m, e, h) ==
  /\ bs \in Seq(Frames)
  /\ \A i \in 1..Len(bs) : FrameOk(g, bs[i], e, h)
  /\ m # "off" => \A i \in 1..Len(bs) : Idle(bs[i])
  /\ \A i, j \in 1..Len(bs) : i # j => Idle(bs[i]) \/ Idle(bs[j])
  /\ \A i \in 2..Len(bs) : bs[i].kind # "for"

Breaks(log) == \E i \in 1..Len(log) : log[i].st.op = "break"

(* What a loop's body knows of before it *)
Base(entry, name) == Drop([entry EXCEPT !.keys = [r \in Roots |-> {}], !.present = [r \in Roots |-> {}]], name)

(* The elements to come are in the collection, and what was known before    *)
(* the loop and is not of a key is still so, if the body spares it.         *)
SparedOk(base, coll, todo, e, h) ==
  /\ Ok(base, e, h)
  /\ base.alias[coll] \in base.colls => IsA("coll", e[coll], h) /\ \A i \in 1..Len(todo) : todo[i] \in h[e[coll]].keys

(* The body of a loop was visited once, statement by statement; it runs in  *)
(* the states it was visited in.                                            *)
LoopOk(g, f, s, m, e, h) ==
  LET log     == f.log
      start   == IF log = <<>> THEN s ELSE log[1].abs
      harmful == Invalidates(log, f.fall)
  IN  /\ f.name \in Names /\ f.part \in {"body", "clear", "again"}
      /\ \A i \in 1..Len(log) : log[i].st \in Grammars[g].statements \cup {Pass} /\ Visitable(g, log[i].abs)
      /\ \A i \in 1..(Len(log) - 1) : log[i+1].abs = Visited(log[i].st, log[i].abs)
      /\ f.part # "again" /\ log # <<>> => s = Visited(log[Len(log)].st, log[Len(log)].abs)
      /\ f.part = "again" => f.at \in 1..Len(log) /\ (m = "on" => s = log[f.at].abs)
      /\ m = "on" => Apart(g)
      /\ \E coll \in Names :
           /\ start = BodyState(f.fall, coll, f.name, IF f.part = "again" THEN harmful ELSE f.part = "clear")
           /\ m = "on" /\ ~harmful => SparedOk(Base(f.fall, f.name), coll, f.todo, e, h)

LoopInv ==
  /\ Inside("for") => LoopOk(grammar, Top, abs, mode, env, heap)
  /\ mode = "broke" => Inside("for") /\ Breaks(Top.log)

HereInv ==
  /\ mode \in Modes /\ length \in 0..MaxLength /\ Len(blocks) <= MaxDepth
  /\ grammar \in DOMAIN Grammars /\ Visitable(grammar, abs)
  /\ mode = "on" => Live(abs, env, heap)

IInv == World(grammar, env, heap) /\ HereInv /\ BlocksOk(grammar, blocks, mode, env, heap) /\ LoopInv

-----------------------------------------------------------------------------
(* The analyser's states *)

LEMMA NoRootIsNone == NoRoot \notin Roots
  BY NamesAreNames DEF NoRoot, Roots

LEMMA DeadIsNone == Dead \notin States
<1>1. SUFFICES ASSUME Dead \in States PROVE FALSE
  OBVIOUS
<1>2. DOMAIN Dead = {"alias"}
  BY DEF Dead
<1>3. "dicts" \in DOMAIN Dead
  BY <1>1 DEF States
<1>4. QED
  BY <1>2, <1>3

LEMMA WfIsAlive ==
  ASSUME NEW g, NEW s, Wf(g, s)
  PROVE  s \in States /\ s # Dead
  BY DeadIsNone DEF Wf

LEMMA FreshIsWf ==
  ASSUME NEW g
  PROVE  Wf(g, Fresh)
<1>1. Fresh \in States
  BY DEF Fresh, States
<1>2. /\ Fresh.dicts = {} /\ Fresh.colls = {} /\ Fresh.rel = {}
      /\ Fresh.present = [r \in Roots |-> {}] /\ Fresh.alias = [n \in Names |-> NoRoot]
  BY DEF Fresh
<1>3. QED
  BY <1>1, <1>2 DEF Wf, Known, ValuesOf

LEMMA FreshIsOk ==
  ASSUME NEW e, NEW h
  PROVE  Ok(Fresh, e, h)
<1>1. /\ Fresh.dicts = {} /\ Fresh.rel = {} /\ Fresh.alias = [n \in Names |-> NoRoot]
  BY DEF Fresh
<1>2. QED
  BY <1>1 DEF Ok, DictsOk, RelationsOk, RootsOk

LEMMA FreshIsLive ==
  ASSUME NEW e, NEW h
  PROVE  Live(Fresh, e, h)
  BY FreshIsOk, FreshIsWf, WfIsAlive DEF Live

(* A state that says less of what is the same *)
Weaker(t, s) ==
  /\ t \in States /\ s \in States
  /\ \A n \in Names : t.alias[n] \in {NoRoot, s.alias[n]}
  /\ t.dicts \subseteq s.dicts /\ t.colls \subseteq s.colls /\ t.rel \subseteq s.rel
  /\ \A r \in Roots : t.keys[r] \subseteq s.keys[r] /\ t.present[r] \subseteq s.present[r]

LEMMA StateFields ==
  ASSUME NEW s \in States
  PROVE  /\ s.alias \in [Names -> Roots \cup {NoRoot}] /\ s.dicts \subseteq Roots
         /\ s.keys \in [Roots -> SUBSET Keys] /\ s.colls \subseteq Roots
         /\ s.elems \in [Roots -> SUBSET Keys] /\ s.rel \subseteq Roots \X Roots
         /\ s.present \in [Roots -> SUBSET Names]
  BY DEF States

Forgotten(d, w, root) ==
  /\ d \in States /\ d.alias = w.alias /\ d.dicts = w.dicts \ {root} /\ d.colls = w.colls \ {root}
  /\ d.keys = [w.keys EXCEPT ![root] = {}] /\ d.elems = [w.elems EXCEPT ![root] = {}]
  /\ d.present = [w.present EXCEPT ![root] = {}]
  /\ d.rel = {p \in w.rel : root \notin {p[1], p[2]}}

LEMMA ForgetShape ==
  ASSUME NEW w \in States, NEW root \in Roots
  PROVE  Forgotten(Forget(w, root), w, root)
<1> DEFINE d == Forget(w, root)
<1>0. d = Forget(w, root)
  OBVIOUS
<1> HIDE DEF d
<1>1. /\ d.alias = w.alias /\ d.dicts = w.dicts \ {root} /\ d.colls = w.colls \ {root}
      /\ d.keys = [w.keys EXCEPT ![root] = {}] /\ d.elems = [w.elems EXCEPT ![root] = {}]
      /\ d.present = [w.present EXCEPT ![root] = {}]
      /\ d.rel = {p \in w.rel : root \notin {p[1], p[2]}}
  BY <1>0 DEF Forget, States
<1>2. d = [alias |-> d.alias, dicts |-> d.dicts, keys |-> d.keys, colls |-> d.colls, elems |-> d.elems,
           rel |-> d.rel, present |-> d.present]
  BY <1>0 DEF Forget, States
<1>3. /\ d.alias \in [Names -> Roots \cup {NoRoot}] /\ d.dicts \subseteq Roots
      /\ d.colls \subseteq Roots /\ d.rel \subseteq Roots \X Roots
  BY <1>1, StateFields
<1>4. d.keys \in [Roots -> SUBSET Keys] /\ d.elems \in [Roots -> SUBSET Keys]
  BY <1>1, StateFields
<1>5. d.present \in [Roots -> SUBSET Names]
  BY <1>1, StateFields
<1>6. d \in States
  BY <1>2, <1>3, <1>4, <1>5 DEF States
<1>7. QED
  BY <1>1, <1>6 DEF Forgotten, d

LEMMA WeakerIsOk ==
  ASSUME NEW s, NEW t, NEW e, NEW f, NEW h, Weaker(t, s), Ok(s, e, h),
         \A n \in Names : t.alias[n] # NoRoot => f[n] = e[n],
         \A r \in t.dicts : \A k \in t.present[r] : f[k] = e[k]
  PROVE  Ok(t, f, h)
<1>1. /\ s \in States /\ t \in States
      /\ \A n \in Names : t.alias[n] \in {NoRoot, s.alias[n]}
      /\ t.dicts \subseteq s.dicts /\ t.rel \subseteq s.rel
      /\ \A r \in Roots : t.keys[r] \subseteq s.keys[r] /\ t.present[r] \subseteq s.present[r]
  BY DEF Weaker
<1>2. t.dicts \subseteq Roots /\ t.rel \subseteq Roots \X Roots
  BY <1>1, StateFields
<1>3. DictsOk(t, f, h)
  <2>1. SUFFICES ASSUME NEW n \in Names, t.alias[n] \in t.dicts
                 PROVE  /\ IsA("dict", f[n], h) /\ t.keys[t.alias[n]] \subseteq h[f[n]].keys
                        /\ \A k \in t.present[t.alias[n]] : f[k] \in h[f[n]].keys
    BY DEF DictsOk
  <2>2. t.alias[n] # NoRoot /\ t.alias[n] \in Roots
    BY <2>1, <1>2, NoRootIsNone
  <2>3. t.alias[n] = s.alias[n] /\ f[n] = e[n] /\ s.alias[n] \in s.dicts
    BY <2>1, <2>2, <1>1
  <2>4. /\ IsA("dict", e[n], h) /\ s.keys[s.alias[n]] \subseteq h[e[n]].keys
        /\ \A k \in s.present[s.alias[n]] : e[k] \in h[e[n]].keys
    BY <2>3 DEF Ok, DictsOk
  <2>5. \A k \in t.present[t.alias[n]] : f[k] = e[k]
    BY <2>1
  <2>6. QED
    BY <2>2, <2>3, <2>4, <2>5, <1>1
<1>4. RelationsOk(t, f, h)
  <2>1. SUFFICES ASSUME NEW m \in Names, NEW n \in Names, <<t.alias[m], t.alias[n]>> \in t.rel
                 PROVE  IsA("coll", f[m], h) /\ IsA("dict", f[n], h) /\ h[f[m]].keys \subseteq h[f[n]].keys
    BY DEF RelationsOk
  <2>2. t.alias[m] # NoRoot /\ t.alias[n] # NoRoot
    BY <2>1, <1>2, NoRootIsNone
  <2>3. t.alias[m] = s.alias[m] /\ t.alias[n] = s.alias[n] /\ f[m] = e[m] /\ f[n] = e[n]
    BY <2>2, <1>1
  <2>4. <<s.alias[m], s.alias[n]>> \in s.rel
    BY <2>1, <2>3, <1>1
  <2>5. QED
    BY <2>3, <2>4 DEF Ok, RelationsOk
<1>5. RootsOk(t, f)
  BY <1>1 DEF Ok, RootsOk
<1>6. QED
  BY <1>3, <1>4, <1>5 DEF Ok

(* Objects no name means may change. *)
LEMMA HeapIsOk ==
  ASSUME NEW s, NEW e, NEW h, NEW k, Ok(s, e, h),
         \A n \in Names : e[n] \in Objects => k[e[n]] = h[e[n]]
  PROVE  Ok(s, e, k)
<1>1. DictsOk(s, e, k)
  BY DEF Ok, DictsOk, IsA
<1>2. RelationsOk(s, e, k)
  BY DEF Ok, RelationsOk, IsA
<1>3. QED
  BY <1>1, <1>2 DEF Ok

LEMMA DropShape ==
  ASSUME NEW s \in States, NEW x \in Names
  PROVE  /\ Weaker(Drop(s, x), s)
         /\ Drop(s, x).alias = [s.alias EXCEPT ![x] = NoRoot]
         /\ \A r \in Roots : x \notin Drop(s, x).present[r]
         /\ \A r \in Known(s) : r \in ValuesOf(Drop(s, x)) => (r \in Drop(s, x).dicts <=> r \in s.dicts)
         /\ \A r \in Known(Drop(s, x)) : r # s.alias[x] \/ r \in ValuesOf(Drop(s, x))
         /\ \A p \in Drop(s, x).rel :
              /\ p[1] # s.alias[x] \/ p[1] \in ValuesOf(Drop(s, x))
              /\ p[2] \in s.dicts => p[2] \in Drop(s, x).dicts
         /\ \A r \in Roots : r \notin Drop(s, x).dicts => Drop(s, x).present[r] = {} \/ r \notin s.dicts
<1> DEFINE root == s.alias[x]
           w == [s EXCEPT !.alias[x] = NoRoot, !.present = [r \in Roots |-> @[r] \ {x}]]
           d == Drop(s, x)
<1>1. /\ s.alias \in [Names -> Roots \cup {NoRoot}] /\ s.dicts \subseteq Roots
      /\ s.keys \in [Roots -> SUBSET Keys] /\ s.colls \subseteq Roots
      /\ s.elems \in [Roots -> SUBSET Keys] /\ s.rel \subseteq Roots \X Roots
      /\ s.present \in [Roots -> SUBSET Names]
  BY StateFields
<1>2. /\ w \in States /\ w.alias = [s.alias EXCEPT ![x] = NoRoot]
      /\ w.dicts = s.dicts /\ w.keys = s.keys /\ w.colls = s.colls /\ w.elems = s.elems /\ w.rel = s.rel
      /\ w.present = [r \in Roots |-> s.present[r] \ {x}]
  BY <1>1 DEF States
<1>3. d = IF root = NoRoot \/ root \in ValuesOf(w) THEN w ELSE Forget(w, root)
  BY DEF Drop
<1> HIDE DEF w, d
<1>4. CASE root = NoRoot \/ root \in ValuesOf(w)
  <2>1. d = w
    BY <1>3, <1>4
  <2>2. Weaker(d, s)
    BY <2>1, <1>1, <1>2 DEF Weaker
  <2>3. \A r \in Known(s) : r # NoRoot
    BY <1>1, NoRootIsNone DEF Known
  <2>4. \A p \in w.rel : p[1] # NoRoot
    BY <1>1, <1>2, NoRootIsNone
  <2>5. Known(w) = Known(s)
    BY <1>2 DEF Known
  <2>6. \A r \in Roots : x \notin w.present[r]
    BY <1>1, <1>2
  <2>7. \A r \in Roots : r \notin w.dicts => r \notin s.dicts
    BY <1>2
  <2>8. \A r \in Known(w) : r # root \/ r \in ValuesOf(w)
    BY <1>4, <2>3, <2>5
  <2>9. \A p \in w.rel : p[1] # root \/ p[1] \in ValuesOf(w)
    BY <1>4, <2>4
  <2>10. QED
    BY <2>1, <2>2, <2>6, <2>7, <2>8, <2>9, <1>2 DEF d, root
<1>5. CASE ~(root = NoRoot \/ root \in ValuesOf(w))
  <2>1. d = Forget(w, root)
    BY <1>3, <1>5
  <2>2. root \in Roots
    BY <1>1, <1>5
  <2>3. /\ d \in States /\ d.alias = w.alias /\ d.dicts = w.dicts \ {root} /\ d.colls = w.colls \ {root}
        /\ d.keys = [w.keys EXCEPT ![root] = {}] /\ d.elems = [w.elems EXCEPT ![root] = {}]
        /\ d.present = [w.present EXCEPT ![root] = {}]
        /\ d.rel = {p \in w.rel : root \notin {p[1], p[2]}}
    <3> HIDE DEF root
    <3>1. w \in States
      BY <1>2
    <3>2. Forgotten(Forget(w, root), w, root)
      BY <2>2, <3>1, ForgetShape
    <3>3. Forgotten(d, w, root)
      BY <2>1, <3>2
    <3>4. QED
      BY <3>3 DEF Forgotten
  <2>4. Weaker(d, s)
    BY <2>2, <2>3, <1>1, <1>2 DEF Weaker
  <2>5. \A r \in Roots : x \notin d.present[r]
    BY <2>2, <2>3, <1>1, <1>2
  <2>6. ValuesOf(d) = ValuesOf(w)
    BY <2>3 DEF ValuesOf
  <2>7. \A r \in Known(s) : r \in ValuesOf(d) => (r \in d.dicts <=> r \in s.dicts)
    BY <2>3, <2>6, <1>2, <1>5
  <2>8. \A r \in Known(d) : r # root
    BY <2>3 DEF Known
  <2>9. \A p \in d.rel : p[1] # root /\ (p[2] \in s.dicts => p[2] \in d.dicts)
    BY <2>3, <1>2
  <2>10. \A r \in Roots : r \notin d.dicts => d.present[r] = {} \/ r \notin s.dicts
    BY <2>2, <2>3, <1>1, <1>2
  <2>11. d.alias = [s.alias EXCEPT ![x] = NoRoot]
    BY <2>3, <1>2
  <2>12. QED
    BY <2>4, <2>5, <2>7, <2>8, <2>9, <2>10, <2>11 DEF d, root
<1>6. QED
  BY <1>4, <1>5

LEMMA DropIsWf ==
  ASSUME NEW g, NEW s, Wf(g, s), NEW x \in Names
  PROVE  Wf(g, Drop(s, x))
<1> DEFINE d == Drop(s, x)
<1>1. /\ s \in States /\ Known(s) \subseteq ValuesOf(s)
      /\ \A p \in s.rel : p[1] \in ValuesOf(s) /\ p[2] \in s.dicts
      /\ \A r \in Roots \ s.dicts : s.present[r] = {}
      /\ Apart(g) => \A n \in Names : s.alias[n] # NoRoot => s.alias[n][1] = n
      /\ ~Apart(g) => s.colls = {} /\ s.rel = {} /\ \A n \in Names : s.alias[n] # NoRoot => s.alias[n] \in s.dicts
  BY DEF Wf
<1>2. /\ Weaker(d, s) /\ d.alias = [s.alias EXCEPT ![x] = NoRoot]
      /\ \A r \in Known(s) : r \in ValuesOf(d) => (r \in d.dicts <=> r \in s.dicts)
      /\ \A r \in Known(d) : r # s.alias[x] \/ r \in ValuesOf(d)
      /\ \A p \in d.rel : /\ p[1] # s.alias[x] \/ p[1] \in ValuesOf(d)
                          /\ p[2] \in s.dicts => p[2] \in d.dicts
      /\ \A r \in Roots : r \notin d.dicts => d.present[r] = {} \/ r \notin s.dicts
  BY <1>1, DropShape
<1> HIDE DEF d
<1>3. /\ d \in States /\ d.dicts \subseteq s.dicts /\ d.colls \subseteq s.colls /\ d.rel \subseteq s.rel
      /\ \A r \in Roots : d.present[r] \subseteq s.present[r]
  BY <1>2 DEF Weaker
<1>4. s.alias \in [Names -> Roots \cup {NoRoot}]
  BY <1>1, StateFields
<1>5. \A r \in ValuesOf(s) : r # s.alias[x] => r \in ValuesOf(d)
  BY <1>2, <1>4 DEF ValuesOf
<1>6. Known(d) \subseteq ValuesOf(d)
  BY <1>1, <1>2, <1>3, <1>5 DEF Known
<1>7. \A p \in d.rel : p[1] \in ValuesOf(d) /\ p[2] \in d.dicts
  BY <1>1, <1>2, <1>3, <1>5
<1>8. \A r \in Roots \ d.dicts : d.present[r] = {}
  BY <1>1, <1>2, <1>3
<1>9. \A n \in Names : d.alias[n] # NoRoot => d.alias[n] = s.alias[n] /\ d.alias[n] \in ValuesOf(d)
  BY <1>2, <1>4 DEF ValuesOf
<1>10. ~Apart(g) => d.colls = {} /\ d.rel = {} /\ \A n \in Names : d.alias[n] # NoRoot => d.alias[n] \in d.dicts
  <2>1. SUFFICES ASSUME ~Apart(g)
                 PROVE d.colls = {} /\ d.rel = {} /\ \A n \in Names : d.alias[n] # NoRoot => d.alias[n] \in d.dicts
    OBVIOUS
  <2>2. QED
    BY <2>1, <1>1, <1>2, <1>3, <1>9 DEF Known
<1>11. Apart(g) => \A n \in Names : d.alias[n] # NoRoot => d.alias[n][1] = n
  BY <1>1, <1>9
<1>12. QED
  BY <1>3, <1>6, <1>7, <1>8, <1>10, <1>11 DEF Wf, d

(* Whatever is bound to it, the name is forgotten. *)
LEMMA DropIsOk ==
  ASSUME NEW s \in States, NEW x \in Names, NEW e, NEW f, NEW h, Ok(s, e, h),
         \A n \in Names \ {x} : f[n] = e[n]
  PROVE  Ok(Drop(s, x), f, h)
<1> DEFINE d == Drop(s, x)
<1>1. /\ Weaker(d, s) /\ d.alias = [s.alias EXCEPT ![x] = NoRoot] /\ \A r \in Roots : x \notin d.present[r]
  BY DropShape
<1> HIDE DEF d
<1>2. d \in States
  BY <1>1 DEF Weaker
<1>3. \A n \in Names : d.alias[n] # NoRoot => f[n] = e[n]
  BY <1>1, StateFields
<1>4. \A r \in d.dicts : \A k \in d.present[r] : f[k] = e[k]
  BY <1>1, <1>2, StateFields
<1>5. QED
  BY <1>1, <1>3, <1>4, WeakerIsOk DEF d

(* Names are too few to have all the roots of one. *)
LEMMA RootIsFree ==
  ASSUME NEW s \in States, Known(s) \subseteq ValuesOf(s), NEW x \in Names
  PROVE  /\ NewRoot(s, x) \in Roots /\ NewRoot(s, x) \notin Known(s)
         /\ \E i \in 0..MaxSuffix : NewRoot(s, x) = <<x, i>>
<1> DEFINE free == {i \in 0..MaxSuffix : <<x, i>> \notin Known(s)}
<1>1. MaxSuffix \in Nat
  BY NamesAreNames, FS_CardinalityType DEF MaxSuffix
<1>2. free # {}
  <2>1. SUFFICES ASSUME free = {} PROVE FALSE
    OBVIOUS
  <2>2. \A i \in 0..MaxSuffix : \E n \in Names : s.alias[n] = <<x, i>>
    BY <2>1 DEF ValuesOf
  <2> DEFINE f == [i \in 0..MaxSuffix |-> CHOOSE n \in Names : s.alias[n] = <<x, i>>]
  <2>3. f \in [0..MaxSuffix -> Names] /\ \A i \in 0..MaxSuffix : s.alias[f[i]] = <<x, i>>
    BY <2>2
  <2>4. IsFiniteSet(0..MaxSuffix) /\ Cardinality(0..MaxSuffix) = MaxSuffix + 1
    BY <1>1, FS_Interval
  <2> HIDE DEF f
  <2>5. \E i, j \in 0..MaxSuffix : i # j /\ f[i] = f[j]
    <3> DEFINE S == 0..MaxSuffix
    <3>0. IsFiniteSet(S) /\ Cardinality(S) = MaxSuffix + 1 /\ IsFiniteSet(Names) /\ f \in [S -> Names]
      BY <2>3, <2>4, NamesAreNames
    <3> HIDE DEF S
    <3>1. Cardinality(Names) < Cardinality(S)
      BY <3>0, <1>1 DEF MaxSuffix
    <3>2. \E i, j \in S : i # j /\ f[i] = f[j]
      BY <3>0, <3>1, FS_PigeonHole
    <3>3. QED
      BY <3>2 DEF S
  <2>6. QED
    BY <2>3, <2>5
<1>3. \E i \in free : \A j \in free : i <= j
  <2> DEFINE R == {p \in Nat \X Nat : p[1] < p[2]}
  <2>1. IsWellFoundedOn(R, Nat)
    BY NatLessThanWellFounded DEF OpToRel
  <2>2. /\ free \subseteq Nat
        /\ \A i, j \in Nat : j < i => <<j, i>> \in R
    BY <1>1
  <2> HIDE DEF R, free
  <2>3. PICK i \in free : \A j \in free : <<j, i>> \notin R
    BY <1>2, <2>1, <2>2, WFMin
  <2>4. i \in Nat /\ \A j \in free : j \in Nat /\ ~(j < i)
    BY <2>2, <2>3
  <2>5. \A j \in free : i <= j
    BY <2>4
  <2>6. QED
    BY <2>5
<1>4. PICK i \in free : NewRoot(s, x) = <<x, i>>
  BY <1>3 DEF NewRoot, Known
<1>5. QED
  BY <1>4 DEF Roots

(* What a name is bound to next, it alone has. *)
LEMMA RootIsNew ==
  ASSUME NEW g, NEW s, Wf(g, s), NEW x \in Names, s.alias[x] = NoRoot
  PROVE  /\ NewRoot(s, x) \in Roots /\ NewRoot(s, x) \notin Known(s)
         /\ \A n \in Names : s.alias[n] # NewRoot(s, x)
         /\ NewRoot(s, x)[1] = x /\ NewRoot(s, x) # NoRoot
<1>1. /\ s \in States /\ Known(s) \subseteq ValuesOf(s)
      /\ Apart(g) => \A n \in Names : s.alias[n] # NoRoot => s.alias[n][1] = n
      /\ ~Apart(g) => \A n \in Names : s.alias[n] # NoRoot => s.alias[n] \in s.dicts
  BY DEF Wf
<1>2. /\ NewRoot(s, x) \in Roots /\ NewRoot(s, x) \notin Known(s)
      /\ NewRoot(s, x)[1] = x /\ NewRoot(s, x) # NoRoot
  BY <1>1, RootIsFree, NoRootIsNone
<1>3. ASSUME NEW n \in Names, s.alias[n] = NewRoot(s, x) PROVE FALSE
  <2>1. CASE Apart(g)
    <3>1. n = x
      BY <2>1, <1>1, <1>2, <1>3
    <3>2. QED
      BY <3>1, <1>2, <1>3
  <2>2. CASE ~Apart(g)
    <3>1. NewRoot(s, x) \in s.dicts
      BY <2>2, <1>1, <1>2, <1>3
    <3>2. QED
      BY <3>1, <1>2 DEF Known
  <2>3. QED
    BY <2>1, <2>2
<1>4. QED
  BY <1>2, <1>3

(* A name that has no root gets one of its own. *)
Bound(t, s, x, r) == t.alias = [s.alias EXCEPT ![x] = r] /\ t.rel = s.rel /\ t.present = s.present /\ t \in States

LEMMA BoundIsWf ==
  ASSUME NEW g, NEW s, Wf(g, s), NEW x \in Names, s.alias[x] = NoRoot, NEW t, NEW r,
         r = NewRoot(s, x), Bound(t, s, x, r),
         \/ t.dicts = s.dicts \cup {r} /\ t.colls = s.colls
         \/ t.dicts = s.dicts /\ t.colls = s.colls \cup {r} /\ Apart(g)
  PROVE  Wf(g, t)
<1>1. /\ s \in States /\ Known(s) \subseteq ValuesOf(s)
      /\ \A p \in s.rel : p[1] \in ValuesOf(s) /\ p[2] \in s.dicts
      /\ \A q \in Roots \ s.dicts : s.present[q] = {}
      /\ Apart(g) => \A n \in Names : s.alias[n] # NoRoot => s.alias[n][1] = n
      /\ ~Apart(g) => s.colls = {} /\ s.rel = {} /\ \A n \in Names : s.alias[n] # NoRoot => s.alias[n] \in s.dicts
  BY DEF Wf
<1>2. r \in Roots /\ r[1] = x /\ r # NoRoot
  BY RootIsNew
<1>3. /\ t \in States /\ t.alias = [s.alias EXCEPT ![x] = r] /\ t.rel = s.rel /\ t.present = s.present
  BY DEF Bound
<1>4. /\ s.alias \in [Names -> Roots \cup {NoRoot}] /\ s.rel \subseteq Roots \X Roots
      /\ s.dicts \subseteq Roots /\ s.colls \subseteq Roots
  BY <1>1, StateFields
<1>5. \A q \in ValuesOf(s) : q \in Roots => q \in ValuesOf(t)
  BY <1>3, <1>4, NoRootIsNone DEF ValuesOf
<1>6. r \in ValuesOf(t)
  BY <1>3, <1>4 DEF ValuesOf
<1>7. Known(t) \subseteq ValuesOf(t)
  BY <1>1, <1>4, <1>5, <1>6 DEF Known
<1>8. \A p \in t.rel : p[1] \in ValuesOf(t) /\ p[2] \in t.dicts
  BY <1>1, <1>3, <1>4, <1>5
<1>9. \A q \in Roots \ t.dicts : t.present[q] = {}
  BY <1>1, <1>3
<1>10. Apart(g) => \A n \in Names : t.alias[n] # NoRoot => t.alias[n][1] = n
  BY <1>1, <1>2, <1>3, <1>4
<1>11. ~Apart(g) => t.colls = {} /\ t.rel = {} /\ \A n \in Names : t.alias[n] # NoRoot => t.alias[n] \in t.dicts
  BY <1>1, <1>3, <1>4
<1>12. QED
  BY <1>3, <1>7, <1>8, <1>9, <1>10, <1>11 DEF Wf

LEMMA BoundIsOk ==
  ASSUME NEW g, NEW s, Wf(g, s), NEW x \in Names, s.alias[x] = NoRoot, NEW t, NEW r,
         r = NewRoot(s, x), Bound(t, s, x, r), t.dicts \subseteq s.dicts \cup {r},
         \A q \in Roots \ {r} : t.keys[q] = s.keys[q],
         NEW e, NEW h, Ok(s, e, h),
         r \in t.dicts => IsA("dict", e[x], h) /\ t.keys[r] \subseteq h[e[x]].keys
  PROVE  Ok(t, e, h)
<1>1. /\ s \in States /\ \A p \in s.rel : p[1] \in ValuesOf(s) /\ p[2] \in s.dicts
      /\ \A q \in Roots \ s.dicts : s.present[q] = {}
  BY DEF Wf
<1>2. /\ r \in Roots /\ r \notin Known(s) /\ \A n \in Names : s.alias[n] # r
  BY RootIsNew
<1>3. /\ t \in States /\ t.alias = [s.alias EXCEPT ![x] = r] /\ t.rel = s.rel /\ t.present = s.present
  BY DEF Bound
<1>4. /\ s.alias \in [Names -> Roots \cup {NoRoot}] /\ t.dicts \subseteq Roots /\ s.rel \subseteq Roots \X Roots
  BY <1>1, <1>3, StateFields
<1>5. DictsOk(t, e, h)
  <2>1. SUFFICES ASSUME NEW n \in Names, t.alias[n] \in t.dicts
                 PROVE  /\ IsA("dict", e[n], h) /\ t.keys[t.alias[n]] \subseteq h[e[n]].keys
                        /\ \A k \in t.present[t.alias[n]] : e[k] \in h[e[n]].keys
    BY DEF DictsOk
  <2>2. CASE n = x
    <3>1. t.alias[n] = r /\ t.present[r] = {}
      BY <2>2, <1>1, <1>2, <1>3, <1>4 DEF Known
    <3>2. QED
      BY <3>1, <2>1, <2>2
  <2>3. CASE n # x
    <3>1. t.alias[n] = s.alias[n] /\ s.alias[n] \in s.dicts /\ s.alias[n] \in Roots \ {r}
      BY <2>1, <2>3, <1>2, <1>3, <1>4
    <3>2. QED
      BY <3>1, <1>3 DEF Ok, DictsOk
  <2>4. QED
    BY <2>2, <2>3
<1>6. RelationsOk(t, e, h)
  <2>1. SUFFICES ASSUME NEW m \in Names, NEW n \in Names, <<t.alias[m], t.alias[n]>> \in t.rel
                 PROVE  IsA("coll", e[m], h) /\ IsA("dict", e[n], h) /\ h[e[m]].keys \subseteq h[e[n]].keys
    BY DEF RelationsOk
  <2>2. t.alias[m] \in ValuesOf(s) /\ t.alias[n] \in s.dicts
    BY <2>1, <1>1, <1>3
  <2>3. t.alias[m] # r /\ t.alias[n] # r
    BY <2>2, <1>2 DEF ValuesOf, Known
  <2>4. <<s.alias[m], s.alias[n]>> \in s.rel
    BY <2>1, <2>3, <1>3, <1>4
  <2>5. QED
    BY <2>4 DEF Ok, RelationsOk
<1>7. RootsOk(t, e)
  BY <1>2, <1>3, <1>4 DEF Ok, RootsOk
<1>8. QED
  BY <1>5, <1>6, <1>7 DEF Ok

LEMMA BindDictIsBound ==
  ASSUME NEW g, NEW s, Wf(g, s), NEW x \in Names, NEW ks \in SUBSET Keys
  PROVE  LET d == Drop(s, x)
             r == NewRoot(d, x)
             t == BindDict(s, x, ks)
         IN  /\ Wf(g, d) /\ d.alias[x] = NoRoot /\ Bound(t, d, x, r)
             /\ t.dicts = d.dicts \cup {r} /\ t.colls = d.colls
             /\ \A q \in Roots \ {r} : t.keys[q] = d.keys[q]
             /\ t.keys[r] = ks
<1> DEFINE d == Drop(s, x)
           r == NewRoot(d, x)
           t == BindDict(s, x, ks)
<1>1. t = [d EXCEPT !.alias[x] = r, !.dicts = @ \cup {r}, !.keys[r] = ks]
  BY DEF BindDict
<1>2. Wf(g, d)
  BY DropIsWf
<1>3. d.alias = [s.alias EXCEPT ![x] = NoRoot] /\ s \in States /\ d \in States
  BY DropShape, <1>2 DEF Wf
<1>4. d.alias[x] = NoRoot
  BY <1>3, StateFields
<1>5. r \in Roots
  BY <1>2, <1>4, RootIsNew
<1> HIDE DEF d, r, t
<1>6. /\ d.alias \in [Names -> Roots \cup {NoRoot}] /\ d.dicts \subseteq Roots
      /\ d.keys \in [Roots -> SUBSET Keys] /\ d.colls \subseteq Roots
      /\ d.elems \in [Roots -> SUBSET Keys] /\ d.rel \subseteq Roots \X Roots
      /\ d.present \in [Roots -> SUBSET Names]
  BY <1>3, StateFields
<1>7. /\ t.alias = [d.alias EXCEPT ![x] = r] /\ t.dicts = d.dicts \cup {r} /\ t.colls = d.colls
      /\ t.keys = [d.keys EXCEPT ![r] = ks] /\ t.rel = d.rel /\ t.present = d.present /\ t \in States
  BY <1>1, <1>3, <1>5, <1>6 DEF States
<1>8. /\ t.keys[r] = ks /\ \A q \in Roots \ {r} : t.keys[q] = d.keys[q]
  BY <1>5, <1>6, <1>7
<1>9. QED
  BY <1>2, <1>4, <1>7, <1>8 DEF Bound, d, r, t

LEMMA BindDictIsWf ==
  ASSUME NEW g, NEW s, Wf(g, s), NEW x \in Names, NEW ks \in SUBSET Keys
  PROVE  Wf(g, BindDict(s, x, ks))
  BY BindDictIsBound, BoundIsWf

LEMMA BindDictIsOk ==
  ASSUME NEW g, NEW s, Wf(g, s), NEW x \in Names, NEW ks \in SUBSET Keys,
         NEW e, NEW f, NEW h, NEW k, Ok(s, e, h),
         \A n \in Names \ {x} : f[n] = e[n],
         \A n \in Names : e[n] \in Objects => k[e[n]] = h[e[n]],
         IsA("dict", f[x], k), ks \subseteq k[f[x]].keys
  PROVE  Ok(BindDict(s, x, ks), f, k)
<1> DEFINE d == Drop(s, x)
           r == NewRoot(d, x)
           t == BindDict(s, x, ks)
<1>1. /\ Wf(g, d) /\ d.alias[x] = NoRoot /\ Bound(t, d, x, r)
      /\ t.dicts = d.dicts \cup {r} /\ \A q \in Roots \ {r} : t.keys[q] = d.keys[q]
      /\ t.keys[r] = ks
  BY BindDictIsBound
<1>2. Ok(s, e, k)
  BY HeapIsOk
<1>3. Ok(d, f, k)
  BY <1>2, DropIsOk DEF Wf
<1> HIDE DEF d, t
<1>4. Ok(t, f, k)
  BY <1>1, <1>3, BoundIsOk
<1>5. QED
  BY <1>4 DEF t

LEMMA BindCollIsBound ==
  ASSUME NEW g, NEW s, Wf(g, s), NEW x \in Names, NEW ks \in SUBSET Keys
  PROVE  LET d == Drop(s, x)
             r == NewRoot(d, x)
             t == BindCollection(s, x, ks)
         IN  /\ Wf(g, d) /\ d.alias[x] = NoRoot /\ Bound(t, d, x, r)
             /\ t.dicts = d.dicts /\ t.colls = d.colls \cup {r} /\ t.keys = d.keys
<1> DEFINE d == Drop(s, x)
           r == NewRoot(d, x)
           t == BindCollection(s, x, ks)
<1>1. t = [d EXCEPT !.alias[x] = r, !.colls = @ \cup {r}, !.elems[r] = ks]
  BY DEF BindCollection
<1>2. Wf(g, d)
  BY DropIsWf
<1>3. d.alias = [s.alias EXCEPT ![x] = NoRoot] /\ s \in States /\ d \in States
  BY DropShape, <1>2 DEF Wf
<1>4. d.alias[x] = NoRoot
  BY <1>3, StateFields
<1>5. r \in Roots
  BY <1>2, <1>4, RootIsNew
<1> HIDE DEF d, r, t
<1>6. /\ d.alias \in [Names -> Roots \cup {NoRoot}] /\ d.dicts \subseteq Roots
      /\ d.keys \in [Roots -> SUBSET Keys] /\ d.colls \subseteq Roots
      /\ d.elems \in [Roots -> SUBSET Keys] /\ d.rel \subseteq Roots \X Roots
      /\ d.present \in [Roots -> SUBSET Names]
  BY <1>3, StateFields
<1>7. /\ t.alias = [d.alias EXCEPT ![x] = r] /\ t.dicts = d.dicts /\ t.colls = d.colls \cup {r}
      /\ t.keys = d.keys /\ t.rel = d.rel /\ t.present = d.present /\ t \in States
  BY <1>1, <1>3, <1>5, <1>6 DEF States
<1>8. QED
  BY <1>2, <1>4, <1>7 DEF Bound, d, r, t

LEMMA BindCollIsWf ==
  ASSUME NEW g, Apart(g), NEW s, Wf(g, s), NEW x \in Names, NEW ks \in SUBSET Keys
  PROVE  Wf(g, BindCollection(s, x, ks))
  BY BindCollIsBound, BoundIsWf

LEMMA BindCollIsOk ==
  ASSUME NEW g, NEW s, Wf(g, s), NEW x \in Names, NEW ks \in SUBSET Keys,
         NEW e, NEW f, NEW h, NEW k, Ok(s, e, h),
         \A n \in Names \ {x} : f[n] = e[n],
         \A n \in Names : e[n] \in Objects => k[e[n]] = h[e[n]]
  PROVE  Ok(BindCollection(s, x, ks), f, k)
<1> DEFINE d == Drop(s, x)
           r == NewRoot(d, x)
           t == BindCollection(s, x, ks)
<1>1. /\ Wf(g, d) /\ d.alias[x] = NoRoot /\ Bound(t, d, x, r) /\ t.dicts = d.dicts /\ t.keys = d.keys
  BY BindCollIsBound
<1>2. Ok(s, e, k)
  BY HeapIsOk
<1>3. Ok(d, f, k)
  BY <1>2, DropIsOk DEF Wf
<1>4. r \notin d.dicts
  BY <1>1, RootIsNew DEF Known
<1> HIDE DEF d, t, r
<1>5. /\ t.dicts \subseteq d.dicts \cup {r} /\ \A q \in Roots \ {r} : t.keys[q] = d.keys[q]
  BY <1>1
<1>6. r \notin t.dicts
  BY <1>1, <1>4
<1>7. Ok(t, f, k)
  BY <1>1, <1>3, <1>5, <1>6, BoundIsOk DEF r
<1>8. QED
  BY <1>7 DEF t

LEMMA BindAliasShape ==
  ASSUME NEW g, NEW s, Wf(g, s), NEW x \in Names, NEW y \in Names, x # y, s.alias[y] # NoRoot
  PROVE  LET d == Drop(s, x)
             t == BindAlias(s, x, y)
         IN  /\ Wf(g, d) /\ d.alias[y] = s.alias[y] /\ d.alias[x] = NoRoot
             /\ t \in States /\ t.alias = [d.alias EXCEPT ![x] = d.alias[y]]
             /\ t.dicts = d.dicts /\ t.colls = d.colls /\ t.keys = d.keys /\ t.rel = d.rel /\ t.present = d.present
<1> DEFINE d == Drop(s, x)
           t == BindAlias(s, x, y)
<1>1. t = [d EXCEPT !.alias[x] = s.alias[y]]
  BY DEF BindAlias
<1>2. Wf(g, d)
  BY DropIsWf
<1>3. d.alias = [s.alias EXCEPT ![x] = NoRoot] /\ s \in States /\ d \in States
  BY DropShape, <1>2 DEF Wf
<1> HIDE DEF d, t
<1>4. /\ s.alias \in [Names -> Roots \cup {NoRoot}] /\ d.alias \in [Names -> Roots \cup {NoRoot}] /\ d.dicts \subseteq Roots
      /\ d.keys \in [Roots -> SUBSET Keys] /\ d.colls \subseteq Roots
      /\ d.elems \in [Roots -> SUBSET Keys] /\ d.rel \subseteq Roots \X Roots
      /\ d.present \in [Roots -> SUBSET Names]
  BY <1>3, StateFields
<1>5. d.alias[y] = s.alias[y] /\ d.alias[x] = NoRoot
  BY <1>3, <1>4
<1>6. /\ t.alias = [d.alias EXCEPT ![x] = d.alias[y]] /\ t.dicts = d.dicts /\ t.colls = d.colls
      /\ t.keys = d.keys /\ t.rel = d.rel /\ t.present = d.present /\ t \in States
  BY <1>1, <1>3, <1>4, <1>5 DEF States
<1>7. QED
  BY <1>2, <1>5, <1>6 DEF d, t

LEMMA BindAliasIsWf ==
  ASSUME NEW g, ~Apart(g), NEW s, Wf(g, s), NEW x \in Names, NEW y \in Names, x # y
  PROVE  Wf(g, BindAlias(s, x, y))
<1>1. CASE s.alias[y] = NoRoot
  BY <1>1, DropIsWf DEF BindAlias
<1>2. CASE s.alias[y] # NoRoot
  <2> DEFINE d == Drop(s, x)
             t == BindAlias(s, x, y)
  <2>1. /\ Wf(g, d) /\ d.alias[y] = s.alias[y] /\ d.alias[x] = NoRoot
        /\ t \in States /\ t.alias = [d.alias EXCEPT ![x] = d.alias[y]]
        /\ t.dicts = d.dicts /\ t.colls = d.colls /\ t.keys = d.keys /\ t.rel = d.rel /\ t.present = d.present
    BY <1>2, BindAliasShape
  <2> HIDE DEF d, t
  <2>2. /\ d \in States /\ Known(d) \subseteq ValuesOf(d) /\ d.colls = {} /\ d.rel = {}
        /\ \A r \in Roots \ d.dicts : d.present[r] = {}
        /\ \A n \in Names : d.alias[n] # NoRoot => d.alias[n] \in d.dicts
    BY <2>1 DEF Wf
  <2>3. d.alias \in [Names -> Roots \cup {NoRoot}] /\ d.dicts \subseteq Roots /\ d.colls \subseteq Roots
    BY <2>2, StateFields
  <2>4. Known(t) \subseteq ValuesOf(t)
    <3>1. SUFFICES ASSUME NEW r \in Known(d) PROVE r \in ValuesOf(t)
      BY <2>1 DEF Known
    <3>2. PICK n \in Names : d.alias[n] = r
      BY <2>2 DEF ValuesOf
    <3>3. r # NoRoot /\ n # x
      BY <2>1, <2>3, <3>2, NoRootIsNone DEF Known
    <3>4. QED
      BY <2>1, <2>3, <3>2, <3>3 DEF ValuesOf
  <2>5. \A n \in Names : t.alias[n] # NoRoot => t.alias[n] \in t.dicts
    BY <2>1, <2>2, <2>3
  <2>6. QED
    BY <2>1, <2>2, <2>4, <2>5 DEF Wf, t
<1>3. QED
  BY <1>1, <1>2

LEMMA BindAliasIsOk ==
  ASSUME NEW g, NEW s, Wf(g, s), NEW x \in Names, NEW y \in Names, x # y,
         NEW e, NEW f, NEW h, Ok(s, e, h),
         \A n \in Names \ {x} : f[n] = e[n], f[x] = e[y]
  PROVE  Ok(BindAlias(s, x, y), f, h)
<1>0. s \in States
  BY DEF Wf
<1>1. Ok(Drop(s, x), f, h)
  BY <1>0, DropIsOk
<1>2. CASE s.alias[y] = NoRoot
  BY <1>1, <1>2 DEF BindAlias
<1>3. CASE s.alias[y] # NoRoot
  <2> DEFINE d == Drop(s, x)
             t == BindAlias(s, x, y)
             twin(n) == IF n = x THEN y ELSE n
  <2>1. /\ d \in States /\ t.alias = [d.alias EXCEPT ![x] = d.alias[y]]
        /\ t.dicts = d.dicts /\ t.keys = d.keys /\ t.rel = d.rel /\ t.present = d.present
    BY <1>3, BindAliasShape DEF Wf
  <2>2. Ok(d, f, h)
    BY <1>1
  <2> HIDE DEF d, t
  <2>3. d.alias \in [Names -> Roots \cup {NoRoot}]
    BY <2>1, StateFields
  <2>4. \A n \in Names : twin(n) \in Names /\ t.alias[n] = d.alias[twin(n)] /\ f[n] = f[twin(n)]
    BY <2>1, <2>3
  <2> HIDE DEF twin
  <2>5. DictsOk(t, f, h)
    <3>1. SUFFICES ASSUME NEW n \in Names, t.alias[n] \in t.dicts
                   PROVE  /\ IsA("dict", f[n], h) /\ t.keys[t.alias[n]] \subseteq h[f[n]].keys
                          /\ \A k \in t.present[t.alias[n]] : f[k] \in h[f[n]].keys
      BY DEF DictsOk
    <3>2. d.alias[twin(n)] \in d.dicts /\ twin(n) \in Names
      BY <2>1, <2>4, <3>1
    <3>3. /\ IsA("dict", f[twin(n)], h) /\ d.keys[d.alias[twin(n)]] \subseteq h[f[twin(n)]].keys
          /\ \A k \in d.present[d.alias[twin(n)]] : f[k] \in h[f[twin(n)]].keys
      BY <2>2, <3>2 DEF Ok, DictsOk
    <3>4. t.alias[n] = d.alias[twin(n)] /\ f[n] = f[twin(n)] /\ t.keys = d.keys /\ t.present = d.present
      BY <2>1, <2>4
    <3>5. QED
      BY <3>3, <3>4
  <2>6. RelationsOk(t, f, h)
    BY <2>1, <2>2, <2>4 DEF Ok, RelationsOk
  <2>7. RootsOk(t, f)
    BY <2>1, <2>2, <2>4 DEF Ok, RootsOk
  <2>8. QED
    BY <2>5, <2>6, <2>7 DEF Ok, t
<1>4. QED
  BY <1>2, <1>3

-----------------------------------------------------------------------------
(* What conditions add *)

(* More names are known to be keys of dicts. *)
More(t, s) ==
  /\ t \in States /\ t.alias = s.alias /\ t.dicts = s.dicts /\ t.colls = s.colls /\ t.keys = s.keys /\ t.rel = s.rel
  /\ \A r \in Roots \ s.dicts : t.present[r] = s.present[r]

LEMMA MoreIsWf ==
  ASSUME NEW g, NEW s, Wf(g, s), NEW t, More(t, s)
  PROVE  Wf(g, t)
  BY DEF More, Wf, Known, ValuesOf

LEMMA MoreIsOk ==
  ASSUME NEW s, NEW t, More(t, s), NEW e, NEW h, Ok(s, e, h),
         \A n \in Names : s.alias[n] \in s.dicts => \A k \in t.present[s.alias[n]] : e[k] \in h[e[n]].keys
  PROVE  Ok(t, e, h)
<1>1. DictsOk(t, e, h)
  BY DEF More, Ok, DictsOk
<1>2. RelationsOk(t, e, h) /\ RootsOk(t, e)
  BY DEF More, Ok, RelationsOk, RootsOk
<1>3. QED
  BY <1>1, <1>2 DEF Ok

LEMMA AddPresentIsMore ==
  ASSUME NEW s \in States, NEW d \in Names, NEW k \in Names
  PROVE  /\ More(AddPresent(s, d, k), s)
         /\ \A r \in Roots : AddPresent(s, d, k).present[r] \subseteq s.present[r] \cup (IF r = s.alias[d] THEN {k} ELSE {})
<1>0. /\ s.present \in [Roots -> SUBSET Names] /\ s.dicts \subseteq Roots
  BY StateFields
<1>1. CASE s.alias[d] \in s.dicts
  <2> DEFINE t == [s EXCEPT !.present[s.alias[d]] = @ \cup {k}]
  <2>1. AddPresent(s, d, k) = t
    BY <1>1 DEF AddPresent
  <2>2. /\ t \in States /\ t.alias = s.alias /\ t.dicts = s.dicts /\ t.colls = s.colls /\ t.keys = s.keys /\ t.rel = s.rel
        /\ t.present = [s.present EXCEPT ![s.alias[d]] = @ \cup {k}]
    BY <1>0, <1>1 DEF States
  <2> HIDE DEF t
  <2>3. More(t, s)
    BY <2>2, <1>0, <1>1 DEF More
  <2>4. \A r \in Roots : t.present[r] \subseteq s.present[r] \cup (IF r = s.alias[d] THEN {k} ELSE {})
    BY <2>2, <1>0
  <2>5. QED
    BY <2>1, <2>3, <2>4
<1>2. CASE s.alias[d] \notin s.dicts
  BY <1>2 DEF AddPresent, More
<1>3. QED
  BY <1>1, <1>2

LEMMA AddMembershipIsMore ==
  ASSUME NEW g, NEW s, Wf(g, s), NEW c \in Names, NEW k \in Names
  PROVE  /\ More(AddMembership(s, c, k), s)
         /\ \A r \in Roots : AddMembership(s, c, k).present[r]
                               \subseteq s.present[r] \cup (IF <<s.alias[c], r>> \in s.rel THEN {k} ELSE {})
<1> DEFINE t == [s EXCEPT !.present = [r \in Roots |-> IF <<s.alias[c], r>> \in s.rel THEN @[r] \cup {k} ELSE @[r]]]
<1>0. s \in States /\ \A p \in s.rel : p[2] \in s.dicts
  BY DEF Wf
<1>1. s.present \in [Roots -> SUBSET Names]
  BY <1>0, StateFields
<1>2. AddMembership(s, c, k) = t
  BY DEF AddMembership
<1>3. /\ t \in States /\ t.alias = s.alias /\ t.dicts = s.dicts /\ t.colls = s.colls /\ t.keys = s.keys /\ t.rel = s.rel
      /\ t.present = [r \in Roots |-> IF <<s.alias[c], r>> \in s.rel THEN s.present[r] \cup {k} ELSE s.present[r]]
  BY <1>0, <1>1 DEF States
<1> HIDE DEF t
<1>4. \A r \in Roots \ s.dicts : <<s.alias[c], r>> \notin s.rel
  <2>1. SUFFICES ASSUME NEW r \in Roots \ s.dicts, <<s.alias[c], r>> \in s.rel PROVE FALSE
    OBVIOUS
  <2>2. <<s.alias[c], r>>[2] \in s.dicts
    BY <2>1, <1>0
  <2>3. QED
    BY <2>1, <2>2
<1>5. More(t, s)
  BY <1>3, <1>4 DEF More
<1>6. \A r \in Roots : t.present[r] \subseteq s.present[r] \cup (IF <<s.alias[c], r>> \in s.rel THEN {k} ELSE {})
  BY <1>3
<1>7. QED
  BY <1>2, <1>5, <1>6

LEMMA AddPresentIsOk ==
  ASSUME NEW s \in States, NEW d \in Names, NEW k \in Names, NEW e, NEW h, Ok(s, e, h), e[k] \in h[e[d]].keys
  PROVE  Ok(AddPresent(s, d, k), e, h)
<1> DEFINE t == AddPresent(s, d, k)
<1>1. /\ More(t, s)
      /\ \A r \in Roots : t.present[r] \subseteq s.present[r] \cup (IF r = s.alias[d] THEN {k} ELSE {})
  BY AddPresentIsMore
<1> HIDE DEF t
<1>2. s.dicts \subseteq Roots
  BY StateFields
<1>3. \A n \in Names : s.alias[n] \in s.dicts => \A j \in t.present[s.alias[n]] : e[j] \in h[e[n]].keys
  <2>1. SUFFICES ASSUME NEW n \in Names, s.alias[n] \in s.dicts, NEW j \in t.present[s.alias[n]]
                 PROVE  e[j] \in h[e[n]].keys
    OBVIOUS
  <2>2. CASE j \in s.present[s.alias[n]]
    BY <2>1, <2>2 DEF Ok, DictsOk
  <2>3. CASE j = k /\ s.alias[n] = s.alias[d]
    <3>1. e[n] = e[d]
      BY <2>1, <2>3, <1>2, NoRootIsNone DEF Ok, RootsOk
    <3>2. QED
      BY <2>3, <3>1
  <2>4. QED
    BY <2>1, <2>2, <2>3, <1>1, <1>2
<1>4. Ok(t, e, h)
  BY <1>1, <1>3, MoreIsOk
<1>5. QED
  BY <1>4 DEF t

LEMMA AddMembershipIsOk ==
  ASSUME NEW g, NEW s, Wf(g, s), NEW c \in Names, NEW k \in Names, NEW e, NEW h, Ok(s, e, h), e[k] \in h[e[c]].keys
  PROVE  Ok(AddMembership(s, c, k), e, h)
<1> DEFINE t == AddMembership(s, c, k)
<1>1. /\ More(t, s)
      /\ \A r \in Roots : t.present[r] \subseteq s.present[r] \cup (IF <<s.alias[c], r>> \in s.rel THEN {k} ELSE {})
  BY AddMembershipIsMore
<1> HIDE DEF t
<1>2. s.dicts \subseteq Roots
  BY StateFields DEF Wf
<1>3. \A n \in Names : s.alias[n] \in s.dicts => \A j \in t.present[s.alias[n]] : e[j] \in h[e[n]].keys
  <2>1. SUFFICES ASSUME NEW n \in Names, s.alias[n] \in s.dicts, NEW j \in t.present[s.alias[n]]
                 PROVE  e[j] \in h[e[n]].keys
    OBVIOUS
  <2>2. CASE j \in s.present[s.alias[n]]
    BY <2>1, <2>2 DEF Ok, DictsOk
  <2>3. CASE j = k /\ <<s.alias[c], s.alias[n]>> \in s.rel
    <3>1. h[e[c]].keys \subseteq h[e[n]].keys
      BY <2>3 DEF Ok, RelationsOk
    <3>2. QED
      BY <2>3, <3>1
  <2>4. QED
    BY <2>1, <2>2, <2>3, <1>1, <1>2
<1>4. Ok(t, e, h)
  BY <1>1, <1>3, MoreIsOk
<1>5. QED
  BY <1>4 DEF t

LEMMA AddRelationShape ==
  ASSUME NEW s \in States, NEW c \in Names, NEW d \in Names, s.alias[c] \in s.colls, s.alias[d] \in s.dicts
  PROVE  LET t == AddRelation(s, c, d)
         IN  /\ t \in States /\ t.alias = s.alias /\ t.dicts = s.dicts /\ t.colls = s.colls
             /\ t.keys = s.keys /\ t.present = s.present
             /\ t.rel = s.rel \cup {<<s.alias[c], s.alias[d]>>}
<1> DEFINE t == [s EXCEPT !.rel = @ \cup {<<s.alias[c], s.alias[d]>>}]
<1>1. AddRelation(s, c, d) = t
  BY DEF AddRelation
<1>2. s.dicts \subseteq Roots /\ s.colls \subseteq Roots /\ s.rel \subseteq Roots \X Roots
  BY StateFields
<1>3. <<s.alias[c], s.alias[d]>> \in Roots \X Roots
  BY <1>2
<1>4. /\ t \in States /\ t.alias = s.alias /\ t.dicts = s.dicts /\ t.colls = s.colls
      /\ t.keys = s.keys /\ t.present = s.present
      /\ t.rel = s.rel \cup {<<s.alias[c], s.alias[d]>>}
  BY <1>2, <1>3 DEF States
<1>5. QED
  BY <1>1, <1>4

LEMMA AddRelationIsWf ==
  ASSUME NEW g, NEW s, Wf(g, s), NEW c \in Names, NEW d \in Names
  PROVE  Wf(g, AddRelation(s, c, d))
<1>1. CASE s.alias[c] \in s.colls /\ s.alias[d] \in s.dicts
  <2> DEFINE t == AddRelation(s, c, d)
             p == <<s.alias[c], s.alias[d]>>
  <2>1. /\ t \in States /\ t.alias = s.alias /\ t.dicts = s.dicts /\ t.colls = s.colls
        /\ t.keys = s.keys /\ t.present = s.present /\ t.rel = s.rel \cup {p}
    BY <1>1, AddRelationShape DEF Wf
  <2>2. p[1] \in ValuesOf(s) /\ p[2] \in s.dicts
    BY <1>1 DEF ValuesOf
  <2> HIDE DEF t, p
  <2>3. ValuesOf(t) = ValuesOf(s) /\ Known(t) = Known(s)
    BY <2>1 DEF ValuesOf, Known
  <2>4. \A q \in t.rel : q[1] \in ValuesOf(t) /\ q[2] \in t.dicts
    BY <2>1, <2>2, <2>3 DEF Wf
  <2>5. ~Apart(g) => FALSE
    BY <1>1 DEF Wf
  <2>6. QED
    BY <2>1, <2>3, <2>4, <2>5 DEF Wf, t
<1>2. CASE ~(s.alias[c] \in s.colls /\ s.alias[d] \in s.dicts)
  BY <1>2 DEF AddRelation
<1>3. QED
  BY <1>1, <1>2

LEMMA AddRelationIsOk ==
  ASSUME NEW s \in States, NEW c \in Names, NEW d \in Names, NEW e, NEW h, Ok(s, e, h),
         IsA("coll", e[c], h), IsA("dict", e[d], h), h[e[c]].keys \subseteq h[e[d]].keys
  PROVE  Ok(AddRelation(s, c, d), e, h)
<1>1. CASE s.alias[c] \in s.colls /\ s.alias[d] \in s.dicts
  <2> DEFINE t == AddRelation(s, c, d)
  <2>1. /\ t \in States /\ t.alias = s.alias /\ t.dicts = s.dicts
        /\ t.keys = s.keys /\ t.present = s.present /\ t.rel = s.rel \cup {<<s.alias[c], s.alias[d]>>}
    BY <1>1, AddRelationShape
  <2> HIDE DEF t
  <2>2. s.dicts \subseteq Roots /\ s.colls \subseteq Roots
    BY StateFields
  <2>3. DictsOk(t, e, h) /\ RootsOk(t, e)
    BY <2>1 DEF Ok, DictsOk, RootsOk
  <2>4. RelationsOk(t, e, h)
    <3>1. SUFFICES ASSUME NEW m \in Names, NEW n \in Names, <<s.alias[m], s.alias[n]>> \in t.rel
                   PROVE  IsA("coll", e[m], h) /\ IsA("dict", e[n], h) /\ h[e[m]].keys \subseteq h[e[n]].keys
      BY <2>1 DEF RelationsOk
    <3>2. CASE <<s.alias[m], s.alias[n]>> \in s.rel
      BY <3>2 DEF Ok, RelationsOk
    <3>3. CASE <<s.alias[m], s.alias[n]>> = <<s.alias[c], s.alias[d]>>
      <4>1. s.alias[m] = s.alias[c] /\ s.alias[n] = s.alias[d] /\ s.alias[m] # NoRoot /\ s.alias[n] # NoRoot
        BY <3>3, <1>1, <2>2, NoRootIsNone
      <4>2. e[m] = e[c] /\ e[n] = e[d]
        BY <4>1 DEF Ok, RootsOk
      <4>3. QED
        BY <4>2
    <3>4. QED
      BY <3>1, <3>2, <3>3, <2>1
  <2>5. QED
    BY <2>3, <2>4 DEF Ok, t
<1>2. CASE ~(s.alias[c] \in s.colls /\ s.alias[d] \in s.dicts)
  BY <1>2 DEF AddRelation
<1>3. QED
  BY <1>1, <1>2

-----------------------------------------------------------------------------
(* Joins *)

LEMMA MergedShape ==
  ASSUME NEW paths, paths # {}, \A s \in paths : s \in States
  PROVE  LET m == Merged(paths)
         IN  /\ m \in States
             /\ \A n \in Names : m.alias[n] # NoRoot => \A s \in paths : s.alias[n] = m.alias[n]
             /\ \A n \in Names, r \in Roots : (\A s \in paths : s.alias[n] = r) => m.alias[n] = r
             /\ m.dicts = {r \in ValuesOf(m) : \A s \in paths : r \in s.dicts}
             /\ m.colls \subseteq ValuesOf(m) /\ \A s \in paths : m.colls \subseteq s.colls
             /\ \A p : p \in m.rel <=> \A s \in paths : p \in s.rel
             /\ \A r \in Roots \ m.dicts : m.present[r] = {}
             /\ \A s \in paths : Weaker(m, s)
<1> DEFINE some  == CHOOSE s \in paths : TRUE
           alias == [n \in Names |-> IF \A s \in paths : s.alias[n] = some.alias[n] THEN some.alias[n] ELSE NoRoot]
           roots == {alias[n] : n \in Names}
           dicts == {r \in roots : \A s \in paths : r \in s.dicts}
           colls == {r \in roots : \A s \in paths : r \in s.colls /\ s.elems[r] = some.elems[r]}
           keys == [r \in Roots |-> {a \in Keys : r \in dicts /\ \A s \in paths : a \in s.keys[r]}]
           elems == [r \in Roots |-> IF r \in colls THEN some.elems[r] ELSE {}]
           rel == {p \in some.rel : \A s \in paths : p \in s.rel}
           present == [r \in Roots |-> {n \in Names : r \in dicts /\ \A s \in paths : n \in s.present[r]}]
           m == Merged(paths)
<1>1. m = [alias |-> alias, dicts |-> dicts, colls |-> colls, keys |-> keys, elems |-> elems, rel |-> rel, present |-> present]
  BY DEF Merged
<1>2. some \in paths /\ some \in States
  OBVIOUS
<1> HIDE DEF some
<1>3. /\ some.alias \in [Names -> Roots \cup {NoRoot}] /\ some.dicts \subseteq Roots /\ some.colls \subseteq Roots
      /\ some.elems \in [Roots -> SUBSET Keys] /\ some.rel \subseteq Roots \X Roots
  BY <1>2, StateFields
<1>4. alias \in [Names -> Roots \cup {NoRoot}]
  BY <1>3
<1>5. dicts \subseteq Roots /\ colls \subseteq Roots
  BY <1>2, <1>3
<1>6. keys \in [Roots -> SUBSET Keys] /\ present \in [Roots -> SUBSET Names]
  OBVIOUS
<1>7. elems \in [Roots -> SUBSET Keys]
  BY <1>3
<1>8. rel \subseteq Roots \X Roots
  BY <1>3
<1>9. \A n \in Names : alias[n] # NoRoot => \A s \in paths : s.alias[n] = alias[n]
  OBVIOUS
<1>10. \A n \in Names, r \in Roots : (\A s \in paths : s.alias[n] = r) => alias[n] = r
  BY <1>2
<1>11. \A p : p \in rel <=> \A s \in paths : p \in s.rel
  BY <1>2
<1>12. \A r \in Roots \ dicts : present[r] = {}
  OBVIOUS
<1>13. \A r \in Roots, s \in paths : keys[r] \subseteq s.keys[r] /\ present[r] \subseteq s.present[r]
  OBVIOUS
<1>14. \A s \in paths : dicts \subseteq s.dicts /\ colls \subseteq s.colls /\ rel \subseteq s.rel
  OBVIOUS
<1>15. colls \subseteq roots
  OBVIOUS
<1>16. dicts = {r \in roots : \A s \in paths : r \in s.dicts}
  OBVIOUS
<1> HIDE DEF alias, dicts, colls, keys, elems, rel, present, m
<1>17. /\ m.alias = alias /\ m.dicts = dicts /\ m.colls = colls /\ m.keys = keys /\ m.elems = elems /\ m.rel = rel
       /\ m.present = present
  BY <1>1
<1>18. m \in States
  BY <1>1, <1>4, <1>5, <1>6, <1>7, <1>8 DEF States
<1>19. ValuesOf(m) = roots
  BY <1>17 DEF ValuesOf
<1>20. \A s \in paths : Weaker(m, s)
  <2>1. SUFFICES ASSUME NEW s \in paths PROVE Weaker(m, s)
    OBVIOUS
  <2>2. \A n \in Names : m.alias[n] \in {NoRoot, s.alias[n]}
    BY <1>9, <1>17
  <2>3. QED
    BY <2>2, <1>13, <1>14, <1>17, <1>18 DEF Weaker
<1>21. m.dicts = {r \in ValuesOf(m) : \A s \in paths : r \in s.dicts}
  BY <1>16, <1>17, <1>19
<1>22. m.colls \subseteq ValuesOf(m) /\ \A s \in paths : m.colls \subseteq s.colls
  BY <1>14, <1>15, <1>17, <1>19
<1>23. QED
  BY <1>9, <1>10, <1>11, <1>12, <1>17, <1>18, <1>20, <1>21, <1>22 DEF m

LEMMA MergedIsWf ==
  ASSUME NEW g, NEW paths, paths # {}, \A s \in paths : Wf(g, s)
  PROVE  Wf(g, Merged(paths))
<1> DEFINE m == Merged(paths)
<1>1. \A s \in paths :
        /\ s \in States /\ Known(s) \subseteq ValuesOf(s)
        /\ \A p \in s.rel : p[1] \in ValuesOf(s) /\ p[2] \in s.dicts
        /\ Apart(g) => \A n \in Names : s.alias[n] # NoRoot => s.alias[n][1] = n
        /\ ~Apart(g) => s.colls = {} /\ s.rel = {} /\ \A n \in Names : s.alias[n] # NoRoot => s.alias[n] \in s.dicts
  BY DEF Wf
<1>2. PICK some \in paths : TRUE
  OBVIOUS
<1>3. /\ m \in States
      /\ \A n \in Names : m.alias[n] # NoRoot => \A s \in paths : s.alias[n] = m.alias[n]
      /\ \A n \in Names, r \in Roots : (\A s \in paths : s.alias[n] = r) => m.alias[n] = r
      /\ m.dicts = {r \in ValuesOf(m) : \A s \in paths : r \in s.dicts}
      /\ m.colls \subseteq ValuesOf(m) /\ \A s \in paths : m.colls \subseteq s.colls
      /\ \A p : p \in m.rel <=> \A s \in paths : p \in s.rel
      /\ \A r \in Roots \ m.dicts : m.present[r] = {}
  BY <1>1, MergedShape
<1> HIDE DEF m
<1>4. Known(m) \subseteq ValuesOf(m)
  BY <1>3 DEF Known
<1>5. CASE Apart(g)
  \* A root is that of the name it is called after, on every path.
  <2>1. \A r \in Roots : (\A s \in paths : r \in ValuesOf(s)) => r \in ValuesOf(m)
    <3>1. SUFFICES ASSUME NEW r \in Roots, \A s \in paths : r \in ValuesOf(s) PROVE r \in ValuesOf(m)
      OBVIOUS
    <3>2. r # NoRoot /\ r[1] \in Names
      BY NoRootIsNone DEF Roots
    <3>3. \A s \in paths : s.alias[r[1]] = r
      BY <3>1, <3>2, <1>1, <1>5 DEF ValuesOf
    <3>4. QED
      BY <3>2, <3>3, <1>3 DEF ValuesOf
  <2>2. \A p \in m.rel : p[1] \in ValuesOf(m) /\ p[2] \in m.dicts
    <3>1. SUFFICES ASSUME NEW p \in m.rel PROVE p[1] \in ValuesOf(m) /\ p[2] \in m.dicts
      OBVIOUS
    <3>2. m.rel \subseteq Roots \X Roots
      BY <1>3, StateFields
    <3>3. p[1] \in Roots /\ p[2] \in Roots
      BY <3>2
    <3>4. \A s \in paths : p[1] \in ValuesOf(s) /\ p[2] \in s.dicts /\ p[2] \in ValuesOf(s)
      BY <1>1, <1>3 DEF Known
    <3>5. QED
      BY <3>3, <3>4, <2>1, <1>3
  <2>3. \A n \in Names : m.alias[n] # NoRoot => m.alias[n][1] = n
    BY <1>1, <1>2, <1>3, <1>5
  <2>4. QED
    BY <2>2, <2>3, <1>3, <1>4, <1>5 DEF Wf, m
<1>6. CASE ~Apart(g)
  <2>1. m.colls = {} /\ m.rel = {}
    BY <1>1, <1>2, <1>3, <1>6
  <2>2. \A n \in Names : m.alias[n] # NoRoot => m.alias[n] \in m.dicts
    BY <1>1, <1>3, <1>6 DEF ValuesOf
  <2>3. QED
    BY <2>1, <2>2, <1>3, <1>4, <1>6 DEF Wf, m
<1>7. QED
  BY <1>5, <1>6

LEMMA MergedIsOk ==
  ASSUME NEW paths, \A s \in paths : s \in States, NEW s \in paths, NEW e, NEW h, Ok(s, e, h)
  PROVE  Ok(Merged(paths), e, h)
<1>1. Weaker(Merged(paths), s)
  BY MergedShape
<1>2. QED
  BY <1>1, WeakerIsOk

LEMMA JoinIsVisitable ==
  ASSUME NEW g, NEW paths, \A s \in paths : Visitable(g, s)
  PROVE  Visitable(g, Join(paths))
<1>1. CASE paths \subseteq {Dead}
  BY <1>1 DEF Join, Visitable
<1>2. CASE ~(paths \subseteq {Dead})
  <2>1. paths \ {Dead} # {} /\ \A s \in paths \ {Dead} : Wf(g, s)
    BY <1>2 DEF Visitable
  <2>2. Wf(g, Merged(paths \ {Dead}))
    BY <2>1, MergedIsWf
  <2>3. QED
    BY <2>2, <1>2 DEF Join, Visitable
<1>3. QED
  BY <1>1, <1>2

(* A path Python may come along is enough. *)
LEMMA JoinIsLive ==
  ASSUME NEW g, NEW paths, \A s \in paths : Visitable(g, s), NEW s \in paths, NEW e, NEW h, Live(s, e, h)
  PROVE  Live(Join(paths), e, h)
<1>1. s # Dead /\ Ok(s, e, h)
  BY DEF Live
<1>2. \A t \in paths \ {Dead} : Wf(g, t) /\ t \in States
  BY DEF Visitable, Wf
<1>3. Ok(Merged(paths \ {Dead}), e, h) /\ Wf(g, Merged(paths \ {Dead}))
  BY <1>1, <1>2, MergedIsOk, MergedIsWf
<1>4. Join(paths) = Merged(paths \ {Dead})
  BY <1>1 DEF Join
<1>5. QED
  BY <1>3, <1>4, WfIsAlive DEF Live

LEMMA JoinOfTwo ==
  ASSUME NEW g, NEW s, NEW t, Wf(g, s), Wf(g, t)
  PROVE  /\ Wf(g, Join({s, t}))
         /\ \A e, h : Ok(s, e, h) \/ Ok(t, e, h) => Ok(Join({s, t}), e, h)
<1>1. s # Dead /\ t # Dead
  BY WfIsAlive
<1>2. Join({s, t}) = Merged({s, t}) /\ {s, t} # {}
  <2>1. {s, t} \ {Dead} = {s, t} /\ ~({s, t} \subseteq {Dead})
    BY <1>1
  <2>2. QED
    BY <2>1 DEF Join
<1>3. \A p \in {s, t} : Wf(g, p) /\ p \in States
  BY DEF Wf
<1>4. Wf(g, Merged({s, t}))
  BY <1>2, <1>3, MergedIsWf
<1>5. \A e, h : Ok(s, e, h) \/ Ok(t, e, h) => Ok(Merged({s, t}), e, h)
  BY <1>3, MergedIsOk
<1>6. QED
  BY <1>2, <1>4, <1>5

-----------------------------------------------------------------------------
(* Conditions *)

LEMMA AtomIsWf ==
  ASSUME NEW g, NEW s, Wf(g, s), NEW t, IsAtom(t)
  PROVE  Wf(g, Atom(t, s).true) /\ Wf(g, Atom(t, s).false)
<1>0. s \in States
  BY DEF Wf
<1>1. CASE t.op = "in"
  <2>1. t.x \in Names /\ t.k \in Names
    BY <1>1 DEF IsAtom
  <2>2. Wf(g, AddPresent(s, t.x, t.k))
    BY <1>0, <2>1, AddPresentIsMore, MoreIsWf
  <2>3. Wf(g, AddMembership(AddPresent(s, t.x, t.k), t.x, t.k))
    BY <2>1, <2>2, AddMembershipIsMore, MoreIsWf
  <2>4. Atom(t, s) = [true |-> AddMembership(AddPresent(s, t.x, t.k), t.x, t.k), false |-> s]
    BY <1>1 DEF Atom
  <2>5. QED
    BY <2>3, <2>4
<1>2. CASE t.op = "subset"
  <2>1. t.x \in Names /\ t.c \in Names
    BY <1>2 DEF IsAtom
  <2>2. Wf(g, AddRelation(s, t.c, t.x))
    BY <2>1, AddRelationIsWf
  <2>3. Atom(t, s) = [true |-> AddRelation(s, t.c, t.x), false |-> s]
    BY <1>2 DEF Atom
  <2>4. QED
    BY <2>2, <2>3
<1>3. CASE t.op = "const"
  BY <1>3 DEF Atom
<1>4. CASE t.op = "opaque"
  BY <1>4, FreshIsWf DEF Atom
<1>5. QED
  BY <1>1, <1>2, <1>3, <1>4 DEF IsAtom

(* What the test is about, without its not *)
Meant(t) ==
  CASE t.op = "in" -> env[t.k] \in KeysOf(t.x)
    [] t.op = "subset" -> Is(t.c, "coll") /\ Is(t.x, "dict") /\ KeysOf(t.c) \subseteq KeysOf(t.x)
    [] OTHER -> TRUE

LEMMA AtomIsOk ==
  ASSUME NEW g, NEW s, Wf(g, s), NEW t, IsAtom(t), Ok(s, env, heap)
  PROVE  /\ Ok(Atom(t, s).false, env, heap)
         /\ Meant(t) => Ok(Atom(t, s).true, env, heap)
<1>0. s \in States
  BY DEF Wf
<1>1. CASE t.op = "in"
  <2>1. t.x \in Names /\ t.k \in Names
    BY <1>1 DEF IsAtom
  <2>2. Wf(g, AddPresent(s, t.x, t.k))
    BY <1>0, <2>1, AddPresentIsMore, MoreIsWf
  <2>3. ASSUME Meant(t) PROVE Ok(AddMembership(AddPresent(s, t.x, t.k), t.x, t.k), env, heap)
    <3>1. env[t.k] \in heap[env[t.x]].keys
      BY <2>3, <1>1 DEF Meant, KeysOf
    <3>2. Ok(AddPresent(s, t.x, t.k), env, heap)
      BY <1>0, <2>1, <3>1, AddPresentIsOk
    <3>3. QED
      BY <2>1, <2>2, <3>1, <3>2, AddMembershipIsOk
  <2>4. Atom(t, s) = [true |-> AddMembership(AddPresent(s, t.x, t.k), t.x, t.k), false |-> s]
    BY <1>1 DEF Atom
  <2>5. QED
    BY <2>3, <2>4
<1>2. CASE t.op = "subset"
  <2>1. t.x \in Names /\ t.c \in Names
    BY <1>2 DEF IsAtom
  <2>2. ASSUME Meant(t) PROVE Ok(AddRelation(s, t.c, t.x), env, heap)
    <3>1. IsA("coll", env[t.c], heap) /\ IsA("dict", env[t.x], heap) /\ heap[env[t.c]].keys \subseteq heap[env[t.x]].keys
      BY <2>2, <1>2 DEF Meant, KeysOf, Is, IsA
    <3>2. QED
      BY <1>0, <2>1, <3>1, AddRelationIsOk
  <2>3. Atom(t, s) = [true |-> AddRelation(s, t.c, t.x), false |-> s]
    BY <1>2 DEF Atom
  <2>4. QED
    BY <2>2, <2>3
<1>3. CASE t.op = "const"
  BY <1>3 DEF Atom
<1>4. CASE t.op = "opaque"
  BY <1>4, FreshIsOk DEF Atom
<1>5. QED
  BY <1>1, <1>2, <1>3, <1>4 DEF IsAtom

LEMMA SignOf ==
  ASSUME NEW S, NEW n \in BOOLEAN, NEW k \in BOOLEAN, S \subseteq {k # n}
  PROVE  /\ S \subseteq BOOLEAN
         /\ n = FALSE /\ TRUE \in S => k
         /\ n = TRUE /\ FALSE \in S => k
<1>1. CASE n = TRUE /\ k = TRUE
  <2>1. S \subseteq {FALSE}
    BY <1>1
  <2>2. QED
    BY <1>1, <2>1
<1>2. CASE n = TRUE /\ k = FALSE
  <2>1. S \subseteq {TRUE}
    BY <1>2
  <2>2. QED
    BY <1>2, <2>1
<1>3. CASE n = FALSE /\ k = TRUE
  <2>1. S \subseteq {TRUE}
    BY <1>3
  <2>2. QED
    BY <1>3, <2>1
<1>4. CASE n = FALSE /\ k = FALSE
  <2>1. S \subseteq {FALSE}
    BY <1>4
  <2>2. QED
    BY <1>4, <2>1
<1>5. QED
  BY <1>1, <1>2, <1>3, <1>4

LEMMA AtomTruthsMean ==
  ASSUME NEW t, IsAtom(t)
  PROVE  /\ AtomTruths(t) \subseteq BOOLEAN
         /\ t.op \in {"in", "subset"} /\ t.not = FALSE /\ TRUE \in AtomTruths(t) => Meant(t)
         /\ t.op \in {"in", "subset"} /\ t.not = TRUE /\ FALSE \in AtomTruths(t) => Meant(t)
         /\ t.op \notin {"in", "subset"} => Meant(t)
<1>0. t.not \in BOOLEAN
  BY DEF IsAtom
<1>1. CASE t.op = "in"
  <2>1. AtomTruths(t) \subseteq {(env[t.k] \in KeysOf(t.x)) # t.not}
    BY <1>1 DEF AtomTruths
  <2>2. Meant(t) <=> env[t.k] \in KeysOf(t.x)
    BY <1>1 DEF Meant
  <2> DEFINE k == env[t.k] \in KeysOf(t.x)
  <2>3. k \in BOOLEAN
    OBVIOUS
  <2>4. AtomTruths(t) \subseteq {k # t.not} /\ (k => Meant(t))
    BY <2>1, <2>2
  <2> HIDE DEF k
  <2>5. /\ AtomTruths(t) \subseteq BOOLEAN
        /\ t.not = FALSE /\ TRUE \in AtomTruths(t) => k
        /\ t.not = TRUE /\ FALSE \in AtomTruths(t) => k
    BY <1>0, <2>3, <2>4, SignOf
  <2>6. QED
    BY <1>1, <2>4, <2>5
<1>2. CASE t.op = "subset"
  <2>1. /\ AtomTruths(t) \subseteq {(KeysOf(t.c) \subseteq KeysOf(t.x)) # t.not}
        /\ AtomTruths(t) # {} => Is(t.c, "coll") /\ Is(t.x, "dict")
    BY <1>2 DEF AtomTruths
  <2>2. Meant(t) <=> Is(t.c, "coll") /\ Is(t.x, "dict") /\ KeysOf(t.c) \subseteq KeysOf(t.x)
    BY <1>2 DEF Meant
  <2> DEFINE within == KeysOf(t.c) \subseteq KeysOf(t.x)
  <2>3. within \in BOOLEAN
    OBVIOUS
  <2>4. AtomTruths(t) \subseteq {within # t.not} /\ (AtomTruths(t) # {} /\ within => Meant(t))
    BY <2>1, <2>2
  <2> HIDE DEF within
  <2>5. /\ AtomTruths(t) \subseteq BOOLEAN
        /\ t.not = FALSE /\ TRUE \in AtomTruths(t) => within
        /\ t.not = TRUE /\ FALSE \in AtomTruths(t) => within
    BY <1>0, <2>3, <2>4, SignOf
  <2>6. QED
    BY <1>2, <2>4, <2>5
<1>3. CASE t.op \notin {"in", "subset"}
  BY <1>3 DEF AtomTruths, Meant
<1>4. QED
  BY <1>1, <1>2, <1>3

LEMMA SignedIsSound ==
  ASSUME NEW g, NEW s, Wf(g, s), NEW t, IsAtom(t)
  PROVE  /\ Wf(g, Signed(t, s).true) /\ Wf(g, Signed(t, s).false)
         /\ AtomTruths(t) \subseteq BOOLEAN
         /\ Ok(s, env, heap) => /\ TRUE \in AtomTruths(t) => Ok(Signed(t, s).true, env, heap)
                                /\ FALSE \in AtomTruths(t) => Ok(Signed(t, s).false, env, heap)
<1>1. /\ AtomTruths(t) \subseteq BOOLEAN
      /\ t.not = FALSE /\ TRUE \in AtomTruths(t) => Meant(t)
      /\ t.not = TRUE /\ FALSE \in AtomTruths(t) => Meant(t)
  BY AtomTruthsMean
<1>2. CASE t.not = FALSE
  <2>1. Signed(t, s) = Atom(t, s)
    BY <1>2 DEF Signed
  <2>2. QED
    BY <1>1, <1>2, <2>1, AtomIsWf, AtomIsOk
<1>3. CASE t.not = TRUE
  <2>1. Signed(t, s).true = Atom(t, s).false /\ Signed(t, s).false = Atom(t, s).true
    BY <1>3 DEF Signed, Negate
  <2>2. QED
    BY <1>1, <1>3, <2>1, AtomIsWf, AtomIsOk
<1>4. QED
  BY <1>2, <1>3 DEF IsAtom

(* The state of a branch is right where Python takes it. *)
LEMMA ConditionIsSound ==
  ASSUME NEW g, NEW s, Wf(g, s), NEW t, IsTest(t)
  PROVE  /\ Wf(g, Condition(t, s).true) /\ Wf(g, Condition(t, s).false)
         /\ Truths(t) \subseteq BOOLEAN
         /\ Ok(s, env, heap) => /\ TRUE \in Truths(t) => Ok(Condition(t, s).true, env, heap)
                                /\ FALSE \in Truths(t) => Ok(Condition(t, s).false, env, heap)
<1>1. CASE t.op \notin {"and", "or"}
  <2>1. Condition(t, s) = Signed(t, s) /\ Truths(t) = AtomTruths(t) /\ IsAtom(t)
    BY <1>1 DEF Condition, Truths, IsTest
  <2>2. QED
    BY <2>1, SignedIsSound
<1>2. CASE t.op = "and"
  <2> DEFINE one == Signed(t.one, s)
             two == Signed(t.two, one.true)
  <2>1. /\ IsAtom(t.one) /\ IsAtom(t.two)
        /\ Condition(t, s) = [true |-> two.true, false |-> Join({one.false, two.false})]
        /\ Truths(t) = (AtomTruths(t.one) \cap {FALSE}) \cup (IF TRUE \in AtomTruths(t.one) THEN AtomTruths(t.two) ELSE {})
    BY <1>2 DEF Condition, Truths, IsTest
  <2>2. /\ Wf(g, one.true) /\ Wf(g, one.false) /\ AtomTruths(t.one) \subseteq BOOLEAN
        /\ Ok(s, env, heap) => /\ TRUE \in AtomTruths(t.one) => Ok(one.true, env, heap)
                               /\ FALSE \in AtomTruths(t.one) => Ok(one.false, env, heap)
    BY <2>1, SignedIsSound
  <2>3. /\ Wf(g, two.true) /\ Wf(g, two.false) /\ AtomTruths(t.two) \subseteq BOOLEAN
        /\ Ok(one.true, env, heap) => /\ TRUE \in AtomTruths(t.two) => Ok(two.true, env, heap)
                                      /\ FALSE \in AtomTruths(t.two) => Ok(two.false, env, heap)
    BY <2>1, <2>2, SignedIsSound
  <2> HIDE DEF one, two
  <2>4. /\ Wf(g, Join({one.false, two.false}))
        /\ Ok(one.false, env, heap) \/ Ok(two.false, env, heap) => Ok(Join({one.false, two.false}), env, heap)
    BY <2>2, <2>3, JoinOfTwo
  <2>5. Condition(t, s).true = two.true /\ Condition(t, s).false = Join({one.false, two.false})
    BY <2>1
  <2>6. Truths(t) \subseteq BOOLEAN
    BY <2>1, <2>2, <2>3
  <2>7. TRUE \in Truths(t) => TRUE \in AtomTruths(t.one) /\ TRUE \in AtomTruths(t.two)
    BY <2>1
  <2>8. FALSE \in Truths(t) => FALSE \in AtomTruths(t.one) \/ (TRUE \in AtomTruths(t.one) /\ FALSE \in AtomTruths(t.two))
    BY <2>1
  <2>9. QED
    BY <2>2, <2>3, <2>4, <2>5, <2>6, <2>7, <2>8
<1>3. CASE t.op = "or"
  <2> DEFINE one == Signed(t.one, s)
             two == Signed(t.two, one.false)
  <2>1. /\ IsAtom(t.one) /\ IsAtom(t.two)
        /\ Condition(t, s) = [true |-> Join({one.true, two.true}), false |-> two.false]
        /\ Truths(t) = (AtomTruths(t.one) \cap {TRUE}) \cup (IF FALSE \in AtomTruths(t.one) THEN AtomTruths(t.two) ELSE {})
    BY <1>3 DEF Condition, Truths, IsTest
  <2>2. /\ Wf(g, one.true) /\ Wf(g, one.false) /\ AtomTruths(t.one) \subseteq BOOLEAN
        /\ Ok(s, env, heap) => /\ TRUE \in AtomTruths(t.one) => Ok(one.true, env, heap)
                               /\ FALSE \in AtomTruths(t.one) => Ok(one.false, env, heap)
    BY <2>1, SignedIsSound
  <2>3. /\ Wf(g, two.true) /\ Wf(g, two.false) /\ AtomTruths(t.two) \subseteq BOOLEAN
        /\ Ok(one.false, env, heap) => /\ TRUE \in AtomTruths(t.two) => Ok(two.true, env, heap)
                                       /\ FALSE \in AtomTruths(t.two) => Ok(two.false, env, heap)
    BY <2>1, <2>2, SignedIsSound
  <2> HIDE DEF one, two
  <2>4. /\ Wf(g, Join({one.true, two.true}))
        /\ Ok(one.true, env, heap) \/ Ok(two.true, env, heap) => Ok(Join({one.true, two.true}), env, heap)
    BY <2>2, <2>3, JoinOfTwo
  <2>5. Condition(t, s).false = two.false /\ Condition(t, s).true = Join({one.true, two.true})
    BY <2>1
  <2>6. Truths(t) \subseteq BOOLEAN
    BY <2>1, <2>2, <2>3
  <2>7. FALSE \in Truths(t) => FALSE \in AtomTruths(t.one) /\ FALSE \in AtomTruths(t.two)
    BY <2>1
  <2>8. TRUE \in Truths(t) => TRUE \in AtomTruths(t.one) \/ (FALSE \in AtomTruths(t.one) /\ TRUE \in AtomTruths(t.two))
    BY <2>1
  <2>9. QED
    BY <2>2, <2>3, <2>4, <2>5, <2>6, <2>7, <2>8
<1>4. QED
  BY <1>1, <1>2, <1>3

-----------------------------------------------------------------------------
(* Statements *)

(* A statement of a careful grammar *)
Plain(g, st) ==
  /\ IsStatement(st) /\ st.op # "delnested"
  /\ st.op = "alias" => st.x # st.y /\ ~Apart(g)
  /\ st.op = "coll" => Apart(g)

LEMMA CarefulIsPlain ==
  ASSUME Careful, grammar \in DOMAIN Grammars, NEW st \in Statements \cup {Pass}
  PROVE  Plain(grammar, st)
<1>1. CASE st \in Statements
  <2>1. IsStatement(st)
    BY <1>1, GrammarsAreSyntax DEF Statements
  <2>2. st.op # "delnested"
    BY <1>1 DEF Careful, Uses
  <2>3. st.op = "alias" => st.x # st.y /\ ~Apart(grammar)
    BY <1>1 DEF Careful, Apart, Statements
  <2>4. st.op = "coll" => Apart(grammar)
    BY <1>1 DEF Careful, Uses, Apart, Statements
  <2>5. QED
    BY <2>1, <2>2, <2>3, <2>4 DEF Plain
<1>2. CASE st = Pass
  BY <1>2 DEF Plain, Pass, IsStatement, Ops
<1>3. QED
  BY <1>1, <1>2

LEMMA VisitedIsVisitable ==
  ASSUME NEW g, NEW s, Wf(g, s), NEW st, Plain(g, st)
  PROVE  Visitable(g, Visited(st, s))
<1>1. /\ st.op \in Ops
      /\ st.op \notin {"call", "return", "raise", "break", "pass"} => st.x \in Names
      /\ st.op \in {"alias", "box", "swap"} => st.y \in Names
      /\ st.op \in {"dict", "coll"} => st.keys \in SUBSET Keys
      /\ st.op # "delnested" /\ (st.op = "alias" => st.x # st.y /\ ~Apart(g)) /\ (st.op = "coll" => Apart(g))
  BY DEF Plain, IsStatement
<1>2. CASE st.op = "dict"
  BY <1>1, <1>2, BindDictIsWf DEF Visited, Visitable
<1>3. CASE st.op = "coll"
  BY <1>1, <1>3, BindCollIsWf DEF Visited, Visitable
<1>4. CASE st.op = "alias"
  BY <1>1, <1>4, BindAliasIsWf DEF Visited, Visitable
<1>5. CASE st.op \in {"key", "box", "lose"}
  BY <1>1, <1>5, DropIsWf DEF Visited, Visitable
<1>6. CASE st.op = "swap"
  BY <1>1, <1>6, DropIsWf DEF Visited, Visitable
<1>7. CASE st.op \in {"setitem", "delitem", "call"}
  BY <1>7, FreshIsWf DEF Visited, Visitable
<1>8. CASE st.op \in {"return", "raise", "break"}
  BY <1>8 DEF Visited, Visitable
<1>9. CASE st.op = "pass"
  BY <1>9 DEF Visited, Visitable
<1>10. QED
  BY <1>1, <1>2, <1>3, <1>4, <1>5, <1>6, <1>7, <1>8, <1>9 DEF Ops

(* What a statement makes of names and objects, by its kind *)
Rebinds(o, x, v) == o = Outcome([env EXCEPT ![x] = v], heap, "on")
Creates(o, x, object) == \E p \in Objects \ InUse :
  o = Outcome([env EXCEPT ![x] = p], [heap EXCEPT ![p] = object], "on")
Changes(o, p, ks) == o = Outcome(env, [heap EXCEPT ![p].keys = ks], "on")

LEMMA NewCreates ==
  ASSUME NEW st, NEW object, NEW o \in New(st, object)
  PROVE  Creates(o, st.x, object)
<1>1. ~(Objects \subseteq InUse)
  BY DEF New
<1>2. PICK p \in Objects \ InUse : o = Outcome([env EXCEPT ![st.x] = p], [heap EXCEPT ![p] = object], "on")
  BY <1>1 DEF New
<1>3. QED
  BY <1>2 DEF Creates

LEMMA OutcomeCases ==
  ASSUME NEW g, NEW st, Plain(g, st), NEW o \in Outcomes(st), World(g, env, heap)
  PROVE  \/ st.op = "dict" /\ Creates(o, st.x, Object("dict", st.keys, "other"))
         \/ st.op = "coll" /\ Creates(o, st.x, Object("coll", st.keys, "other"))
         \/ st.op = "box" /\ Creates(o, st.x, Object("box", {}, env[st.y]))
         \/ st.op = "alias" /\ Rebinds(o, st.x, env[st.y])
         \/ st.op = "key" /\ Rebinds(o, st.x, st.key)
         \/ st.op = "lose" /\ Rebinds(o, st.x, "other")
         \/ st.op = "swap" /\ o = Outcome([env EXCEPT ![st.x] = env[st.y], ![st.y] = env[st.x]], heap, "on")
         \/ /\ st.op \in {"setitem", "delitem"} /\ IsA("dict", env[st.x], heap)
            /\ \E ks \in SUBSET Keys : Changes(o, env[st.x], ks)
         \/ st.op = "call" /\ \E p \in Objects : Changes(o, p, {})
         \/ st.op = "pass" /\ o = Outcome(env, heap, "on")
         \/ o = Raised
         \/ st.op = "return" /\ o = Outcome(env, heap, "returned")
         \/ st.op = "break" /\ o = Outcome(env, heap, "broke")
<1>1. /\ st.op \in Ops /\ st.op # "delnested"
      /\ st.op \notin {"call", "return", "raise", "break", "pass"} => st.x \in Names
      /\ st.op \in {"setitem", "delitem"} => st.key \in Keys
  BY DEF Plain, IsStatement
<1>2. CASE st.op \in {"dict", "coll", "box"}
  BY <1>2, NewCreates DEF Outcomes
<1>3. CASE st.op \in {"alias", "key", "lose", "swap"}
  BY <1>3 DEF Outcomes, Rebinds
<1>4. CASE st.op \in {"setitem", "delitem"}
  <2> DEFINE ks == IF st.op = "setitem" THEN heap[env[st.x]].keys \cup {st.key} ELSE heap[env[st.x]].keys \ {st.key}
  <2>1. CASE IsA("dict", env[st.x], heap)
    <3>1. heap[env[st.x]].keys \subseteq Keys
      BY <2>1 DEF World, IsA, Heaps
    <3>2. ks \in SUBSET Keys
      BY <1>1, <1>4, <3>1
    <3>3. o = Outcome(env, [heap EXCEPT ![env[st.x]].keys = ks], "on")
      BY <1>4, <2>1 DEF Outcomes, IsA
    <3>4. QED
      BY <1>4, <2>1, <3>2, <3>3 DEF Changes
  <2>2. CASE ~IsA("dict", env[st.x], heap)
    BY <1>4, <2>2 DEF Outcomes, IsA
  <2>3. QED
    BY <2>1, <2>2
<1>5. CASE st.op = "call"
  BY <1>5 DEF Outcomes, Changes
<1>6. CASE st.op \in {"pass", "return", "raise", "break"}
  BY <1>6 DEF Outcomes
<1>7. QED
  BY <1>1, <1>2, <1>3, <1>4, <1>5, <1>6 DEF Ops

LEMMA OutcomeFields ==
  ASSUME NEW e, NEW h, NEW m
  PROVE  Outcome(e, h, m).env = e /\ Outcome(e, h, m).heap = h /\ Outcome(e, h, m).mode = m
  BY DEF Outcome

LEMMA OutcomeModes ==
  ASSUME NEW g, NEW st, Plain(g, st), NEW o \in Outcomes(st), World(g, env, heap)
  PROVE  /\ o.mode \in Modes
         /\ o.mode = "broke" => st.op = "break"
         /\ o.mode = "on" => st.op \notin {"return", "raise", "break"}
<1>1. \A x, v : Rebinds(o, x, v) => o.mode = "on"
  BY OutcomeFields DEF Rebinds
<1>2. \A x, v : Creates(o, x, v) => o.mode = "on"
  BY OutcomeFields DEF Creates
<1>3. \A x, v : Changes(o, x, v) => o.mode = "on"
  BY OutcomeFields DEF Changes
<1>4. o = Raised => o.mode = "raised"
  BY OutcomeFields DEF Raised
<1>5. \/ o.mode = "on" /\ st.op \notin {"return", "raise", "break"}
      \/ o.mode = "raised"
      \/ o.mode = "returned"
      \/ o.mode = "broke" /\ st.op = "break"
  <2>1. st.op = "swap" /\ o = Outcome([env EXCEPT ![st.x] = env[st.y], ![st.y] = env[st.x]], heap, "on") => o.mode = "on"
    BY OutcomeFields
  <2>2. o = Outcome(env, heap, "on") => o.mode = "on"
    BY OutcomeFields
  <2>3. o = Outcome(env, heap, "returned") => o.mode = "returned"
    BY OutcomeFields
  <2>4. o = Outcome(env, heap, "broke") => o.mode = "broke"
    BY OutcomeFields
  <2>5. QED
    BY <1>1, <1>2, <1>3, <1>4, <2>1, <2>2, <2>3, <2>4, OutcomeCases
<1>6. QED
  BY <1>5 DEF Modes

LEMMA RebindsIsWorld ==
  ASSUME NEW g, World(g, env, heap), NEW x \in Names, NEW v \in Keys \cup Objects \cup {"other"}, NEW o, Rebinds(o, x, v),
         v \in Objects => ~Apart(g)
  PROVE  World(g, o.env, o.heap)
<1>1. o.env = [env EXCEPT ![x] = v] /\ o.heap = heap
  BY OutcomeFields DEF Rebinds
<1>2. o.env \in Envs
  BY <1>1 DEF World, Envs
<1>3. Apart(g) => \A m, n \in Names : o.env[m] = o.env[n] /\ o.env[m] \in Objects => m = n
  BY <1>1 DEF World, Envs
<1>4. QED
  BY <1>1, <1>2, <1>3 DEF World

LEMMA CreatesIsWorld ==
  ASSUME NEW g, World(g, env, heap), NEW x \in Names, NEW o, NEW object,
         object \in [kind : {"free", "dict", "coll", "box"}, keys : SUBSET Keys, of : Keys \cup Objects \cup {"other"}],
         object.kind = "coll" => Apart(g), Creates(o, x, object)
  PROVE  World(g, o.env, o.heap)
<1>0. PICK p \in Objects \ InUse : o = Outcome([env EXCEPT ![x] = p], [heap EXCEPT ![p] = object], "on")
  BY DEF Creates
<1>1. o.env = [env EXCEPT ![x] = p] /\ o.heap = [heap EXCEPT ![p] = object]
  BY <1>0, OutcomeFields
<1>2. o.env \in Envs /\ o.heap \in Heaps
  BY <1>1 DEF World, Envs, Heaps
<1>3. \A n \in Names : env[n] # p
  BY <1>1 DEF InUse
<1>4. Apart(g) => \A m, n \in Names : o.env[m] = o.env[n] /\ o.env[m] \in Objects => m = n
  BY <1>1, <1>3 DEF World, Envs
<1>5. ~Apart(g) => \A q \in Objects : o.heap[q].kind # "coll"
  BY <1>1 DEF World, Heaps
<1>6. QED
  BY <1>2, <1>4, <1>5 DEF World

LEMMA ChangesIsWorld ==
  ASSUME NEW g, World(g, env, heap), NEW p \in Objects, NEW ks \in SUBSET Keys, NEW o, Changes(o, p, ks)
  PROVE  World(g, o.env, o.heap)
<1>1. o.env = env /\ o.heap = [heap EXCEPT ![p].keys = ks]
  BY OutcomeFields DEF Changes
<1>2. o.heap \in Heaps /\ \A q \in Objects : o.heap[q].kind = heap[q].kind
  BY <1>1 DEF World, Heaps
<1>3. QED
  BY <1>1, <1>2 DEF World

LEMMA OutcomeIsWorld ==
  ASSUME NEW g, World(g, env, heap), NEW st, Plain(g, st), NEW o \in Outcomes(st)
  PROVE  World(g, o.env, o.heap)
<1>1. /\ st.op \in Ops
      /\ st.op \notin {"call", "return", "raise", "break", "pass"} => st.x \in Names
      /\ st.op \in {"alias", "box", "swap"} => st.y \in Names
      /\ st.op \in {"dict", "coll"} => st.keys \in SUBSET Keys
      /\ st.op = "key" => st.key \in Keys
      /\ st.op = "alias" => st.x # st.y /\ ~Apart(g)
      /\ st.op = "coll" => Apart(g)
  BY DEF Plain, IsStatement
<1>2. env \in Envs /\ heap \in Heaps
  BY DEF World
<1>3. \A n \in Names : env[n] \in Keys \cup Objects \cup {"other"}
  BY <1>2 DEF Envs
<1>4. CASE st.op = "dict" /\ Creates(o, st.x, Object("dict", st.keys, "other"))
  <2> DEFINE object == Object("dict", st.keys, "other")
  <2>1. /\ object \in [kind : {"free", "dict", "coll", "box"}, keys : SUBSET Keys, of : Keys \cup Objects \cup {"other"}]
        /\ object.kind # "coll"
    BY <1>1, <1>4 DEF Object
  <2> HIDE DEF object
  <2>2. QED
    BY <1>1, <1>4, <2>1, CreatesIsWorld DEF object
<1>5. CASE st.op = "coll" /\ Creates(o, st.x, Object("coll", st.keys, "other"))
  <2> DEFINE object == Object("coll", st.keys, "other")
  <2>1. object \in [kind : {"free", "dict", "coll", "box"}, keys : SUBSET Keys, of : Keys \cup Objects \cup {"other"}]
    BY <1>1, <1>5 DEF Object
  <2> HIDE DEF object
  <2>2. QED
    BY <1>1, <1>5, <2>1, CreatesIsWorld DEF object
<1>6. CASE st.op = "box" /\ Creates(o, st.x, Object("box", {}, env[st.y]))
  <2> DEFINE object == Object("box", {}, env[st.y])
  <2>1. /\ object \in [kind : {"free", "dict", "coll", "box"}, keys : SUBSET Keys, of : Keys \cup Objects \cup {"other"}]
        /\ object.kind # "coll"
    BY <1>1, <1>3, <1>6 DEF Object
  <2> HIDE DEF object
  <2>2. QED
    BY <1>1, <1>6, <2>1, CreatesIsWorld DEF object
<1>7. CASE st.op = "alias" /\ Rebinds(o, st.x, env[st.y])
  BY <1>1, <1>3, <1>7, RebindsIsWorld
<1>8. CASE st.op = "key" /\ Rebinds(o, st.x, st.key)
  BY <1>1, <1>8, RebindsIsWorld, ValuesAreApart
<1>9. CASE st.op = "lose" /\ Rebinds(o, st.x, "other")
  BY <1>1, <1>9, RebindsIsWorld, ValuesAreApart
<1>10. CASE st.op = "swap" /\ o = Outcome([env EXCEPT ![st.x] = env[st.y], ![st.y] = env[st.x]], heap, "on")
  <2>1. /\ st.x \in Names /\ st.y \in Names /\ o.heap = heap
        /\ o.env = [env EXCEPT ![st.x] = env[st.y], ![st.y] = env[st.x]]
    BY <1>1, <1>10, OutcomeFields
  <2>2. o.env \in Envs
    BY <2>1, <1>2 DEF Envs
  <2>3. Apart(g) => \A m, n \in Names : o.env[m] = o.env[n] /\ o.env[m] \in Objects => m = n
    BY <2>1, <1>2 DEF World, Envs
  <2>4. QED
    BY <2>1, <2>2, <2>3 DEF World
<1>11. CASE /\ st.op \in {"setitem", "delitem"} /\ IsA("dict", env[st.x], heap)
            /\ \E ks \in SUBSET Keys : Changes(o, env[st.x], ks)
  BY <1>11, ChangesIsWorld DEF IsA
<1>12. CASE st.op = "call" /\ \E p \in Objects : Changes(o, p, {})
  BY <1>12, ChangesIsWorld
<1>13. CASE o.env = env /\ o.heap = heap
  BY <1>13
<1>14. /\ o = Raised => o.env = env /\ o.heap = heap
       /\ \A m : o = Outcome(env, heap, m) => o.env = env /\ o.heap = heap
  BY OutcomeFields DEF Raised
<1>15. QED
  BY <1>4, <1>5, <1>6, <1>7, <1>8, <1>9, <1>10, <1>11, <1>12, <1>13, <1>14, OutcomeCases

(* What is bound to x is no matter to the names of before. *)
LEMMA CreatesKeepsOthers ==
  ASSUME NEW g, World(g, env, heap), NEW x \in Names, NEW o, NEW object, Creates(o, x, object)
  PROVE  /\ \A n \in Names \ {x} : o.env[n] = env[n]
         /\ \A n \in Names : env[n] \in Objects => o.heap[env[n]] = heap[env[n]]
         /\ o.env[x] \in Objects /\ o.heap[o.env[x]] = object
<1>1. PICK p \in Objects \ InUse : o = Outcome([env EXCEPT ![x] = p], [heap EXCEPT ![p] = object], "on")
  BY DEF Creates
<1>2. o.env = [env EXCEPT ![x] = p] /\ o.heap = [heap EXCEPT ![p] = object]
  BY <1>1, OutcomeFields
<1>3. \A n \in Names : env[n] # p
  BY <1>1 DEF InUse
<1>4. p \in Objects /\ DOMAIN env = Names /\ DOMAIN heap = Objects
  BY <1>1 DEF World, Envs, Heaps
<1>5. o.env[x] = p /\ o.heap[p] = object
  BY <1>2, <1>4
<1>6. \A n \in Names \ {x} : o.env[n] = env[n]
  BY <1>2, <1>4
<1>7. \A n \in Names : env[n] \in Objects => o.heap[env[n]] = heap[env[n]]
  BY <1>2, <1>3, <1>4
<1>8. QED
  BY <1>4, <1>5, <1>6, <1>7

LEMMA RebindsKeepsOthers ==
  ASSUME NEW g, World(g, env, heap), NEW x \in Names, NEW o, NEW v, Rebinds(o, x, v)
  PROVE  /\ \A n \in Names \ {x} : o.env[n] = env[n]
         /\ o.env[x] = v /\ o.heap = heap
<1>1. o.env = [env EXCEPT ![x] = v] /\ o.heap = heap
  BY OutcomeFields DEF Rebinds
<1>2. QED
  BY <1>1 DEF World, Envs

(* The state after a statement is right wherever Python goes on. *)
LEMMA OutcomeIsLive ==
  ASSUME NEW g, World(g, env, heap), NEW s, Wf(g, s), Ok(s, env, heap), NEW st, Plain(g, st),
         NEW o \in Outcomes(st), o.mode = "on"
  PROVE  Live(Visited(st, s), o.env, o.heap)
<1>0. s \in States /\ s # Dead
  BY WfIsAlive
<1>1. /\ st.op \in Ops
      /\ st.op \notin {"call", "return", "raise", "break", "pass"} => st.x \in Names
      /\ st.op \in {"alias", "box", "swap"} => st.y \in Names
      /\ st.op \in {"dict", "coll"} => st.keys \in SUBSET Keys
      /\ st.op = "alias" => st.x # st.y
  BY DEF Plain, IsStatement
<1>2. st.op \notin {"return", "raise", "break"}
  BY OutcomeModes
<1>3. Visited(st, s) # Dead
  <2>1. CASE st.op \in {"dict", "coll", "alias", "key", "box", "lose", "swap", "setitem", "delitem", "call"}
    <3>1. CASE st.op = "dict"
      BY <3>1, <1>1, BindDictIsWf, WfIsAlive DEF Visited
    <3>2. CASE st.op = "coll"
      BY <3>2, <1>1, BindCollIsWf, WfIsAlive DEF Visited, Plain
    <3>3. CASE st.op = "alias"
      BY <3>3, <1>1, BindAliasIsWf, WfIsAlive DEF Visited, Plain
    <3>4. CASE st.op \in {"key", "box", "lose"}
      BY <3>4, <1>1, DropIsWf, WfIsAlive DEF Visited
    <3>5. CASE st.op = "swap"
      BY <3>5, <1>1, DropIsWf, WfIsAlive DEF Visited
    <3>6. CASE st.op \in {"setitem", "delitem", "call"}
      BY <3>6, FreshIsWf, WfIsAlive DEF Visited
    <3>7. QED
      BY <2>1, <3>1, <3>2, <3>3, <3>4, <3>5, <3>6
  <2>2. CASE st.op = "pass"
    BY <2>2, <1>0 DEF Visited
  <2>3. QED
    BY <2>1, <2>2, <1>1, <1>2 DEF Ops, Plain
<1>4. CASE st.op = "dict"
  <2> DEFINE object == Object("dict", st.keys, "other")
  <2>1. Creates(o, st.x, object)
    BY <1>4, OutcomeCases DEF Raised, Outcome
  <2>2. object.kind = "dict" /\ object.keys = st.keys
    BY DEF Object
  <2> HIDE DEF object
  <2>3. /\ \A n \in Names \ {st.x} : o.env[n] = env[n]
        /\ \A n \in Names : env[n] \in Objects => o.heap[env[n]] = heap[env[n]]
        /\ IsA("dict", o.env[st.x], o.heap) /\ st.keys \subseteq o.heap[o.env[st.x]].keys
    BY <2>1, <2>2, <1>1, <1>4, CreatesKeepsOthers DEF IsA
  <2>4. Ok(BindDict(s, st.x, st.keys), o.env, o.heap)
    <3> DEFINE x == st.x
               ks == st.keys
               f == o.env
               k == o.heap
    <3>1. x \in Names /\ ks \in SUBSET Keys
      BY <1>1, <1>4
    <3>2. /\ \A n \in Names \ {x} : f[n] = env[n]
          /\ \A n \in Names : env[n] \in Objects => k[env[n]] = heap[env[n]]
          /\ IsA("dict", f[x], k) /\ ks \subseteq k[f[x]].keys
      BY <2>3
    <3> HIDE DEF x, ks, f, k
    <3>3. Ok(BindDict(s, x, ks), f, k)
      BY <3>1, <3>2, BindDictIsOk
    <3>4. QED
      BY <3>3 DEF x, ks, f, k
  <2>5. QED
    BY <2>4, <1>3, <1>4 DEF Live, Visited
<1>5. CASE st.op = "coll"
  <2> DEFINE object == Object("coll", st.keys, "other")
  <2>1. Creates(o, st.x, object)
    BY <1>5, OutcomeCases DEF Raised, Outcome
  <2> HIDE DEF object
  <2>2. /\ \A n \in Names \ {st.x} : o.env[n] = env[n]
        /\ \A n \in Names : env[n] \in Objects => o.heap[env[n]] = heap[env[n]]
    BY <2>1, <1>1, <1>5, CreatesKeepsOthers
  <2>3. Ok(BindCollection(s, st.x, st.keys), o.env, o.heap)
    BY <2>2, <1>1, <1>5, BindCollIsOk
  <2>4. QED
    BY <2>3, <1>3, <1>5 DEF Live, Visited
<1>6. CASE st.op = "box"
  <2> DEFINE object == Object("box", {}, env[st.y])
  <2>1. Creates(o, st.x, object)
    BY <1>6, OutcomeCases DEF Raised, Outcome
  <2> HIDE DEF object
  <2>2. /\ \A n \in Names \ {st.x} : o.env[n] = env[n]
        /\ \A n \in Names : env[n] \in Objects => o.heap[env[n]] = heap[env[n]]
    BY <2>1, <1>1, <1>6, CreatesKeepsOthers
  <2>3. Ok(s, env, o.heap)
    BY <2>2, HeapIsOk
  <2>4. Ok(Drop(s, st.x), o.env, o.heap)
    BY <2>2, <2>3, <1>0, <1>1, <1>6, DropIsOk
  <2>5. QED
    BY <2>4, <1>3, <1>6 DEF Live, Visited
<1>7. CASE st.op = "alias"
  <2>1. Rebinds(o, st.x, env[st.y])
    BY <1>7, OutcomeCases DEF Raised, Outcome
  <2>2. /\ \A n \in Names \ {st.x} : o.env[n] = env[n]
        /\ o.env[st.x] = env[st.y] /\ o.heap = heap
    BY <2>1, <1>1, <1>7, RebindsKeepsOthers
  <2>3. Ok(BindAlias(s, st.x, st.y), o.env, o.heap)
    BY <2>2, <1>1, <1>7, BindAliasIsOk
  <2>4. QED
    BY <2>3, <1>3, <1>7 DEF Live, Visited
<1>8. CASE st.op \in {"key", "lose"}
  <2>1. PICK v : Rebinds(o, st.x, v)
    BY <1>8, OutcomeCases DEF Raised, Outcome
  <2>2. (\A n \in Names \ {st.x} : o.env[n] = env[n]) /\ o.heap = heap
    BY <2>1, <1>1, <1>8, RebindsKeepsOthers
  <2>3. Ok(Drop(s, st.x), o.env, o.heap)
    BY <2>2, <1>0, <1>1, <1>8, DropIsOk
  <2>4. QED
    BY <2>3, <1>3, <1>8 DEF Live, Visited
<1>9. CASE st.op = "swap"
  <2>1. o = Outcome([env EXCEPT ![st.x] = env[st.y], ![st.y] = env[st.x]], heap, "on")
    BY <1>9, OutcomeCases DEF Raised, Outcome
  <2>2. o.env = [env EXCEPT ![st.x] = env[st.y], ![st.y] = env[st.x]] /\ o.heap = heap
    BY <2>1, OutcomeFields
  <2> DEFINE e == [env EXCEPT ![st.x] = env[st.y]]
  <2>3. \A n \in Names \ {st.x} : e[n] = env[n]
    BY DEF World, Envs
  <2>4. \A n \in Names \ {st.y} : o.env[n] = e[n]
    BY <2>2, <1>1, <1>9 DEF World, Envs
  <2> HIDE DEF e
  <2>5. Ok(Drop(s, st.x), e, heap)
    BY <2>3, <1>0, <1>1, <1>9, DropIsOk
  <2>6. Drop(s, st.x) \in States
    BY <1>1, <1>9, DropIsWf DEF Wf
  <2>7. Ok(Drop(Drop(s, st.x), st.y), o.env, heap)
    BY <2>4, <2>5, <2>6, <1>1, <1>9, DropIsOk
  <2>8. QED
    BY <2>2, <2>7, <1>3, <1>9 DEF Live, Visited
<1>10. CASE st.op \in {"setitem", "delitem", "call"}
  BY <1>10, FreshIsLive DEF Visited
<1>11. CASE st.op = "pass"
  <2>1. o = Outcome(env, heap, "on")
    BY <1>11, OutcomeCases DEF Raised, Outcome
  <2>2. QED
    BY <2>1, <1>0, <1>11, OutcomeFields DEF Live, Visited
<1>12. QED
  BY <1>1, <1>2, <1>4, <1>5, <1>6, <1>7, <1>8, <1>9, <1>10, <1>11 DEF Ops, Plain

-----------------------------------------------------------------------------
(* Loops *)

Tracked(s) == {n \in Names : s.alias[n] # NoRoot}

(* A statement of a loop's body that may change what is known *)
Harmful(st, entry) ==
  \/ st.op = "call" /\ Tracked(entry) # {}
  \/ st.op \in {"dict", "coll", "alias", "key", "box", "lose", "setitem", "delitem"} /\ st.x \in Tracked(entry)
  \/ st.op = "swap" /\ {st.x, st.y} \cap Tracked(entry) # {}

LEMMA InvalidatesIsHarmful ==
  ASSUME NEW S, NEW log \in Seq(S), NEW entry
  PROVE  Invalidates(log, entry) <=> \E i \in 1..Len(log) : Harmful(log[i].st, entry)
<1>1. DOMAIN log = 1..Len(log)
  OBVIOUS
<1>2. QED
  BY <1>1 DEF Invalidates, Harmful, Tracked

LEMMA TrackedIsKept ==
  ASSUME NEW g, World(g, env, heap), Apart(g), NEW st, Plain(g, st), NEW entry, ~Harmful(st, entry),
         NEW o \in Outcomes(st), NEW n \in Tracked(entry)
  PROVE  o.env[n] = env[n] /\ (env[n] \in Objects => o.heap[env[n]] = heap[env[n]])
<1>0. n \in Names
  BY DEF Tracked
<1>1. /\ st.op \in Ops
      /\ st.op \notin {"call", "return", "raise", "break", "pass"} => st.x \in Names
      /\ st.op \in {"alias", "box", "swap"} => st.y \in Names
  BY DEF Plain, IsStatement
<1>2. ASSUME st.op \in {"dict", "coll", "box"}, NEW object, Creates(o, st.x, object)
      PROVE  o.env[n] = env[n] /\ (env[n] \in Objects => o.heap[env[n]] = heap[env[n]])
  <2>1. n # st.x
    BY <1>2 DEF Harmful
  <2>2. QED
    BY <2>1, <1>0, <1>1, <1>2, CreatesKeepsOthers
<1>3. ASSUME st.op \in {"alias", "key", "lose"}, NEW v, Rebinds(o, st.x, v)
      PROVE  o.env[n] = env[n] /\ (env[n] \in Objects => o.heap[env[n]] = heap[env[n]])
  <2>1. n # st.x
    BY <1>3 DEF Harmful
  <2>2. QED
    BY <2>1, <1>0, <1>1, <1>3, RebindsKeepsOthers
<1>4. ASSUME st.op = "swap", o = Outcome([env EXCEPT ![st.x] = env[st.y], ![st.y] = env[st.x]], heap, "on")
      PROVE  o.env[n] = env[n] /\ (env[n] \in Objects => o.heap[env[n]] = heap[env[n]])
  <2>1. n # st.x /\ n # st.y
    BY <1>4 DEF Harmful
  <2>2. o.env = [env EXCEPT ![st.x] = env[st.y], ![st.y] = env[st.x]] /\ o.heap = heap
    BY <1>4, OutcomeFields
  <2>3. QED
    BY <2>1, <2>2, <1>0 DEF World, Envs
<1>5. ASSUME st.op \in {"setitem", "delitem"}, IsA("dict", env[st.x], heap), NEW ks, Changes(o, env[st.x], ks)
      PROVE  o.env[n] = env[n] /\ (env[n] \in Objects => o.heap[env[n]] = heap[env[n]])
  <2>1. n # st.x
    BY <1>5 DEF Harmful
  <2>2. o.env = env /\ o.heap = [heap EXCEPT ![env[st.x]].keys = ks]
    BY <1>5, OutcomeFields DEF Changes
  <2>3. env[n] \in Objects => env[n] # env[st.x]
    BY <2>1, <1>0, <1>1, <1>5 DEF World
  <2>4. QED
    BY <2>2, <2>3 DEF World, Heaps
<1>6. st.op # "call"
  BY DEF Harmful
<1>7. ASSUME o.env = env, o.heap = heap
      PROVE  o.env[n] = env[n] /\ (env[n] \in Objects => o.heap[env[n]] = heap[env[n]])
  BY <1>7
<1>8. /\ o = Raised => o.env = env /\ o.heap = heap
      /\ \A m : o = Outcome(env, heap, m) => o.env = env /\ o.heap = heap
  BY OutcomeFields DEF Raised
<1>9. QED
  BY <1>2, <1>3, <1>4, <1>5, <1>6, <1>7, <1>8, OutcomeCases

LEMMA BaseShape ==
  ASSUME NEW g, NEW entry, Wf(g, entry), NEW name \in Names
  PROVE  /\ Wf(g, Base(entry, name))
         /\ Base(entry, name).alias = [entry.alias EXCEPT ![name] = NoRoot]
         /\ \A r \in Roots : Base(entry, name).keys[r] = {} /\ Base(entry, name).present[r] = {}
         /\ \A e, f, h : Ok(entry, e, h) /\ (\A n \in Names \ {name} : f[n] = e[n]) => Ok(Base(entry, name), f, h)
<1> DEFINE z == [entry EXCEPT !.keys = [r \in Roots |-> {}], !.present = [r \in Roots |-> {}]]
<1>0. entry \in States
  BY DEF Wf
<1>1. /\ z \in States /\ z.alias = entry.alias /\ z.dicts = entry.dicts /\ z.colls = entry.colls /\ z.rel = entry.rel
      /\ z.keys = [r \in Roots |-> {}] /\ z.present = [r \in Roots |-> {}]
  BY <1>0 DEF States
<1>2. Base(entry, name) = Drop(z, name)
  BY DEF Base
<1> HIDE DEF z
<1>3. ValuesOf(z) = ValuesOf(entry) /\ Known(z) = Known(entry)
  BY <1>1 DEF ValuesOf, Known
<1>4. \A r \in Roots \ z.dicts : z.present[r] = {}
  BY <1>1
<1>5. Wf(g, z)
  BY <1>1, <1>3, <1>4 DEF Wf
<1>6. Weaker(z, entry)
  BY <1>0, <1>1 DEF Weaker
<1>7. /\ Weaker(Drop(z, name), z) /\ Drop(z, name).alias = [z.alias EXCEPT ![name] = NoRoot]
  BY <1>1, DropShape
<1>8. \A r \in Roots : Drop(z, name).keys[r] = {} /\ Drop(z, name).present[r] = {}
  BY <1>1, <1>7 DEF Weaker
<1>9. ASSUME NEW e, NEW f, NEW h, Ok(entry, e, h), \A n \in Names \ {name} : f[n] = e[n]
      PROVE  Ok(Drop(z, name), f, h)
  <2>1. Ok(z, e, h)
    <3>1. \A r \in z.dicts : \A k \in z.present[r] : e[k] = e[k]
      OBVIOUS
    <3>2. QED
      BY <3>1, <1>6, <1>9, WeakerIsOk
  <2>2. QED
    BY <2>1, <1>1, <1>9, DropIsOk
<1>10. Wf(g, Drop(z, name))
  BY <1>5, DropIsWf
<1>11. QED
  BY <1>1, <1>2, <1>7, <1>8, <1>9, <1>10

(* Names a state does not know may be bound to anything. *)
SameToTracked(s, e, h, f, k) ==
  \A n \in Names : s.alias[n] # NoRoot => f[n] = e[n] /\ (e[n] \in Objects => k[e[n]] = h[e[n]])

LEMMA UntrackedIsOk ==
  ASSUME NEW s, NEW e, NEW f, NEW h, NEW k, Ok(s, e, h), s \in States,
         \A r \in Roots : s.present[r] = {}, SameToTracked(s, e, h, f, k)
  PROVE  Ok(s, f, k)
<1>0. \A n \in Names : s.alias[n] # NoRoot => f[n] = e[n] /\ (e[n] \in Objects => k[e[n]] = h[e[n]])
  BY DEF SameToTracked
<1>1. s.dicts \subseteq Roots /\ s.rel \subseteq Roots \X Roots
  BY StateFields
<1>2. DictsOk(s, f, k)
  <2>1. SUFFICES ASSUME NEW n \in Names, s.alias[n] \in s.dicts
                 PROVE  /\ IsA("dict", f[n], k) /\ s.keys[s.alias[n]] \subseteq k[f[n]].keys
                        /\ s.present[s.alias[n]] = {}
    BY DEF DictsOk
  <2>2. s.alias[n] \in Roots /\ s.alias[n] # NoRoot
    BY <2>1, <1>1, NoRootIsNone
  <2>3. IsA("dict", e[n], h) /\ s.keys[s.alias[n]] \subseteq h[e[n]].keys
    BY <2>1 DEF Ok, DictsOk
  <2>4. QED
    BY <1>0, <2>2, <2>3 DEF IsA
<1>3. RelationsOk(s, f, k)
  <2>1. SUFFICES ASSUME NEW m \in Names, NEW n \in Names, <<s.alias[m], s.alias[n]>> \in s.rel
                 PROVE  IsA("coll", f[m], k) /\ IsA("dict", f[n], k) /\ k[f[m]].keys \subseteq k[f[n]].keys
    BY DEF RelationsOk
  <2>2. s.alias[m] # NoRoot /\ s.alias[n] # NoRoot
    BY <2>1, <1>1, NoRootIsNone
  <2>3. IsA("coll", e[m], h) /\ IsA("dict", e[n], h) /\ h[e[m]].keys \subseteq h[e[n]].keys
    BY <2>1 DEF Ok, RelationsOk
  <2>4. QED
    BY <1>0, <2>2, <2>3 DEF IsA
<1>4. RootsOk(s, f)
  BY <1>0 DEF Ok, RootsOk
<1>5. QED
  BY <1>2, <1>3, <1>4 DEF Ok

LEMMA SparedIsKept ==
  ASSUME NEW g, World(g, env, heap), Apart(g), NEW st, Plain(g, st), NEW entry, Wf(g, entry), ~Harmful(st, entry),
         NEW name \in Names, NEW coll \in Names, NEW todo, SparedOk(Base(entry, name), coll, todo, env, heap),
         NEW o \in Outcomes(st)
  PROVE  SparedOk(Base(entry, name), coll, todo, o.env, o.heap)
<1> DEFINE base == Base(entry, name)
<1>1. /\ base \in States /\ base.alias = [entry.alias EXCEPT ![name] = NoRoot]
      /\ \A r \in Roots : base.present[r] = {}
  <2>1. Wf(g, base)
    BY BaseShape
  <2>2. base.alias = [entry.alias EXCEPT ![name] = NoRoot] /\ \A r \in Roots : base.present[r] = {}
    BY BaseShape
  <2>3. base \in States
    BY <2>1 DEF Wf
  <2>4. QED
    BY <2>2, <2>3
<1> HIDE DEF base
<1>2. \A n \in Names : base.alias[n] # NoRoot => n \in Tracked(entry)
  BY <1>1, StateFields DEF Tracked, Wf
<1>3. \A n \in Names : base.alias[n] # NoRoot => o.env[n] = env[n] /\ (env[n] \in Objects => o.heap[env[n]] = heap[env[n]])
  BY <1>2, TrackedIsKept
<1>4. Ok(base, o.env, o.heap)
  <2> DEFINE f == o.env
             k == o.heap
  <2>1. SameToTracked(base, env, heap, f, k)
    BY <1>3 DEF SameToTracked
  <2>2. Ok(base, env, heap)
    BY DEF SparedOk, base
  <2> HIDE DEF f, k
  <2>3. Ok(base, f, k)
    BY <1>1, <2>1, <2>2, UntrackedIsOk
  <2>4. QED
    BY <2>3 DEF f, k
<1>5. ASSUME base.alias[coll] \in base.colls
      PROVE  IsA("coll", o.env[coll], o.heap) /\ \A i \in 1..Len(todo) : todo[i] \in o.heap[o.env[coll]].keys
  <2>1. base.alias[coll] # NoRoot
    BY <1>1, <1>5, StateFields, NoRootIsNone
  <2>2. IsA("coll", env[coll], heap) /\ \A i \in 1..Len(todo) : todo[i] \in heap[env[coll]].keys
    BY <1>5 DEF SparedOk, base
  <2>3. QED
    BY <2>1, <2>2, <1>3 DEF IsA
<1>6. QED
  BY <1>4, <1>5 DEF SparedOk, base

LEMMA BodyStateShape ==
  ASSUME NEW entry, NEW coll, NEW name, NEW invalidates \in BOOLEAN
  PROVE  BodyState(entry, coll, name, invalidates) =
           IF ~invalidates /\ Base(entry, name).alias[coll] \in Base(entry, name).colls
           THEN AddMembership(Base(entry, name), coll, name) ELSE Fresh
  BY DEF BodyState, Base

LEMMA BodyStateIsWf ==
  ASSUME NEW g, NEW entry, Wf(g, entry), NEW coll \in Names, NEW name \in Names, NEW invalidates \in BOOLEAN
  PROVE  Wf(g, BodyState(entry, coll, name, invalidates))
<1>1. Wf(g, Base(entry, name))
  BY BaseShape
<1>2. Wf(g, AddMembership(Base(entry, name), coll, name))
  BY <1>1, AddMembershipIsMore, MoreIsWf
<1>3. QED
  BY <1>2, FreshIsWf, BodyStateShape

LEMMA BodyStateIsLive ==
  ASSUME NEW g, NEW entry, Wf(g, entry), NEW coll \in Names, NEW name \in Names, NEW invalidates \in BOOLEAN,
         NEW e, NEW h,
         ~invalidates => /\ Ok(Base(entry, name), e, h)
                         /\ Base(entry, name).alias[coll] \in Base(entry, name).colls => e[name] \in h[e[coll]].keys
  PROVE  Live(BodyState(entry, coll, name, invalidates), e, h)
<1>1. Wf(g, Base(entry, name))
  BY BaseShape
<1>2. CASE ~invalidates /\ Base(entry, name).alias[coll] \in Base(entry, name).colls
  <2>1. Ok(AddMembership(Base(entry, name), coll, name), e, h)
    BY <1>1, <1>2, AddMembershipIsOk
  <2>2. QED
    BY <2>1, <1>2, BodyStateShape, BodyStateIsWf, WfIsAlive DEF Live
<1>3. CASE ~(~invalidates /\ Base(entry, name).alias[coll] \in Base(entry, name).colls)
  BY <1>3, BodyStateShape, FreshIsLive
<1>4. QED
  BY <1>2, <1>3

-----------------------------------------------------------------------------
(* Compound statements that are open *)

LEMMA Pushed ==
  ASSUME NEW S, NEW q \in Seq(S), NEW f \in S
  PROVE  /\ <<f>> \o q \in Seq(S) /\ Len(<<f>> \o q) = Len(q) + 1 /\ <<f>> \o q # <<>>
         /\ (<<f>> \o q)[1] = f /\ Head(<<f>> \o q) = f
         /\ \A i \in 2..(Len(q) + 1) : i - 1 \in 1..Len(q) /\ (<<f>> \o q)[i] = q[i - 1]
  OBVIOUS

LEMMA Popped ==
  ASSUME NEW S, NEW q \in Seq(S), q # <<>>
  PROVE  /\ Tail(q) \in Seq(S) /\ Len(Tail(q)) = Len(q) - 1 /\ Head(q) = q[1] /\ 1 \in 1..Len(q)
         /\ \A i \in 1..(Len(q) - 1) : i + 1 \in 2..Len(q) /\ i + 1 \in 1..Len(q) /\ Tail(q)[i] = q[i + 1]
  BY HeadTailProperties

LEMMA Replaced ==
  ASSUME NEW S, NEW q \in Seq(S), q # <<>>, NEW f \in S
  PROVE  LET r == <<f>> \o Tail(q)
         IN  /\ r \in Seq(S) /\ Len(r) = Len(q) /\ r # <<>> /\ r[1] = f /\ Head(r) = f
             /\ \A i \in 2..Len(q) : i \in 1..Len(q) /\ r[i] = q[i]
<1> DEFINE t == Tail(q)
           r == <<f>> \o t
<1>1. /\ t \in Seq(S) /\ Len(t) = Len(q) - 1 /\ \A i \in 1..(Len(q) - 1) : t[i] = q[i + 1]
  BY Popped
<1>2. Len(q) \in Nat /\ Len(q) # 0
  OBVIOUS
<1> HIDE DEF t
<1>3. /\ r \in Seq(S) /\ Len(r) = Len(t) + 1 /\ r # <<>> /\ r[1] = f /\ Head(r) = f
      /\ \A i \in 2..(Len(t) + 1) : i - 1 \in 1..Len(t) /\ r[i] = t[i - 1]
  BY <1>1, Pushed
<1> HIDE DEF r
<1>4. Len(r) = Len(q)
  BY <1>1, <1>2, <1>3
<1>5. ASSUME NEW i \in 2..Len(q) PROVE i \in 1..Len(q) /\ r[i] = q[i]
  <2>1. i \in 2..(Len(t) + 1) /\ i - 1 \in 1..(Len(q) - 1) /\ i \in 1..Len(q) /\ (i - 1) + 1 = i
    BY <1>1, <1>2
  <2>2. r[i] = t[i - 1] /\ t[i - 1] = q[(i - 1) + 1]
    BY <2>1, <1>1, <1>3
  <2>3. QED
    BY <2>1, <2>2
<1>6. QED
  BY <1>3, <1>4, <1>5 DEF r, t

(* Where Python is not to come back, nothing is said of names and objects. *)
LEMMA IdleIsOk ==
  ASSUME NEW g, NEW f, NEW e, NEW h, NEW e2, NEW h2, FrameOk(g, f, e, h), Idle(f)
  PROVE  FrameOk(g, f, e2, h2)
  BY DEF FrameOk, Idle

LEMMA BlocksKept ==
  ASSUME NEW g, NEW bs, NEW m, NEW e, NEW h, BlocksOk(g, bs, m, e, h), NEW m2, NEW e2, NEW h2,
         m2 # "off" => m # "off", (e2 = e /\ h2 = h) \/ m # "off"
  PROVE  BlocksOk(g, bs, m2, e2, h2)
  BY IdleIsOk DEF BlocksOk

LEMMA SetKeeps ==
  ASSUME NEW g, NEW bs, NEW m, NEW e, NEW h, BlocksOk(g, bs, m, e, h), bs # <<>>,
         NEW f, NEW m2, NEW e2, NEW h2, FrameOk(g, f, e2, h2), m2 # "off" => Idle(f),
         m2 # "off" \/ ~Idle(f) => m # "off" \/ ~Idle(Head(bs)),
         (e2 = e /\ h2 = h) \/ m # "off"
  PROVE  BlocksOk(g, <<f>> \o Tail(bs), m2, e2, h2)
<1> DEFINE r == <<f>> \o Tail(bs)
<1>1. bs \in Seq(Frames) /\ f \in Frames /\ Len(bs) \in Nat
  BY DEF BlocksOk, FrameOk
<1>2. /\ r \in Seq(Frames) /\ Len(r) = Len(bs) /\ r[1] = f
      /\ \A i \in 2..Len(bs) : i \in 1..Len(bs) /\ r[i] = bs[i]
      /\ Head(bs) = bs[1] /\ 1 \in 1..Len(bs)
  BY <1>1, Replaced, Popped
<1> HIDE DEF r
<1>3. \A i \in 1..Len(r) : i = 1 \/ i \in 2..Len(bs)
  BY <1>1, <1>2
<1>4. \A i \in 2..Len(bs) : FrameOk(g, bs[i], e2, h2)
  BY <1>2, IdleIsOk DEF BlocksOk
<1>5. m # "off" \/ ~Idle(Head(bs)) => \A i \in 2..Len(bs) : Idle(bs[i])
  <2>1. \A i \in 2..Len(bs) : i # 1
    BY <1>1
  <2>2. QED
    BY <2>1, <1>2 DEF BlocksOk
<1>6. \A i \in 1..Len(r) : FrameOk(g, r[i], e2, h2)
  BY <1>2, <1>3, <1>4
<1>7. m2 # "off" => \A i \in 1..Len(r) : Idle(r[i])
  BY <1>2, <1>3, <1>5
<1>8. \A i, j \in 1..Len(r) : i # j => Idle(r[i]) \/ Idle(r[j])
  <2>1. SUFFICES ASSUME NEW i \in 1..Len(r), NEW j \in 1..Len(r), i # j PROVE Idle(r[i]) \/ Idle(r[j])
    OBVIOUS
  <2>2. CASE i = 1 \/ j = 1
    BY <2>1, <2>2, <1>2, <1>3, <1>5
  <2>3. CASE i # 1 /\ j # 1
    BY <2>1, <2>3, <1>2, <1>3 DEF BlocksOk
  <2>4. QED
    BY <2>2, <2>3
<1>9. \A i \in 2..Len(r) : r[i].kind # "for"
  BY <1>2 DEF BlocksOk
<1>10. QED
  BY <1>2, <1>6, <1>7, <1>8, <1>9 DEF BlocksOk, r

LEMMA PushKeeps ==
  ASSUME NEW g, NEW bs, NEW m, NEW e, NEW h, BlocksOk(g, bs, m, e, h), bs = <<>> \/ Head(bs).kind # "for",
         NEW f, NEW m2, NEW e2, NEW h2, FrameOk(g, f, e2, h2), m2 # "off" => Idle(f),
         m2 # "off" \/ ~Idle(f) => m # "off",
         (e2 = e /\ h2 = h) \/ m # "off"
  PROVE  BlocksOk(g, <<f>> \o bs, m2, e2, h2)
<1> DEFINE r == <<f>> \o bs
<1>1. bs \in Seq(Frames) /\ f \in Frames /\ Len(bs) \in Nat
  BY DEF BlocksOk, FrameOk
<1>2. /\ r \in Seq(Frames) /\ Len(r) = Len(bs) + 1 /\ r[1] = f
      /\ \A i \in 2..(Len(bs) + 1) : i - 1 \in 1..Len(bs) /\ r[i] = bs[i - 1]
  BY <1>1, Pushed
<1> HIDE DEF r
<1>3. \A i \in 1..Len(r) : i = 1 \/ (i \in 2..(Len(bs) + 1) /\ i - 1 \in 1..Len(bs))
  BY <1>1, <1>2
<1>4. \A i \in 1..Len(bs) : FrameOk(g, bs[i], e2, h2)
  BY IdleIsOk DEF BlocksOk
<1>5. m # "off" => \A i \in 1..Len(bs) : Idle(bs[i])
  BY DEF BlocksOk
<1>6. \A i \in 1..Len(r) : FrameOk(g, r[i], e2, h2)
  BY <1>2, <1>3, <1>4
<1>7. m2 # "off" => \A i \in 1..Len(r) : Idle(r[i])
  BY <1>2, <1>3, <1>5
<1>8. \A i, j \in 1..Len(r) : i # j => Idle(r[i]) \/ Idle(r[j])
  <2>1. SUFFICES ASSUME NEW i \in 1..Len(r), NEW j \in 1..Len(r), i # j PROVE Idle(r[i]) \/ Idle(r[j])
    OBVIOUS
  <2>2. CASE i = 1 \/ j = 1
    BY <2>1, <2>2, <1>2, <1>3, <1>5
  <2>3. CASE i # 1 /\ j # 1
    <3>1. i - 1 \in 1..Len(bs) /\ j - 1 \in 1..Len(bs) /\ i - 1 # j - 1 /\ r[i] = bs[i - 1] /\ r[j] = bs[j - 1]
      BY <2>1, <2>3, <1>1, <1>2, <1>3
    <3>2. QED
      BY <3>1 DEF BlocksOk
  <2>4. QED
    BY <2>2, <2>3
<1>9. \A i \in 2..Len(r) : r[i].kind # "for"
  <2>1. SUFFICES ASSUME NEW i \in 2..Len(r) PROVE r[i].kind # "for"
    OBVIOUS
  <2>2. i - 1 \in 1..Len(bs) /\ r[i] = bs[i - 1]
    BY <1>2
  <2>3. CASE i = 2
    <3>1. bs # <<>> /\ Head(bs) = bs[1] /\ i - 1 = 1
      BY <2>2, <2>3, <1>1, Popped
    <3>2. QED
      BY <2>2, <3>1
  <2>4. CASE i # 2
    <3>1. i - 1 \in 2..Len(bs)
      BY <2>1, <2>2, <2>4, <1>1
    <3>2. QED
      BY <2>2, <3>1 DEF BlocksOk
  <2>5. QED
    BY <2>3, <2>4
<1>10. QED
  BY <1>2, <1>6, <1>7, <1>8, <1>9 DEF BlocksOk, r

LEMMA PopKeeps ==
  ASSUME NEW g, NEW bs, NEW m, NEW e, NEW h, BlocksOk(g, bs, m, e, h), bs # <<>>,
         NEW m2, m2 # "off" => m # "off" \/ ~Idle(Head(bs))
  PROVE  BlocksOk(g, Tail(bs), m2, e, h) /\ (Tail(bs) # <<>> => Head(Tail(bs)).kind # "for")
<1> DEFINE r == Tail(bs)
<1>1. bs \in Seq(Frames) /\ Len(bs) \in Nat
  BY DEF BlocksOk
<1>2. /\ r \in Seq(Frames) /\ Len(r) = Len(bs) - 1 /\ Head(bs) = bs[1] /\ 1 \in 1..Len(bs)
      /\ \A i \in 1..(Len(bs) - 1) : i + 1 \in 2..Len(bs) /\ i + 1 \in 1..Len(bs) /\ r[i] = bs[i + 1]
  BY <1>1, Popped
<1> HIDE DEF r
<1>3. m2 # "off" => \A i \in 2..Len(bs) : Idle(bs[i])
  <2>1. \A i \in 2..Len(bs) : i \in 1..Len(bs) /\ i # 1
    BY <1>1
  <2>2. QED
    BY <2>1, <1>2 DEF BlocksOk
<1>4. \A i \in 1..Len(r) : FrameOk(g, r[i], e, h)
  BY <1>2 DEF BlocksOk
<1>5. m2 # "off" => \A i \in 1..Len(r) : Idle(r[i])
  BY <1>2, <1>3
<1>6. \A i, j \in 1..Len(r) : i # j => Idle(r[i]) \/ Idle(r[j])
  <2>1. SUFFICES ASSUME NEW i \in 1..Len(r), NEW j \in 1..Len(r), i # j PROVE Idle(r[i]) \/ Idle(r[j])
    OBVIOUS
  <2>2. i + 1 # j + 1 /\ i + 1 \in 1..Len(bs) /\ j + 1 \in 1..Len(bs) /\ r[i] = bs[i + 1] /\ r[j] = bs[j + 1]
    BY <2>1, <1>1, <1>2
  <2>3. QED
    BY <2>2 DEF BlocksOk
<1>7. \A i \in 1..Len(r) : r[i].kind # "for"
  BY <1>2 DEF BlocksOk
<1>8. \A i \in 2..Len(r) : r[i].kind # "for"
  <2>1. \A i \in 2..Len(r) : i \in 1..Len(r)
    BY <1>1, <1>2
  <2>2. QED
    BY <2>1, <1>7
<1>9. r # <<>> => Head(r).kind # "for"
  BY <1>2, <1>7, Popped
<1>10. QED
  BY <1>2, <1>4, <1>5, <1>6, <1>8, <1>9 DEF BlocksOk, r

(* The innermost statement *)
LEMMA TopIsOk ==
  ASSUME NEW g, NEW bs, NEW m, NEW e, NEW h, BlocksOk(g, bs, m, e, h), bs # <<>>
  PROVE  FrameOk(g, Head(bs), e, h) /\ Head(bs) \in Frames /\ (m # "off" => Idle(Head(bs)))
<1>1. bs \in Seq(Frames)
  BY DEF BlocksOk
<1>2. Head(bs) = bs[1] /\ 1 \in 1..Len(bs)
  BY <1>1, Popped
<1>3. QED
  BY <1>2 DEF BlocksOk, FrameOk

-----------------------------------------------------------------------------
(* Steps, by what they do to the open statements *)

LEMMA HereIsVisitable ==
  ASSUME IInv, abs # Dead
  PROVE  /\ Wf(grammar, abs) /\ (mode = "on" => Ok(abs, env, heap))
         /\ mode \in Modes /\ length \in 0..MaxLength /\ grammar \in DOMAIN Grammars /\ MaxLength \in Nat
  BY GrammarsAreSyntax DEF IInv, HereInv, Visitable, Live, MaxLength

LEMMA GrowStays ==
  ASSUME IInv, Grow
  PROVE  grammar' = grammar /\ length' \in 0..MaxLength
<1>1. length \in 0..MaxLength /\ MaxLength \in Nat
  BY GrammarsAreSyntax DEF IInv, HereInv, MaxLength
<1>2. QED
  BY <1>1 DEF Grow

(* A step that does not end up in a loop *)
LEMMA StepIsKept ==
  ASSUME IInv, grammar' = grammar, World(grammar, env', heap'), length' \in 0..MaxLength,
         Len(blocks') <= MaxDepth, mode' \in Modes \ {"broke"}, Visitable(grammar, abs'),
         mode' = "on" => Live(abs', env', heap'), BlocksOk(grammar, blocks', mode', env', heap'),
         blocks' = <<>> \/ Head(blocks').kind # "for"
  PROVE  IInv'
<1>1. grammar \in DOMAIN Grammars
  BY DEF IInv, HereInv
<1>2. World(grammar', env', heap')
  OBVIOUS
<1>3. HereInv'
  BY <1>1 DEF HereInv, MaxLength, MaxDepth
<1>4. BlocksOk(grammar', blocks', mode', env', heap')
  OBVIOUS
<1>5. LoopInv'
  BY DEF LoopInv, Inside, Top
<1>6. QED
  BY <1>2, <1>3, <1>4, <1>5 DEF IInv

LEMMA PushStep ==
  ASSUME IInv, NEW kind, Open(kind), UNCHANGED <<env, heap>>, NEW f, Push(f), FrameOk(grammar, f, env, heap),
         f.kind # "for", mode' \in Modes \ {"broke"}, Wf(grammar, abs'), mode' = "on" => Ok(abs', env, heap),
         mode' # "off" => Idle(f), mode' # "off" \/ ~Idle(f) => mode # "off"
  PROVE  IInv'
<1>1. /\ grammar' = grammar /\ length' \in 0..MaxLength
      /\ env' = env /\ heap' = heap /\ blocks' = <<f>> \o blocks
  BY GrowStays DEF Open, Push
<1>2. BlocksOk(grammar, blocks, mode, env, heap) /\ World(grammar, env, heap)
  BY DEF IInv
<1>3. blocks = <<>> \/ Head(blocks).kind # "for"
  BY DEF Open, Inside, Top
<1>4. BlocksOk(grammar, blocks', mode', env', heap')
  BY <1>1, <1>2, <1>3, PushKeeps
<1>5. Len(blocks') <= MaxDepth /\ Head(blocks') = f
  <2>1. blocks \in Seq(Frames) /\ f \in Frames /\ Len(blocks) \in Nat
    BY <1>2 DEF BlocksOk, FrameOk
  <2>2. Len(blocks') = Len(blocks) + 1 /\ Head(blocks') = f
    BY <1>1, <2>1, Pushed
  <2>3. MaxDepth \in Nat /\ Len(blocks) < MaxDepth
    BY GrammarsAreSyntax DEF IInv, HereInv, Open, MaxDepth
  <2>4. QED
    BY <2>1, <2>2, <2>3
<1>6. Visitable(grammar, abs') /\ (mode' = "on" => Live(abs', env', heap'))
  BY <1>1, WfIsAlive DEF Visitable, Live
<1>7. QED
  BY <1>1, <1>2, <1>4, <1>5, <1>6, StepIsKept

LEMMA SetStep ==
  ASSUME IInv, blocks # <<>>, grammar' = grammar, length' \in 0..MaxLength, UNCHANGED <<env, heap>>,
         NEW f, Set(f), FrameOk(grammar, f, env, heap), f.kind # "for", mode' \in Modes \ {"broke"},
         Visitable(grammar, abs'), mode' = "on" => Live(abs', env, heap),
         mode' # "off" => Idle(f), mode' # "off" \/ ~Idle(f) => mode # "off" \/ ~Idle(Top)
  PROVE  IInv'
<1>1. env' = env /\ heap' = heap /\ blocks' = <<f>> \o Tail(blocks)
  BY DEF Set
<1>2. BlocksOk(grammar, blocks, mode, env, heap) /\ World(grammar, env, heap) /\ Len(blocks) <= MaxDepth
  BY DEF IInv, HereInv
<1>3. BlocksOk(grammar, blocks', mode', env', heap')
  BY <1>1, <1>2, SetKeeps DEF Top
<1>4. Len(blocks') <= MaxDepth /\ Head(blocks') = f
  <2>1. blocks \in Seq(Frames) /\ f \in Frames
    BY <1>2 DEF BlocksOk, FrameOk
  <2>2. QED
    BY <1>1, <1>2, <2>1, Replaced
<1>5. QED
  BY <1>1, <1>2, <1>3, <1>4, StepIsKept

LEMMA PopStep ==
  ASSUME IInv, blocks # <<>>, Pop, UNCHANGED <<env, heap, length, grammar>>, mode' \in Modes \ {"broke"},
         Visitable(grammar, abs'), mode' = "on" => Live(abs', env, heap),
         mode' # "off" => mode # "off" \/ ~Idle(Top)
  PROVE  IInv'
<1>1. env' = env /\ heap' = heap /\ length' = length /\ grammar' = grammar /\ blocks' = Tail(blocks)
  BY DEF Pop
<1>2. /\ BlocksOk(grammar, blocks, mode, env, heap) /\ World(grammar, env, heap) /\ Len(blocks) <= MaxDepth
      /\ length \in 0..MaxLength
  BY DEF IInv, HereInv
<1>3. /\ BlocksOk(grammar, blocks', mode', env', heap')
      /\ blocks' # <<>> => Head(blocks').kind # "for"
  BY <1>1, <1>2, PopKeeps DEF Top
<1>4. Len(blocks') <= MaxDepth
  <2>1. blocks \in Seq(Frames) /\ Len(blocks) \in Nat /\ MaxDepth \in Nat
    BY <1>2, GrammarsAreSyntax DEF BlocksOk, IInv, HereInv, MaxDepth
  <2>2. Len(blocks') = Len(blocks) - 1
    BY <1>1, <2>1, Popped
  <2>3. QED
    BY <1>2, <2>1, <2>2
<1>5. QED
  BY <1>1, <1>2, <1>3, <1>4, StepIsKept

LEMMA FrameIsOk ==
  ASSUME NEW g, NEW kind \in {"if", "match", "try", "for", "opaque"}, NEW part \in {"body", "cases", "clear"},
         kind = "if" => part = "body", NEW fall, Wf(g, fall), NEW rest \in Modes \ {"broke"}, NEW e, NEW h,
         rest = "on" => Ok(fall, e, h) /\ kind # "try"
  PROVE  LET f == Frame(kind, part, fall, rest)
         IN  /\ FrameOk(g, f, e, h) /\ f.kind = kind /\ (Idle(f) <=> rest = "off")
<1> DEFINE f == Frame(kind, part, fall, rest)
<1>1. /\ f.kind = kind /\ f.part = part /\ f.fall = fall /\ f.paths = {} /\ f.rest = rest /\ f.after = "off"
  BY DEF Frame
<1>2. f \in Frames
  BY DEF Frame, Frames, Modes, Wf
<1> HIDE DEF f
<1>3. FrameOk(g, f, e, h)
  BY <1>1, <1>2 DEF FrameOk
<1>4. QED
  BY <1>1, <1>3 DEF Idle, f

(* Python takes a branch or goes past it. *)
Parts(way, truths, m) ==
  /\ way.here \in {"on", "off"} /\ way.rest \in Modes \ {"broke"}
  /\ way.here = "on" => m = "on" /\ TRUE \in truths /\ way.rest = "off"
  /\ way.rest = "on" => m = "on" /\ FALSE \in truths
  /\ m = "off" => way.here = "off" /\ way.rest = "off"

LEMMA BranchIsSound ==
  ASSUME NEW truths, truths \subseteq BOOLEAN, NEW m \in Modes \ {"broke"}, NEW way \in Branch(truths, m)
  PROVE  Parts(way, truths, m)
<1>1. CASE m # "on"
  <2>1. way = [here |-> "off", rest |-> m]
    BY <1>1 DEF Branch
  <2>2. QED
    BY <1>1, <2>1 DEF Parts
<1>2. CASE m = "on" /\ truths = {}
  BY <1>2 DEF Branch, Modes, Parts
<1>3. CASE m = "on" /\ truths # {}
  <2>1. PICK b \in truths : way = [here |-> IF b THEN "on" ELSE "off", rest |-> IF b THEN "off" ELSE "on"]
    BY <1>3 DEF Branch
  <2>2. b \in BOOLEAN
    OBVIOUS
  <2>3. CASE b = TRUE
    BY <2>1, <2>3, <1>3 DEF Modes, Parts
  <2>4. CASE b = FALSE
    BY <2>1, <2>4, <1>3 DEF Modes, Parts
  <2>5. QED
    BY <2>2, <2>3, <2>4
<1>4. QED
  BY <1>1, <1>2, <1>3

LEMMA TestsAreSyntax ==
  ASSUME IInv, NEW t \in Tests
  PROVE  IsTest(t)
  BY GrammarsAreSyntax DEF IInv, HereInv, Tests

LEMMA IfStep ==
  ASSUME IInv, If
  PROVE  IInv'
<1>1. /\ Open("if") /\ abs # Dead /\ mode # "broke" /\ UNCHANGED <<env, heap>>
  BY DEF If, Open, IInv, LoopInv
<1>2. PICK t \in Tests : \E way \in Branch(Truths(t), mode) :
        /\ mode' = way.here /\ abs' = Condition(t, abs).true
        /\ Push(Frame("if", "body", Condition(t, abs).false, way.rest))
  BY DEF If
<1>3. PICK way \in Branch(Truths(t), mode) :
        /\ mode' = way.here /\ abs' = Condition(t, abs).true
        /\ Push(Frame("if", "body", Condition(t, abs).false, way.rest))
  BY <1>2
<1>4. /\ Wf(grammar, abs) /\ (mode = "on" => Ok(abs, env, heap)) /\ mode \in Modes
  BY <1>1, HereIsVisitable
<1>5. /\ Wf(grammar, Condition(t, abs).true) /\ Wf(grammar, Condition(t, abs).false)
      /\ Truths(t) \subseteq BOOLEAN
      /\ Ok(abs, env, heap) => /\ TRUE \in Truths(t) => Ok(Condition(t, abs).true, env, heap)
                               /\ FALSE \in Truths(t) => Ok(Condition(t, abs).false, env, heap)
  BY <1>4, TestsAreSyntax, ConditionIsSound
<1>6. Parts(way, Truths(t), mode)
  BY <1>1, <1>4, <1>5, BranchIsSound
<1> DEFINE fall == Condition(t, abs).false
           rest == way.rest
           f == Frame("if", "body", fall, rest)
<1>7. Wf(grammar, fall) /\ rest \in Modes \ {"broke"} /\ (rest = "on" => Ok(fall, env, heap))
  BY <1>4, <1>5, <1>6 DEF Parts
<1> HIDE DEF fall, rest
<1>8. FrameOk(grammar, f, env, heap)
  BY <1>7, FrameIsOk
<1>9. f.kind = "if" /\ (Idle(f) <=> rest = "off")
  BY DEF Frame, Idle
<1> HIDE DEF f
<1>10. Push(f)
  BY <1>3 DEF f, fall, rest
<1>11. QED
  BY <1>1, <1>3, <1>4, <1>5, <1>6, <1>8, <1>9, <1>10, PushStep DEF Modes, Parts, rest

LEMMA FrameFields ==
  ASSUME NEW f \in Frames
  PROVE  /\ f.kind \in {"if", "match", "try", "for", "opaque"}
         /\ f.part \in {"body", "else", "cases", "last", "closed", "handler", "orelse", "clear", "again"}
         /\ f.fall \in States /\ f.paths \subseteq States \cup {Dead}
         /\ f.rest \in Modes \ {"broke"} /\ f.after \in Modes \ {"broke"}
         /\ f.log \in Seq(Logged) /\ f.at \in Nat /\ f.todo \in Seq(Keys) /\ f.name \in Names \cup {"other"}
  BY DEF Frames

LEMMA TopStands ==
  ASSUME IInv, blocks # <<>>
  PROVE  /\ FrameOk(grammar, Top, env, heap) /\ Top \in Frames /\ (mode # "off" => Idle(Top))
         /\ Wf(grammar, Top.fall) /\ (Top.rest = "on" => Ok(Top.fall, env, heap))
         /\ \A s \in Top.paths : Visitable(grammar, s)
         /\ Top.after = "on" => \E s \in Top.paths : Live(s, env, heap)
         /\ Visitable(grammar, abs) /\ (mode = "on" => Live(abs, env, heap))
         /\ abs \in States \cup {Dead}
         /\ mode \in Modes /\ length \in 0..MaxLength
         /\ Top.kind # "for" => mode # "broke"
<1>1. FrameOk(grammar, Top, env, heap) /\ Top \in Frames /\ (mode # "off" => Idle(Top))
  BY TopIsOk DEF IInv, Top
<1>2. /\ Visitable(grammar, abs) /\ (mode = "on" => Live(abs, env, heap)) /\ mode \in Modes
      /\ length \in 0..MaxLength
  BY DEF IInv, HereInv
<1>3. abs \in States \cup {Dead}
  BY <1>2 DEF Visitable, Wf
<1>4. Top.kind # "for" => mode # "broke"
  BY DEF IInv, LoopInv, Inside
<1>5. QED
  BY <1>1, <1>2, <1>3, <1>4 DEF FrameOk

LEMMA ElseStep ==
  ASSUME IInv, Else
  PROVE  IInv'
<1> DEFINE f == [Top EXCEPT !.part = "else", !.paths = {abs}, !.after = mode, !.rest = "off"]
<1>1. /\ blocks # <<>> /\ Top.kind = "if" /\ Grow /\ Set(f) /\ mode' = Top.rest /\ abs' = Top.fall
      /\ UNCHANGED <<env, heap>>
  BY DEF Else, Inside
<1>2. /\ Top \in Frames /\ (mode # "off" => Idle(Top))
      /\ Wf(grammar, Top.fall) /\ (Top.rest = "on" => Ok(Top.fall, env, heap))
      /\ Visitable(grammar, abs) /\ (mode = "on" => Live(abs, env, heap)) /\ abs \in States \cup {Dead}
      /\ mode \in Modes \ {"broke"}
  BY <1>1, TopStands
<1>3. f \in Frames
  <2>1. {abs} \in SUBSET (States \cup {Dead}) /\ "off" \in Modes \ {"broke"}
    BY <1>2 DEF Modes
  <2>2. QED
    BY <1>2, <2>1 DEF Frames
<1>4. /\ f.kind = "if" /\ f.part = "else" /\ f.fall = Top.fall /\ f.paths = {abs} /\ f.rest = "off" /\ f.after = mode
  BY <1>1, <1>2 DEF Frames
<1> HIDE DEF f
<1>5. FrameOk(grammar, f, env, heap)
  BY <1>2, <1>3, <1>4 DEF FrameOk
<1>6. Top.rest \in Modes \ {"broke"}
  BY <1>2, FrameFields
<1>7. /\ mode' # "off" => Idle(f)
      /\ mode' # "off" \/ ~Idle(f) => mode # "off" \/ ~Idle(Top)
  BY <1>1, <1>2, <1>4 DEF Idle
<1>8. Visitable(grammar, abs') /\ (mode' = "on" => Live(abs', env, heap))
  BY <1>1, <1>2, WfIsAlive DEF Visitable, Live
<1>9. QED
  BY <1>1, <1>4, <1>5, <1>6, <1>7, <1>8, GrowStays, SetStep

(* Where parts end, the join is right wherever Python comes from. *)
LEMMA JoinStep ==
  ASSUME IInv, blocks # <<>>, Top.kind # "for", Pop, UNCHANGED <<env, heap, length, grammar>>,
         NEW paths, \A s \in paths : Visitable(grammar, s), abs' = Join(paths),
         mode' \in {mode, Top.rest, Top.after},
         mode' = "on" => \E s \in paths : Live(s, env, heap)
  PROVE  IInv'
<1>1. Visitable(grammar, abs') /\ (mode' = "on" => Live(abs', env, heap))
  BY JoinIsVisitable, JoinIsLive
<1>2. mode' \in Modes \ {"broke"}
  BY TopStands, FrameFields
<1>3. mode' # "off" => mode # "off" \/ ~Idle(Top)
  BY DEF Idle
<1>4. QED
  BY <1>1, <1>2, <1>3, PopStep

LEMMA EndIfStep ==
  ASSUME IInv, EndIf
  PROVE  IInv'
<1> DEFINE paths == Top.paths \cup {abs} \cup (IF Part("body") THEN {Top.fall} ELSE {})
<1>1. /\ blocks # <<>> /\ Top.kind = "if" /\ Pop /\ UNCHANGED <<env, heap, length, grammar>>
      /\ mode' = Either(mode, Either(Top.rest, Top.after))
      /\ abs' = Join(paths)
  BY DEF EndIf, Inside
<1>2. /\ FrameOk(grammar, Top, env, heap)
      /\ Wf(grammar, Top.fall) /\ (Top.rest = "on" => Ok(Top.fall, env, heap))
      /\ \A s \in Top.paths : Visitable(grammar, s)
      /\ Top.after = "on" => \E s \in Top.paths : Live(s, env, heap)
      /\ Visitable(grammar, abs) /\ (mode = "on" => Live(abs, env, heap))
  BY <1>1, TopStands
<1>3. \A s \in paths : Visitable(grammar, s)
  BY <1>2 DEF Visitable
<1>4. mode' \in {mode, Top.rest, Top.after}
  BY <1>1 DEF Either
<1>5. Top.rest = "on" => Top.fall \in paths /\ Live(Top.fall, env, heap)
  <2>1. Top.rest = "on" => Part("body")
    BY <1>1, <1>2 DEF FrameOk, Part
  <2>2. QED
    BY <2>1, <1>2, WfIsAlive DEF Live
<1>6. Top.paths \subseteq paths /\ abs \in paths
  OBVIOUS
<1> HIDE DEF paths
<1>7. mode' = "on" => \E s \in paths : Live(s, env, heap)
  BY <1>2, <1>4, <1>5, <1>6
<1>8. QED
  BY <1>1, <1>3, <1>4, <1>7, JoinStep

LEMMA MatchStep ==
  ASSUME IInv, Match
  PROVE  IInv'
<1> DEFINE f == Frame("match", "cases", abs, mode)
<1>1. /\ Open("match") /\ abs # Dead /\ mode # "broke" /\ UNCHANGED <<env, heap>>
      /\ mode' = "off" /\ abs' = abs /\ Push(f)
  BY DEF Match, Open, IInv, LoopInv
<1>2. /\ Wf(grammar, abs) /\ (mode = "on" => Ok(abs, env, heap)) /\ mode \in Modes \ {"broke"}
  BY <1>1, HereIsVisitable
<1>3. FrameOk(grammar, f, env, heap)
  BY <1>2, FrameIsOk
<1>4. f.kind = "match" /\ (Idle(f) <=> mode = "off")
  BY DEF Frame, Idle
<1> HIDE DEF f
<1>5. QED
  BY <1>1, <1>2, <1>3, <1>4, PushStep DEF Modes

(* Python takes a case or goes to the next. *)
LEMMA CaseIsKept ==
  ASSUME IInv, blocks # <<>>, Top.kind = "match", Grow, UNCHANGED <<env, heap>>,
         NEW truths, truths \subseteq BOOLEAN, NEW way \in Branch(truths, Top.rest),
         NEW part \in {"body", "last"}, part = "last" => FALSE \notin truths,
         NEW fall, Wf(grammar, fall), Top.rest = "on" /\ FALSE \in truths => Ok(fall, env, heap),
         Wf(grammar, abs'), Top.rest = "on" /\ TRUE \in truths => Ok(abs', env, heap),
         mode' = way.here, Set([Top EXCEPT !.part = part, !.rest = way.rest, !.fall = fall])
  PROVE  IInv'
<1> DEFINE f == [Top EXCEPT !.part = part, !.rest = way.rest, !.fall = fall]
<1>1. /\ FrameOk(grammar, Top, env, heap) /\ Top \in Frames /\ (mode # "off" => Idle(Top))
      /\ \A s \in Top.paths : Visitable(grammar, s)
      /\ Top.after = "on" => \E s \in Top.paths : Live(s, env, heap)
      /\ Top.rest = "off" \/ Top.after = "off"
  BY TopStands DEF FrameOk
<1>2. Top.rest \in Modes \ {"broke"}
  BY <1>1, FrameFields
<1>3. Parts(way, truths, Top.rest)
  BY <1>2, BranchIsSound
<1>4. f \in Frames
  BY <1>1, <1>3 DEF Frames, Wf, Parts
<1>5. /\ f.kind = "match" /\ f.part = part /\ f.fall = fall /\ f.paths = Top.paths
      /\ f.rest = way.rest /\ f.after = Top.after
  BY <1>1 DEF Frames
<1>6. Set(f)
  OBVIOUS
<1> HIDE DEF f
<1>7. FrameOk(grammar, f, env, heap)
  <2>1. f.rest = "on" => Ok(f.fall, env, heap) /\ f.part # "last"
    BY <1>3, <1>5 DEF Parts
  <2>2. f.rest = "off" \/ f.after = "off"
    BY <1>1, <1>3, <1>5 DEF Parts
  <2>3. QED
    BY <2>1, <2>2, <1>1, <1>4, <1>5 DEF FrameOk
<1>8. mode' = "on" => Ok(abs', env, heap)
  BY <1>3 DEF Parts
<1>9. /\ mode' # "off" => Idle(f)
      /\ mode' # "off" \/ ~Idle(f) => mode # "off" \/ ~Idle(Top)
  BY <1>1, <1>3, <1>5 DEF Parts, Idle
<1>10. mode' \in Modes \ {"broke"}
  BY <1>3 DEF Parts, Modes
<1>11. Visitable(grammar, abs') /\ (mode' = "on" => Live(abs', env, heap))
  BY <1>8, WfIsAlive DEF Visitable, Live
<1>12. QED
  BY <1>5, <1>6, <1>7, <1>9, <1>10, <1>11, GrowStays, SetStep

LEMMA CaseStep ==
  ASSUME IInv, Careful, Case
  PROVE  IInv'
<1>1. /\ blocks # <<>> /\ Top.kind = "match" /\ Grow /\ UNCHANGED <<env, heap>>
  BY DEF Case, Inside
<1>2. /\ Top \in Frames /\ Wf(grammar, Top.fall) /\ (Top.rest = "on" => Ok(Top.fall, env, heap))
  BY <1>1, TopStands
<1>3. ASSUME NEW irrefutable \in BOOLEAN, NEW way \in Branch(IF irrefutable THEN {TRUE} ELSE BOOLEAN, Top.rest),
             mode' = way.here, abs' = Top.fall,
             Set([Top EXCEPT !.part = IF irrefutable THEN "last" ELSE "body", !.rest = way.rest])
      PROVE  IInv'
  <2> DEFINE truths == IF irrefutable THEN {TRUE} ELSE BOOLEAN
             part == IF irrefutable THEN "last" ELSE "body"
             fall == Top.fall
  <2>1. /\ truths \subseteq BOOLEAN /\ part \in {"body", "last"} /\ (part = "last" => FALSE \notin truths)
        /\ way \in Branch(truths, Top.rest)
    BY <1>3
  <2>2. Set([Top EXCEPT !.part = part, !.rest = way.rest, !.fall = fall])
    <3>1. [Top EXCEPT !.part = part, !.rest = way.rest, !.fall = fall] = [Top EXCEPT !.part = part, !.rest = way.rest]
      BY <1>2 DEF Frames
    <3>2. QED
      BY <3>1, <1>3
  <2>3. Wf(grammar, fall) /\ (Top.rest = "on" => Ok(fall, env, heap)) /\ abs' = fall
    BY <1>2, <1>3
  <2> HIDE DEF truths, part, fall
  <2>4. QED
    BY <2>1, <2>2, <2>3, <1>1, <1>3, CaseIsKept
<1>4. ASSUME NEW t \in Tests, NEW way \in Branch(Truths(t) \cup {}, Top.rest),
             mode' = way.here, abs' = Condition(t, Top.fall).true,
             Set([Top EXCEPT !.part = "body", !.rest = way.rest, !.fall = Condition(t, @).false])
      PROVE  IInv'
  <2> DEFINE truths == Truths(t)
             fall == Condition(t, Top.fall).false
  <2>1. /\ Wf(grammar, abs') /\ Wf(grammar, fall) /\ truths \subseteq BOOLEAN
        /\ Top.rest = "on" /\ TRUE \in truths => Ok(abs', env, heap)
        /\ Top.rest = "on" /\ FALSE \in truths => Ok(fall, env, heap)
    BY <1>2, <1>4, TestsAreSyntax, ConditionIsSound
  <2>2. way \in Branch(truths, Top.rest)
    <3>1. Truths(t) \cup {} = truths
      OBVIOUS
    <3>2. QED
      BY <3>1, <1>4
  <2>3. Set([Top EXCEPT !.part = "body", !.rest = way.rest, !.fall = fall])
    BY <1>2, <1>4 DEF Frames
  <2> HIDE DEF truths, fall
  <2>4. QED
    BY <2>1, <2>2, <2>3, <1>1, <1>4, CaseIsKept
<1>5. "guard" \notin Blocks
  BY DEF Careful
<1>6. QED
  BY <1>3, <1>4, <1>5 DEF Case

LEMMA EndCaseStep ==
  ASSUME IInv, EndCase
  PROVE  IInv'
<1> DEFINE part == IF Part("last") THEN "closed" ELSE "cases"
           f == [Top EXCEPT !.part = part, !.paths = @ \cup {abs}, !.after = Either(@, mode)]
<1>1. /\ blocks # <<>> /\ Top.kind = "match" /\ UNCHANGED <<abs, env, heap, length, grammar>>
      /\ mode' = "off" /\ Set(f)
  BY DEF EndCase, Inside
<1>2. /\ FrameOk(grammar, Top, env, heap) /\ Top \in Frames /\ (mode # "off" => Idle(Top))
      /\ Wf(grammar, Top.fall) /\ (Top.rest = "on" => Ok(Top.fall, env, heap))
      /\ \A s \in Top.paths : Visitable(grammar, s)
      /\ Top.after = "on" => \E s \in Top.paths : Live(s, env, heap)
      /\ Visitable(grammar, abs) /\ (mode = "on" => Live(abs, env, heap)) /\ abs \in States \cup {Dead}
      /\ mode \in Modes \ {"broke"} /\ length \in 0..MaxLength
      /\ Top.rest = "off" \/ Top.after = "off"
  BY <1>1, TopStands DEF FrameOk
<1>3. /\ part \in {"closed", "cases"} /\ (part = "closed" => Top.rest # "on")
  BY <1>1, <1>2 DEF FrameOk, Part
<1> HIDE DEF part
<1>4. Either(Top.after, mode) \in Modes \ {"broke"}
  BY <1>2, FrameFields DEF Either
<1>5. f \in Frames
  BY <1>2, <1>3, <1>4 DEF Frames
<1>6. /\ f.kind = "match" /\ f.part = part /\ f.fall = Top.fall /\ f.paths = Top.paths \cup {abs}
      /\ f.rest = Top.rest /\ f.after = Either(Top.after, mode)
  BY <1>1, <1>2 DEF Frames
<1> HIDE DEF f
<1>7. FrameOk(grammar, f, env, heap)
  <2>1. f.after = "on" => \E s \in f.paths : Live(s, env, heap)
    BY <1>2, <1>6 DEF Either
  <2>2. f.rest = "off" \/ f.after = "off"
    BY <1>2, <1>6 DEF Either, Idle
  <2>3. \A s \in f.paths : Visitable(grammar, s)
    BY <1>2, <1>6
  <2>4. QED
    BY <2>1, <2>2, <2>3, <1>2, <1>3, <1>5, <1>6 DEF FrameOk
<1>8. ~Idle(f) => mode # "off" \/ ~Idle(Top)
  BY <1>6 DEF Idle, Either
<1>9. Visitable(grammar, abs') /\ mode' \in Modes \ {"broke"}
  BY <1>1, <1>2 DEF Modes
<1>10. QED
  BY <1>1, <1>2, <1>6, <1>7, <1>8, <1>9, SetStep

LEMMA EndMatchStep ==
  ASSUME IInv, EndMatch
  PROVE  IInv'
<1> DEFINE paths == Top.paths \cup (IF Part("cases") THEN {Top.fall} ELSE {})
<1>1. /\ blocks # <<>> /\ Top.kind = "match" /\ Pop /\ UNCHANGED <<env, heap, length, grammar>>
      /\ Part("cases") \/ Part("closed")
      /\ mode' = Either(Top.after, Top.rest)
      /\ abs' = Join(paths)
  BY DEF EndMatch, Inside
<1>2. /\ FrameOk(grammar, Top, env, heap)
      /\ Wf(grammar, Top.fall) /\ (Top.rest = "on" => Ok(Top.fall, env, heap))
      /\ \A s \in Top.paths : Visitable(grammar, s)
      /\ Top.after = "on" => \E s \in Top.paths : Live(s, env, heap)
  BY <1>1, TopStands
<1>3. \A s \in paths : Visitable(grammar, s)
  BY <1>2 DEF Visitable
<1>4. mode' \in {Top.rest, Top.after}
  BY <1>1 DEF Either
<1>5. Top.rest = "on" => Top.fall \in paths /\ Live(Top.fall, env, heap)
  <2>1. Top.rest = "on" => Part("cases")
    BY <1>1, <1>2 DEF FrameOk, Part
  <2>2. QED
    BY <2>1, <1>2, WfIsAlive DEF Live
<1>6. Top.paths \subseteq paths
  OBVIOUS
<1> HIDE DEF paths
<1>7. mode' = "on" => \E s \in paths : Live(s, env, heap)
  BY <1>2, <1>4, <1>5, <1>6
<1>8. QED
  BY <1>1, <1>3, <1>4, <1>7, JoinStep

LEMMA TryStep ==
  ASSUME IInv, Try
  PROVE  IInv'
<1> DEFINE rest == IF mode = "on" THEN "off" ELSE mode
           f == Frame("try", "body", abs, rest)
<1>1. /\ Open("try") /\ abs # Dead /\ mode # "broke" /\ UNCHANGED <<env, heap>>
      /\ mode' = (IF mode = "on" THEN "on" ELSE "off") /\ abs' = abs /\ Push(f)
  BY DEF Try, Open, IInv, LoopInv
<1>2. /\ Wf(grammar, abs) /\ (mode = "on" => Ok(abs, env, heap)) /\ mode \in Modes \ {"broke"}
  BY <1>1, HereIsVisitable
<1>3. rest \in Modes \ {"broke"} /\ rest # "on" /\ (mode' # "off" => rest = "off") /\ (mode = "off" => rest = "off")
  BY <1>1, <1>2 DEF Modes
<1> HIDE DEF rest
<1>4. FrameOk(grammar, f, env, heap)
  BY <1>2, <1>3, FrameIsOk
<1>5. f.kind = "try" /\ (Idle(f) <=> rest = "off")
  BY DEF Frame, Idle
<1> HIDE DEF f
<1>6. mode' \in Modes \ {"broke"} /\ (mode' = "on" => mode = "on") /\ (mode' # "off" => mode # "off")
  BY <1>1 DEF Modes
<1>7. QED
  BY <1>1, <1>2, <1>3, <1>4, <1>5, <1>6, PushStep

LEMMA HandlerStep ==
  ASSUME IInv, Handler
  PROVE  IInv'
<1>1. /\ blocks # <<>> /\ Top.kind = "try" /\ Grow /\ UNCHANGED <<env, heap>> /\ abs' = Fresh
  BY DEF Handler, Inside, HandlerState
<1>2. PICK caught \in BOOLEAN :
        /\ mode' = IF mode = "raised" /\ caught THEN "on" ELSE "off"
        /\ Set([Top EXCEPT !.part = "handler", !.paths = {abs},
                  !.after = IF mode = "raised" /\ caught THEN "off" ELSE mode])
  BY DEF Handler
<1> DEFINE after == IF mode = "raised" /\ caught THEN "off" ELSE mode
           f == [Top EXCEPT !.part = "handler", !.paths = {abs}, !.after = after]
<1>3. /\ FrameOk(grammar, Top, env, heap) /\ Top \in Frames /\ (mode # "off" => Idle(Top))
      /\ Wf(grammar, Top.fall)
      /\ Visitable(grammar, abs) /\ (mode = "on" => Live(abs, env, heap)) /\ abs \in States \cup {Dead}
      /\ mode \in Modes \ {"broke"} /\ Top.rest # "on"
  BY <1>1, TopStands DEF FrameOk
<1>4. /\ after \in Modes \ {"broke"} /\ (after = "on" => mode = "on") /\ (after # "off" => mode # "off")
      /\ mode' # "off" => after = "off" /\ mode # "off"
      /\ mode' \in Modes \ {"broke"}
  BY <1>2, <1>3 DEF Modes
<1> HIDE DEF after
<1>5. f \in Frames
  BY <1>3, <1>4 DEF Frames
<1>6. /\ f.kind = "try" /\ f.part = "handler" /\ f.fall = Top.fall /\ f.paths = {abs}
      /\ f.rest = Top.rest /\ f.after = after
  BY <1>1, <1>3 DEF Frames
<1>7. Set(f)
  BY <1>2 DEF after
<1> HIDE DEF f
<1>8. FrameOk(grammar, f, env, heap)
  <2>1. f.after = "on" => \E s \in f.paths : Live(s, env, heap)
    BY <1>3, <1>4, <1>6
  <2>2. f.rest = "off" \/ f.after = "off"
    BY <1>3, <1>4, <1>6 DEF Idle
  <2>3. QED
    BY <2>1, <2>2, <1>3, <1>5, <1>6 DEF FrameOk
<1>9. /\ mode' # "off" => Idle(f)
      /\ mode' # "off" \/ ~Idle(f) => mode # "off" \/ ~Idle(Top)
  BY <1>3, <1>4, <1>6 DEF Idle
<1>10. Visitable(grammar, abs') /\ Live(abs', env, heap)
  BY <1>1, FreshIsWf, FreshIsLive DEF Visitable
<1>11. QED
  BY <1>1, <1>4, <1>6, <1>7, <1>8, <1>9, <1>10, GrowStays, SetStep

LEMMA OrelseStep ==
  ASSUME IInv, Orelse
  PROVE  IInv'
<1> DEFINE done == Top.after = "on"
           after == IF done THEN "off" ELSE Either(mode, Top.after)
           f == [Top EXCEPT !.part = "orelse", !.paths = @ \cup {abs}, !.after = after]
<1>1. /\ blocks # <<>> /\ Top.kind = "try" /\ Top.part = "handler" /\ Grow /\ UNCHANGED <<env, heap>>
      /\ mode' = IF done THEN "on" ELSE "off"
  BY DEF Orelse, Inside, Part
<1>2. PICK body \in Top.paths \ {Dead} : abs' = body
  BY DEF Orelse
<1>3. /\ FrameOk(grammar, Top, env, heap) /\ Top \in Frames /\ (mode # "off" => Idle(Top))
      /\ Wf(grammar, Top.fall)
      /\ \A s \in Top.paths : Visitable(grammar, s)
      /\ Top.after = "on" => \E s \in Top.paths : Live(s, env, heap)
      /\ Visitable(grammar, abs) /\ (mode = "on" => Live(abs, env, heap)) /\ abs \in States \cup {Dead}
      /\ mode \in Modes \ {"broke"} /\ Top.rest # "on"
      /\ Top.rest = "off" \/ Top.after = "off"
      /\ \A s, t \in Top.paths : s = t
  BY <1>1, TopStands DEF FrameOk
<1>4. Top.after \in Modes \ {"broke"}
  BY <1>3, FrameFields
<1>5. /\ after \in Modes \ {"broke"} /\ (after = "on" => mode = "on")
      /\ after # "off" => mode # "off" \/ Top.after # "off"
      /\ mode' # "off" => after = "off" /\ Top.after = "on"
      /\ mode' = "on" => Top.after = "on"
      /\ mode' \in Modes \ {"broke"}
  BY <1>1, <1>3, <1>4 DEF Modes, Either
<1> HIDE DEF after
<1>6. f \in Frames
  BY <1>3, <1>5 DEF Frames
<1>7. /\ f.kind = "try" /\ f.part = "orelse" /\ f.fall = Top.fall /\ f.paths = Top.paths \cup {abs}
      /\ f.rest = Top.rest /\ f.after = after
  BY <1>1, <1>3 DEF Frames
<1>8. Set(f)
  BY DEF Orelse, after
<1> HIDE DEF f
<1>9. FrameOk(grammar, f, env, heap)
  <2>1. f.after = "on" => \E s \in f.paths : Live(s, env, heap)
    BY <1>3, <1>5, <1>7
  <2>2. f.rest = "off" \/ f.after = "off"
    BY <1>3, <1>5, <1>7 DEF Idle
  <2>3. \A s \in f.paths : Visitable(grammar, s)
    BY <1>3, <1>7
  <2>4. QED
    BY <2>1, <2>2, <2>3, <1>3, <1>6, <1>7 DEF FrameOk
<1>10. /\ mode' # "off" => Idle(f)
       /\ mode' # "off" \/ ~Idle(f) => mode # "off" \/ ~Idle(Top)
  BY <1>3, <1>5, <1>7 DEF Idle
<1>11. Visitable(grammar, abs') /\ (mode' = "on" => Live(abs', env, heap))
  BY <1>2, <1>3, <1>5
<1>12. QED
  BY <1>1, <1>5, <1>7, <1>8, <1>9, <1>10, <1>11, GrowStays, SetStep

LEMMA EndTryStep ==
  ASSUME IInv, EndTry
  PROVE  IInv'
<1> DEFINE paths == Top.paths \cup {abs}
<1>1. /\ blocks # <<>> /\ Top.kind = "try" /\ Pop /\ UNCHANGED <<env, heap, length, grammar>>
      /\ mode' = Either(mode, Either(Top.after, Top.rest))
      /\ abs' = Join(paths)
  BY DEF EndTry, Inside
<1>2. /\ \A s \in Top.paths : Visitable(grammar, s)
      /\ Top.after = "on" => \E s \in Top.paths : Live(s, env, heap)
      /\ Visitable(grammar, abs) /\ (mode = "on" => Live(abs, env, heap))
      /\ Top.rest # "on"
  BY <1>1, TopStands DEF FrameOk
<1>3. \A s \in paths : Visitable(grammar, s)
  BY <1>2
<1>4. mode' \in {mode, Top.rest, Top.after}
  BY <1>1 DEF Either
<1>5. Top.paths \subseteq paths /\ abs \in paths
  OBVIOUS
<1> HIDE DEF paths
<1>6. mode' = "on" => \E s \in paths : Live(s, env, heap)
  BY <1>2, <1>4, <1>5
<1>7. QED
  BY <1>1, <1>3, <1>4, <1>6, JoinStep

(* A careful grammar has no finally. *)
LEMMA FinallyStep ==
  ASSUME IInv, Careful, Finally \/ EndFinally
  PROVE  FALSE
<1>1. "finally" \notin Blocks
  BY DEF Careful
<1>2. CASE Finally
  BY <1>1, <1>2 DEF Finally
<1>3. CASE EndFinally
  <2>1. blocks # <<>> /\ Top.kind = "finally"
    BY <1>3 DEF EndFinally, Inside
  <2>2. Top.kind \in {"if", "match", "try", "for", "opaque"}
    BY <2>1, TopStands, FrameFields
  <2>3. QED
    BY <2>1, <2>2
<1>4. QED
  BY <1>2, <1>3

LEMMA OpaqueStep ==
  ASSUME IInv, Opaque
  PROVE  IInv'
<1>1. /\ Open("opaque") /\ abs # Dead /\ mode # "broke" /\ UNCHANGED <<env, heap>> /\ abs' = Fresh
  BY DEF Opaque, Open, IInv, LoopInv
<1>2. PICK rest \in {"off", mode} :
        /\ Push(Frame("opaque", "body", abs, rest))
        /\ mode' \in {mode, "off"} /\ (mode' # "off" => rest = "off")
  BY DEF Opaque
<1> DEFINE f == Frame("opaque", "body", abs, rest)
<1>3. /\ Wf(grammar, abs) /\ (mode = "on" => Ok(abs, env, heap)) /\ mode \in Modes \ {"broke"}
  BY <1>1, HereIsVisitable
<1>4. rest \in Modes \ {"broke"} /\ (rest = "on" => mode = "on") /\ (rest # "off" => mode # "off")
  BY <1>2, <1>3 DEF Modes
<1>5. FrameOk(grammar, f, env, heap)
  BY <1>3, <1>4, FrameIsOk
<1>6. f.kind = "opaque" /\ (Idle(f) <=> rest = "off")
  BY DEF Frame, Idle
<1>7. Push(f)
  BY <1>2
<1> HIDE DEF f
<1>8. mode' \in Modes \ {"broke"} /\ (mode' # "off" => mode # "off")
  BY <1>2, <1>3 DEF Modes
<1>9. Wf(grammar, abs') /\ Ok(abs', env, heap)
  BY <1>1, FreshIsWf, FreshIsOk
<1>10. QED
  BY <1>1, <1>2, <1>4, <1>5, <1>6, <1>7, <1>8, <1>9, PushStep

LEMMA EndOpaqueStep ==
  ASSUME IInv, EndOpaque
  PROVE  IInv'
<1>1. /\ blocks # <<>> /\ Top.kind = "opaque" /\ Pop /\ UNCHANGED <<env, heap, length, grammar>>
      /\ mode' = Either(mode, Top.rest) /\ abs' = Fresh
  BY DEF EndOpaque, Inside, AfterOpaque
<1>2. mode \in Modes \ {"broke"} /\ Top.rest \in Modes \ {"broke"}
  BY <1>1, TopStands, FrameFields
<1>3. mode' \in Modes \ {"broke"} /\ (mode' # "off" => mode # "off" \/ ~Idle(Top))
  BY <1>1, <1>2 DEF Either, Idle
<1>4. Visitable(grammar, abs') /\ Live(abs', env, heap)
  BY <1>1, FreshIsWf, FreshIsLive DEF Visitable
<1>5. QED
  BY <1>1, <1>3, <1>4, PopStep

LEMMA InitHolds ==
  ASSUME Init
  PROVE  IInv
<1>1. grammar \in DOMAIN Grammars /\ mode = "on" /\ blocks = <<>> /\ length = 0
  BY DEF Init
<1>2. PICK p \in Params : \E has \in SUBSET Keys :
       /\ p.keys \subseteq has
       /\ env = [n \in Names |-> IF n = p.name THEN CHOOSE o \in Objects : TRUE ELSE "other"]
       /\ heap = [o \in Objects |-> IF o \in {env[n] : n \in Names} THEN Object("dict", has, "other") ELSE Free]
       /\ abs = IF p.name \in Names THEN BindDict(Fresh, p.name, p.keys) ELSE Fresh
  BY DEF Init
<1>3. PICK has \in SUBSET Keys :
       /\ p.keys \subseteq has
       /\ env = [n \in Names |-> IF n = p.name THEN CHOOSE o \in Objects : TRUE ELSE "other"]
       /\ heap = [o \in Objects |-> IF o \in {env[n] : n \in Names} THEN Object("dict", has, "other") ELSE Free]
       /\ abs = IF p.name \in Names THEN BindDict(Fresh, p.name, p.keys) ELSE Fresh
  BY <1>2
<1> DEFINE first == CHOOSE o \in Objects : TRUE
<1>4. first \in Objects /\ "other" \notin Objects
  BY ValuesAreApart
<1>5. p.keys \in SUBSET Keys /\ MaxLength \in Nat /\ MaxDepth \in Nat
  BY <1>1, GrammarsAreSyntax DEF Params, MaxLength, MaxDepth
<1>6. env = [n \in Names |-> IF n = p.name THEN first ELSE "other"]
  BY <1>3
<1> HIDE DEF first
<1>7. \A o \in Objects : heap[o] \in {Object("dict", has, "other"), Free}
  BY <1>3
<1>8. env \in Envs
  BY <1>4, <1>6 DEF Envs
<1>9. heap \in Heaps
  <2>1. heap = [o \in Objects |-> heap[o]]
    BY <1>3
  <2>2. \A o \in Objects : heap[o] \in [kind : {"free", "dict", "coll", "box"}, keys : SUBSET Keys,
                                       of : Keys \cup Objects \cup {"other"}]
    BY <1>3, <1>7 DEF Object, Free
  <2>3. QED
    BY <2>1, <2>2 DEF Heaps
<1>10. World(grammar, env, heap)
  <2>1. \A m, n \in Names : env[m] = env[n] /\ env[m] \in Objects => m = n
    BY <1>4, <1>6
  <2>2. \A o \in Objects : heap[o].kind # "coll"
    BY <1>7 DEF Object, Free
  <2>3. QED
    BY <1>8, <1>9, <2>1, <2>2 DEF World
<1>11. Wf(grammar, abs) /\ Ok(abs, env, heap)
  <2>1. CASE p.name \in Names
    <3> DEFINE x == p.name
               ks == p.keys
               e == [n \in Names |-> "other"]
    <3>1. heap[env[x]] = Object("dict", has, "other") /\ env[x] = first
      BY <1>3, <1>4, <1>6, <2>1
    <3>2. IsA("dict", env[x], heap) /\ ks \subseteq heap[env[x]].keys
      BY <3>1, <1>3, <1>4 DEF IsA, Object
    <3>3. /\ \A n \in Names \ {x} : env[n] = e[n]
          /\ \A n \in Names : e[n] \in Objects => heap[e[n]] = heap[e[n]]
          /\ x \in Names /\ ks \in SUBSET Keys /\ abs = BindDict(Fresh, x, ks)
      BY <1>3, <1>5, <1>6, <2>1
    <3> HIDE DEF x, ks, e
    <3>4. Wf(grammar, Fresh) /\ Ok(Fresh, e, heap)
      BY FreshIsWf, FreshIsOk
    <3>5. Wf(grammar, BindDict(Fresh, x, ks))
      BY <3>3, <3>4, BindDictIsWf
    <3>6. Ok(BindDict(Fresh, x, ks), env, heap)
      BY <3>2, <3>3, <3>4, BindDictIsOk
    <3>7. QED
      BY <3>3, <3>5, <3>6
  <2>2. CASE p.name \notin Names
    BY <1>3, <2>2, FreshIsWf, FreshIsOk
  <2>3. QED
    BY <2>1, <2>2
<1>12. HereInv
  <2>1. Len(blocks) <= MaxDepth /\ length \in 0..MaxLength
    BY <1>1, <1>5
  <2>2. QED
    BY <1>1, <1>11, <2>1, WfIsAlive DEF HereInv, Modes, Visitable, Live
<1>13. BlocksOk(grammar, blocks, mode, env, heap)
  BY <1>1 DEF BlocksOk
<1>14. LoopInv
  BY <1>1 DEF LoopInv, Inside
<1>15. QED
  BY <1>10, <1>12, <1>13, <1>14 DEF IInv

-----------------------------------------------------------------------------
(* Steps in a loop *)

LEMMA LoopIsKept ==
  ASSUME IInv, grammar' = grammar, World(grammar, env', heap'), length' \in 0..MaxLength,
         Len(blocks') <= MaxDepth, mode' \in Modes, Visitable(grammar, abs'),
         mode' = "on" => Live(abs', env', heap'), BlocksOk(grammar, blocks', mode', env', heap'),
         NEW f, blocks' # <<>>, Head(blocks') = f, f.kind = "for",
         LoopOk(grammar, f, abs', mode', env', heap'), mode' = "broke" => Breaks(f.log)
  PROVE  IInv'
<1>1. grammar \in DOMAIN Grammars
  BY DEF IInv, HereInv
<1>2. World(grammar', env', heap')
  OBVIOUS
<1>3. HereInv'
  BY <1>1 DEF HereInv, MaxLength, MaxDepth
<1>4. BlocksOk(grammar', blocks', mode', env', heap')
  OBVIOUS
<1>5. Top' = f
  BY DEF Top
<1>6. LoopOk(grammar', f, abs', mode', env', heap')
  OBVIOUS
<1>7. LoopInv'
  BY <1>5, <1>6 DEF LoopInv, Inside
<1>8. QED
  BY <1>2, <1>3, <1>4, <1>7 DEF IInv

(* A step of the innermost loop *)
LEMMA LoopStep ==
  ASSUME IInv, Inside("for"), grammar' = grammar, length' \in 0..MaxLength, World(grammar, env', heap'),
         NEW f, Set(f), FrameOk(grammar, f, env', heap'), f.kind = "for", mode' \in Modes,
         Idle(f) <=> Idle(Top), mode' # "off" => mode # "off", UNCHANGED <<env, heap>> \/ mode # "off",
         Visitable(grammar, abs'), mode' = "on" => Live(abs', env', heap'),
         LoopOk(grammar, f, abs', mode', env', heap'), mode' = "broke" => Breaks(f.log)
  PROVE  IInv'
<1>1. blocks # <<>> /\ blocks' = <<f>> \o Tail(blocks) /\ ((env' = env /\ heap' = heap) \/ mode # "off")
  BY DEF Set, Inside
<1>2. BlocksOk(grammar, blocks, mode, env, heap) /\ Len(blocks) <= MaxDepth
  BY DEF IInv, HereInv
<1>3. mode # "off" => Idle(Top)
  BY <1>1, TopStands
<1>4. BlocksOk(grammar, blocks', mode', env', heap')
  BY <1>1, <1>2, <1>3, SetKeeps DEF Top
<1>5. Len(blocks') <= MaxDepth /\ Head(blocks') = f /\ blocks' # <<>>
  <2>1. blocks \in Seq(Frames) /\ f \in Frames
    BY <1>2 DEF BlocksOk, FrameOk
  <2>2. QED
    BY <1>1, <1>2, <2>1, Replaced
<1>6. QED
  BY <1>4, <1>5, LoopIsKept

(* Where a loop runs, its frame changes but for what was known before it. *)
LEMMA LoopFrameIsOk ==
  ASSUME IInv, Inside("for"), NEW f \in Frames, f.kind = "for", f.part \in {"body", "clear", "again"},
         f.fall = Top.fall, f.paths = Top.paths, f.rest = Top.rest, f.after = Top.after, NEW e, NEW h,
         (e = env /\ h = heap) \/ mode # "off"
  PROVE  FrameOk(grammar, f, e, h) /\ (Idle(f) <=> Idle(Top))
<1>1. FrameOk(grammar, Top, env, heap) /\ (mode # "off" => Idle(Top))
  BY TopStands DEF Inside
<1>2. Idle(f) <=> Idle(Top)
  BY DEF Idle
<1>3. FrameOk(grammar, f, env, heap)
  BY <1>1 DEF FrameOk
<1>4. QED
  BY <1>1, <1>2, <1>3, IdleIsOk

LEMMA LoopStands ==
  ASSUME IInv, Inside("for")
  PROVE  /\ LoopOk(grammar, Top, abs, mode, env, heap) /\ Top \in Frames /\ Top.kind = "for" /\ blocks # <<>>
         /\ Wf(grammar, Top.fall) /\ Top.log \in Seq(Logged) /\ Len(Top.log) \in Nat
         /\ mode \in Modes /\ Visitable(grammar, abs) /\ (mode = "on" => Live(abs, env, heap) /\ Wf(grammar, abs))
         /\ mode = "broke" => Breaks(Top.log)
         /\ World(grammar, env, heap) /\ length \in 0..MaxLength
         /\ Top.part \in {"body", "clear", "again"} /\ Top.name \in Names
<1>1. LoopOk(grammar, Top, abs, mode, env, heap) /\ World(grammar, env, heap) /\ (mode = "broke" => Breaks(Top.log))
  BY DEF IInv, LoopInv
<1>2. Top.kind = "for" /\ blocks # <<>>
  BY DEF Inside
<1>3. /\ Top \in Frames /\ Wf(grammar, Top.fall) /\ mode \in Modes /\ Visitable(grammar, abs)
      /\ length \in 0..MaxLength /\ (mode = "on" => Live(abs, env, heap))
  BY <1>2, TopStands
<1>4. mode = "on" => Wf(grammar, abs)
  BY <1>3 DEF Visitable, Live
<1>5. Top.log \in Seq(Logged) /\ Len(Top.log) \in Nat
  BY <1>3, FrameFields
<1>6. Top.part \in {"body", "clear", "again"} /\ Top.name \in Names
  BY <1>1 DEF LoopOk
<1>7. QED
  BY <1>1, <1>2, <1>3, <1>4, <1>5, <1>6

LEMMA EmptyLog ==
  ASSUME NEW entry
  PROVE  ~Invalidates(<<>>, entry)
  BY DEF Invalidates

(* The elements of the collection, in the order Python meets them *)
LEMMA OrderShape ==
  ASSUME NEW S, S \subseteq Keys, S # {}, NEW order \in SetToSeqs(S)
  PROVE  /\ Head(order) \in S /\ Tail(order) \in Seq(Keys)
         /\ \A i \in 1..Len(Tail(order)) : Tail(order)[i] \in S
<1>1. IsFiniteSet(S)
  BY ValuesAreApart, FS_Subset
<1>2. Cardinality(S) \in Nat /\ Cardinality(S) # 0
  BY <1>1, FS_CardinalityType, FS_EmptySet
<1>3. order \in [1..Cardinality(S) -> S]
  BY DEF SetToSeqs
<1>4. order \in Seq(S) /\ Len(order) = Cardinality(S) /\ order # <<>>
  <2> DEFINE n == Cardinality(S)
  <2>1. n \in Nat /\ n # 0 /\ order \in [1..n -> S]
    BY <1>2, <1>3
  <2> HIDE DEF n
  <2>2. order \in Seq(S) /\ Len(order) = n
    BY <2>1
  <2>3. QED
    BY <2>1, <2>2 DEF n
<1>5. /\ Head(order) \in S /\ Tail(order) \in Seq(S)
  BY <1>4, HeadTailProperties
<1>6. \A i \in 1..Len(Tail(order)) : Tail(order)[i] \in S
  BY <1>5
<1>7. Tail(order) \in Seq(Keys)
  <2>1. S \subseteq Keys
    OBVIOUS
  <2>2. QED
    BY <1>5, <2>1
<1>8. QED
  BY <1>5, <1>6, <1>7

LEMMA ForIsKept ==
  ASSUME IInv, Open("for"), NEW coll \in Names, NEW name \in Names, NEW invalidates \in BOOLEAN,
         NEW todo \in Seq(Keys), NEW rest \in Modes \ {"broke"},
         Push([Frame("for", IF invalidates THEN "clear" ELSE "body", abs, rest) EXCEPT !.todo = todo, !.name = name]),
         abs' = BodyState(abs, coll, name, invalidates), heap' = heap, World(grammar, env', heap),
         mode' \in {"on", "off"}, mode' # "off" \/ rest # "off" => mode # "off",
         rest = "on" => mode = "on" /\ env' = env, mode' = "on" => rest = "off" /\ mode = "on",
         env' = env \/ mode # "off",
         mode' = "on" => /\ IsA("coll", env[coll], heap) /\ env'[name] \in heap[env[coll]].keys
                         /\ \A i \in 1..Len(todo) : todo[i] \in heap[env[coll]].keys
                         /\ \A n \in Names \ {name} : env'[n] = env[n]
  PROVE  IInv'
<1> DEFINE part == IF invalidates THEN "clear" ELSE "body"
           frame == Frame("for", part, abs, rest)
           f == [frame EXCEPT !.todo = todo, !.name = name]
           base == Base(abs, name)
<1>1. /\ abs # Dead /\ grammar' = grammar /\ length' \in 0..MaxLength /\ Len(blocks) < MaxDepth
      /\ blocks = <<>> \/ Head(blocks).kind # "for"
  BY GrowStays DEF Open, Inside, Top
<1>2. /\ Wf(grammar, abs) /\ (mode = "on" => Ok(abs, env, heap)) /\ mode \in Modes
  BY <1>1, HereIsVisitable
<1>3. part \in {"body", "clear"} /\ (part = "clear" <=> invalidates)
  OBVIOUS
<1>0. base.alias = [abs.alias EXCEPT ![name] = NoRoot] /\ base \in States /\ abs \in States
  <2>1. name \in Names /\ Wf(grammar, abs)
    BY <1>2
  <2>2. Wf(grammar, base) /\ base.alias = [abs.alias EXCEPT ![name] = NoRoot]
    BY ONLY <2>1, BaseShape
  <2>3. QED
    BY <2>1, <2>2, WfIsAlive
<1>4. Push(f)
  OBVIOUS
<1> HIDE DEF part
<1>5. FrameOk(grammar, frame, env, heap) /\ frame \in Frames
  <2>1. /\ rest = "on" => Ok(abs, env, heap)
        /\ Wf(grammar, abs) /\ part \in {"body", "cases", "clear"} /\ rest \in Modes \ {"broke"}
    BY <1>2, <1>3
  <2>2. FrameOk(grammar, frame, env, heap)
    BY ONLY <2>1, FrameIsOk
  <2>3. QED
    BY <2>2 DEF FrameOk
<1>6. /\ f \in Frames /\ f.kind = "for" /\ f.part = part /\ f.fall = abs /\ f.paths = {} /\ f.rest = rest
      /\ f.after = "off" /\ f.log = <<>> /\ f.todo = todo /\ f.name = name
  <2>1. /\ frame.kind = "for" /\ frame.part = part /\ frame.fall = abs /\ frame.paths = {} /\ frame.rest = rest
        /\ frame.after = "off" /\ frame.log = <<>>
    BY DEF Frame
  <2> HIDE DEF frame
  <2>2. QED
    BY <2>1, <1>5 DEF Frames
<1> HIDE DEF f
<1>7. FrameOk(grammar, f, env', heap)
  BY <1>2, <1>3, <1>6 DEF FrameOk
<1>8. BlocksOk(grammar, blocks', mode', env', heap')
  <2>1. mode' # "off" => Idle(f)
    BY <1>6 DEF Idle
  <2>2. ~Idle(f) => rest # "off"
    BY <1>6 DEF Idle
  <2>3. BlocksOk(grammar, blocks, mode, env, heap) /\ blocks' = <<f>> \o blocks
    BY <1>4 DEF IInv, Push
  <2>4. QED
    BY <2>1, <2>2, <2>3, <1>1, <1>7, PushKeeps
<1>9. Len(blocks') <= MaxDepth /\ Head(blocks') = f /\ blocks' # <<>>
  <2>1. blocks \in Seq(Frames) /\ f \in Frames /\ Len(blocks) \in Nat
    BY <1>6 DEF IInv, BlocksOk
  <2>2. Len(blocks') = Len(blocks) + 1 /\ Head(blocks') = f /\ blocks' # <<>>
    BY <1>4, <2>1, Pushed DEF Push
  <2>3. MaxDepth \in Nat
    BY GrammarsAreSyntax DEF IInv, HereInv, MaxDepth
  <2>4. QED
    BY <1>1, <2>1, <2>2, <2>3
<1>10. mode' = "on" => SparedOk(base, coll, todo, env', heap)
  <2>1. SUFFICES ASSUME mode' = "on" PROVE SparedOk(base, coll, todo, env', heap)
    OBVIOUS
  <2> DEFINE e == env'
  <2>2. \A n \in Names \ {name} : e[n] = env[n]
    BY <2>1
  <2> HIDE DEF e
  <2>3. Ok(base, e, heap)
    BY <2>1, <2>2, <1>2, BaseShape
  <2>4. base.alias[coll] \in base.colls => coll # name
    <3> HIDE DEF base
    <3>1. QED
      BY <1>0, StateFields, NoRootIsNone
  <2>5. base.alias[coll] \in base.colls => e[coll] = env[coll]
    BY <2>2, <2>4
  <2> HIDE DEF base
  <2>6. QED
    BY <2>1, <2>3, <2>5 DEF SparedOk, e
<1>11. mode' = "on" => Live(abs', env', heap')
  <2>1. SUFFICES ASSUME mode' = "on" PROVE Live(abs', env', heap)
    OBVIOUS
  <2> DEFINE e == env'
  <2>2. SparedOk(base, coll, todo, e, heap)
    BY <2>1, <1>10
  <2>3. base.alias[coll] \in base.colls => e[name] \in heap[e[coll]].keys
    <3> HIDE DEF base
    <3>1. base.alias[coll] \in base.colls => coll # name
      BY <1>0, StateFields, NoRootIsNone
    <3>2. QED
      BY <3>1, <2>1
  <2>4. Ok(base, e, heap)
    BY <2>2 DEF SparedOk
  <2> HIDE DEF e
  <2>5. Live(BodyState(abs, coll, name, invalidates), e, heap)
    BY <2>3, <2>4, <1>2, BodyStateIsLive
  <2>6. QED
    BY <2>5 DEF e
<1>12. mode' = "on" => Apart(grammar)
  BY DEF IInv, World, IsA
<1>13. LoopOk(grammar, f, abs', mode', env', heap)
  <2>1. Len(f.log) = 0 /\ f.part # "again" /\ ~Invalidates(f.log, f.fall)
    BY <1>3, <1>6, EmptyLog
  <2>2. abs' = BodyState(f.fall, coll, f.name, f.part = "clear")
    BY <1>3, <1>6
  <2>3. mode' = "on" => SparedOk(Base(f.fall, f.name), coll, f.todo, env', heap)
    BY <1>6, <1>10
  <2>4. \E c \in Names : /\ abs' = BodyState(f.fall, c, f.name, f.part = "clear")
                         /\ mode' = "on" => SparedOk(Base(f.fall, f.name), c, f.todo, env', heap)
    BY <2>2, <2>3
  <2>5. QED
    BY <2>1, <2>4, <1>3, <1>6, <1>12 DEF LoopOk
<1>14. Visitable(grammar, abs') /\ mode' \in Modes /\ mode' # "broke"
  <2>1. Wf(grammar, BodyState(abs, coll, name, invalidates))
    BY <1>2, BodyStateIsWf
  <2>2. QED
    BY <2>1 DEF Visitable, Modes
<1>15. QED
  BY <1>1, <1>6, <1>8, <1>9, <1>11, <1>13, <1>14, LoopIsKept

LEMMA ForStep ==
  ASSUME IInv, For
  PROVE  IInv'
<1>1. Open("for") /\ heap' = heap /\ abs # Dead /\ mode # "broke"
  BY DEF For, Open, IInv, LoopInv
<1>2. PICK coll \in Names, name \in Names, invalidates \in BOOLEAN :
       LET frame(todo, m) == [Frame("for", IF invalidates THEN "clear" ELSE "body", abs, m)
                                EXCEPT !.todo = todo, !.name = name]
       IN  /\ abs' = BodyState(abs, coll, name, invalidates)
           /\ IF mode = "on" /\ Is(coll, "coll") /\ KeysOf(coll) # {}
              THEN \E order \in SetToSeqs(KeysOf(coll)) :
                     /\ env' = [env EXCEPT ![name] = Head(order)]
                     /\ Push(frame(Tail(order), "off")) /\ UNCHANGED mode
              ELSE /\ mode' = "off" /\ UNCHANGED env
                   /\ Push(frame(<<>>, IF mode = "on" /\ ~Is(coll, "coll") THEN "raised" ELSE mode))
  BY DEF For
<1>3. World(grammar, env, heap) /\ mode \in Modes
  BY DEF IInv, HereInv
<1>4. CASE mode = "on" /\ Is(coll, "coll") /\ KeysOf(coll) # {}
  <2>1. PICK order \in SetToSeqs(KeysOf(coll)) :
          /\ env' = [env EXCEPT ![name] = Head(order)] /\ mode' = "on"
          /\ Push([Frame("for", IF invalidates THEN "clear" ELSE "body", abs, "off")
                     EXCEPT !.todo = Tail(order), !.name = name])
    BY <1>2, <1>4
  <2>2. IsA("coll", env[coll], heap) /\ KeysOf(coll) = heap[env[coll]].keys
    BY <1>4 DEF Is, IsA, KeysOf
  <2>3. KeysOf(coll) \subseteq Keys
    BY <2>2, <1>3 DEF World, Heaps, IsA
  <2>4. /\ Head(order) \in KeysOf(coll) /\ Tail(order) \in Seq(Keys)
        /\ \A i \in 1..Len(Tail(order)) : Tail(order)[i] \in KeysOf(coll)
    BY <2>1, <2>3, <1>4, OrderShape
  <2>5. /\ env'[name] = Head(order) /\ \A n \in Names \ {name} : env'[n] = env[n]
    BY <2>1, <1>3 DEF World, Envs
  <2>6. World(grammar, env', heap)
    <3>1. Head(order) \in Keys /\ Head(order) \notin Objects
      BY <2>3, <2>4, ValuesAreApart
    <3>2. env' \in Envs
      BY <3>1, <2>1, <1>3 DEF World, Envs
    <3>3. Apart(grammar) => \A m, n \in Names : env'[m] = env'[n] /\ env'[m] \in Objects => m = n
      BY <3>1, <2>5, <1>3 DEF World
    <3>4. QED
      BY <3>2, <3>3, <1>3 DEF World
  <2> DEFINE todo == Tail(order)
             rest == "off"
  <2>7. /\ todo \in Seq(Keys) /\ \A i \in 1..Len(todo) : todo[i] \in heap[env[coll]].keys
        /\ Push([Frame("for", IF invalidates THEN "clear" ELSE "body", abs, rest) EXCEPT !.todo = todo, !.name = name])
        /\ rest \in Modes \ {"broke"} /\ rest = "off"
    BY <2>1, <2>2, <2>4 DEF Modes
  <2> HIDE DEF todo, rest
  <2>8. env'[name] \in heap[env[coll]].keys
    BY <2>2, <2>4, <2>5
  <2>9. QED
    BY <2>1, <2>2, <2>5, <2>6, <2>7, <2>8, <1>1, <1>2, <1>4, ForIsKept
<1>5. CASE ~(mode = "on" /\ Is(coll, "coll") /\ KeysOf(coll) # {})
  <2> DEFINE todo == <<>>
             rest == IF mode = "on" /\ ~Is(coll, "coll") THEN "raised" ELSE mode
  <2>1. /\ mode' = "off" /\ env' = env /\ abs' = BodyState(abs, coll, name, invalidates)
        /\ Push([Frame("for", IF invalidates THEN "clear" ELSE "body", abs, rest) EXCEPT !.todo = todo, !.name = name])
    BY <1>2, <1>5
  <2>2. /\ todo \in Seq(Keys) /\ rest \in Modes \ {"broke"} /\ (rest # "off" => mode # "off")
        /\ rest = "on" => mode = "on"
    BY <1>1, <1>3 DEF Modes
  <2> HIDE DEF todo, rest
  <2>3. QED
    BY <2>1, <2>2, <1>1, <1>3, ForIsKept
<1>6. QED
  BY <1>4, <1>5

(* One more statement of the body *)
LEMMA LogGrows ==
  ASSUME NEW log \in Seq(Logged), NEW row \in Logged
  PROVE  LET l == Append(log, row)
         IN  /\ l \in Seq(Logged) /\ Len(l) = Len(log) + 1 /\ l[Len(l)] = row /\ l # <<>>
             /\ \A i \in 1..Len(log) : i \in 1..Len(l) /\ l[i] = log[i]
             /\ \A i \in 1..Len(l) : i \in 1..Len(log) \/ i = Len(l)
             /\ Len(log) \in Nat /\ Len(l) \in 1..Len(l)
  OBVIOUS

LEMMA HarmGrows ==
  ASSUME NEW log \in Seq(Logged), NEW row \in Logged, NEW entry
  PROVE  /\ Invalidates(Append(log, row), entry) <=> Invalidates(log, entry) \/ Harmful(row.st, entry)
         /\ Breaks(Append(log, row)) <=> Breaks(log) \/ row.st.op = "break"
<1> DEFINE l == Append(log, row)
<1>1. /\ l \in Seq(Logged) /\ l[Len(l)] = row /\ Len(l) \in 1..Len(l)
      /\ \A i \in 1..Len(log) : i \in 1..Len(l) /\ l[i] = log[i]
      /\ \A i \in 1..Len(l) : i \in 1..Len(log) \/ i = Len(l)
  BY LogGrows
<1> HIDE DEF l
<1>2. Invalidates(l, entry) <=> \E i \in 1..Len(l) : Harmful(l[i].st, entry)
  BY <1>1, InvalidatesIsHarmful
<1>3. Invalidates(log, entry) <=> \E i \in 1..Len(log) : Harmful(log[i].st, entry)
  BY InvalidatesIsHarmful
<1>4. Invalidates(l, entry) <=> Invalidates(log, entry) \/ Harmful(row.st, entry)
  BY <1>1, <1>2, <1>3
<1>5. Breaks(l) <=> Breaks(log) \/ row.st.op = "break"
  BY <1>1 DEF Breaks
<1>6. QED
  BY <1>4, <1>5 DEF l

(* The visit goes on: log is longer by what was visited in s, what follows  *)
(* is visited in t, and what the body may change is known as before.        *)
Longer(g, f, l, s) ==
  /\ l \in Seq(Logged) /\ Len(l) = Len(f.log) + 1 /\ Len(f.log) \in Nat /\ l # <<>>
  /\ \A i \in 1..Len(l) : l[i].st \in Grammars[g].statements \cup {Pass} /\ Visitable(g, l[i].abs)
  /\ \A i \in 1..(Len(l) - 1) : l[i+1].abs = Visited(l[i].st, l[i].abs)
  /\ l[Len(l)].abs = s
  /\ l[1].abs = IF f.log = <<>> THEN s ELSE f.log[1].abs

LEMMA VisitGoesOn ==
  ASSUME NEW g \in DOMAIN Grammars, NEW f \in Frames, NEW s, NEW m, NEW e, NEW h, LoopOk(g, f, s, m, e, h),
         f.part # "again", NEW st \in Grammars[g].statements \cup {Pass}, s \in States \cup {Dead}, Visitable(g, s),
         NEW row, row = [st |-> st, abs |-> s]
  PROVE  /\ Longer(g, f, Append(f.log, row), s) /\ row \in Logged /\ row.st = st
         /\ Append(f.log, row)[Len(Append(f.log, row))] = row
<1> DEFINE log == f.log
           l == Append(log, row)
<1>1. log \in Seq(Logged)
  BY FrameFields
<1>2. row \in Logged /\ row.st = st /\ row.abs = s
  <2>1. Grammars[g].statements \subseteq AllStatements
    BY DEF AllStatements
  <2>2. st \in AllStatements \cup {Pass}
    BY <2>1
  <2>3. QED
    BY <2>2 DEF Logged
<1>3. /\ \A i \in 1..Len(log) : log[i].st \in Grammars[g].statements \cup {Pass} /\ Visitable(g, log[i].abs)
      /\ \A i \in 1..(Len(log) - 1) : log[i+1].abs = Visited(log[i].st, log[i].abs)
      /\ log # <<>> => s = Visited(log[Len(log)].st, log[Len(log)].abs)
  BY DEF LoopOk
<1> HIDE DEF log
<1>4. /\ l \in Seq(Logged) /\ Len(l) = Len(log) + 1 /\ l[Len(l)] = row /\ l # <<>>
      /\ \A i \in 1..Len(log) : i \in 1..Len(l) /\ l[i] = log[i]
      /\ \A i \in 1..Len(l) : i \in 1..Len(log) \/ i = Len(l)
      /\ Len(log) \in Nat
  BY <1>1, <1>2, LogGrows
<1> HIDE DEF l
<1>5. \A i \in 1..Len(l) : l[i].st \in Grammars[g].statements \cup {Pass} /\ Visitable(g, l[i].abs)
  BY <1>2, <1>3, <1>4
<1>6. ASSUME NEW i \in 1..(Len(l) - 1) PROVE l[i+1].abs = Visited(l[i].st, l[i].abs)
  <2>1. i \in 1..Len(log) /\ l[i] = log[i]
    BY <1>4
  <2>2. CASE i = Len(log)
    <3>1. i + 1 = Len(l) /\ log # <<>>
      BY <2>1, <2>2, <1>1, <1>4
    <3>2. QED
      BY <3>1, <2>1, <2>2, <1>2, <1>3, <1>4
  <2>3. CASE i # Len(log)
    <3>1. i \in 1..(Len(log) - 1) /\ i + 1 \in 1..Len(log)
      BY <2>1, <2>3, <1>4
    <3>2. l[i + 1] = log[i + 1]
      BY <3>1, <1>4
    <3>3. QED
      BY <3>1, <3>2, <2>1, <1>3
  <2>4. QED
    BY <2>2, <2>3
<1>7. l[1].abs = IF log = <<>> THEN s ELSE log[1].abs
  <2>1. CASE log = <<>>
    <3>1. Len(l) = 1
      BY <2>1, <1>4
    <3>2. QED
      BY <3>1, <2>1, <1>2, <1>4
  <2>2. CASE log # <<>>
    <3>1. 1 \in 1..Len(log)
      BY <2>2, <1>1
    <3>2. QED
      BY <3>1, <2>2, <1>4
  <2>3. QED
    BY <2>1, <2>2
<1>8. Longer(g, f, l, s)
  BY <1>2, <1>4, <1>5, <1>6, <1>7 DEF Longer, log
<1>9. QED
  BY <1>2, <1>4, <1>8 DEF l, log

(* What a statement does where Python runs it *)
LEMMA OutcomeIsKept ==
  ASSUME IInv, Careful, abs # Dead, NEW st \in Statements \cup {Pass}, mode = "on", NEW o \in Outcomes(st)
  PROVE  /\ World(grammar, o.env, o.heap) /\ o.mode \in Modes /\ (o.mode = "broke" => st.op = "break")
         /\ o.mode = "on" => Live(Visited(st, abs), o.env, o.heap)
<1>1. grammar \in DOMAIN Grammars /\ World(grammar, env, heap)
  BY DEF IInv, HereInv
<1>2. Wf(grammar, abs) /\ Ok(abs, env, heap)
  BY HereIsVisitable
<1>3. Plain(grammar, st)
  BY <1>1, CarefulIsPlain
<1>4. World(grammar, o.env, o.heap)
  BY <1>1, <1>3, OutcomeIsWorld
<1>5. o.mode \in Modes /\ (o.mode = "broke" => st.op = "break")
  BY <1>1, <1>3, OutcomeModes
<1>6. o.mode = "on" => Live(Visited(st, abs), o.env, o.heap)
  BY <1>1, <1>2, <1>3, OutcomeIsLive
<1>7. QED
  BY <1>4, <1>5, <1>6

(* A statement that is written is visited, and run where Python is. *)
Ran(st) ==
  /\ World(grammar, env', heap') /\ Visitable(grammar, abs') /\ mode' \in Modes
  /\ mode' = "on" => Live(abs', env', heap') /\ mode = "on"
  /\ mode' # "off" => mode # "off"
  /\ (env' = env /\ heap' = heap) \/ mode # "off"
  /\ mode' = "broke" => mode = "broke" \/ st.op = "break"

LEMMA StatementRuns ==
  ASSUME IInv, Careful, abs # Dead, NEW st \in Statements, abs' = Visited(st, abs),
         IF mode = "on" THEN \E o \in Outcomes(st) : env' = o.env /\ heap' = o.heap /\ mode' = o.mode
         ELSE UNCHANGED <<env, heap, mode>>
  PROVE  Ran(st)
<1>1. grammar \in DOMAIN Grammars /\ World(grammar, env, heap) /\ mode \in Modes
  BY DEF IInv, HereInv
<1>2. Visitable(grammar, abs')
  <2>1. Wf(grammar, abs) /\ Plain(grammar, st)
    BY <1>1, HereIsVisitable, CarefulIsPlain
  <2>2. QED
    BY <2>1, VisitedIsVisitable
<1>3. CASE mode = "on"
  <2>1. PICK o \in Outcomes(st) : env' = o.env /\ heap' = o.heap /\ mode' = o.mode
    BY <1>3
  <2>2. /\ World(grammar, o.env, o.heap) /\ o.mode \in Modes /\ (o.mode = "broke" => st.op = "break")
        /\ o.mode = "on" => Live(Visited(st, abs), o.env, o.heap)
    BY <1>3, OutcomeIsKept
  <2>3. World(grammar, env', heap') /\ (mode' = "on" => Live(abs', env', heap'))
    BY <2>1, <2>2
  <2>4. QED
    BY <2>1, <2>2, <2>3, <1>2, <1>3 DEF Ran
<1>4. CASE mode # "on"
  BY <1>1, <1>2, <1>4 DEF Ran
<1>5. QED
  BY <1>3, <1>4

LEMMA SimpleOutside ==
  ASSUME IInv, Grow, ~Inside("for"), NEW st \in Statements, st.op = "break" => Inside("for"), Ran(st), UNCHANGED blocks
  PROVE  IInv'
<1>1. /\ BlocksOk(grammar, blocks, mode, env, heap) /\ Len(blocks) <= MaxDepth /\ mode # "broke"
  BY DEF IInv, HereInv, LoopInv
<1>2. /\ World(grammar, env', heap') /\ Visitable(grammar, abs') /\ mode' \in Modes \ {"broke"}
      /\ mode' = "on" => Live(abs', env', heap')
      /\ mode' # "off" => mode # "off"
      /\ (env' = env /\ heap' = heap) \/ mode # "off"
  BY <1>1 DEF Ran
<1>3. BlocksOk(grammar, blocks', mode', env', heap')
  BY <1>1, <1>2, BlocksKept
<1>4. blocks' = <<>> \/ Head(blocks').kind # "for"
  BY DEF Inside, Top
<1>5. QED
  BY <1>1, <1>2, <1>3, <1>4, GrowStays, StepIsKept

LEMMA SimpleInside ==
  ASSUME IInv, Careful, Grow, Inside("for"), ~Part("again"), abs # Dead, NEW st \in Statements, Ran(st),
         abs' = Visited(st, abs),
         mode = "on" => \E o \in Outcomes(st) : env' = o.env /\ heap' = o.heap,
         Set([Top EXCEPT !.log = Append(@, [st |-> st, abs |-> abs])])
  PROVE  IInv'
<1> DEFINE row == [st |-> st, abs |-> abs]
           l == Append(Top.log, row)
           f == [Top EXCEPT !.log = l]
           harmful == Invalidates(Top.log, Top.fall)
<1>1. /\ LoopOk(grammar, Top, abs, mode, env, heap) /\ Top \in Frames /\ Top.kind = "for" /\ blocks # <<>>
      /\ Wf(grammar, Top.fall) /\ Top.log \in Seq(Logged) /\ Len(Top.log) \in Nat
      /\ mode = "broke" => Breaks(Top.log)
      /\ World(grammar, env, heap) /\ Top.name \in Names /\ Top.part \in {"body", "clear"}
  BY LoopStands DEF Part
<1>2. /\ World(grammar, env', heap') /\ Visitable(grammar, abs') /\ mode' \in Modes
      /\ mode' = "on" => Live(abs', env', heap') /\ mode = "on"
      /\ mode' # "off" => mode # "off"
      /\ (env' = env /\ heap' = heap) \/ mode # "off"
      /\ mode' = "broke" => mode = "broke" \/ st.op = "break"
  BY DEF Ran
<1>3. /\ grammar \in DOMAIN Grammars /\ Visitable(grammar, abs) /\ abs \in States \cup {Dead}
      /\ st \in Grammars[grammar].statements \cup {Pass} /\ Plain(grammar, st)
  <2>1. grammar \in DOMAIN Grammars /\ Visitable(grammar, abs) /\ abs \in States \cup {Dead}
    BY <1>1, TopStands DEF IInv, HereInv
  <2>2. QED
    BY <2>1, CarefulIsPlain DEF Statements
<1>4. Longer(grammar, Top, l, abs) /\ row \in Logged /\ row.st = st /\ row.abs = abs /\ l[Len(l)] = row
  BY <1>1, <1>3, VisitGoesOn
<1>5. /\ Invalidates(l, Top.fall) <=> harmful \/ Harmful(st, Top.fall)
      /\ Breaks(l) <=> Breaks(Top.log) \/ st.op = "break"
  BY <1>1, <1>4, HarmGrows
<1> HIDE DEF row, l
<1>6. /\ l \in Seq(Logged) /\ Len(l) = Len(Top.log) + 1 /\ l # <<>>
      /\ \A i \in 1..Len(l) : l[i].st \in Grammars[grammar].statements \cup {Pass} /\ Visitable(grammar, l[i].abs)
      /\ \A i \in 1..(Len(l) - 1) : l[i+1].abs = Visited(l[i].st, l[i].abs)
      /\ l[1].abs = IF Top.log = <<>> THEN abs ELSE Top.log[1].abs
  BY <1>4 DEF Longer
<1>7. /\ f \in Frames /\ f.kind = "for" /\ f.part = Top.part /\ f.fall = Top.fall /\ f.paths = Top.paths
      /\ f.rest = Top.rest /\ f.after = Top.after /\ f.log = l /\ f.todo = Top.todo /\ f.name = Top.name
  BY <1>1, <1>6 DEF Frames
<1>8. Set(f)
  BY DEF row, l
<1> HIDE DEF f
<1>9. FrameOk(grammar, f, env', heap') /\ (Idle(f) <=> Idle(Top))
  <2> DEFINE e == env'
             h == heap'
  <2>1. (e = env /\ h = heap) \/ mode # "off"
    BY <1>2
  <2> HIDE DEF e, h
  <2>2. FrameOk(grammar, f, e, h) /\ (Idle(f) <=> Idle(Top))
    BY <2>1, <1>1, <1>7, LoopFrameIsOk
  <2>3. QED
    BY <2>2 DEF e, h
<1>10. PICK coll \in Names :
        /\ (IF Top.log = <<>> THEN abs ELSE Top.log[1].abs) = BodyState(Top.fall, coll, Top.name, Top.part = "clear")
        /\ mode = "on" /\ ~harmful => SparedOk(Base(Top.fall, Top.name), coll, Top.todo, env, heap)
  BY <1>1 DEF LoopOk
<1>11. mode = "on" => Apart(grammar)
  BY <1>1 DEF LoopOk
<1>12. mode' = "on" /\ ~Invalidates(l, Top.fall) => SparedOk(Base(Top.fall, Top.name), coll, Top.todo, env', heap')
  <2>1. SUFFICES ASSUME mode' = "on", ~Invalidates(l, Top.fall)
                 PROVE  SparedOk(Base(Top.fall, Top.name), coll, Top.todo, env', heap')
    OBVIOUS
  <2>2. mode = "on" /\ ~harmful /\ ~Harmful(st, Top.fall)
    BY <2>1, <1>2, <1>5
  <2>3. PICK o \in Outcomes(st) : env' = o.env /\ heap' = o.heap
    BY <2>2
  <2> DEFINE entry == Top.fall
             name == Top.name
             todo == Top.todo
  <2>4. Wf(grammar, entry) /\ ~Harmful(st, entry) /\ name \in Names /\ SparedOk(Base(entry, name), coll, todo, env, heap)
    BY <2>2, <1>1, <1>10
  <2> HIDE DEF entry, name, todo
  <2>5. SparedOk(Base(entry, name), coll, todo, o.env, o.heap)
    BY <2>2, <2>4, <1>1, <1>3, <1>11, SparedIsKept
  <2>6. QED
    BY <2>3, <2>5 DEF entry, name, todo
<1>13. LoopOk(grammar, f, abs', mode', env', heap')
  <2>1. abs' = Visited(l[Len(l)].st, l[Len(l)].abs)
    BY <1>4
  <2>2. f.part # "again" /\ (mode' = "on" => Apart(grammar))
    BY <1>1, <1>2, <1>7, <1>11
  <2>3. /\ l[1].abs = BodyState(f.fall, coll, f.name, f.part = "clear")
        /\ mode' = "on" /\ ~Invalidates(f.log, f.fall) => SparedOk(Base(f.fall, f.name), coll, f.todo, env', heap')
    BY <1>6, <1>7, <1>10, <1>12
  <2>4. \E c \in Names :
          /\ l[1].abs = BodyState(f.fall, c, f.name, f.part = "clear")
          /\ mode' = "on" /\ ~Invalidates(f.log, f.fall) => SparedOk(Base(f.fall, f.name), c, f.todo, env', heap')
    BY <2>3
  <2>5. QED
    BY <2>1, <2>2, <2>4, <1>1, <1>6, <1>7 DEF LoopOk
<1>14. mode' = "broke" => Breaks(f.log)
  BY <1>1, <1>2, <1>5, <1>7
<1>15. QED
  BY <1>2, <1>7, <1>8, <1>9, <1>13, <1>14, GrowStays, LoopStep

LEMMA SimpleStep ==
  ASSUME IInv, Careful, Simple
  PROVE  IInv'
<1>1. abs # Dead /\ Grow /\ ~Part("again")
  BY DEF Simple
<1>2. PICK st \in Statements :
       /\ st.op = "break" => Inside("for")
       /\ abs' = Visited(st, abs)
       /\ blocks' = IF Inside("for") THEN <<[Top EXCEPT !.log = Append(@, [st |-> st, abs |-> abs])]>> \o Tail(blocks)
                    ELSE blocks
       /\ IF mode = "on"
          THEN \E o \in Outcomes(st) : env' = o.env /\ heap' = o.heap /\ mode' = o.mode
          ELSE UNCHANGED <<env, heap, mode>>
  BY DEF Simple
<1>3. Ran(st)
  BY <1>1, <1>2, StatementRuns
<1>4. CASE Inside("for")
  <2>1. Set([Top EXCEPT !.log = Append(@, [st |-> st, abs |-> abs])])
    BY <1>2, <1>4 DEF Set
  <2>2. mode = "on" => \E o \in Outcomes(st) : env' = o.env /\ heap' = o.heap
    BY <1>2
  <2>3. QED
    BY <2>1, <2>2, <1>1, <1>2, <1>3, <1>4, SimpleInside
<1>5. CASE ~Inside("for")
  BY <1>1, <1>2, <1>3, <1>5, SimpleOutside
<1>6. QED
  BY <1>4, <1>5

LEMMA EndBodyStep ==
  ASSUME IInv, EndBody
  PROVE  IInv'
<1> DEFINE row == [st |-> Pass, abs |-> abs]
           l == Append(Top.log, row)
           at == Len(Top.log) + 1
           f == [Top EXCEPT !.part = "again", !.at = at, !.log = l]
           harmful == Invalidates(Top.log, Top.fall)
<1>1. /\ Inside("for") /\ ~Part("again") /\ (harmful <=> Part("clear")) /\ Set(f)
      /\ UNCHANGED <<abs, env, heap, mode, length, grammar>>
  BY DEF EndBody, Pass
<1>2. /\ LoopOk(grammar, Top, abs, mode, env, heap) /\ Top \in Frames /\ Top.kind = "for" /\ blocks # <<>>
      /\ Wf(grammar, Top.fall) /\ Top.log \in Seq(Logged) /\ Len(Top.log) \in Nat
      /\ mode \in Modes /\ Visitable(grammar, abs) /\ (mode = "on" => Live(abs, env, heap))
      /\ mode = "broke" => Breaks(Top.log)
      /\ World(grammar, env, heap) /\ length \in 0..MaxLength
      /\ Top.name \in Names /\ Top.part \in {"body", "clear"} /\ Part("clear") = (Top.part = "clear")
  BY <1>1, LoopStands DEF Part
<1>3. /\ grammar \in DOMAIN Grammars /\ abs \in States \cup {Dead}
      /\ Pass \in Grammars[grammar].statements \cup {Pass}
  BY <1>2, TopStands DEF IInv, HereInv
<1>4. Longer(grammar, Top, l, abs) /\ row \in Logged /\ row.st = Pass /\ l[Len(l)] = row
  <2>1. Top.part # "again"
    BY <1>2
  <2>2. QED
    BY <2>1, <1>2, <1>3, VisitGoesOn
<1>5. ~Harmful(Pass, Top.fall) /\ Pass.op # "break"
  BY DEF Harmful, Pass
<1>6. /\ Invalidates(l, Top.fall) <=> harmful
      /\ Breaks(l) <=> Breaks(Top.log)
  BY <1>2, <1>4, <1>5, HarmGrows
<1>7. row.abs = abs
  OBVIOUS
<1> HIDE DEF row, l
<1>8. /\ l \in Seq(Logged) /\ Len(l) = Len(Top.log) + 1 /\ l # <<>>
      /\ \A i \in 1..Len(l) : l[i].st \in Grammars[grammar].statements \cup {Pass} /\ Visitable(grammar, l[i].abs)
      /\ \A i \in 1..(Len(l) - 1) : l[i+1].abs = Visited(l[i].st, l[i].abs)
      /\ l[1].abs = IF Top.log = <<>> THEN abs ELSE Top.log[1].abs
  BY <1>4 DEF Longer
<1> HIDE DEF at
<1>9. /\ f \in Frames /\ f.kind = "for" /\ f.part = "again" /\ f.fall = Top.fall /\ f.paths = Top.paths
      /\ f.rest = Top.rest /\ f.after = Top.after /\ f.log = l /\ f.todo = Top.todo /\ f.name = Top.name
      /\ f.at = Len(l)
  <2>1. at \in Nat /\ at = Len(l)
    BY <1>2, <1>8 DEF at
  <2>2. QED
    BY <2>1, <1>2, <1>8 DEF Frames
<1> HIDE DEF f
<1>10. FrameOk(grammar, f, env, heap) /\ (Idle(f) <=> Idle(Top))
  BY <1>1, <1>9, LoopFrameIsOk
<1>11. PICK coll \in Names :
        /\ (IF Top.log = <<>> THEN abs ELSE Top.log[1].abs) = BodyState(Top.fall, coll, Top.name, Top.part = "clear")
        /\ mode = "on" /\ ~harmful => SparedOk(Base(Top.fall, Top.name), coll, Top.todo, env, heap)
  BY <1>2 DEF LoopOk
<1>12. mode = "on" => Apart(grammar)
  BY <1>2 DEF LoopOk
<1>13. LoopOk(grammar, f, abs, mode, env, heap)
  <2>1. f.at \in 1..Len(l) /\ l[f.at].abs = abs
    BY <1>2, <1>4, <1>7, <1>8, <1>9
  <2>2. BodyState(Top.fall, coll, Top.name, Top.part = "clear") = BodyState(f.fall, coll, f.name, Invalidates(f.log, f.fall))
    <3>1. Top.part = "clear" <=> Invalidates(f.log, f.fall)
      BY <1>1, <1>2, <1>6, <1>9
    <3>2. QED
      BY <3>1, <1>9 DEF BodyState
  <2>3. /\ l[1].abs = BodyState(f.fall, coll, f.name, Invalidates(f.log, f.fall))
        /\ mode = "on" /\ ~Invalidates(f.log, f.fall) => SparedOk(Base(f.fall, f.name), coll, f.todo, env, heap)
    BY <2>2, <1>6, <1>8, <1>9, <1>11
  <2>4. \E c \in Names :
          /\ l[1].abs = BodyState(f.fall, c, f.name, Invalidates(f.log, f.fall))
          /\ mode = "on" /\ ~Invalidates(f.log, f.fall) => SparedOk(Base(f.fall, f.name), c, f.todo, env, heap)
    BY <2>3
  <2>5. QED
    BY <2>1, <2>4, <1>2, <1>8, <1>9, <1>12 DEF LoopOk
<1>14. /\ env' = env /\ heap' = heap /\ abs' = abs /\ mode' = mode /\ length' = length /\ grammar' = grammar
  BY <1>1
<1>15. mode' = "broke" => Breaks(f.log)
  BY <1>2, <1>6, <1>9, <1>14
<1>16. QED
  BY <1>1, <1>2, <1>9, <1>10, <1>13, <1>14, <1>15, LoopStep

(* In the body that runs again *)
LEMMA AgainStands ==
  ASSUME IInv, Part("again")
  PROVE  Inside("for")
<1>1. blocks # <<>> /\ Top.part = "again"
  BY DEF Part
<1>2. Top.kind = "for"
  BY <1>1, TopStands DEF FrameOk
<1>3. QED
  BY <1>1, <1>2 DEF Inside

LEMMA NextElementStep ==
  ASSUME IInv, NextElement
  PROVE  IInv'
<1> DEFINE f == [Top EXCEPT !.at = 1, !.todo = Tail(@)]
           log == Top.log
           entry == Top.fall
           name == Top.name
           todo == Top.todo
           harmful == Invalidates(log, entry)
           base == Base(entry, name)
           e == [env EXCEPT ![name] = Head(todo)]
<1>1. /\ Part("again") /\ mode = "on" /\ todo # <<>> /\ env' = e /\ Set(f) /\ abs' = log[1].abs
      /\ heap' = heap /\ mode' = mode /\ length' = length /\ grammar' = grammar /\ Inside("for")
  BY AgainStands DEF NextElement
<1>2. /\ LoopOk(grammar, Top, abs, mode, env, heap) /\ Top \in Frames /\ Top.kind = "for" /\ blocks # <<>>
      /\ Wf(grammar, entry) /\ log \in Seq(Logged) /\ Len(log) \in Nat
      /\ World(grammar, env, heap) /\ length \in 0..MaxLength /\ name \in Names /\ Top.part = "again"
  BY <1>1, LoopStands DEF Part
<1>3. todo \in Seq(Keys) /\ Head(todo) \in Keys /\ Tail(todo) \in Seq(Keys) /\ Len(Tail(todo)) = Len(todo) - 1
      /\ Head(todo) = todo[1] /\ 1 \in 1..Len(todo)
      /\ \A i \in 1..Len(Tail(todo)) : i + 1 \in 1..Len(todo) /\ Tail(todo)[i] = todo[i + 1]
  <2>1. todo \in Seq(Keys)
    BY <1>2, FrameFields
  <2> HIDE DEF todo
  <2>2. QED
    BY <2>1, <1>1, Popped
<1>4. Top.at \in 1..Len(log) /\ Len(log) # 0 /\ log # <<>> /\ 1 \in 1..Len(log)
  <2>1. Top.at \in 1..Len(log)
    BY <1>2 DEF LoopOk
  <2>2. QED
    BY <2>1, <1>2
<1>5. /\ f \in Frames /\ f.kind = "for" /\ f.part = "again" /\ f.fall = entry /\ f.paths = Top.paths
      /\ f.rest = Top.rest /\ f.after = Top.after /\ f.log = log /\ f.todo = Tail(todo) /\ f.name = name
      /\ f.at = 1
  BY <1>2, <1>3 DEF Frames
<1> HIDE DEF f
<1>6. FrameOk(grammar, f, e, heap) /\ (Idle(f) <=> Idle(Top))
  BY <1>1, <1>5, LoopFrameIsOk
<1>7. /\ e[name] = Head(todo) /\ (\A n \in Names \ {name} : e[n] = env[n]) /\ World(grammar, e, heap)
  <2>1. Head(todo) \notin Objects
    BY <1>3, ValuesAreApart
  <2>2. e \in Envs /\ e[name] = Head(todo) /\ \A n \in Names \ {name} : e[n] = env[n]
    BY <1>2, <1>3 DEF World, Envs
  <2> HIDE DEF e
  <2>3. Apart(grammar) => \A m, n \in Names : e[m] = e[n] /\ e[m] \in Objects => m = n
    BY <2>1, <2>2, <1>2 DEF World
  <2>4. QED
    BY <2>2, <2>3, <1>2 DEF World
<1> HIDE DEF e
<1>8. PICK coll \in Names :
        /\ log[1].abs = BodyState(entry, coll, name, harmful)
        /\ mode = "on" /\ ~harmful => SparedOk(base, coll, todo, env, heap)
  BY <1>2, <1>4 DEF LoopOk
<1>9. Apart(grammar)
  BY <1>1, <1>2 DEF LoopOk
<1>10. base \in States /\ base.alias = [entry.alias EXCEPT ![name] = NoRoot] /\ entry \in States
       /\ (\A r \in Roots : base.present[r] = {})
  <2>1. /\ Wf(grammar, base) /\ base.alias = [entry.alias EXCEPT ![name] = NoRoot]
        /\ \A r \in Roots : base.present[r] = {}
    <3>1. Wf(grammar, entry) /\ name \in Names
      BY <1>2
    <3> HIDE DEF entry, name
    <3>2. Wf(grammar, base)
      BY ONLY <3>1, BaseShape
    <3>3. base.alias = [entry.alias EXCEPT ![name] = NoRoot]
      BY ONLY <3>1, BaseShape
    <3>4. \A r \in Roots : base.present[r] = {}
      BY ONLY <3>1, BaseShape
    <3>5. QED
      BY <3>2, <3>3, <3>4
  <2>2. QED
    BY <2>1, <1>2, WfIsAlive
<1> HIDE DEF base
<1>11. \A n \in Names : base.alias[n] # NoRoot => n # name
  BY <1>10, StateFields
<1>12. ~harmful => SparedOk(base, coll, Tail(todo), e, heap)
  <2>1. SUFFICES ASSUME ~harmful PROVE SparedOk(base, coll, Tail(todo), e, heap)
    OBVIOUS
  <2>2. SparedOk(base, coll, todo, env, heap)
    BY <2>1, <1>1, <1>8
  <2>3. Ok(base, env, heap) /\ SameToTracked(base, env, heap, e, heap)
    BY <2>2, <1>7, <1>11 DEF SparedOk, SameToTracked
  <2>4. Ok(base, e, heap)
    BY <2>3, <1>10, UntrackedIsOk
  <2>5. ASSUME base.alias[coll] \in base.colls
        PROVE  IsA("coll", e[coll], heap) /\ \A i \in 1..Len(Tail(todo)) : Tail(todo)[i] \in heap[e[coll]].keys
    <3>1. e[coll] = env[coll]
      BY <2>5, <1>7, <1>10, <1>11, StateFields, NoRootIsNone
    <3>2. IsA("coll", env[coll], heap) /\ \A i \in 1..Len(todo) : todo[i] \in heap[env[coll]].keys
      BY <2>2, <2>5 DEF SparedOk
    <3>3. QED
      BY <3>1, <3>2, <1>3
  <2>6. QED
    BY <2>4, <2>5 DEF SparedOk
<1>13. ~harmful /\ base.alias[coll] \in base.colls => e[name] \in heap[e[coll]].keys
  <2>1. SUFFICES ASSUME ~harmful, base.alias[coll] \in base.colls PROVE e[name] \in heap[e[coll]].keys
    OBVIOUS
  <2>2. e[coll] = env[coll]
    BY <2>1, <1>7, <1>10, <1>11, StateFields, NoRootIsNone
  <2>3. \A i \in 1..Len(todo) : todo[i] \in heap[env[coll]].keys
    BY <2>1, <1>1, <1>8 DEF SparedOk
  <2>4. QED
    BY <2>2, <2>3, <1>3, <1>7
<1>14. Live(abs', e, heap) /\ Visitable(grammar, abs')
  <2>1. harmful \in BOOLEAN
    BY DEF Invalidates
  <2>2. ~harmful => Ok(base, e, heap)
    BY <1>12 DEF SparedOk
  <2> HIDE DEF harmful, entry, name, todo
  <2>3. Live(BodyState(entry, coll, name, harmful), e, heap)
    BY <2>1, <2>2, <1>2, <1>13, BodyStateIsLive DEF base
  <2>4. Wf(grammar, BodyState(entry, coll, name, harmful))
    BY <2>1, <1>2, BodyStateIsWf
  <2>5. QED
    BY <2>3, <2>4, <1>1, <1>8 DEF Visitable
<1>15. LoopOk(grammar, f, abs', mode, e, heap)
  <2>1. /\ \A i \in 1..Len(log) : log[i].st \in Grammars[grammar].statements \cup {Pass} /\ Visitable(grammar, log[i].abs)
        /\ \A i \in 1..(Len(log) - 1) : log[i+1].abs = Visited(log[i].st, log[i].abs)
    BY <1>2 DEF LoopOk
  <2>2. \E c \in Names :
          /\ log[1].abs = BodyState(f.fall, c, f.name, Invalidates(f.log, f.fall))
          /\ mode = "on" /\ ~Invalidates(f.log, f.fall) => SparedOk(Base(f.fall, f.name), c, f.todo, e, heap)
    BY <1>5, <1>8, <1>12 DEF base
  <2>3. QED
    BY <2>1, <2>2, <1>1, <1>2, <1>4, <1>5, <1>9 DEF LoopOk
<1>16. mode' \in Modes /\ mode' # "broke"
  BY <1>1 DEF Modes
<1>17. QED
  BY <1>1, <1>2, <1>5, <1>6, <1>7, <1>14, <1>15, <1>16, LoopStep

LEMMA RunAgainStep ==
  ASSUME IInv, Careful, RunAgain
  PROVE  IInv'
<1> DEFINE log == Top.log
           entry == Top.fall
           name == Top.name
           todo == Top.todo
           at == Top.at + 1
           f == [Top EXCEPT !.at = at]
           harmful == Invalidates(log, entry)
           base == Base(entry, name)
           st == log[Top.at].st
<1>1. /\ Part("again") /\ mode = "on" /\ Top.at < Len(log) /\ abs' = log[at].abs
      /\ length' = length /\ grammar' = grammar /\ Inside("for")
  BY AgainStands DEF RunAgain
<1>2. PICK o \in Outcomes(st) : env' = o.env /\ heap' = o.heap /\ mode' = o.mode
  BY DEF RunAgain
<1>3. /\ LoopOk(grammar, Top, abs, mode, env, heap) /\ Top \in Frames /\ Top.kind = "for" /\ blocks # <<>>
      /\ Wf(grammar, entry) /\ log \in Seq(Logged) /\ Len(log) \in Nat
      /\ Live(abs, env, heap) /\ World(grammar, env, heap) /\ length \in 0..MaxLength
      /\ name \in Names /\ Top.part = "again"
  BY <1>1, LoopStands DEF Part
<1>4. /\ \A i \in 1..Len(log) : log[i].st \in Grammars[grammar].statements \cup {Pass} /\ Visitable(grammar, log[i].abs)
      /\ \A i \in 1..(Len(log) - 1) : log[i+1].abs = Visited(log[i].st, log[i].abs)
      /\ Top.at \in 1..Len(log) /\ abs = log[Top.at].abs /\ Apart(grammar)
  BY <1>1, <1>3 DEF LoopOk
<1>5. /\ at \in Nat /\ at \in 1..Len(log) /\ Top.at \in 1..(Len(log) - 1) /\ 1 \in 1..Len(log) /\ log # <<>>
  BY <1>1, <1>3, <1>4
<1>6. st \in Statements \cup {Pass} /\ abs' = Visited(st, abs) /\ Visitable(grammar, abs')
  BY <1>1, <1>4, <1>5 DEF Statements
<1>7. /\ World(grammar, o.env, o.heap) /\ o.mode \in Modes /\ (o.mode = "broke" => st.op = "break")
      /\ o.mode = "on" => Live(Visited(st, abs), o.env, o.heap)
  BY <1>1, <1>2, <1>3, <1>6, OutcomeIsKept DEF Live
<1>8. Plain(grammar, st) /\ (~harmful => ~Harmful(st, entry))
  <2>1. grammar \in DOMAIN Grammars
    BY DEF IInv, HereInv
  <2>2. Plain(grammar, st)
    BY <2>1, <1>6, CarefulIsPlain
  <2>3. ~harmful => ~Harmful(st, entry)
    BY <1>3, <1>4, InvalidatesIsHarmful
  <2>4. QED
    BY <2>2, <2>3
<1>9. o.mode = "broke" => Breaks(log)
  BY <1>4, <1>7 DEF Breaks
<1>10. Set(f)
  BY DEF RunAgain
<1> HIDE DEF at
<1>11. /\ f \in Frames /\ f.kind = "for" /\ f.part = "again" /\ f.fall = entry /\ f.paths = Top.paths
       /\ f.rest = Top.rest /\ f.after = Top.after /\ f.log = log /\ f.todo = todo /\ f.name = name
       /\ f.at = at
  BY <1>3, <1>5 DEF Frames
<1> HIDE DEF f
<1>12. FrameOk(grammar, f, env', heap') /\ (Idle(f) <=> Idle(Top))
  <2> DEFINE e == env'
             h == heap'
  <2> HIDE DEF e, h
  <2>1. FrameOk(grammar, f, e, h) /\ (Idle(f) <=> Idle(Top))
    BY <1>1, <1>11, LoopFrameIsOk
  <2>2. QED
    BY <2>1 DEF e, h
<1>13. PICK coll \in Names :
        /\ log[1].abs = BodyState(entry, coll, name, harmful)
        /\ mode = "on" /\ ~harmful => SparedOk(base, coll, todo, env, heap)
  BY <1>3, <1>5 DEF LoopOk
<1>14. ~harmful => SparedOk(base, coll, todo, env', heap')
  <2>1. SUFFICES ASSUME ~harmful PROVE SparedOk(base, coll, todo, o.env, o.heap)
    BY <1>2
  <2>2. /\ SparedOk(Base(entry, name), coll, todo, env, heap) /\ ~Harmful(st, entry)
    BY <2>1, <1>1, <1>8, <1>13
  <2> HIDE DEF entry, name, todo, st, harmful
  <2>3. QED
    BY <2>2, <1>2, <1>3, <1>4, <1>8, SparedIsKept DEF base
<1>15. LoopOk(grammar, f, abs', mode', env', heap')
  <2>1. \E c \in Names :
          /\ log[1].abs = BodyState(f.fall, c, f.name, Invalidates(f.log, f.fall))
          /\ mode' = "on" /\ ~Invalidates(f.log, f.fall) => SparedOk(Base(f.fall, f.name), c, f.todo, env', heap')
    BY <1>11, <1>13, <1>14
  <2>2. QED
    BY <2>1, <1>1, <1>3, <1>4, <1>5, <1>11 DEF LoopOk
<1>16. /\ World(grammar, env', heap') /\ mode' \in Modes /\ (mode' = "on" => Live(abs', env', heap'))
       /\ mode' = "broke" => Breaks(f.log)
  BY <1>2, <1>6, <1>7, <1>9, <1>11
<1>17. QED
  BY <1>1, <1>3, <1>6, <1>10, <1>11, <1>12, <1>15, <1>16, LoopStep

LEMMA EndForStep ==
  ASSUME IInv, EndFor
  PROVE  IInv'
<1> DEFINE log == Top.log
           exit == Last(log).abs
           entry == Top.fall
           join == Join({entry, exit})
<1>1. /\ Part("again") /\ (mode = "on" => Top.at = Len(log)) /\ Pop
      /\ abs' = AfterLoop(entry, exit, log)
      /\ mode' = (IF mode = "broke" THEN "on" ELSE Either(mode, Top.rest))
      /\ UNCHANGED <<env, heap, length, grammar>> /\ Inside("for")
  BY AgainStands DEF EndFor
<1>2. /\ LoopOk(grammar, Top, abs, mode, env, heap) /\ Top \in Frames /\ blocks # <<>>
      /\ Wf(grammar, entry) /\ log \in Seq(Logged) /\ Len(log) \in Nat /\ mode \in Modes
      /\ mode = "on" => Live(abs, env, heap)
      /\ mode = "broke" => Breaks(log)
      /\ Top.part = "again"
  BY <1>1, LoopStands DEF Part
<1>3. /\ Top.rest \in Modes \ {"broke"} /\ (Top.rest = "on" => Ok(entry, env, heap))
  BY <1>2, TopStands, FrameFields
<1>4. /\ exit = log[Len(log)].abs /\ Visitable(grammar, exit)
      /\ mode = "on" => abs = exit
  <2>1. /\ Top.at \in 1..Len(log) /\ (mode = "on" => abs = log[Top.at].abs)
        /\ \A i \in 1..Len(log) : Visitable(grammar, log[i].abs)
    BY <1>2 DEF LoopOk
  <2>2. exit = log[Len(log)].abs /\ Len(log) \in 1..Len(log)
    BY <2>1, <1>2 DEF Last
  <2>3. QED
    BY <2>1, <2>2, <1>1
<1>5. Breaks(log) <=> \E i \in DOMAIN log : log[i].st.op = "break"
  BY <1>2 DEF Breaks
<1>6. abs' = IF Breaks(log) THEN Fresh ELSE OrFresh(join)
  BY <1>1, <1>5 DEF AfterLoop
<1> HIDE DEF exit, entry, log
<1>7. /\ Visitable(grammar, join)
      /\ mode = "on" \/ Top.rest = "on" => Live(join, env, heap)
  <2> DEFINE paths == {entry, exit}
  <2>1. entry \in paths /\ exit \in paths /\ \A s \in paths : Visitable(grammar, s)
    BY <1>2, <1>4 DEF Visitable
  <2>2. /\ mode = "on" => Live(exit, env, heap)
        /\ Top.rest = "on" => Live(entry, env, heap)
    BY <1>2, <1>3, <1>4, WfIsAlive DEF Live
  <2> HIDE DEF paths
  <2>3. Visitable(grammar, Join(paths))
    BY <2>1, JoinIsVisitable
  <2>4. mode = "on" \/ Top.rest = "on" => Live(Join(paths), env, heap)
    BY <2>1, <2>2, JoinIsLive
  <2>5. QED
    BY <2>3, <2>4 DEF paths
<1> HIDE DEF join
<1>8. Visitable(grammar, abs')
  BY <1>6, <1>7, FreshIsWf DEF Visitable, OrFresh
<1>9. mode' = "on" => Live(abs', env, heap)
  <2>1. CASE Breaks(log)
    BY <2>1, <1>6, FreshIsLive
  <2>2. CASE ~Breaks(log)
    <3>1. mode' = "on" => mode = "on" \/ Top.rest = "on"
      BY <2>2, <1>1, <1>2 DEF Either
    <3>2. Live(join, env, heap) => abs' = join
      BY <2>2, <1>6 DEF Live, OrFresh
    <3>3. QED
      BY <3>1, <3>2, <1>7
  <2>3. QED
    BY <2>1, <2>2
<1>10. mode' \in Modes \ {"broke"} /\ (mode' # "off" => mode # "off" \/ ~Idle(Top))
  BY <1>1, <1>2, <1>3 DEF Modes, Either, Idle
<1>11. QED
  BY <1>1, <1>2, <1>8, <1>9, <1>10, PopStep

LEMMA StutterStep ==
  ASSUME IInv, UNCHANGED vars
  PROVE  IInv'
<1>1. /\ grammar' = grammar /\ abs' = abs /\ env' = env /\ heap' = heap /\ mode' = mode /\ blocks' = blocks
      /\ length' = length
  BY DEF vars
<1>2. World(grammar, env, heap)' /\ BlocksOk(grammar, blocks, mode, env, heap)'
  BY <1>1 DEF IInv
<1>3. HereInv'
  BY <1>1 DEF IInv, HereInv, MaxLength, MaxDepth
<1>4. LoopInv'
  BY <1>1 DEF IInv, LoopInv, Inside, Top
<1>5. QED
  BY <1>2, <1>3, <1>4 DEF IInv

-----------------------------------------------------------------------------
(* What the analyser believes is so. *)

LEMMA NextHolds ==
  ASSUME IInv, Careful, [Next]_vars
  PROVE  IInv'
  BY SimpleStep, IfStep, ElseStep, EndIfStep, MatchStep, CaseStep, EndCaseStep, EndMatchStep,
     TryStep, HandlerStep, OrelseStep, EndTryStep, FinallyStep, ForStep, EndBodyStep, NextElementStep,
     RunAgainStep, EndForStep, OpaqueStep, EndOpaqueStep, StutterStep DEF Next

(* A program keeps its grammar. *)
LEMMA CarefulStays ==
  ASSUME [Next]_vars
  PROVE  Careful' <=> Careful
<1>1. grammar' = grammar
  BY DEF Next, vars, Simple, If, Else, EndIf, Match, Case, EndCase, EndMatch, Try, Handler, Orelse, EndTry,
     Finally, EndFinally, For, EndBody, NextElement, RunAgain, EndFor, Opaque, EndOpaque, Open, Grow
<1>2. QED
  BY <1>1 DEF Careful, Uses, Statements, Blocks

LEMMA InvariantIsEnough ==
  ASSUME IInv
  PROVE  BeliefsHold
<1>1. /\ env \in Envs /\ heap \in Heaps /\ mode \in Modes /\ length \in 0..MaxLength /\ Len(blocks) <= MaxDepth
      /\ Visitable(grammar, abs) /\ (mode = "on" => Live(abs, env, heap))
  BY DEF IInv, World, HereInv
<1>2. TypeOK
  BY <1>1 DEF TypeOK, Envs, Heaps, Modes, Visitable, Wf, Live
<1>3. ReportsHold
  <2>1. SUFFICES ASSUME mode = "on", NEW n \in Names
                 PROVE  /\ \A a \in ProvedKeys(abs, n) : Is(n, "dict") /\ a \in KeysOf(n)
                        /\ \A k \in ProvedNames(abs, n) : Is(n, "dict") /\ env[k] \in KeysOf(n)
    BY DEF ReportsHold
  <2>2. DictsOk(abs, env, heap)
    BY <2>1, <1>1 DEF Live, Ok
  <2>3. abs.alias[n] \in abs.dicts =>
          /\ IsA("dict", env[n], heap) /\ abs.keys[abs.alias[n]] \subseteq heap[env[n]].keys
          /\ \A k \in abs.present[abs.alias[n]] : env[k] \in heap[env[n]].keys
    BY <2>2 DEF DictsOk
  <2>4. QED
    BY <2>3 DEF ProvedKeys, ProvedNames, Is, IsA, KeysOf
<1>4. OneObject
  BY <1>1 DEF OneObject, Live, Ok, RootsOk
<1>5. NothingInherited
  BY <1>1 DEF NothingInherited, Visitable, Wf, Known, ValuesOf
<1>6. QED
  BY <1>2, <1>3, <1>4, <1>5 DEF BeliefsHold

(* BeliefsHold, for any names, keys and objects, and programs of any length *)
(* and depth that a careful grammar has: where redundant-dict-get reports   *)
(* d.get(k), d is a dict that has k (local.py, visit_statement and what it  *)
(* calls), whichever way Python came there.                                 *)
THEOREM CarefulBeliefsHold == Spec => [](Careful => BeliefsHold)
<1> DEFINE Inductive == Careful => IInv
<1>1. Init => Inductive
  BY InitHolds
<1>2. Inductive /\ [Next]_vars => Inductive'
  <2>1. SUFFICES ASSUME Inductive, [Next]_vars, Careful' PROVE IInv'
    OBVIOUS
  <2>2. Careful
    BY <2>1, CarefulStays
  <2>3. QED
    BY <2>1, <2>2, NextHolds
<1>3. Inductive => (Careful => BeliefsHold)
  BY InvariantIsEnough
<1>4. QED
  BY <1>1, <1>2, <1>3, PTL DEF Spec
=============================================================================
