------------------------- MODULE SuppressionsProofs -------------------------
(* Theorems of Suppressions, whatever files the grammars write. *)
EXTENDS Suppressions, FiniteSetTheorems, SequenceTheorems, TLAPS

-----------------------------------------------------------------------------
(* Where a line begins *)

\* The first line begins in no statement.
LEMMA BeforeFirst ==
  ASSUME NEW file
  PROVE  BeforeIn(file, 1) = "statement"
BY DEF BeforeIn

LEMMA BeforeType ==
  ASSUME NEW file, NEW i
  PROVE  BeforeIn(file, i) \in {"statement", "string", "bracket"}
BY DEF BeforeIn, After

\* A line with code decides where the next one begins, one without changes nothing.
LEMMA BeforeNext ==
  ASSUME NEW file, NEW i \in Nat \ {0}
  PROVE  BeforeIn(file, i + 1) = IF file[i].code = "none" THEN BeforeIn(file, i) ELSE After(file[i].code)
<1> DEFINE coded(n) == {j \in 1..(n - 1) : file[j].code # "none" /\ \A k \in (j + 1)..(n - 1) : file[k].code = "none"}
           begins(S) == IF S = {} THEN "statement" ELSE After(file[CHOOSE j \in S : TRUE].code)
<1>1. BeforeIn(file, i) = begins(coded(i)) /\ BeforeIn(file, i + 1) = begins(coded(i + 1))
  BY DEF BeforeIn
<1>2. CASE file[i].code = "none"
  <2>1. coded(i + 1) = coded(i)
    BY <1>2
  <2>2. QED
    BY <1>1, <1>2, <2>1
<1>3. CASE file[i].code # "none"
  <2>1. coded(i + 1) = {i}
    BY <1>3
  <2>2. (CHOOSE j \in {i} : TRUE) = i
    OBVIOUS
  <2> HIDE DEF coded
  <2>3. begins(coded(i + 1)) = After(file[i].code)
    BY <2>1, <2>2
  <2>4. QED
    BY <1>1, <1>3, <2>3
<1>4. QED
  BY <1>2, <1>3

-----------------------------------------------------------------------------
(* The scanner *)

Line ==
  [code : Codes, comment : Seq(Seq(STRING)), found : SUBSET STRING, id : 0..MaxLines, text : Seq(Seq(STRING))]

Skips(i) == <<"skip">> \in Range(prog[i].comment)

\* The two ways to be a line a formatter is told to leave alone.
OffAt(i) == \E k \in 1..i : Toggle(k, "off") /\ ~\E l \in (k + 1)..(i - 1) : Toggle(l, "on")
SkipAt(i) ==
  \E j \in DOMAIN prog : Skips(j) /\ ~Between(j) /\ ~Between(i)
                         /\ ((OneStatement(i, j) /\ i <= j) \/ (OneStatement(j, i) /\ j <= i))

LEMMA DocumentedIs == Documented = {i \in DOMAIN prog : OffAt(i) \/ SkipAt(i)}
BY DEF Documented, OffAt, SkipAt, Skips

\* What the scanner has found when it has seen n lines: the statement it is in,
\* the first off that is not closed, whether there is a skip in that statement,
\* and the lines to leave alone of all the statements and regions it has left.
InStatement(s, n) ==
  /\ s.start = 0 <=> Before(n + 1) = "statement"
  /\ s.start # 0 => /\ Before(s.start) = "statement" /\ prog[s.start].code # "none"
                    /\ \A k \in (s.start + 1)..(n + 1) : Before(k) # "statement"
InRegion(s, n) ==
  /\ s.from = 0 => \A k \in 1..n : Toggle(k, "off") => \E l \in (k + 1)..n : Toggle(l, "on")
  /\ s.from # 0 =>
       /\ Toggle(s.from, "off") /\ \A l \in (s.from + 1)..n : ~Toggle(l, "on")
       /\ \A k \in 1..(s.from - 1) : Toggle(k, "off") => \E l \in (k + 1)..(s.from - 1) : Toggle(l, "on")
HasSkip(s, n) == s.skip <=> s.start # 0 /\ \E j \in (s.start)..n : Skips(j)
HasLeft(s, n) ==
  \A i \in 1..n : i \in s.out <=> \/ OffAt(i) /\ (s.from = 0 \/ i < s.from)
                                  \/ SkipAt(i) /\ (s.start = 0 \/ i < s.start)
Scanned(s, n) ==
  /\ s \in [from : 0..n, start : 0..n, skip : BOOLEAN, out : SUBSET (1..n)]
  /\ InStatement(s, n) /\ InRegion(s, n) /\ HasSkip(s, n) /\ HasLeft(s, n)

\* The line after a line between statements begins in none; the line after one of
\* a statement begins in none when the statement ends there.
LEMMA BeforeTheNext ==
  ASSUME NEW i \in Nat \ {0}
  PROVE  Before(i + 1) = "statement" <=> Between(i) \/ prog[i].code \in EndsStatement
<1>1. Before(i + 1) = IF prog[i].code = "none" THEN Before(i) ELSE After(prog[i].code)
  BY BeforeNext DEF Before
<1>2. "none" \notin EndsStatement
  BY DEF EndsStatement
<1>3. After(prog[i].code) = "statement" <=> prog[i].code \in EndsStatement
  BY DEF After
<1>4. QED
  BY <1>1, <1>2, <1>3 DEF Between

\* Observe keeps InStatement.
LEMMA ObserveStatement ==
  ASSUME NEW s, NEW n \in Nat, Scanned(s, n)
  PROVE  InStatement(Observe(s, n + 1), n + 1)
<1> DEFINE i == n + 1
           line == prog[i]
           r == Observe(s, i)
<1>1. r.start = IF line.code \in EndsStatement THEN 0 ELSE IF s.start = 0 /\ line.code # "none" THEN i ELSE s.start
  BY DEF Observe
<1>2. s.start \in 0..n
  BY DEF Scanned
<1>3. Before(i + 1) = "statement" <=> line.code \in EndsStatement \/ (line.code = "none" /\ Before(i) = "statement")
  BY BeforeTheNext DEF Between
<1>4. s.start = 0 <=> Before(i) = "statement"
  BY DEF Scanned, InStatement
<1>5. s.start # 0 => /\ Before(s.start) = "statement" /\ prog[s.start].code # "none"
                     /\ \A k \in (s.start + 1)..i : Before(k) # "statement"
  BY DEF Scanned, InStatement
<1> HIDE DEF r
<1>6. r.start = 0 <=> Before(i + 1) = "statement"
  BY <1>1, <1>2, <1>3, <1>4
<1>7. ASSUME r.start # 0
      PROVE  /\ Before(r.start) = "statement" /\ prog[r.start].code # "none"
             /\ \A k \in (r.start + 1)..(i + 1) : Before(k) # "statement"
  <2>1. Before(i + 1) # "statement"
    BY <1>6, <1>7
  <2>2. CASE s.start = 0
    BY <1>1, <1>4, <1>7, <2>1, <2>2
  <2>3. CASE s.start # 0
    BY <1>1, <1>2, <1>5, <1>7, <2>1, <2>3
  <2>4. QED
    BY <2>2, <2>3
<1>8. QED
  BY <1>6, <1>7 DEF InStatement, r

\* A line is between statements when the scanner is in none and finds no code.
LEMMA BetweenIs ==
  ASSUME NEW s, NEW n \in Nat, Scanned(s, n)
  PROVE  Between(n + 1) <=> s.start = 0 /\ prog[n + 1].code = "none"
BY DEF Scanned, InStatement, Between

\* Observe keeps InRegion.
LEMMA ObserveRegion ==
  ASSUME NEW s, NEW n \in Nat, Scanned(s, n)
  PROVE  /\ InRegion(Observe(s, n + 1), n + 1)
         /\ Observe(s, n + 1).from = IF s.from = 0 /\ Toggle(n + 1, "off") THEN n + 1
                                     ELSE IF s.from # 0 /\ Toggle(n + 1, "on") THEN 0 ELSE s.from
<1> DEFINE i == n + 1
           r == Observe(s, i)
<1>1. r.from = IF s.from = 0 /\ Toggle(i, "off") THEN i
               ELSE IF s.from # 0 /\ Toggle(i, "on") THEN 0 ELSE s.from
  BY BetweenIs DEF Observe, Toggle, Scanned
<1>2. s.from \in 0..n
  BY DEF Scanned
<1>3. InRegion(s, n)
  BY DEF Scanned
<1>4. ~(Toggle(i, "off") /\ Toggle(i, "on"))
  BY DEF Toggle
<1> HIDE DEF r
<1>5. InRegion(r, i)
  BY <1>1, <1>2, <1>3, <1>4 DEF InRegion
<1>6. QED
  BY <1>1, <1>5 DEF r

\* Observe keeps HasSkip.
LEMMA ObserveSkip ==
  ASSUME NEW s, NEW n \in Nat, Scanned(s, n)
  PROVE  HasSkip(Observe(s, n + 1), n + 1)
<1> DEFINE i == n + 1
           start == IF s.start = 0 /\ prog[i].code # "none" THEN i ELSE s.start
           r == Observe(s, i)
           ends == prog[i].code \in EndsStatement
<1>1. /\ r.start = IF ends THEN 0 ELSE start
      /\ r.skip <=> (s.skip \/ (start # 0 /\ Skips(i))) /\ ~ends
  BY DEF Observe, Skips
<1>2. s.start \in 0..n /\ (s.skip <=> s.start # 0 /\ \E j \in (s.start)..n : Skips(j))
  BY DEF Scanned, HasSkip
<1>3. start # 0 => ((\E j \in start..i : Skips(j)) <=> s.skip \/ Skips(i))
  BY <1>2
<1> HIDE DEF r, start, ends, i
<1>4. r.skip <=> r.start # 0 /\ \E j \in (r.start)..i : Skips(j)
  BY <1>1, <1>2, <1>3 DEF start
<1>5. QED
  BY <1>4 DEF HasSkip, r, i

\* When a statement ends, its lines are to be left alone if one of them has a skip.
LEMMA SkipOfStatement ==
  ASSUME prog \in Seq(Line), NEW start \in Nat \ {0}, NEW i \in DOMAIN prog, start <= i,
         Before(start) = "statement", prog[start].code # "none",
         \A k \in (start + 1)..i : Before(k) # "statement", Before(i + 1) = "statement",
         NEW l \in start..i
  PROVE  SkipAt(l) <=> \E j \in start..i : Skips(j)
<1>1. \A k \in start..i : ~Between(k)
  BY DEF Between
<1>2. DOMAIN prog = 1..Len(prog) /\ Len(prog) \in Nat
  OBVIOUS
<1>3. ASSUME NEW j \in start..i, Skips(j)
      PROVE  SkipAt(l)
  <2>1. OneStatement(l, j) /\ OneStatement(j, l)
    BY DEF OneStatement
  <2>2. l <= j \/ j <= l
    BY <1>2
  <2>3. j \in DOMAIN prog /\ ~Between(j) /\ ~Between(l)
    BY <1>1, <1>2
  <2>4. QED
    BY <1>3, <2>1, <2>2, <2>3 DEF SkipAt
<1>4. ASSUME SkipAt(l)
      PROVE  \E j \in start..i : Skips(j)
  <2>1. PICK j \in DOMAIN prog : Skips(j) /\ ((OneStatement(l, j) /\ l <= j) \/ (OneStatement(j, l) /\ j <= l))
    BY <1>4 DEF SkipAt
  <2>2. j <= i
    BY <1>2, <2>1 DEF OneStatement
  <2>3. start <= j
    BY <1>2, <2>1 DEF OneStatement
  <2>4. QED
    BY <1>2, <2>1, <2>2, <2>3
<1>5. QED
  BY <1>3, <1>4

\* Observe keeps HasLeft.
LEMMA ObserveLeft ==
  ASSUME prog \in Seq(Line), NEW s, NEW n \in Nat, n < Len(prog), Scanned(s, n)
  PROVE  Observe(s, n + 1).out \subseteq 1..(n + 1) /\ HasLeft(Observe(s, n + 1), n + 1)
<1> DEFINE i == n + 1
           r == Observe(s, i)
           start == IF s.start = 0 /\ prog[i].code # "none" THEN i ELSE s.start
           closes == s.from # 0 /\ Toggle(i, "on")
           ends == prog[i].code \in EndsStatement
           skip == s.skip \/ (start # 0 /\ Skips(i))
           off(l, from) == OffAt(l) /\ (from = 0 \/ l < from)
           skipped(l, first) == SkipAt(l) /\ (first = 0 \/ l < first)
<1>1. /\ r.out = s.out \cup (IF closes THEN (s.from)..i ELSE {}) \cup (IF ends /\ skip THEN start..i ELSE {})
      /\ r.start = IF ends THEN 0 ELSE start
  BY BetweenIs DEF Observe, Toggle, Scanned, Skips
<1>2. InRegion(s, n) /\ InStatement(s, n) /\ HasSkip(s, n) /\ HasLeft(s, n)
  BY DEF Scanned
<1>3. r.from = IF s.from = 0 /\ Toggle(i, "off") THEN i ELSE IF s.from # 0 /\ Toggle(i, "on") THEN 0 ELSE s.from
  BY ObserveRegion
<1>4. s.start \in 0..n /\ s.from \in 0..n /\ s.out \subseteq 1..n /\ i \in Nat \ {0} /\ i \in DOMAIN prog
  BY DEF Scanned
<1>5. Between(i) <=> s.start = 0 /\ prog[i].code = "none"
  BY BetweenIs
<1>6. ends => prog[i].code # "none"
  BY DEF EndsStatement
<1> HIDE DEF r, i
<1>7. Before(i + 1) = "statement" <=> Between(i) \/ ends
  BY <1>4, BeforeTheNext
<1>8. i = n + 1
  BY DEF i
<1>9. ASSUME NEW l \in 1..i
      PROVE  off(l, r.from) <=> (l <= n /\ off(l, s.from)) \/ (closes /\ l \in (s.from)..i)
  <2>1. CASE s.from = 0 /\ ~Toggle(i, "off")
    <3>1. ~OffAt(i)
      BY <1>2, <1>8, <2>1 DEF OffAt, InRegion
    <3>2. QED
      BY <1>3, <1>4, <1>8, <2>1, <3>1
  <2>2. CASE s.from = 0 /\ Toggle(i, "off")
    BY <1>3, <1>4, <1>8, <2>2
  <2>3. CASE closes
    <3>1. l \in (s.from)..i => OffAt(l)
      BY <1>2, <1>4, <1>8, <2>3 DEF OffAt, InRegion
    <3>2. QED
      BY <1>3, <1>4, <1>8, <2>3, <3>1 DEF InRegion, Toggle
  <2>4. CASE s.from # 0 /\ ~Toggle(i, "on")
    BY <1>3, <1>4, <1>8, <2>4
  <2>5. QED
    BY <2>1, <2>2, <2>3, <2>4
<1>10. ASSUME NEW l \in 1..i
       PROVE  skipped(l, r.start) <=> (l <= n /\ skipped(l, s.start)) \/ (ends /\ skip /\ l \in start..i)
  <2>1. CASE Between(i)
    <3>1. ~SkipAt(i)
      BY <2>1 DEF SkipAt
    <3>2. QED
      BY <1>1, <1>4, <1>5, <1>6, <1>8, <2>1, <3>1
  <2>2. CASE ends
    <3>1. /\ start \in 1..i /\ Before(start) = "statement" /\ prog[start].code # "none"
          /\ \A k \in (start + 1)..i : Before(k) # "statement"
      BY <1>2, <1>4, <1>6, <1>8, <2>2 DEF InStatement
    <3>2. skip <=> \E j \in start..i : Skips(j)
      BY <1>2, <1>4, <1>8, <3>1 DEF HasSkip
    <3> HIDE DEF start, skip
    <3>3. ASSUME l \in start..i
          PROVE  SkipAt(l) <=> skip
      <4>1. start \in Nat \ {0} /\ start <= i /\ Before(i + 1) = "statement"
        BY <1>4, <1>7, <2>2, <3>1
      <4>2. SkipAt(l) <=> \E j \in start..i : Skips(j)
        BY <1>4, <3>1, <3>3, <4>1, SkipOfStatement
      <4>3. QED
        BY <3>2, <4>2
    <3>4. s.start # 0 => start = s.start
      BY DEF start
    <3>5. s.start = 0 => start = i
      BY <1>6, <2>2 DEF start
    <3>6. QED
      BY <1>1, <1>4, <1>8, <2>2, <3>1, <3>3, <3>4, <3>5
  <2>3. CASE ~Between(i) /\ ~ends
    BY <1>1, <1>4, <1>5, <1>8, <2>3
  <2>4. QED
    BY <2>1, <2>2, <2>3
<1>11. r.out \subseteq 1..i
  <2>1. ends => start \in 1..i
    BY <1>4, <1>6, <1>8
  <2> HIDE DEF start, ends
  <2>2. QED
    BY <1>1, <1>4, <1>8, <2>1
<1>12. ASSUME NEW l \in 1..i
       PROVE  l \in r.out <=> off(l, r.from) \/ skipped(l, r.start)
  <2>1. l <= n => (l \in s.out <=> off(l, s.from) \/ skipped(l, s.start))
    BY <1>2, <1>8 DEF HasLeft
  <2>2. l \in s.out => l <= n
    BY <1>4
  <2> HIDE DEF off, skipped, closes, ends, skip, start
  <2>3. QED
    BY <1>1, <1>9, <1>10, <2>1, <2>2
<1>13. QED
  BY <1>11, <1>12 DEF HasLeft, r, i

\* Observe keeps Scanned.
LEMMA ObserveScanned ==
  ASSUME prog \in Seq(Line), NEW s, NEW n \in Nat, n < Len(prog), Scanned(s, n)
  PROVE  Scanned(Observe(s, n + 1), n + 1)
<1>1. Observe(s, n + 1) \in [from : 0..(n + 1), start : 0..(n + 1), skip : BOOLEAN, out : SUBSET (1..(n + 1))]
  <2> DEFINE r == Observe(s, n + 1)
  <2>1. s.from \in 0..n /\ s.start \in 0..n
    BY DEF Scanned
  <2>2. r = [from |-> r.from, start |-> r.start, skip |-> r.skip, out |-> r.out] /\ r.skip \in BOOLEAN
    BY DEF Observe
  <2>3. r.from \in 0..(n + 1) /\ r.start \in 0..(n + 1)
    BY <2>1 DEF Observe
  <2>4. r.out \subseteq 1..(n + 1)
    BY ObserveLeft
  <2> HIDE DEF r
  <2>5. r \in [from : 0..(n + 1), start : 0..(n + 1), skip : BOOLEAN, out : SUBSET (1..(n + 1))]
    BY <2>2, <2>3, <2>4
  <2>6. QED
    BY <2>5 DEF r
<1>2. QED
  BY <1>1, ObserveStatement, ObserveRegion, ObserveSkip, ObserveLeft DEF Scanned

\* When all lines of a finished file are seen, the scanner has what is documented.
LEMMA FinalizeDocumented ==
  ASSUME prog \in Seq(Line), NEW s, Scanned(s, Len(prog)), Before(Len(prog) + 1) = "statement"
  PROVE  s.out \cup (IF s.from # 0 THEN (s.from)..Len(prog) ELSE {}) = Documented
<1> DEFINE n == Len(prog)
<1>1. n \in Nat /\ DOMAIN prog = 1..n
  OBVIOUS
<1>2. s.start = 0 /\ s.from \in 0..n /\ s.out \subseteq 1..n
  BY DEF Scanned, InStatement
<1>3. \A i \in 1..n : i \in s.out <=> (OffAt(i) /\ (s.from = 0 \/ i < s.from)) \/ SkipAt(i)
  BY <1>2 DEF Scanned, HasLeft
<1>4. \A i \in 1..n : s.from # 0 /\ s.from <= i => OffAt(i)
  BY <1>1, <1>2 DEF Scanned, InRegion, OffAt
<1>5. QED
  BY <1>1, <1>2, <1>3, <1>4, DocumentedIs

-----------------------------------------------------------------------------
(* Counting, and what Flattened puts where *)

\* A nonempty set of natural numbers has a least element.
LEMMA LeastElement ==
  ASSUME NEW T, T \subseteq Nat, T # {}
  PROVE  \E x \in T : \A y \in T : x <= y
<1> DEFINE R == {ss \in Nat \X Nat : ss[1] < ss[2]}
<1>1. IsWellFoundedOn(R, Nat)
  BY NatLessThanWellFounded DEF OpToRel
<1>2. \A x, y \in Nat : y < x => <<y, x>> \in R
  OBVIOUS
<1> HIDE DEF R
<1>3. PICK x \in T : \A y \in T : ~(<<y, x>> \in R)
  BY <1>1, WFMin
<1>4. \A y \in T : ~(y < x)
  BY <1>2, <1>3
<1>5. QED
  BY <1>4

\* How many of some numbers are among the first i.
LEMMA CountTo ==
  ASSUME NEW D, NEW i \in Nat
  PROVE  IsFiniteSet(D \cap (1..i)) /\ Cardinality(D \cap (1..i)) \in Nat
<1>1. IsFiniteSet(1..i)
  BY FS_Interval
<1>2. IsFiniteSet(D \cap (1..i))
  BY <1>1, FS_Intersection
<1>3. QED
  BY <1>2, FS_CardinalityType

LEMMA CountNext ==
  ASSUME NEW D, NEW i \in Nat
  PROVE  /\ i + 1 \in D => Cardinality(D \cap (1..(i + 1))) = Cardinality(D \cap (1..i)) + 1
         /\ i + 1 \notin D => Cardinality(D \cap (1..(i + 1))) = Cardinality(D \cap (1..i))
<1> DEFINE A == D \cap (1..i)
           B == D \cap (1..(i + 1))
<1>1. IsFiniteSet(A) /\ Cardinality(A) \in Nat
  BY CountTo
<1>2. i + 1 \notin A
  OBVIOUS
<1>3. i + 1 \in D => B = A \cup {i + 1}
  OBVIOUS
<1>4. i + 1 \notin D => B = A
  OBVIOUS
<1> HIDE DEF A, B
<1>5. Cardinality(A \cup {i + 1}) = Cardinality(A) + 1
  BY <1>1, <1>2, FS_AddElement
<1>6. (i + 1 \in D => Cardinality(B) = Cardinality(A) + 1) /\ (i + 1 \notin D => Cardinality(B) = Cardinality(A))
  BY <1>3, <1>4, <1>5
<1>7. QED
  BY <1>6 DEF A, B

LEMMA CountGrows ==
  ASSUME NEW D, NEW i \in Nat, NEW j \in Nat, i <= j
  PROVE  Cardinality(D \cap (1..i)) <= Cardinality(D \cap (1..j))
<1>1. D \cap (1..i) \subseteq D \cap (1..j)
  OBVIOUS
<1>2. QED
  BY <1>1, CountTo, FS_Subset

\* The lines up to those of block i.
Doubles(blocks) == {j \in DOMAIN blocks : Len(blocks[j]) = 2}
End(blocks, i) == i + Cardinality(Doubles(blocks) \cap (1..i))

Blocks(blocks, m) == blocks = [i \in 1..m |-> blocks[i]] /\ \A i \in 1..m : Len(blocks[i]) \in {1, 2}

LEMMA EndType ==
  ASSUME NEW blocks, NEW i \in Nat
  PROVE  End(blocks, i) \in Nat
BY CountTo DEF End

LEMMA EndFirst ==
  ASSUME NEW blocks
  PROVE  End(blocks, 0) = 0
<1>1. Doubles(blocks) \cap (1..0) = {}
  OBVIOUS
<1>2. QED
  BY <1>1, FS_EmptySet DEF End

LEMMA EndNext ==
  ASSUME NEW m \in Nat, NEW blocks, Blocks(blocks, m), NEW i \in Nat, i < m
  PROVE  End(blocks, i + 1) = End(blocks, i) + Len(blocks[i + 1])
<1> DEFINE D == Doubles(blocks)
<1>1. /\ i + 1 \in D => Cardinality(D \cap (1..(i + 1))) = Cardinality(D \cap (1..i)) + 1
      /\ i + 1 \notin D => Cardinality(D \cap (1..(i + 1))) = Cardinality(D \cap (1..i))
  BY CountNext
<1>2. i + 1 \in 1..m
  OBVIOUS
<1>3. Len(blocks[i + 1]) \in {1, 2} /\ (i + 1 \in D <=> Len(blocks[i + 1]) = 2)
  BY <1>2 DEF Doubles, Blocks
<1>4. Cardinality(D \cap (1..i)) \in Nat
  BY CountTo
<1>5. End(blocks, i) = i + Cardinality(D \cap (1..i)) /\ End(blocks, i + 1) = (i + 1) + Cardinality(D \cap (1..(i + 1)))
  BY DEF End
<1> HIDE DEF D
<1>6. CASE Len(blocks[i + 1]) = 2
  BY <1>1, <1>3, <1>4, <1>5, <1>6
<1>7. CASE Len(blocks[i + 1]) = 1
  BY <1>1, <1>3, <1>4, <1>5, <1>7
<1>8. QED
  BY <1>3, <1>6, <1>7

LEMMA EndGrows ==
  ASSUME NEW blocks, NEW i \in Nat, NEW j \in Nat, i < j
  PROVE  End(blocks, i) < End(blocks, j)
<1>1. Cardinality(Doubles(blocks) \cap (1..i)) <= Cardinality(Doubles(blocks) \cap (1..j))
  BY CountGrows
<1>2. /\ Cardinality(Doubles(blocks) \cap (1..i)) \in Nat
      /\ Cardinality(Doubles(blocks) \cap (1..j)) \in Nat
  BY CountTo
<1>3. QED
  BY <1>1, <1>2 DEF End

\* Flattened has every line of every block in its place.
LEMMA FlattenedLine ==
  ASSUME NEW m \in Nat, NEW blocks, Blocks(blocks, m), NEW i \in Nat, i < m, NEW k \in 1..Len(blocks[i + 1])
  PROVE  /\ End(blocks, i) + k \in 1..End(blocks, m)
         /\ Flattened(blocks)[End(blocks, i) + k] = blocks[i + 1][k]
<1> DEFINE is(n, j) == End(blocks, j - 1) < n /\ n <= End(blocks, j)
           block(n) == CHOOSE j \in DOMAIN blocks : is(n, j)
           n == End(blocks, i) + k
<1>1. DOMAIN blocks = 1..m /\ Len(blocks) = m
  BY DEF Blocks
<1>2. Flattened(blocks) = [l \in 1..End(blocks, m) |-> blocks[block(l)][l - End(blocks, block(l) - 1)]]
  BY <1>1 DEF Flattened, End, Doubles
<1>3. /\ End(blocks, i) \in Nat /\ End(blocks, i + 1) \in Nat /\ End(blocks, m) \in Nat
      /\ End(blocks, i + 1) = End(blocks, i) + Len(blocks[i + 1])
  BY EndType, EndNext
<1>4. Len(blocks[i + 1]) \in {1, 2}
  BY DEF Blocks
<1>5. End(blocks, i + 1) <= End(blocks, m)
  <2>1. CASE i + 1 = m
    BY <1>3, <2>1
  <2>2. CASE i + 1 < m
    BY <1>3, <2>2, EndGrows
  <2>3. QED
    BY <2>1, <2>2
<1>6. n \in 1..End(blocks, m) /\ End(blocks, i) < n /\ n <= End(blocks, i + 1)
  BY <1>3, <1>4, <1>5
<1>7. (i + 1) - 1 = i /\ i + 1 \in 1..m
  OBVIOUS
<1>8. is(n, i + 1)
  BY <1>6, <1>7
<1>9. ASSUME NEW j \in 1..m, is(n, j)
      PROVE  j = i + 1
  <2>1. j \in Nat /\ j - 1 \in Nat /\ End(blocks, j) \in Nat /\ End(blocks, j - 1) \in Nat /\ n \in Nat
    BY <1>6, EndType
  <2>2. ~(j < i + 1)
    <3>1. SUFFICES ASSUME j < i + 1 PROVE FALSE
      OBVIOUS
    <3>2. End(blocks, j) <= End(blocks, i)
      <4>1. CASE j = i
        BY <1>3, <4>1
      <4>2. CASE j < i
        BY <1>3, <2>1, <4>2, EndGrows
      <4>3. QED
        BY <2>1, <3>1, <4>1, <4>2
    <3>3. QED
      BY <1>3, <1>6, <1>9, <2>1, <3>2
  <2>3. ~(i + 1 < j)
    <3>1. SUFFICES ASSUME i + 1 < j PROVE FALSE
      OBVIOUS
    <3>2. End(blocks, i + 1) <= End(blocks, j - 1)
      <4>1. CASE i + 1 = j - 1
        BY <1>3, <4>1
      <4>2. CASE i + 1 < j - 1
        BY <1>3, <2>1, <4>2, EndGrows
      <4>3. QED
        BY <2>1, <3>1, <4>1, <4>2
    <3>3. QED
      BY <1>3, <1>6, <1>9, <2>1, <3>2
  <2>4. QED
    BY <2>1, <2>2, <2>3
<1> HIDE DEF is
<1>10. block(n) = i + 1
  BY <1>1, <1>7, <1>8, <1>9
<1> HIDE DEF block
<1>11. n - End(blocks, block(n) - 1) = k
  BY <1>3, <1>7, <1>10
<1>12. QED
  BY <1>2, <1>6, <1>10, <1>11

\* It has nothing else.
LEMMA FlattenedIs ==
  ASSUME NEW m \in Nat, NEW blocks, Blocks(blocks, m)
  PROVE  Flattened(blocks) = [n \in 1..End(blocks, m) |-> Flattened(blocks)[n]]
BY DEF Flattened, End, Doubles, Blocks

LEMMA FlattenedFrom ==
  ASSUME NEW m \in Nat, NEW blocks, Blocks(blocks, m), NEW n \in 1..End(blocks, m)
  PROVE  \E i \in Nat : i < m /\ \E k \in 1..Len(blocks[i + 1]) : n = End(blocks, i) + k
<1> DEFINE T == {i \in Nat : n <= End(blocks, i)}
<1>1. m \in T
  OBVIOUS
<1>2. PICK j \in T : \A h \in T : j <= h
  <2>1. T \subseteq Nat /\ T # {}
    BY <1>1
  <2> HIDE DEF T
  <2>2. QED
    BY <2>1, LeastElement
<1>3. j # 0
  BY EndFirst
<1>4. PICK i \in Nat : j = i + 1
  <2>1. j - 1 \in Nat /\ j = (j - 1) + 1
    BY <1>3
  <2>2. QED
    BY <2>1
<1>5. i < m /\ i \notin T
  BY <1>1, <1>2, <1>4
<1>6. /\ End(blocks, i) \in Nat /\ End(blocks, i + 1) = End(blocks, i) + Len(blocks[i + 1])
      /\ Len(blocks[i + 1]) \in {1, 2}
  <2>1. End(blocks, i) \in Nat
    BY EndType
  <2>2. End(blocks, i + 1) = End(blocks, i) + Len(blocks[i + 1])
    BY <1>5, EndNext
  <2>3. i + 1 \in 1..m
    BY <1>5
  <2>4. Len(blocks[i + 1]) \in {1, 2}
    BY <2>3 DEF Blocks
  <2>5. QED
    BY <2>1, <2>2, <2>4
<1>7. End(blocks, i) < n /\ n <= End(blocks, i + 1)
  BY <1>2, <1>4, <1>5, <1>6
<1>8. n - End(blocks, i) \in 1..Len(blocks[i + 1]) /\ n = End(blocks, i) + (n - End(blocks, i))
  BY <1>6, <1>7
<1>9. QED
  BY <1>5, <1>8

-----------------------------------------------------------------------------
(* What the fix makes of a line *)

\* A line without its comment, one with another behind its own, and one above.
LEMMA LineTypes ==
  ASSUME MaxLines \in Nat, NEW line \in Line, NEW i, NEW c \in Seq(Seq(STRING))
  PROVE  /\ Without(line) \in Line /\ Without(line).code = line.code /\ Without(line).comment = <<>>
         /\ Joined(line, i, c) \in Line /\ Joined(line, i, c).code = line.code
         /\ Above(i, c) \in Line /\ Above(i, c).code = IF Before(i) = "string" THEN "text" ELSE "none"
<1> DEFINE none == <<>>
<1>0. none \in Seq(Seq(STRING))
  OBVIOUS
<1>1. Without(line) \in Line /\ Without(line).code = line.code /\ Without(line).comment = <<>>
  <2> HIDE DEF none
  <2>1. [line EXCEPT !.comment = none] \in Line /\ [line EXCEPT !.comment = none].code = line.code
        /\ [line EXCEPT !.comment = none].comment = none
    BY <1>0 DEF Line
  <2>2. QED
    BY <2>1 DEF Without, none
<1>2. line.text \o c \in Seq(Seq(STRING)) /\ line.comment \o c \in Seq(Seq(STRING))
  BY DEF Line
<1>3. Joined(line, i, c) \in Line /\ Joined(line, i, c).code = line.code
  BY <1>2 DEF Joined, Line
<1>4. Above(i, c) \in Line /\ Above(i, c).code = IF Before(i) = "string" THEN "text" ELSE "none"
  <2> DEFINE code == IF Before(i) = "string" THEN "text" ELSE "none"
             comment == IF Before(i) = "string" THEN none ELSE c
             text == IF Before(i) = "string" THEN c ELSE none
  <2>1. code \in Codes /\ 0 \in 0..MaxLines
    BY DEF Codes
  <2>2. comment \in Seq(Seq(STRING)) /\ text \in Seq(Seq(STRING))
    BY <1>0
  <2>3. Above(i, c) = [code |-> code, comment |-> comment, found |-> {}, id |-> 0, text |-> text]
    BY DEF Above
  <2> HIDE DEF code, comment, text
  <2>4. Above(i, c) \in Line /\ Above(i, c).code = code
    BY <2>1, <2>2, <2>3 DEF Line
  <2>5. QED
    BY <2>4 DEF code
<1>5. QED
  BY <1>1, <1>3, <1>4

\* A line stays one line, or gets one above it for a comment that does not fit.
LEMMA RewrittenLines ==
  ASSUME MaxLines \in Nat, prog \in Seq(Line), NEW i \in DOMAIN prog,
         NEW movable, movable \subseteq DOMAIN prog, NEW fits,
         NEW r, r = Rewritten(i, movable, fits)
  PROVE  /\ i + 1 \in movable \ fits => Len(r) = 2
         /\ i + 1 \notin movable \ fits => Len(r) = 1
         /\ \A k \in 1..Len(r) : r[k] \in Line
         /\ Last(r).code = prog[i].code
         /\ i + 1 \in movable \ fits => r[1].code = IF Before(i) = "string" THEN "text" ELSE "none"
         /\ i \notin movable /\ i + 1 \notin movable => r[1] = prog[i]
         /\ Last(r).comment # <<>> =>
              (i \notin movable /\ prog[i].comment # <<>>) \/ i + 1 \in movable \cap fits
<1> DEFINE kept == IF i \in movable THEN Without(prog[i]) ELSE prog[i]
           c == prog[i + 1].comment
<1>1. prog[i] \in Line
  OBVIOUS
<1>2. kept \in Line /\ kept.code = prog[i].code /\ (kept.comment # <<>> => i \notin movable /\ prog[i].comment # <<>>)
  BY <1>1, LineTypes DEF Line
<1>3. ASSUME i + 1 \in movable
      PROVE  c \in Seq(Seq(STRING))
  <2>1. prog[i + 1] \in Line
    BY <1>3
  <2>2. QED
    BY <2>1 DEF Line
<1> HIDE DEF kept, c
<1>4. CASE i + 1 \notin movable
  <2>1. r = <<kept>>
    BY <1>4 DEF Rewritten, kept
  <2>2. QED
    BY <1>2, <1>4, <2>1 DEF kept, Last
<1>5. CASE i + 1 \in movable \cap fits
  <2>1. r = <<Joined(kept, i, c)>>
    BY <1>5 DEF Rewritten, kept, c
  <2>2. Joined(kept, i, c) \in Line /\ Joined(kept, i, c).code = kept.code
    BY <1>2, <1>3, <1>5, LineTypes
  <2>3. QED
    BY <1>2, <1>5, <2>1, <2>2 DEF Last
<1>6. CASE i + 1 \in movable \ fits
  <2>1. r = <<Above(i, c), kept>>
    BY <1>6 DEF Rewritten, kept, c
  <2>2. Above(i, c) \in Line /\ (Above(i, c).code = IF Before(i) = "string" THEN "text" ELSE "none")
    <3>1. c \in Seq(Seq(STRING))
      BY <1>3, <1>6
    <3>2. Above(i, c) \in Line
      BY <1>1, <3>1, LineTypes
    <3>3. Above(i, c).code = IF Before(i) = "string" THEN "text" ELSE "none"
      BY DEF Above
    <3>4. QED
      BY <3>2, <3>3
  <2> DEFINE a == Above(i, c)
  <2> HIDE DEF a
  <2>3. Len(r) = 2 /\ r[1] = a /\ r[2] = kept
    BY <2>1 DEF a
  <2>4. \A k \in 1..2 : r[k] \in Line
    BY <1>2, <2>2, <2>3 DEF a
  <2>5. QED
    BY <1>2, <1>6, <2>1, <2>2, <2>3, <2>4 DEF a, Last
<1>7. QED
  BY <1>4, <1>5, <1>6

-----------------------------------------------------------------------------
(* What the fix makes of the file *)

BlocksOf(movable, fits) == [i \in DOMAIN prog |-> Rewritten(i, movable, fits)]

LEMMA BlocksAre ==
  ASSUME MaxLines \in Nat, prog \in Seq(Line), NEW movable, movable \subseteq DOMAIN prog, NEW fits
  PROVE  /\ Blocks(BlocksOf(movable, fits), Len(prog))
         /\ Doubles(BlocksOf(movable, fits)) = {i \in DOMAIN prog : i + 1 \in movable \ fits}
<1> DEFINE blocks == BlocksOf(movable, fits)
<1>1. Len(prog) \in Nat /\ DOMAIN prog = 1..Len(prog)
  OBVIOUS
<1>2. blocks = [i \in 1..Len(prog) |-> blocks[i]] /\ \A i \in 1..Len(prog) : blocks[i] = Rewritten(i, movable, fits)
  BY <1>1 DEF BlocksOf
<1> HIDE DEF blocks
<1>3. \A i \in 1..Len(prog) :
        (i + 1 \in movable \ fits => Len(blocks[i]) = 2) /\ (i + 1 \notin movable \ fits => Len(blocks[i]) = 1)
  BY <1>1, <1>2, RewrittenLines
<1>4. Blocks(blocks, Len(prog))
  BY <1>2, <1>3 DEF Blocks
<1>5. Doubles(blocks) = {i \in DOMAIN prog : i + 1 \in movable \ fits}
  <2>1. DOMAIN blocks = DOMAIN prog
    BY <1>1, <1>2
  <2>2. ASSUME NEW i \in DOMAIN prog
        PROVE  Len(blocks[i]) = 2 <=> i + 1 \in movable \ fits
    <3>1. i \in 1..Len(prog)
      BY <1>1
    <3>2. CASE i + 1 \in movable \ fits
      BY <1>3, <3>1, <3>2
    <3>3. CASE i + 1 \notin movable \ fits
      <4>1. Len(blocks[i]) = 1
        BY <1>3, <3>1, <3>3
      <4>2. QED
        BY <3>3, <4>1
    <3>4. QED
      BY <3>2, <3>3
  <2>3. QED
    BY <2>1, <2>2 DEF Doubles
<1>6. QED
  BY <1>4, <1>5 DEF blocks

\* The file stays a file.
LEMMA FixedType ==
  ASSUME MaxLines \in Nat, prog \in Seq(Line), NEW movable, movable \subseteq DOMAIN prog, NEW fits
  PROVE  /\ Flattened(BlocksOf(movable, fits)) \in Seq(Line)
         /\ Len(Flattened(BlocksOf(movable, fits))) = End(BlocksOf(movable, fits), Len(prog))
<1> DEFINE blocks == BlocksOf(movable, fits)
           m == Len(prog)
           file == Flattened(blocks)
<1>1. m \in Nat /\ DOMAIN prog = 1..m
  OBVIOUS
<1>2. Blocks(blocks, m)
  BY BlocksAre
<1>3. \A i \in 1..m : blocks[i] = Rewritten(i, movable, fits)
  BY <1>1 DEF BlocksOf
<1> HIDE DEF blocks, m
<1>4. ASSUME NEW n \in 1..End(blocks, m)
      PROVE  file[n] \in Line
  <2>1. PICK i \in Nat : i < m /\ \E k \in 1..Len(blocks[i + 1]) : n = End(blocks, i) + k
    BY <1>1, <1>2, FlattenedFrom
  <2>2. PICK k \in 1..Len(blocks[i + 1]) : n = End(blocks, i) + k
    BY <2>1
  <2>3. file[n] = blocks[i + 1][k]
    BY <1>1, <1>2, <2>1, <2>2, FlattenedLine
  <2>4. i + 1 \in DOMAIN prog /\ i + 1 \in 1..m
    BY <1>1, <2>1
  <2>5. blocks[i + 1][k] \in Line
    <3>1. blocks[i + 1] = Rewritten(i + 1, movable, fits)
      BY <1>3, <2>4
    <3> DEFINE r == blocks[i + 1]
    <3> HIDE DEF r
    <3>2. r = Rewritten(i + 1, movable, fits)
      BY <3>1 DEF r
    <3>3. \A j \in 1..Len(r) : r[j] \in Line
      BY <2>4, <3>2, RewrittenLines
    <3>4. QED
      BY <2>2, <3>3 DEF r
  <2>6. QED
    BY <2>3, <2>5
<1>5. file = [n \in 1..End(blocks, m) |-> file[n]] /\ End(blocks, m) \in Nat
  BY <1>1, <1>2, FlattenedIs, EndType
<1> HIDE DEF file
<1>6. file \in Seq(Line) /\ Len(file) = End(blocks, m)
  BY <1>4, <1>5
<1>7. QED
  BY <1>6 DEF file, blocks, m

\* Where a block begins, the file is where it was before the line.
LEMMA FixedBefore ==
  ASSUME MaxLines \in Nat, prog \in Seq(Line), NEW movable, movable \subseteq DOMAIN prog, NEW fits,
         NEW i \in 0..Len(prog)
  PROVE  BeforeIn(Flattened(BlocksOf(movable, fits)), End(BlocksOf(movable, fits), i) + 1) = Before(i + 1)
<1> DEFINE blocks == BlocksOf(movable, fits)
           m == Len(prog)
           file == Flattened(blocks)
           same(j) == BeforeIn(file, End(blocks, j) + 1) = Before(j + 1)
<1>1. m \in Nat /\ DOMAIN prog = 1..m
  OBVIOUS
<1>2. Blocks(blocks, m)
  BY BlocksAre
<1>3. \A j \in 1..m : blocks[j] = Rewritten(j, movable, fits)
  BY <1>1 DEF BlocksOf
<1> HIDE DEF blocks, m, file
<1>4. same(0)
  <2>1. End(blocks, 0) + 1 = 1 /\ 0 + 1 = 1
    BY EndFirst
  <2>2. QED
    BY <2>1, BeforeFirst DEF Before
<1>5. ASSUME NEW j \in Nat, j < m, same(j)
      PROVE  same(j + 1)
  <2> DEFINE l == j + 1
             e == End(blocks, j)
  <2>1. l \in DOMAIN prog /\ l \in 1..m /\ l \in Nat \ {0} /\ e \in Nat
    BY <1>1, <1>5, EndType
  <2>2. End(blocks, l) = e + Len(blocks[l])
    BY <1>1, <1>2, <1>5, EndNext
  <2>3. \A k \in 1..Len(blocks[l]) : file[e + k] = blocks[l][k]
    BY <1>1, <1>2, <1>5, FlattenedLine DEF file
  <2>4. Before(l + 1) = IF prog[l].code = "none" THEN Before(l) ELSE After(prog[l].code)
    BY <2>1, BeforeNext DEF Before
  <2>5. /\ Last(blocks[l]).code = prog[l].code
        /\ l + 1 \in movable \ fits => Len(blocks[l]) = 2
        /\ l + 1 \notin movable \ fits => Len(blocks[l]) = 1
        /\ l + 1 \in movable \ fits => blocks[l][1].code = IF Before(l) = "string" THEN "text" ELSE "none"
    <3>1. blocks[l] = Rewritten(l, movable, fits)
      BY <1>3, <2>1
    <3> DEFINE r == blocks[l]
    <3> HIDE DEF l, r
    <3>2. r = Rewritten(l, movable, fits)
      BY <3>1 DEF r
    <3>3. Last(r).code = prog[l].code
      BY <2>1, <3>2, RewrittenLines, SMTT(30)
    <3>4. (l + 1 \in movable \ fits => Len(r) = 2) /\ (l + 1 \notin movable \ fits => Len(r) = 1)
      BY <2>1, <3>2, RewrittenLines
    <3>5. l + 1 \in movable \ fits => r[1].code = IF Before(l) = "string" THEN "text" ELSE "none"
      BY <2>1, <3>2, RewrittenLines
    <3>6. QED
      BY <3>3, <3>4, <3>5 DEF r
  <2> HIDE DEF l, e
  <2>6. /\ BeforeIn(file, (e + 1) + 1)
              = IF file[e + 1].code = "none" THEN BeforeIn(file, e + 1) ELSE After(file[e + 1].code)
        /\ BeforeIn(file, (e + 2) + 1)
              = IF file[e + 2].code = "none" THEN BeforeIn(file, e + 2) ELSE After(file[e + 2].code)
    <3>1. e + 1 \in Nat \ {0} /\ e + 2 \in Nat \ {0} /\ (e + 1) + 1 = e + 2
      BY <2>1
    <3>2. BeforeIn(file, (e + 1) + 1)
            = IF file[e + 1].code = "none" THEN BeforeIn(file, e + 1) ELSE After(file[e + 1].code)
      BY <3>1, BeforeNext
    <3>3. BeforeIn(file, (e + 2) + 1)
            = IF file[e + 2].code = "none" THEN BeforeIn(file, e + 2) ELSE After(file[e + 2].code)
      BY <3>1, BeforeNext
    <3>4. QED
      BY <3>2, <3>3
  <2>7. BeforeIn(file, e + 1) = Before(l)
    BY <1>5 DEF l, e
  <2>8. CASE l + 1 \notin movable \ fits
    <3>1. Len(blocks[l]) = 1 /\ file[e + 1].code = prog[l].code
      <4>1. Len(blocks[l]) = 1
        BY <2>5, <2>8
      <4>2. file[e + 1] = blocks[l][1]
        BY <2>3, <4>1
      <4>3. QED
        BY <2>5, <4>1, <4>2 DEF Last
    <3>2. BeforeIn(file, (e + 1) + 1) = Before(l + 1)
      BY <2>1, <2>4, <2>6, <2>7, <3>1
    <3>3. QED
      BY <2>2, <3>1, <3>2 DEF l
  <2>9. CASE l + 1 \in movable \ fits
    <3>1. Len(blocks[l]) = 2 /\ file[e + 2].code = prog[l].code
      <4>1. Len(blocks[l]) = 2
        BY <2>5, <2>9
      <4>2. file[e + 2] = blocks[l][2]
        BY <2>3, <4>1
      <4>3. QED
        BY <2>5, <4>1, <4>2 DEF Last
    <3>2. file[e + 1].code = IF Before(l) = "string" THEN "text" ELSE "none"
      BY <2>3, <2>5, <2>9, <3>1
    <3>3. After("text") = "string"
      BY DEF After, EndsStatement
    <3>4. BeforeIn(file, (e + 1) + 1) = Before(l)
      BY <2>1, <2>6, <2>7, <3>2, <3>3
    <3>5. (e + 1) + 1 = e + 2
      BY <2>1
    <3>6. BeforeIn(file, (e + 2) + 1) = Before(l + 1)
      BY <2>1, <2>4, <2>6, <3>1, <3>4, <3>5
    <3>7. QED
      BY <2>2, <3>1, <3>6 DEF l
  <2>10. QED
    BY <2>8, <2>9
<1> HIDE DEF same
<1>6. SUFFICES ASSUME NEW h \in 0..m, ~same(h) PROVE FALSE
  BY DEF same, file, blocks, m
<1>7. PICK x \in {j \in 0..m : ~same(j)} : \A y \in {j \in 0..m : ~same(j)} : x <= y
  <2> DEFINE T == {j \in 0..m : ~same(j)}
  <2>1. T \subseteq Nat /\ T # {}
    BY <1>6
  <2> HIDE DEF T
  <2>2. \E x \in T : \A y \in T : x <= y
    BY <2>1, LeastElement
  <2>3. QED
    BY <2>2 DEF T
<1>8. x # 0
  BY <1>4, <1>7
<1>9. PICK j \in Nat : x = j + 1
  <2>1. x - 1 \in Nat /\ x = (x - 1) + 1
    BY <1>7, <1>8
  <2>2. QED
    BY <2>1
<1>10. j < m /\ same(j)
  BY <1>1, <1>7, <1>9
<1>11. QED
  BY <1>5, <1>7, <1>9, <1>10

\* The codes a line can have by where it begins.
Possible(at) ==
  CASE at = "statement" -> {"none", "one", "head", "headtext"}
    [] at = "bracket" -> {"none", "item", "inner", "close"}
    [] OTHER -> {"text", "closetext"}
WellFormed(file) == \A i \in DOMAIN file : file[i].code \in Possible(BeforeIn(file, i))

\* The file stays well-formed.
LEMMA FixedWellFormed ==
  ASSUME MaxLines \in Nat, prog \in Seq(Line), NEW movable, movable \subseteq DOMAIN prog, NEW fits,
         WellFormed(prog)
  PROVE  WellFormed(Flattened(BlocksOf(movable, fits)))
<1> DEFINE blocks == BlocksOf(movable, fits)
           m == Len(prog)
           file == Flattened(blocks)
<1>1. m \in Nat /\ DOMAIN prog = 1..m
  OBVIOUS
<1>2. Blocks(blocks, m)
  BY BlocksAre
<1>3. \A j \in 1..m : blocks[j] = Rewritten(j, movable, fits)
  BY <1>1 DEF BlocksOf
<1>4. \A j \in 0..m : BeforeIn(file, End(blocks, j) + 1) = Before(j + 1)
  BY FixedBefore
<1>5. DOMAIN file = 1..End(blocks, m)
  BY FixedType
<1> HIDE DEF blocks, m, file
<1>6. SUFFICES ASSUME NEW n \in 1..End(blocks, m)
               PROVE  file[n].code \in Possible(BeforeIn(file, n))
  BY <1>5 DEF WellFormed, file, blocks
<1>7. PICK j \in Nat : j < m /\ \E k \in 1..Len(blocks[j + 1]) : n = End(blocks, j) + k
  BY <1>1, <1>2, FlattenedFrom
<1>8. PICK k \in 1..Len(blocks[j + 1]) : n = End(blocks, j) + k
  BY <1>7
<1> DEFINE l == j + 1
           e == End(blocks, j)
           r == blocks[l]
<1>9. l \in DOMAIN prog /\ l \in 1..m /\ e \in Nat
  BY <1>1, <1>7, EndType
<1>10. \A h \in 1..Len(r) : file[e + h] = r[h]
  BY <1>1, <1>2, <1>7, FlattenedLine DEF file
<1>11. r = Rewritten(l, movable, fits)
  BY <1>3, <1>9
<1>12. BeforeIn(file, e + 1) = Before(l)
  <2>1. j \in 0..m
    BY <1>1, <1>7
  <2>2. QED
    BY <1>4, <2>1
<1> HIDE DEF l, e, r
<1>13. /\ l + 1 \in movable \ fits => Len(r) = 2
       /\ l + 1 \notin movable \ fits => Len(r) = 1
       /\ Last(r).code = prog[l].code
  <2>1. (l + 1 \in movable \ fits => Len(r) = 2) /\ (l + 1 \notin movable \ fits => Len(r) = 1)
    BY <1>9, <1>11, RewrittenLines
  <2>2. Last(r).code = prog[l].code
    BY <1>9, <1>11, RewrittenLines
  <2>3. QED
    BY <2>1, <2>2
<1>14. l + 1 \in movable \ fits => r[1].code = IF Before(l) = "string" THEN "text" ELSE "none"
  BY <1>9, <1>11, RewrittenLines
<1>15. prog[l].code \in Possible(Before(l))
  BY <1>9 DEF WellFormed, Before
<1>16. n = e + k /\ k \in 1..Len(r) /\ file[n] = r[k]
  BY <1>8, <1>10 DEF e, r, l
<1>17. CASE l + 1 \notin movable \ fits
  <2>1. Len(r) = 1 /\ k = 1
    <3>1. Len(r) = 1
      BY <1>13, <1>17
    <3>2. QED
      BY <1>16, <3>1
  <2>2. file[n].code = prog[l].code
    BY <1>13, <1>16, <2>1 DEF Last
  <2>3. QED
    BY <1>12, <1>15, <1>16, <2>1, <2>2
<1>18. CASE l + 1 \in movable \ fits
  <2>1. Len(r) = 2 /\ k \in {1, 2}
    <3>1. Len(r) = 2
      BY <1>13, <1>18
    <3>2. QED
      BY <1>16, <3>1
  <2>2. file[e + 1] = r[1] /\ file[e + 2] = r[2]
    BY <1>10, <2>1
  <2>3. file[e + 1].code = IF Before(l) = "string" THEN "text" ELSE "none"
    BY <1>14, <1>18, <2>2
  <2>4. CASE k = 1
    <3>1. Before(l) \in {"statement", "string", "bracket"}
      BY BeforeType DEF Before
    <3>2. n = e + 1
      BY <1>16, <2>4
    <3>3. QED
      BY <1>12, <2>3, <3>1, <3>2 DEF Possible
  <2>5. CASE k = 2
    <3>1. file[n].code = prog[l].code
      BY <1>13, <1>16, <2>1, <2>5 DEF Last
    <3>2. e + 1 \in Nat \ {0} /\ (e + 1) + 1 = e + 2
      BY <1>9
    <3>3. BeforeIn(file, (e + 1) + 1)
            = IF file[e + 1].code = "none" THEN BeforeIn(file, e + 1) ELSE After(file[e + 1].code)
      BY <3>2, BeforeNext
    <3>4. After("text") = "string"
      BY DEF After, EndsStatement
    <3>5. BeforeIn(file, e + 2) = Before(l)
      BY <1>12, <2>3, <3>2, <3>3, <3>4
    <3>6. QED
      BY <1>15, <1>16, <2>5, <3>1, <3>5
  <2>6. QED
    BY <2>1, <2>4, <2>5
<1>19. QED
  BY <1>17, <1>18

-----------------------------------------------------------------------------
(* How long the file gets *)

\* The lines of brackets alone that have a comment.
Crowded(file) ==
  {i \in DOMAIN file : file[i].code \in {"inner", "close", "closetext"} /\ file[i].comment # <<>>}

\* A set is not larger than one it is mapped to without two elements going to one.
LEMMA InjectionBound ==
  ASSUME NEW S, NEW T, IsFiniteSet(T), NEW f \in [S -> T], \A x, y \in S : f[x] = f[y] => x = y
  PROVE  IsFiniteSet(S) /\ Cardinality(S) <= Cardinality(T)
<1>1. f \in Injection(S, T)
  BY DEF Injection, IsInjective
<1>2. QED
  BY <1>1, FS_Injection

\* A line of brackets alone with a comment is the last line of a block: it had the
\* comment before, or the next line had.
LEMMA FixedCrowded ==
  ASSUME MaxLines \in Nat, prog \in Seq(Line), NEW movable, movable \subseteq DOMAIN prog, NEW fits,
         NEW n \in Crowded(Flattened(BlocksOf(movable, fits)))
  PROVE  \E j \in DOMAIN prog :
           n = End(BlocksOf(movable, fits), j) /\ (j \in Crowded(prog) \ movable \/ j + 1 \in movable \cap fits)
<1> DEFINE blocks == BlocksOf(movable, fits)
           m == Len(prog)
           file == Flattened(blocks)
<1>1. m \in Nat /\ DOMAIN prog = 1..m
  OBVIOUS
<1>2. Blocks(blocks, m)
  BY BlocksAre
<1>3. \A j \in 1..m : blocks[j] = Rewritten(j, movable, fits)
  BY <1>1 DEF BlocksOf
<1>4. DOMAIN file = 1..End(blocks, m)
  BY FixedType
<1>5. n \in 1..End(blocks, m) /\ file[n].code \in {"inner", "close", "closetext"} /\ file[n].comment # <<>>
  BY <1>4 DEF Crowded
<1> HIDE DEF blocks, m, file
<1>6. PICK h \in Nat : h < m /\ \E k \in 1..Len(blocks[h + 1]) : n = End(blocks, h) + k
  BY <1>1, <1>2, <1>5, FlattenedFrom
<1>7. PICK k \in 1..Len(blocks[h + 1]) : n = End(blocks, h) + k
  BY <1>6
<1> DEFINE j == h + 1
           r == blocks[j]
<1>8. j \in DOMAIN prog /\ j \in 1..m /\ End(blocks, h) \in Nat
  BY <1>1, <1>6, EndType
<1>9. file[n] = r[k] /\ k \in 1..Len(r)
  BY <1>1, <1>2, <1>6, <1>7, FlattenedLine DEF file
<1>10. End(blocks, j) = End(blocks, h) + Len(r)
  BY <1>1, <1>2, <1>6, EndNext
<1>11. r = Rewritten(j, movable, fits)
  BY <1>3, <1>8
<1> HIDE DEF j, r
<1>12. /\ j + 1 \in movable \ fits => Len(r) = 2
       /\ j + 1 \notin movable \ fits => Len(r) = 1
       /\ Last(r).code = prog[j].code
       /\ Last(r).comment # <<>> => (j \notin movable /\ prog[j].comment # <<>>) \/ j + 1 \in movable \cap fits
  <2>1. Last(r).comment # <<>> => (j \notin movable /\ prog[j].comment # <<>>) \/ j + 1 \in movable \cap fits
    BY <1>8, <1>11, RewrittenLines, SMTT(30)
  <2>2. (j + 1 \in movable \ fits => Len(r) = 2) /\ (j + 1 \notin movable \ fits => Len(r) = 1)
    BY <1>8, <1>11, RewrittenLines, SMTT(30)
  <2>3. Last(r).code = prog[j].code
    BY <1>8, <1>11, RewrittenLines, SMTT(30)
  <2>4. QED
    BY <2>1, <2>2, <2>3
<1>13. j + 1 \in movable \ fits => r[1].code = IF Before(j) = "string" THEN "text" ELSE "none"
  BY <1>8, <1>11, RewrittenLines, SMTT(30)
<1>14. k = Len(r)
  <2>1. CASE j + 1 \notin movable \ fits
    <3>1. Len(r) = 1
      BY <1>12, <2>1
    <3>2. QED
      BY <1>9, <3>1
  <2>2. CASE j + 1 \in movable \ fits
    <3>1. Len(r) = 2 /\ k # 1
      BY <1>5, <1>9, <1>12, <1>13, <2>2
    <3>2. QED
      BY <1>9, <3>1
  <2>3. QED
    BY <2>1, <2>2
<1>15. n = End(blocks, j)
  BY <1>7, <1>10, <1>14
<1>16. prog[j].code \in {"inner", "close", "closetext"} /\ Last(r).comment # <<>>
  BY <1>5, <1>9, <1>12, <1>14 DEF Last
<1>17. j \in Crowded(prog) \ movable \/ j + 1 \in movable \cap fits
  BY <1>8, <1>12, <1>16 DEF Crowded
<1>18. QED
  BY <1>8, <1>15, <1>17 DEF blocks

\* A line that is added takes a comment off a line of brackets.
LEMMA FixedSize ==
  ASSUME MaxLines \in Nat, prog \in Seq(Line), NEW movable, movable \subseteq Crowded(prog), NEW fits
  PROVE  LET file == Flattened(BlocksOf(movable, fits))
         IN  Len(file) + Cardinality(Crowded(file)) <= Len(prog) + Cardinality(Crowded(prog))
<1> DEFINE blocks == BlocksOf(movable, fits)
           m == Len(prog)
           file == Flattened(blocks)
           N == Crowded(file)
           C == Crowded(prog)
           above == movable \ fits
           D == Doubles(blocks)
<1>1. m \in Nat /\ DOMAIN prog = 1..m /\ C \subseteq 1..m /\ movable \subseteq DOMAIN prog
  BY DEF Crowded
<1>2. IsFiniteSet(C) /\ IsFiniteSet(above) /\ Cardinality(C) \in Nat /\ Cardinality(above) \in Nat
  <2>1. IsFiniteSet(1..m)
    BY <1>1, FS_Interval
  <2>2. IsFiniteSet(C)
    BY <1>1, <2>1, FS_Subset
  <2>3. above \subseteq C
    OBVIOUS
  <2>4. IsFiniteSet(above)
    BY <2>2, <2>3, FS_Subset
  <2>5. QED
    BY <2>2, <2>4, FS_CardinalityType
<1>3. IsFiniteSet(C \ above) /\ Cardinality(C \ above) = Cardinality(C) - Cardinality(above)
  <2>1. C \cap above = above
    OBVIOUS
  <2> HIDE DEF C, above
  <2>2. QED
    BY <1>2, <2>1, FS_Difference
<1>4. ASSUME NEW n \in N
      PROVE  \E j \in 1..m : n = End(blocks, j) /\ (j \in C \ movable \/ j + 1 \in movable \cap fits)
  BY <1>1, FixedCrowded
<1> DEFINE of(n) == CHOOSE j \in 1..m : n = End(blocks, j) /\ (j \in C \ movable \/ j + 1 \in movable \cap fits)
           from == [n \in N |-> IF of(n) + 1 \in movable \cap fits THEN of(n) + 1 ELSE of(n)]
<1> HIDE DEF blocks, m, file, N, C
<1>5. \A n \in N : of(n) \in 1..m /\ n = End(blocks, of(n)) /\ (of(n) \in C \ movable \/ of(n) + 1 \in movable \cap fits)
  BY <1>4
<1> HIDE DEF of
<1>6. from \in [N -> C \ above]
  BY <1>5 DEF C
<1>7. \A x, y \in N : from[x] = from[y] => x = y
  <2> TAKE x, y \in N
  <2> HAVE from[x] = from[y]
  <2>1. of(x) \in Int /\ of(y) \in Int
    BY <1>1, <1>5
  <2>2. of(x) = of(y)
    BY <1>5, <2>1
  <2>3. QED
    BY <1>5, <2>2
<1> HIDE DEF from, above
<1>8. IsFiniteSet(N) /\ Cardinality(N) <= Cardinality(C) - Cardinality(above)
  BY <1>3, <1>6, <1>7, InjectionBound
<1>9. Cardinality(N) \in Nat
  BY <1>8, FS_CardinalityType
<1>10. Cardinality(D) <= Cardinality(above) /\ Cardinality(D) \in Nat
  <2> DEFINE next == [i \in D |-> i + 1]
  <2>1. D = {i \in 1..m : i + 1 \in above}
    BY <1>1, BlocksAre DEF blocks, above
  <2>2. next \in [D -> above] /\ \A x, y \in D : next[x] = next[y] => x = y
    BY <1>1, <2>1
  <2> HIDE DEF next, D
  <2>3. IsFiniteSet(D) /\ Cardinality(D) <= Cardinality(above)
    BY <1>2, <2>2, InjectionBound
  <2>4. QED
    BY <2>3, FS_CardinalityType
<1>11. Len(file) = m + Cardinality(D)
  <2>1. D \cap (1..m) = D
    BY <1>1, BlocksAre DEF blocks
  <2>2. Len(file) = End(blocks, m)
    BY <1>1, FixedType DEF blocks, m, file
  <2>3. QED
    BY <2>1, <2>2 DEF End
<1> HIDE DEF D
<1>12. Len(file) + Cardinality(N) <= m + Cardinality(C)
  BY <1>1, <1>2, <1>8, <1>9, <1>10, <1>11
<1>13. QED
  BY <1>12 DEF N, C, m, file, blocks

-----------------------------------------------------------------------------
(* What Picked and Cleared keep *)

Rank(places, k) == Cardinality({j \in places : j <= k})

LEMMA RankType ==
  ASSUME NEW places, places \subseteq Nat, IsFiniteSet(places), NEW k \in places
  PROVE  Rank(places, k) \in 1..Cardinality(places)
<1> DEFINE upto == {j \in places : j <= k}
<1>1. IsFiniteSet(places)
  OBVIOUS
<1>3. upto \subseteq places /\ k \in upto
  OBVIOUS
<1> HIDE DEF upto
<1>4. IsFiniteSet(upto) /\ Cardinality(upto) <= Cardinality(places)
  BY <1>1, <1>3, FS_Subset
<1>5. Cardinality(upto) # 0
  BY <1>3, <1>4, FS_EmptySet
<1>6. Cardinality(upto) \in Nat /\ Cardinality(places) \in Nat
  BY <1>1, <1>4, FS_CardinalityType
<1>7. Cardinality(upto) \in 1..Cardinality(places)
  BY <1>4, <1>5, <1>6
<1>8. QED
  BY <1>7 DEF Rank, upto

LEMMA RankGrows ==
  ASSUME NEW places, places \subseteq Nat, IsFiniteSet(places), NEW k \in places, NEW l \in places, k < l
  PROVE  Rank(places, k) < Rank(places, l)
<1> DEFINE A == {j \in places : j <= k}
           B == {j \in places : j <= l}
<1>1. A \subseteq B /\ l \in B /\ l \notin A
  <2>1. k \in Int /\ l \in Int /\ \A j \in places : j \in Int
    OBVIOUS
  <2>2. l \in B /\ l \notin A
    BY <2>1
  <2>3. \A j \in places : j <= k => j <= l
    BY <2>1
  <2>4. QED
    BY <2>2, <2>3
<1>2. B \subseteq places
  OBVIOUS
<1> HIDE DEF A, B
<1>3. IsFiniteSet(B)
  BY <1>2, FS_Subset
<1>4. IsFiniteSet(A) /\ Cardinality(A) <= Cardinality(B) /\ (Cardinality(B) = Cardinality(A) => B = A)
  BY <1>1, <1>3, FS_Subset
<1>5. Cardinality(A) \in Nat /\ Cardinality(B) \in Nat
  BY <1>3, <1>4, FS_CardinalityType
<1>6. Cardinality(A) < Cardinality(B)
  BY <1>1, <1>4, <1>5
<1>7. QED
  BY <1>6 DEF Rank, A, B

LEMMA RankUnique ==
  ASSUME NEW places, places \subseteq Nat, IsFiniteSet(places), NEW k \in places, NEW l \in places,
         Rank(places, k) = Rank(places, l)
  PROVE  k = l
<1>1. Rank(places, k) \in 1..Cardinality(places)
  BY RankType
<1>2. ASSUME k < l
      PROVE  FALSE
  <2>1. Rank(places, k) < Rank(places, l)
    BY <1>2, RankGrows
  <2>2. QED
    BY <1>1, <2>1
<1>3. ASSUME l < k
      PROVE  FALSE
  <2>1. Rank(places, l) < Rank(places, k)
    BY <1>3, RankGrows
  <2>2. QED
    BY <1>1, <2>1
<1>4. QED
  BY <1>2, <1>3

\* Every place up to the number of them is the rank of one.
LEMMA RankTaken ==
  ASSUME NEW places, places \subseteq Nat, IsFiniteSet(places), NEW r \in 1..Cardinality(places)
  PROVE  \E k \in places : Rank(places, k) = r
<1> DEFINE c == Cardinality(places)
           f == [k \in places |-> Rank(places, k)]
<1>2. c \in Nat
  BY FS_CardinalityType
<1> HIDE DEF c
<1>3. f \in [places -> 1..c]
  BY RankType DEF c
<1>4. \A k, l \in places : f[k] = f[l] => k = l
  BY RankUnique
<1>5. f \in Injection(places, 1..c)
  BY <1>3, <1>4 DEF Injection, IsInjective
<1>6. IsFiniteSet(1..c) /\ Cardinality(1..c) = c
  BY <1>2, FS_Interval
<1>7. f \in Surjection(places, 1..c)
  <2> HIDE DEF f
  <2>1. Cardinality(places) = Cardinality(1..c)
    BY <1>6 DEF c
  <2>2. QED
    BY <1>5, <1>6, <2>1, FS_Injection
<1>8. r \in 1..c
  BY DEF c
<1>9. \E k \in places : f[k] = r
  BY <1>7, <1>8 DEF Surjection
<1>10. QED
  BY <1>9

\* The first place is the first.
LEMMA RankFirst ==
  ASSUME NEW places, places \subseteq Nat \ {0}, 1 \in places
  PROVE  Rank(places, 1) = 1
<1>1. \A j \in places : j <= 1 <=> j = 1
  OBVIOUS
<1>2. {j \in places : j <= 1} = {1}
  BY <1>1
<1>3. QED
  BY <1>2, FS_Singleton DEF Rank

\* Picked is a sequence of what is at those places, each in the place of its rank.
LEMMA PickedIs ==
  ASSUME NEW S, NEW s \in Seq(S), NEW places, places \subseteq DOMAIN s
  PROVE  /\ Picked(s, places) \in Seq(S) /\ Len(Picked(s, places)) = Cardinality(places)
         /\ \A k \in places : /\ Rank(places, k) \in 1..Cardinality(places)
                               /\ Picked(s, places)[Rank(places, k)] = s[k]
         /\ \A r \in 1..Cardinality(places) : \E k \in places : Picked(s, places)[r] = s[k]
<1> DEFINE n == Len(s)
           c == Cardinality(places)
           nth(r) == CHOOSE k \in places : Rank(places, k) = r
           q == Picked(s, places)
<1>1. n \in Nat /\ DOMAIN s = 1..n /\ places \subseteq 1..n
  OBVIOUS
<1>2. IsFiniteSet(1..n)
  BY <1>1, FS_Interval
<1>3. c \in Nat /\ IsFiniteSet(places) /\ places \subseteq Nat
  BY <1>1, <1>2, FS_Subset, FS_CardinalityType
<1>4. q = [r \in 1..c |-> s[nth(r)]]
  BY DEF Picked, Rank
<1>5. \A r \in 1..c : nth(r) \in places
  BY <1>3, RankTaken
<1>6. \A k \in places : Rank(places, k) \in 1..c
  BY <1>3, RankType
<1>7. \A k \in places : nth(Rank(places, k)) = k
  BY <1>3, RankUnique
<1> HIDE DEF nth, q, c
<1>8. q \in Seq(S) /\ Len(q) = c
  BY <1>1, <1>3, <1>4, <1>5
<1>9. \A k \in places : q[Rank(places, k)] = s[k]
  BY <1>4, <1>6, <1>7
<1>10. \A r \in 1..c : \E k \in places : q[r] = s[k]
  BY <1>4, <1>5
<1>11. QED
  BY <1>6, <1>8, <1>9, <1>10 DEF q, c

LEMMA PickedAll ==
  ASSUME NEW S, NEW s \in Seq(S)
  PROVE  Picked(s, DOMAIN s) = s
<1> DEFINE n == Len(s)
           q == Picked(s, DOMAIN s)
<1>1. n \in Nat /\ DOMAIN s = 1..n /\ s = [k \in 1..n |-> s[k]]
  OBVIOUS
<1>2. Cardinality(1..n) = n
  BY <1>1, FS_Interval
<1>3. q \in Seq(S) /\ Len(q) = n /\ \A k \in 1..n : q[Rank(1..n, k)] = s[k]
  BY <1>1, <1>2, PickedIs
<1>4. ASSUME NEW k \in 1..n
      PROVE  Rank(1..n, k) = k
  <2>1. {j \in 1..n : j <= k} = 1..k
    BY <1>1
  <2>2. Cardinality(1..k) = k
    BY FS_Interval
  <2>3. QED
    BY <2>1, <2>2 DEF Rank
<1>5. \A k \in 1..n : q[k] = s[k]
  BY <1>3, <1>4
<1> HIDE DEF q
<1>6. q = [k \in 1..n |-> q[k]]
  BY <1>3
<1>7. q = s
  BY <1>1, <1>5, <1>6
<1>8. QED
  BY <1>7 DEF q

\* What is left of a segment.
Left(c, k, places) == Picked(c[k], {l \in DOMAIN c[k] : <<k, l>> \notin places})

\* A comment stays a comment, and keeps what is left of each segment that still says something.
LEMMA ClearedIs ==
  ASSUME NEW c \in Seq(Seq(STRING)), NEW places
  PROVE  /\ Cleared(c, places) \in Seq(Seq(STRING))
         /\ \A k \in DOMAIN c : Left(c, k, places) # <<"pytriage">> =>
              \E r \in DOMAIN Cleared(c, places) : Cleared(c, places)[r] = Left(c, k, places)
         /\ 1 \in DOMAIN c /\ Left(c, 1, places) # <<"pytriage">> => Cleared(c, places)[1] = Left(c, 1, places)
<1> DEFINE segments == [k \in DOMAIN c |-> Left(c, k, places)]
           kept == {k \in DOMAIN c : segments[k] # <<"pytriage">>}
           d == Cleared(c, places)
<1>1. d = Picked(segments, kept)
  BY DEF Cleared, Left
<1>2. Len(c) \in Nat /\ DOMAIN c = 1..Len(c)
  OBVIOUS
<1>3. ASSUME NEW k \in DOMAIN c
      PROVE  segments[k] \in Seq(STRING)
  <2> DEFINE left == {l \in DOMAIN c[k] : <<k, l>> \notin places}
  <2>1. c[k] \in Seq(STRING) /\ left \subseteq DOMAIN c[k]
    BY <1>2
  <2> HIDE DEF left
  <2>2. Picked(c[k], left) \in Seq(STRING)
    BY <2>1, PickedIs
  <2>3. QED
    BY <2>2 DEF Left, left
<1>4. segments \in Seq(Seq(STRING)) /\ DOMAIN segments = DOMAIN c /\ kept \subseteq DOMAIN segments
  BY <1>2, <1>3
<1> HIDE DEF d, kept, segments
<1>5. /\ d \in Seq(Seq(STRING)) /\ Len(d) = Cardinality(kept)
      /\ \A k \in kept : Rank(kept, k) \in 1..Cardinality(kept) /\ d[Rank(kept, k)] = segments[k]
  <2> DEFINE T == Seq(STRING)
  <2>1. segments \in Seq(T) /\ kept \subseteq DOMAIN segments
    BY <1>4
  <2> HIDE DEF T
  <2>2. d \in Seq(T) /\ Len(d) = Cardinality(kept)
    BY ONLY <1>1, <2>1, PickedIs
  <2>3. \A k \in kept : Rank(kept, k) \in 1..Cardinality(kept) /\ d[Rank(kept, k)] = segments[k]
    BY ONLY <1>1, <2>1, PickedIs
  <2>4. QED
    BY <2>2, <2>3 DEF T
<1>6. DOMAIN d = 1..Cardinality(kept)
  BY <1>5
<1>7. ASSUME NEW k \in DOMAIN c, Left(c, k, places) # <<"pytriage">>
      PROVE  \E r \in DOMAIN d : d[r] = Left(c, k, places)
  <2>1. k \in kept /\ segments[k] = Left(c, k, places)
    BY <1>7 DEF kept, segments
  <2>2. QED
    BY <1>5, <1>6, <2>1
<1>8. ASSUME 1 \in DOMAIN c, Left(c, 1, places) # <<"pytriage">>
      PROVE  d[1] = Left(c, 1, places)
  <2>1. 1 \in kept /\ segments[1] = Left(c, 1, places)
    BY <1>8 DEF kept, segments
  <2>2. kept \subseteq Nat \ {0}
    BY <1>2, <1>4
  <2>3. QED
    BY <1>5, <2>1, <2>2, RankFirst
<1>9. QED
  BY <1>5, <1>7, <1>8 DEF d

\* A segment that loses nothing is kept.
LEMMA ClearedKeepsSegment ==
  ASSUME NEW c \in Seq(Seq(STRING)), NEW places, NEW k \in DOMAIN c, c[k] # <<"pytriage">>,
         \A l \in DOMAIN c[k] : <<k, l>> \notin places
  PROVE  /\ \E r \in DOMAIN Cleared(c, places) : Cleared(c, places)[r] = c[k]
         /\ k = 1 => Cleared(c, places)[1] = c[1]
<1>1. c[k] \in Seq(STRING)
  OBVIOUS
<1>2. {l \in DOMAIN c[k] : <<k, l>> \notin places} = DOMAIN c[k]
  OBVIOUS
<1>3. Left(c, k, places) = c[k]
  BY <1>1, <1>2, PickedAll DEF Left
<1>4. QED
  BY <1>3, ClearedIs

\* A code that is kept still keeps its rule quiet.
LEMMA ClearedIgnores ==
  ASSUME NEW c \in Seq(Seq(STRING)), NEW places, NEW k \in Directives(c), NEW l \in 2..Len(c[k]),
         <<k, 1>> \notin places, <<k, l>> \notin places
  PROVE  Ignores(Cleared(c, places), c[k][l])
<1> DEFINE d == Cleared(c, places)
           s == c[k]
           left == {j \in DOMAIN s : <<k, j>> \notin places}
           q == Picked(s, left)
<1>1. k \in DOMAIN c /\ s \in Seq(STRING) /\ s[1] = "pytriage" /\ DOMAIN s = 1..Len(s) /\ Len(s) \in Nat
  BY DEF Directives
<1>2. 1 \in left /\ l \in left /\ left \subseteq DOMAIN s /\ 1 < l /\ left \subseteq Nat
  BY <1>1
<1>3. IsFiniteSet(left)
  <2>1. IsFiniteSet(1..Len(s))
    BY <1>1, FS_Interval
  <2> HIDE DEF left
  <2>2. QED
    BY <1>1, <1>2, <2>1, FS_Subset
<1>4. Rank(left, 1) = 1
  <2>1. \A j \in left : j \in Nat /\ j >= 1
    BY <1>1
  <2> HIDE DEF left
  <2>2. \A j \in left : j <= 1 <=> j = 1
    BY <2>1
  <2>3. {j \in left : j <= 1} = {1}
    BY <1>2, <2>2
  <2>4. QED
    BY <2>3, FS_Singleton DEF Rank
<1> HIDE DEF left, q, s
<1>5. Rank(left, l) > 1
  BY <1>2, <1>3, <1>4, RankGrows
<1>6. /\ q \in Seq(STRING) /\ Len(q) = Cardinality(left)
      /\ Rank(left, 1) \in 1..Cardinality(left) /\ q[Rank(left, 1)] = s[1]
      /\ Rank(left, l) \in 1..Cardinality(left) /\ q[Rank(left, l)] = s[l]
  <2>1. \A j \in left : /\ Rank(left, j) \in 1..Cardinality(left)
                         /\ Picked(s, left)[Rank(left, j)] = s[j]
    <3> HIDE DEF d
    <3>1. s \in Seq(STRING) /\ left \subseteq DOMAIN s
      BY <1>1, <1>2
    <3>2. QED
      BY ONLY <3>1, PickedIs
  <2>2. q \in Seq(STRING) /\ Len(q) = Cardinality(left)
    BY <1>1, <1>2, PickedIs DEF q
  <2>3. QED
    BY <1>2, <2>1, <2>2 DEF q
<1>7. PICK r \in Nat : Rank(left, l) = r + 1 /\ r \in 1..(Len(q) - 1)
  <2>1. Rank(left, l) - 1 \in Nat /\ Rank(left, l) = (Rank(left, l) - 1) + 1
        /\ Rank(left, l) - 1 \in 1..(Len(q) - 1)
    BY <1>5, <1>6
  <2>2. QED
    BY <2>1
<1>8. q[1] = "pytriage" /\ Len(q) >= 2 /\ q[r + 1] = s[l] /\ Len(q) \in Nat
  BY <1>1, <1>4, <1>6, <1>7
<1>9. Left(c, k, places) = q
  BY DEF Left, q, left, s
<1>10. q # <<"pytriage">>
  <2>1. Len(<<"pytriage">>) = 1
    OBVIOUS
  <2> DEFINE len == Len(q)
  <2>2. len \in Nat /\ len >= 2
    BY <1>8
  <2> HIDE DEF len
  <2>3. len # 1
    BY ONLY <2>2
  <2>4. QED
    BY ONLY <2>1, <2>3 DEF len
<1>11. PICK n \in DOMAIN d : d[n] = q
  BY <1>1, <1>9, <1>10, ClearedIs
<1> HIDE DEF d
<1>12. n \in Directives(d)
  BY <1>8, <1>11 DEF Directives
<1>13. s[l] \in Range(Tail(q))
  <2>1. /\ Tail(q) \in Seq(STRING) /\ Len(Tail(q)) = Len(q) - 1
        /\ \A j \in 1..Len(Tail(q)) : Tail(q)[j] = q[j + 1]
    BY <1>6, <1>8, HeadTailProperties
  <2>2. r \in DOMAIN Tail(q) /\ Tail(q)[r] = s[l]
    BY <1>7, <1>8, <2>1
  <2>3. QED
    BY <2>2 DEF Range
<1>14. QED
  BY <1>11, <1>12, <1>13 DEF Ignores, d, s

-----------------------------------------------------------------------------
(* The file, written, fixed and audited *)

FileInv ==
  /\ grammar \in DOMAIN Grammars /\ prog \in Seq(Line) /\ WellFormed(prog)
  /\ phase \in {"write", "saved", "scanned", "checked"} /\ last \in {"writer", "fix", "reader"}
  /\ phase = "write" => Len(prog) <= MaxLines /\ last = "writer"
  /\ phase # "write" => Before(Len(prog) + 1) = "statement"
  /\ Len(prog) + Cardinality(Crowded(prog)) <= 2 * MaxLines

\* The scanner has seen the lines up to one of them, and is at rest but in a scan.
ScanInv ==
  /\ seen \in 0..Len(prog) /\ Scanned(scan, seen)
  /\ phase # "saved" => seen = 0 /\ scan = Nothing

\* What is known of the comments is what is documented.
KnownInv == phase \in {"scanned", "checked"} => suppressed = Documented

\* What a check of the file, as it is, is to report.
Shown == {Ids(f) : f \in {g \in Findings : g.lines \cap (Documented \cup IgnoredByComment(g.code)) = {}}}

\* A report is of the file as it is and, after the reader has removed comments, had all there is to report.
ReportInv ==
  /\ phase = "checked" => reported = Shown
  /\ last = "reader" /\ phase \in {"saved", "scanned"} => Shown \subseteq reported

IInv == FileInv /\ ScanInv /\ KnownInv /\ ReportInv

\* Where a line begins goes by the codes of the lines before it.
LEMMA SameBefore ==
  ASSUME NEW f, NEW g, NEW i \in Int, \A j \in 1..(i - 1) : f[j].code = g[j].code
  PROVE  BeforeIn(f, i) = BeforeIn(g, i)
<1> DEFINE F == {j \in 1..(i - 1) : f[j].code # "none" /\ \A k \in (j + 1)..(i - 1) : f[k].code = "none"}
           G == {j \in 1..(i - 1) : g[j].code # "none" /\ \A k \in (j + 1)..(i - 1) : g[k].code = "none"}
<1>1. \A j \in 1..(i - 1) : \A k \in (j + 1)..(i - 1) : f[k].code = g[k].code
  OBVIOUS
<1>2. F = G
  BY <1>1
<1>3. F \subseteq 1..(i - 1)
  OBVIOUS
<1>4. BeforeIn(f, i) = IF F = {} THEN "statement" ELSE After(f[CHOOSE j \in F : TRUE].code)
  BY DEF BeforeIn
<1>5. BeforeIn(g, i) = IF G = {} THEN "statement" ELSE After(g[CHOOSE j \in G : TRUE].code)
  BY DEF BeforeIn
<1> HIDE DEF F, G
<1>6. F # {} => (CHOOSE j \in F : TRUE) \in F
  OBVIOUS
<1>7. F # {} => f[CHOOSE j \in F : TRUE].code = g[CHOOSE j \in F : TRUE].code
  BY <1>3, <1>6
<1>8. QED
  BY <1>2, <1>4, <1>5, <1>7

LEMMA SameGrammar ==
  ASSUME grammar' = grammar
  PROVE  Line' = Line /\ MaxLines' = MaxLines /\ Active' = Active
BY DEF Line, MaxLines, Active

LEMMA LinesAreFew ==
  ASSUME FileInv
  PROVE  MaxLines \in Nat /\ Lines \subseteq [code : Codes, comment : Seq(Seq(STRING)), found : SUBSET STRING]
BY GrammarsWriteFiles DEF FileInv, MaxLines, Lines

LEMMA CrowdedSize ==
  ASSUME NEW S, NEW file \in Seq(S)
  PROVE  /\ IsFiniteSet(Crowded(file)) /\ Cardinality(Crowded(file)) \in Nat
         /\ Cardinality(Crowded(file)) <= Len(file)
<1> DEFINE n == Len(file)
           C == Crowded(file)
<1>1. n \in Nat /\ C \subseteq 1..n
  BY DEF Crowded
<1> HIDE DEF n, C
<1>2. IsFiniteSet(1..n) /\ Cardinality(1..n) = n
  BY <1>1, FS_Interval
<1>3. IsFiniteSet(C) /\ Cardinality(C) <= n
  BY <1>1, <1>2, FS_Subset
<1>4. QED
  BY <1>3, FS_CardinalityType DEF n, C

LEMMA FileInit ==
  ASSUME Init
  PROVE  FileInv
<1>1. prog = <<>> /\ grammar \in DOMAIN Grammars /\ phase = "write" /\ last = "writer"
  BY DEF Init
<1>2. MaxLines \in Nat
  BY <1>1, GrammarsWriteFiles DEF MaxLines
<1>3. prog \in Seq(Line) /\ Len(prog) = 0 /\ DOMAIN prog = {}
  BY <1>1
<1>4. WellFormed(prog) /\ Crowded(prog) = {}
  BY <1>3 DEF WellFormed, Crowded
<1>5. Cardinality(Crowded(prog)) = 0
  BY <1>4, FS_EmptySet
<1>6. QED
  BY <1>1, <1>2, <1>3, <1>4, <1>5 DEF FileInv

\* A line that may follow keeps the file well-formed.
LEMMA FileWrite ==
  ASSUME FileInv, Write
  PROVE  FileInv'
<1> DEFINE n == Len(prog)
<1>1. n \in Nat /\ n < MaxLines /\ MaxLines \in Nat /\ prog \in Seq(Line) /\ phase = "write"
  BY LinesAreFew DEF FileInv, Write
<1>2. grammar' = grammar /\ phase' = phase /\ last' = last
  BY DEF Write
<1>3. PICK line \in Lines :
        /\ Follows(line.code)
        /\ prog' = Append(prog, [code |-> line.code, comment |-> line.comment, found |-> line.found,
                                 id |-> Len(prog) + 1, text |-> <<>>])
  BY DEF Write
<1> DEFINE new == [code |-> line.code, comment |-> line.comment, found |-> line.found, id |-> n + 1, text |-> <<>>]
<1>4. line.code \in Codes /\ line.comment \in Seq(Seq(STRING)) /\ line.found \in SUBSET STRING
  BY LinesAreFew
<1>5. new \in Line
  <2>1. n + 1 \in 0..MaxLines /\ <<>> \in Seq(Seq(STRING))
    BY <1>1
  <2>2. QED
    BY <1>4, <2>1 DEF Line
<1>6. new.code = line.code
  OBVIOUS
<1> HIDE DEF new
<1>7. prog' = Append(prog, new)
  BY <1>3 DEF new
<1>8. /\ prog' \in Seq(Line) /\ Len(prog') = n + 1 /\ DOMAIN prog' = 1..(n + 1)
      /\ prog'[n + 1] = new /\ \A j \in 1..n : prog'[j] = prog[j]
  BY <1>1, <1>5, <1>7
<1>9. \A i \in 1..(n + 1) : BeforeIn(prog', i) = BeforeIn(prog, i)
  <2> TAKE i \in 1..(n + 1)
  <2>1. i \in Int /\ \A j \in 1..(i - 1) : prog'[j].code = prog[j].code
    BY <1>1, <1>8
  <2>2. QED
    BY <2>1, SameBefore
<1>10. WellFormed(prog')
  <2>1. line.code \in Possible(BeforeIn(prog, n + 1))
    BY <1>3 DEF Follows, Possible, Before
  <2>2. \A i \in 1..n : prog[i].code \in Possible(BeforeIn(prog, i))
    BY <1>1 DEF FileInv, WellFormed
  <2>3. \A i \in 1..(n + 1) : i \in 1..n \/ i = n + 1
    BY <1>1
  <2>4. ASSUME NEW i \in DOMAIN prog'
        PROVE  prog'[i].code \in Possible(BeforeIn(prog', i))
    BY <1>6, <1>8, <1>9, <2>1, <2>2, <2>3
  <2>5. QED
    BY <2>4 DEF WellFormed
<1>11. Len(prog') + Cardinality(Crowded(prog')) <= 2 * MaxLines
  <2>1. Cardinality(Crowded(prog')) \in Nat /\ Cardinality(Crowded(prog')) <= Len(prog')
    BY <1>8, CrowdedSize
  <2>2. QED
    BY <1>1, <1>8, <2>1
<1>12. Line' = Line /\ MaxLines' = MaxLines
  BY <1>2, SameGrammar
<1>13. WellFormed(prog)' /\ Crowded(prog)' = Crowded(prog')
  BY <1>10 DEF WellFormed, Crowded
<1>14. QED
  BY <1>1, <1>2, <1>8, <1>11, <1>12, <1>13 DEF FileInv

\* The file is what it was.
LEMMA FileSame ==
  ASSUME FileInv, grammar' = grammar, prog' = prog, last' = last, phase' \in {"saved", "scanned", "checked"},
         Before(Len(prog) + 1) = "statement"
  PROVE  FileInv'
<1>1. Line' = Line /\ MaxLines' = MaxLines
  BY SameGrammar
<1>2. WellFormed(prog)' /\ Crowded(prog)' = Crowded(prog) /\ Before(Len(prog) + 1)' = Before(Len(prog) + 1)
  BY DEF WellFormed, Crowded, Before, FileInv
<1>3. QED
  BY <1>1, <1>2 DEF FileInv

\* What is moved was on a line of brackets alone.
LEMMA MovableCrowded ==
  ASSUME prog \in Seq(Line)
  PROVE  Movable \subseteq Crowded(prog) /\ Crowded(prog) \subseteq DOMAIN prog
BY DEF Movable, Misplaced, BracketOnly, Crowded

LEMMA FileFix ==
  ASSUME FileInv, FixComments
  PROVE  FileInv'
<1>1. MaxLines \in Nat /\ prog \in Seq(Line) /\ WellFormed(prog)
  BY LinesAreFew DEF FileInv
<1>2. grammar' = grammar /\ phase = "checked" /\ phase' = "saved" /\ last' = "fix"
  BY DEF FixComments, Changed
<1>3. PICK fits \in SUBSET Movable : prog' = Flattened(BlocksOf(Movable, fits))
  BY DEF FixComments, BlocksOf
<1> DEFINE file == Flattened(BlocksOf(Movable, fits))
<1>4. Movable \subseteq Crowded(prog) /\ Movable \subseteq DOMAIN prog
  BY <1>1, MovableCrowded
<1>5. file \in Seq(Line)
  BY <1>1, <1>4, FixedType
<1>6. Len(file) = End(BlocksOf(Movable, fits), Len(prog))
  BY <1>1, <1>4, FixedType
<1>7. WellFormed(file)
  BY <1>1, <1>4, FixedWellFormed
<1>8. Len(file) + Cardinality(Crowded(file)) <= Len(prog) + Cardinality(Crowded(prog))
  BY <1>1, <1>4, FixedSize
<1>9. BeforeIn(file, Len(file) + 1) = "statement"
  <2>1. Len(prog) \in 0..Len(prog)
    BY <1>1
  <2>2. BeforeIn(file, End(BlocksOf(Movable, fits), Len(prog)) + 1) = Before(Len(prog) + 1)
    BY <1>1, <1>4, <2>1, FixedBefore
  <2>3. Before(Len(prog) + 1) = "statement"
    BY <1>2 DEF FileInv
  <2>4. QED
    BY <1>6, <2>2, <2>3
<1>10. Len(file) + Cardinality(Crowded(file)) <= 2 * MaxLines
  <2>1. Cardinality(Crowded(file)) \in Nat /\ Cardinality(Crowded(prog)) \in Nat
    BY <1>1, <1>5, CrowdedSize
  <2>2. Len(file) \in Nat /\ Len(prog) \in Nat
    BY <1>1, <1>5
  <2>3. Len(prog) + Cardinality(Crowded(prog)) <= 2 * MaxLines
    BY DEF FileInv
  <2> HIDE DEF file
  <2>4. QED
    BY <1>1, <1>8, <2>1, <2>2, <2>3
<1> HIDE DEF file
<1>11. prog' = file
  BY <1>3 DEF file
<1>12. Line' = Line /\ MaxLines' = MaxLines
  BY <1>2, SameGrammar
<1>13. WellFormed(prog)' /\ Crowded(prog)' = Crowded(file) /\ Before(Len(prog) + 1)' = "statement"
  BY <1>7, <1>9, <1>11 DEF WellFormed, Crowded, Before
<1>14. QED
  BY <1>2, <1>5, <1>10, <1>11, <1>12, <1>13 DEF FileInv

\* Where there is no comment, nothing is unused, and the codes have places behind the first.
LEMMA UnusedIs ==
  ASSUME NEW i
  PROVE  /\ prog[i].comment = <<>> => Unused(i) = {}
         /\ i \in suppressed => Unused(i) = {}
         /\ \A k \in DOMAIN prog[i].comment : <<k, 1>> \notin Unused(i)
         /\ \A k, l : <<k, l>> \in Unused(i) => k \in Directives(prog[i].comment)
<1> DEFINE c == prog[i].comment
<1>1. Unused(i) \subseteq Parsed(c) /\ (i \in suppressed => Unused(i) = {})
  BY DEF Unused
<1>2. c = <<>> => Parsed(c) = {}
  BY DEF Parsed, Directives
<1>3. \A k, l : <<k, l>> \in Parsed(c) => k \in Directives(c) /\ l # 1
  BY DEF Parsed
<1>4. QED
  BY <1>1, <1>2, <1>3

\* The reader takes codes from comments, and changes nothing else.
LEMMA AuditedLine ==
  ASSUME prog \in Seq(Line), FollowAudit
  PROVE  /\ prog' \in Seq(Line) /\ Len(prog') = Len(prog) /\ DOMAIN prog' = DOMAIN prog
         /\ \A i \in DOMAIN prog :
              /\ prog'[i].code = prog[i].code /\ prog'[i].found = prog[i].found /\ prog'[i].id = prog[i].id
              /\ Unused(i) = {} => prog'[i] = prog[i]
              /\ Unused(i) # {} => prog'[i].comment = Cleared(prog[i].comment, Unused(i))
<1> DEFINE n == Len(prog)
           line(i) == IF Unused(i) # {} THEN [prog[i] EXCEPT !.comment = Cleared(@, Unused(i))] ELSE prog[i]
<1>1. n \in Nat /\ DOMAIN prog = 1..n
  OBVIOUS
<1>2. prog' = [i \in 1..n |-> line(i)]
  BY <1>1 DEF FollowAudit
<1>3. ASSUME NEW i \in 1..n
      PROVE  /\ line(i) \in Line
             /\ line(i).code = prog[i].code /\ line(i).found = prog[i].found /\ line(i).id = prog[i].id
             /\ Unused(i) = {} => line(i) = prog[i]
             /\ Unused(i) # {} => line(i).comment = Cleared(prog[i].comment, Unused(i))
  <2>1. prog[i] \in Line
    BY <1>1
  <2>2. CASE Unused(i) = {}
    BY <2>1, <2>2
  <2>3. CASE Unused(i) # {}
    <3> DEFINE c == Cleared(prog[i].comment, Unused(i))
    <3>1. prog[i].comment \in Seq(Seq(STRING))
      BY <2>1 DEF Line
    <3>2. c \in Seq(Seq(STRING))
      BY <3>1, ClearedIs
    <3> HIDE DEF c
    <3>3. line(i) = [prog[i] EXCEPT !.comment = c]
      BY <2>3 DEF c
    <3>4. line(i).comment = c
      BY <2>1, <3>3 DEF Line
    <3>5. line(i).code = prog[i].code /\ line(i).found = prog[i].found /\ line(i).id = prog[i].id
      BY <2>1, <3>3 DEF Line
    <3>6. line(i) \in Line
      BY <2>1, <3>2, <3>3 DEF Line
    <3>7. QED
      BY <2>3, <3>4, <3>5, <3>6 DEF c
  <2>4. QED
    BY <2>2, <2>3
<1> HIDE DEF line
<1>4. prog' \in Seq(Line) /\ Len(prog') = n /\ DOMAIN prog' = 1..n /\ \A i \in 1..n : prog'[i] = line(i)
  BY <1>1, <1>2, <1>3
<1>5. QED
  BY <1>1, <1>3, <1>4

LEMMA AuditedBefore ==
  ASSUME prog \in Seq(Line), FollowAudit, NEW i \in 1..(Len(prog) + 1)
  PROVE  BeforeIn(prog', i) = Before(i)
<1>1. \A j \in 1..(i - 1) : prog'[j].code = prog[j].code
  BY AuditedLine
<1>2. QED
  BY <1>1, SameBefore DEF Before

LEMMA FileAudit ==
  ASSUME FileInv, FollowAudit
  PROVE  FileInv'
<1> DEFINE n == Len(prog)
<1>1. MaxLines \in Nat /\ prog \in Seq(Line) /\ WellFormed(prog) /\ n \in Nat /\ DOMAIN prog = 1..n
  BY LinesAreFew DEF FileInv
<1>2. grammar' = grammar /\ phase = "checked" /\ phase' = "saved" /\ last' = "reader"
  BY DEF FollowAudit, Changed
<1>3. prog' \in Seq(Line) /\ Len(prog') = n /\ DOMAIN prog' = 1..n
  BY <1>1, AuditedLine
<1>4. \A i \in 1..n : prog'[i].code = prog[i].code /\ (prog[i].comment = <<>> => prog'[i].comment = <<>>)
  <2> TAKE i \in 1..n
  <2>1. prog'[i].code = prog[i].code /\ (Unused(i) = {} => prog'[i] = prog[i])
    BY <1>1, AuditedLine
  <2>2. QED
    BY <2>1, UnusedIs
<1>5. Crowded(prog') \subseteq Crowded(prog)
  BY <1>1, <1>3, <1>4 DEF Crowded
<1>6. \A i \in 1..(n + 1) : BeforeIn(prog', i) = BeforeIn(prog, i)
  BY <1>1, AuditedBefore DEF Before
<1>7. WellFormed(prog')
  <2>1. \A i \in 1..n : i \in 1..(n + 1)
    BY <1>1
  <2>2. \A i \in 1..n : prog[i].code \in Possible(BeforeIn(prog, i))
    BY <1>1 DEF WellFormed
  <2>3. QED
    BY <1>3, <1>4, <1>6, <2>1, <2>2 DEF WellFormed
<1>8. Len(prog') + Cardinality(Crowded(prog')) <= 2 * MaxLines
  <2>1. IsFiniteSet(Crowded(prog)) /\ Cardinality(Crowded(prog)) \in Nat
    BY <1>1, CrowdedSize
  <2>2. Cardinality(Crowded(prog')) <= Cardinality(Crowded(prog))
    BY <1>5, <2>1, FS_Subset
  <2>3. Cardinality(Crowded(prog')) \in Nat
    BY <1>3, CrowdedSize
  <2>4. n + Cardinality(Crowded(prog)) <= 2 * MaxLines
    BY DEF FileInv
  <2>5. QED
    BY <1>1, <1>3, <2>1, <2>2, <2>3, <2>4
<1>9. BeforeIn(prog', n + 1) = "statement"
  <2>1. Before(n + 1) = "statement" /\ n + 1 \in 1..(n + 1)
    BY <1>1, <1>2 DEF FileInv
  <2>2. QED
    BY <1>6, <2>1 DEF Before
<1>10. Line' = Line /\ MaxLines' = MaxLines
  BY <1>2, SameGrammar
<1>11. WellFormed(prog)' /\ Crowded(prog)' = Crowded(prog') /\ Before(Len(prog) + 1)' = "statement"
  BY <1>3, <1>7, <1>9 DEF WellFormed, Crowded, Before
<1>12. QED
  BY <1>2, <1>3, <1>8, <1>10, <1>11 DEF FileInv

\* The file stays as it should be.
LEMMA FileNext ==
  ASSUME FileInv, [Next]_vars
  PROVE  FileInv'
<1>1. CASE UNCHANGED vars
  <2>1. grammar' = grammar /\ prog' = prog /\ phase' = phase /\ last' = last
    BY <1>1 DEF vars
  <2>2. Line' = Line /\ MaxLines' = MaxLines
    BY <2>1, SameGrammar
  <2>3. WellFormed(prog)' = WellFormed(prog) /\ Crowded(prog)' = Crowded(prog)
        /\ Before(Len(prog) + 1)' = Before(Len(prog) + 1)
    BY <2>1 DEF WellFormed, Crowded, Before
  <2>4. QED
    BY <2>1, <2>2, <2>3 DEF FileInv
<1>2. CASE Write
  BY <1>2, FileWrite
<1>3. CASE Save \/ Scan \/ Finalize \/ Check
  <2>1. grammar' = grammar /\ prog' = prog /\ last' = last /\ phase' \in {"saved", "scanned", "checked"}
    BY <1>3 DEF Save, Scan, Finalize, Check
  <2>2. Before(Len(prog) + 1) = "statement"
    BY <1>3 DEF Save, Scan, Finalize, Check, FileInv
  <2>3. QED
    BY <2>1, <2>2, FileSame
<1>4. CASE FixComments
  BY <1>4, FileFix
<1>5. CASE FollowAudit
  BY <1>5, FileAudit
<1>6. QED
  BY <1>1, <1>2, <1>3, <1>4, <1>5 DEF Next

-----------------------------------------------------------------------------
(* What the scanner finds is what is documented *)

\* The scanner at rest has seen nothing.
LEMMA NothingScanned ==
  ASSUME seen = 0, scan = Nothing
  PROVE  Scanned(scan, seen)
<1>1. /\ scan.from = 0 /\ scan.start = 0 /\ scan.skip = FALSE /\ scan.out = {}
      /\ scan \in [from : 0..0, start : 0..0, skip : BOOLEAN, out : SUBSET (1..0)]
  BY DEF Nothing
<1>2. InStatement(scan, seen)
  BY <1>1, BeforeFirst DEF InStatement, Before
<1>3. InRegion(scan, seen) /\ HasSkip(scan, seen) /\ HasLeft(scan, seen)
  BY <1>1 DEF InRegion, HasSkip, HasLeft
<1>4. QED
  BY <1>1, <1>2, <1>3 DEF Scanned

LEMMA NothingScannedNext ==
  ASSUME seen' = 0, scan' = Nothing
  PROVE  Scanned(scan, seen)'
<1>1. /\ scan'.from = 0 /\ scan'.start = 0 /\ scan'.skip = FALSE /\ scan'.out = {}
      /\ scan' \in [from : 0..0, start : 0..0, skip : BOOLEAN, out : SUBSET (1..0)]
  BY DEF Nothing
<1>2. InStatement(scan, seen)'
  BY <1>1, BeforeFirst DEF InStatement, Before
<1>3. InRegion(scan, seen)' /\ HasSkip(scan, seen)' /\ HasLeft(scan, seen)'
  BY <1>1 DEF InRegion, HasSkip, HasLeft
<1>4. QED
  BY <1>1, <1>2, <1>3 DEF Scanned

\* What is so of the scanner is so as long as the file is.
LEMMA SameScanned ==
  ASSUME prog' = prog, NEW s, NEW n, scan' = s, seen' = n, Scanned(s, n)
  PROVE  Scanned(scan, seen)'
<1>1. InStatement(s, n)' /\ InRegion(s, n)' /\ HasSkip(s, n)'
  BY DEF Scanned, InStatement, InRegion, HasSkip, Toggle, Between, Skips, Before
<1>2. HasLeft(s, n)'
  BY DEF Scanned, HasLeft, OffAt, SkipAt, Toggle, Between, OneStatement, Skips, Before
<1>3. InStatement(scan, seen)' /\ InRegion(scan, seen)' /\ HasSkip(scan, seen)'
  BY <1>1 DEF InStatement, InRegion, HasSkip, Toggle, Between, Skips, Before
<1>4. HasLeft(scan, seen)'
  BY <1>2 DEF HasLeft, OffAt, SkipAt, Toggle, Between, OneStatement, Skips, Before
<1>5. scan' \in [from : 0..seen', start : 0..seen', skip : BOOLEAN, out : SUBSET (1..seen')]
  BY DEF Scanned
<1>6. QED
  BY <1>3, <1>4, <1>5 DEF Scanned

LEMMA SameDocumented ==
  ASSUME prog' = prog
  PROVE  Documented' = Documented
BY DEF Documented, Toggle, Between, OneStatement, Before

LEMMA ScanInit ==
  ASSUME Init
  PROVE  ScanInv
<1>1. seen = 0 /\ scan = Nothing /\ phase = "write" /\ prog = <<>>
  BY DEF Init
<1>2. Len(prog) = 0
  BY <1>1
<1>3. Scanned(scan, seen)
  BY <1>1, NothingScanned
<1>4. QED
  BY <1>1, <1>2, <1>3 DEF ScanInv

\* Observe by observe the scanner stays right; whatever changes the file finds it at rest.
LEMMA ScanNext ==
  ASSUME FileInv, FileInv', ScanInv, [Next]_vars
  PROVE  ScanInv'
<1> DEFINE n == Len(prog)
<1>1. prog \in Seq(Line) /\ n \in Nat /\ seen \in 0..n /\ Scanned(scan, seen)
  BY DEF FileInv, ScanInv
<1>2. Len(prog') \in Nat
  <2>1. prog' \in Seq(Line')
    BY DEF FileInv
  <2>2. QED
    BY <2>1
<1>3. ASSUME seen' = 0, scan' = Nothing
      PROVE  ScanInv'
  <2>1. Scanned(scan, seen)'
    BY <1>3, NothingScannedNext
  <2>2. QED
    BY <1>2, <1>3, <2>1 DEF ScanInv
<1>4. ASSUME Write \/ FixComments \/ FollowAudit
      PROVE  seen' = 0 /\ scan' = Nothing
  BY <1>4 DEF Write, FixComments, FollowAudit, Changed, ScanInv
<1>5. ASSUME prog' = prog, seen' = seen, scan' = scan, phase' # "saved" => seen = 0 /\ scan = Nothing
      PROVE  ScanInv'
  <2>1. Scanned(scan, seen)'
    BY <1>1, <1>5, SameScanned
  <2>2. QED
    BY <1>1, <1>5, <2>1 DEF ScanInv
<1>6. CASE UNCHANGED vars
  BY <1>5, <1>6 DEF vars, ScanInv
<1>7. CASE Save
  BY <1>5, <1>7 DEF Save
<1>8. CASE Check
  BY <1>5, <1>8 DEF Check, ScanInv
<1>9. CASE Finalize
  BY <1>3, <1>9 DEF Finalize
<1>10. CASE Scan
  <2>1. seen < n /\ seen' = seen + 1 /\ scan' = Observe(scan, seen + 1) /\ prog' = prog /\ phase' = "saved"
    BY <1>10 DEF Scan
  <2>2. Scanned(Observe(scan, seen + 1), seen + 1)
    BY <1>1, <2>1, ObserveScanned
  <2>3. Scanned(scan, seen)'
    BY <2>1, <2>2, SameScanned
  <2>4. seen' \in 0..Len(prog')
    BY <1>1, <2>1
  <2>5. QED
    BY <2>1, <2>3, <2>4 DEF ScanInv
<1>11. QED
  BY <1>3, <1>4, <1>6, <1>7, <1>8, <1>9, <1>10 DEF Next

\* When the scanner is done it has what is documented, and that is so as long as the file is.
LEMMA KnownNext ==
  ASSUME FileInv, ScanInv, KnownInv, [Next]_vars
  PROVE  KnownInv'
<1>1. CASE Write \/ Save \/ Scan \/ FixComments \/ FollowAudit
  <2>1. phase' \in {"write", "saved"}
    BY <1>1 DEF Write, Save, Scan, FixComments, FollowAudit, Changed
  <2>2. QED
    BY <2>1 DEF KnownInv
<1>2. CASE UNCHANGED vars
  <2>1. phase' = phase /\ suppressed' = suppressed /\ prog' = prog
    BY <1>2 DEF vars
  <2>2. Documented' = Documented
    BY <2>1, SameDocumented
  <2>3. QED
    BY <2>1, <2>2 DEF KnownInv
<1>3. CASE Check
  <2>1. phase = "scanned" /\ suppressed' = suppressed /\ prog' = prog
    BY <1>3 DEF Check
  <2>2. Documented' = Documented
    BY <2>1, SameDocumented
  <2>3. QED
    BY <2>1, <2>2 DEF KnownInv
<1>4. CASE Finalize
  <2>1. phase = "saved" /\ seen = Len(prog) /\ prog' = prog
        /\ suppressed' = scan.out \cup (IF scan.from # 0 THEN scan.from..Len(prog) ELSE {})
    BY <1>4 DEF Finalize
  <2>2. prog \in Seq(Line) /\ Before(Len(prog) + 1) = "statement" /\ Scanned(scan, Len(prog))
    BY <2>1 DEF FileInv, ScanInv
  <2>3. suppressed' = Documented
    BY <2>1, <2>2, FinalizeDocumented
  <2>4. Documented' = Documented
    BY <2>1, SameDocumented
  <2>5. QED
    BY <2>3, <2>4 DEF KnownInv
<1>5. QED
  BY <1>1, <1>2, <1>3, <1>4 DEF Next

\* The scan is right: in the end a formatter leaves alone exactly the lines that ADR
\* 0050 documents, for every file of every grammar, also after fixes and audits.
THEOREM FormatAsDocumentedHolds ==
  Spec => []FormatAsDocumented
<1> DEFINE I == FileInv /\ ScanInv /\ KnownInv
<1>1. Init => I
  BY FileInit, ScanInit DEF Init, KnownInv
<1>2. I /\ [Next]_vars => I'
  <2> SUFFICES ASSUME I, [Next]_vars
               PROVE  I'
    OBVIOUS
  <2>1. FileInv'
    BY FileNext
  <2>2. ScanInv'
    BY <2>1, ScanNext
  <2>3. KnownInv'
    BY KnownNext
  <2>4. QED
    BY <2>1, <2>2, <2>3
<1>3. I => FormatAsDocumented
  <2> SUFFICES ASSUME I
               PROVE  FormatAsDocumented
    OBVIOUS
  <2>1. prog \in Seq(Line) /\ MaxLines \in Nat /\ Len(prog) \in Nat
    BY LinesAreFew DEF FileInv
  <2>2. Len(prog) <= 2 * MaxLines
    <3>1. Cardinality(Crowded(prog)) \in Nat
      BY <2>1, CrowdedSize
    <3>2. QED
      BY <2>1, <3>1 DEF FileInv
  <2>3. \A i \in DOMAIN prog : prog[i].code \in Codes /\ prog[i].id \in 0..MaxLines
    <3>1. \A i \in DOMAIN prog : prog[i] \in Line
      BY <2>1
    <3>2. QED
      BY <3>1 DEF Line
  <2>4. seen <= Len(prog) /\ scan.start <= seen /\ scan.from <= seen
    BY <2>1 DEF ScanInv, Scanned
  <2>5. phase \in {"scanned", "checked"} => suppressed = Documented /\ suppressed \subseteq DOMAIN prog
    BY DEF KnownInv, Documented
  <2>6. phase \in {"write", "saved", "scanned", "checked"} /\ last \in {"writer", "fix", "reader"}
    BY DEF FileInv
  <2>7. QED
    BY <2>2, <2>3, <2>4, <2>5, <2>6 DEF FormatAsDocumented, TypeOK
<1>4. QED
  BY <1>1, <1>2, <1>3, PTL DEF Spec

-----------------------------------------------------------------------------
(* The fix leaves the suppressed lines alone *)

\* The line after a documented one that begins within a statement is documented, too.
LEMMA DocumentedNext ==
  ASSUME prog \in Seq(Line), NEW i \in Documented, i + 1 \in DOMAIN prog, Before(i + 1) # "statement"
  PROVE  i + 1 \in Documented
<1>1. i \in Nat \ {0} /\ i \in DOMAIN prog /\ (OffAt(i) \/ SkipAt(i))
  BY DocumentedIs
<1>2. ~Between(i) /\ ~Between(i + 1)
  BY <1>1, BeforeTheNext DEF Between
<1>3. CASE OffAt(i)
  <2>1. PICK k \in 1..i : Toggle(k, "off") /\ ~\E l \in (k + 1)..(i - 1) : Toggle(l, "on")
    BY <1>3 DEF OffAt
  <2>2. ~Toggle(i, "on")
    BY <1>2 DEF Toggle
  <2>3. \A l \in (k + 1)..((i + 1) - 1) : l \in (k + 1)..(i - 1) \/ l = i
    BY <1>1
  <2>4. k \in 1..(i + 1)
    BY <1>1
  <2>5. OffAt(i + 1)
    BY <2>1, <2>2, <2>3, <2>4 DEF OffAt
  <2>6. QED
    BY <2>5, DocumentedIs
<1>4. CASE SkipAt(i)
  <2>1. PICK j \in DOMAIN prog : Skips(j) /\ ~Between(j) /\ ~Between(i)
                                 /\ ((OneStatement(i, j) /\ i <= j) \/ (OneStatement(j, i) /\ j <= i))
    BY <1>4 DEF SkipAt
  <2>2. j \in Nat
    BY <2>1
  <2>3. CASE i + 1 <= j
    <3>1. OneStatement(i, j)
      BY <1>1, <2>1, <2>2, <2>3
    <3>2. OneStatement(i + 1, j)
      BY <1>1, <2>2, <3>1 DEF OneStatement
    <3>3. SkipAt(i + 1)
      BY <1>2, <2>1, <2>3, <3>2 DEF SkipAt
    <3>4. QED
      BY <3>3, DocumentedIs
  <2>4. CASE j <= i
    <3>1. OneStatement(j, i)
      BY <1>1, <2>1, <2>2, <2>4 DEF OneStatement
    <3>2. \A k \in (j + 1)..(i + 1) : k \in (j + 1)..i \/ k = i + 1
      BY <1>1, <2>2
    <3>3. OneStatement(j, i + 1)
      BY <3>1, <3>2 DEF OneStatement
    <3>4. j <= i + 1
      BY <1>1, <2>2, <2>4
    <3>5. SkipAt(i + 1)
      BY <1>2, <2>1, <3>3, <3>4 DEF SkipAt
    <3>6. QED
      BY <3>5, DocumentedIs
  <2>5. QED
    BY <1>1, <2>2, <2>3, <2>4
<1>5. QED
  BY <1>1, <1>3, <1>4

\* No comment comes to a suppressed line or goes from it: a line of brackets after
\* it, from which one would come, is suppressed as well.
LEMMA FixLeaves ==
  ASSUME FileInv, KnownInv, FixComments, NEW i \in suppressed
  PROVE  prog[i] \in Range(prog')
<1> DEFINE m == Len(prog)
<1>1. prog \in Seq(Line) /\ WellFormed(prog) /\ MaxLines \in Nat /\ m \in Nat /\ DOMAIN prog = 1..m
  BY LinesAreFew DEF FileInv
<1>2. suppressed = Documented
  BY DEF KnownInv, FixComments, Changed
<1>3. i \in 1..m
  BY <1>1, <1>2 DEF Documented
<1>4. Movable \subseteq Crowded(prog) /\ Movable \subseteq DOMAIN prog
  BY <1>1, MovableCrowded
<1>5. Movable \cap suppressed = {}
  BY DEF Movable, Ignored
<1>6. i + 1 \notin Movable
  <2> SUFFICES ASSUME i + 1 \in Movable
               PROVE  FALSE
    OBVIOUS
  <2>1. i + 1 \in DOMAIN prog /\ prog[i + 1].code \in {"inner", "close", "closetext"}
    BY <1>4 DEF Crowded
  <2>2. prog[i + 1].code \in Possible(Before(i + 1))
    BY <1>1, <2>1 DEF WellFormed, Before
  <2>3. Before(i + 1) # "statement"
    BY <2>1, <2>2 DEF Possible
  <2>4. i + 1 \in Documented
    BY <1>1, <1>2, <2>1, <2>3, DocumentedNext
  <2>5. QED
    BY <1>2, <1>5, <2>4
<1>7. PICK fits \in SUBSET Movable : prog' = Flattened(BlocksOf(Movable, fits))
  BY DEF FixComments, BlocksOf
<1> DEFINE blocks == BlocksOf(Movable, fits)
           r == Rewritten(i, Movable, fits)
<1>8. Len(r) = 1
  <2>1. i \in DOMAIN prog /\ i + 1 \notin Movable \ fits /\ r = Rewritten(i, Movable, fits)
    BY <1>1, <1>3, <1>6
  <2> HIDE DEF r, blocks, m
  <2>2. QED
    BY ONLY <1>1, <1>4, <2>1, RewrittenLines
<1>9. r[1] = prog[i]
  BY <1>1, <1>2, <1>3, <1>4, <1>5, <1>6, RewrittenLines
<1>10. blocks[i] = r
  BY <1>3, <1>1 DEF BlocksOf
<1>11. Blocks(blocks, m)
  BY <1>1, <1>4, BlocksAre
<1>12. Flattened(blocks) = [n \in 1..End(blocks, m) |-> Flattened(blocks)[n]]
  BY <1>1, <1>11, FlattenedIs
<1> HIDE DEF blocks, r, m
<1>13. PICK k \in Nat : i = k + 1 /\ k < m
  BY <1>1, <1>3
<1>14. 1 \in 1..Len(blocks[k + 1])
  <2>1. Len(blocks[k + 1]) = 1
    BY <1>8, <1>10, <1>13
  <2>2. QED
    BY ONLY <2>1
<1>15. End(blocks, k) + 1 \in 1..End(blocks, m)
  BY <1>1, <1>11, <1>13, <1>14, FlattenedLine
<1>16. Flattened(blocks)[End(blocks, k) + 1] = prog[i]
  BY <1>1, <1>9, <1>10, <1>11, <1>13, <1>14, FlattenedLine
<1>17. End(blocks, k) + 1 \in DOMAIN Flattened(blocks)
  BY <1>12, <1>15
<1>18. prog' = Flattened(blocks)
  BY <1>7 DEF blocks
<1>19. QED
  BY <1>16, <1>17, <1>18 DEF Range

-----------------------------------------------------------------------------
(* The audit hides nothing *)

\* What is documented stays so: the reader changes no line that is.
LEMMA AuditedDocumented ==
  ASSUME FileInv, KnownInv, FollowAudit
  PROVE  Documented \subseteq Documented'
<1> DEFINE n == Len(prog)
<1>1. prog \in Seq(Line) /\ n \in Nat /\ DOMAIN prog = 1..n
  BY DEF FileInv
<1>2. suppressed = Documented
  BY DEF KnownInv, FollowAudit, Changed
<1>3. DOMAIN prog' = 1..n /\ \A i \in 1..n : prog'[i].code = prog[i].code
  BY <1>1, AuditedLine
<1>4. \A i \in Documented : i \in 1..n /\ prog'[i] = prog[i]
  <2> TAKE i \in Documented
  <2>1. i \in 1..n /\ Unused(i) = {}
    BY <1>1, <1>2, UnusedIs DEF Documented
  <2>2. QED
    BY <1>1, <2>1, AuditedLine
<1>5. \A i \in 1..n : Before(i)' = Before(i)
  <2> TAKE i \in 1..n
  <2>1. i \in 1..(n + 1)
    BY <1>1
  <2>2. BeforeIn(prog', i) = Before(i)
    BY <1>1, <2>1, AuditedBefore
  <2>3. QED
    BY <2>2 DEF Before
<1>6. \A i \in 1..n : Between(i)' <=> Between(i)
  BY <1>3, <1>5 DEF Between
<1> HIDE DEF n
<1>7. ASSUME NEW i \in 1..n, OffAt(i)
      PROVE  i \in Documented'
  <2>1. PICK k \in 1..i : Toggle(k, "off") /\ ~\E l \in (k + 1)..(i - 1) : Toggle(l, "on")
    BY <1>7 DEF OffAt
  <2>2. \A l \in k..i : l \in Documented
    <3> TAKE l \in k..i
    <3>1. l \in 1..n /\ k \in 1..l /\ \A h \in (k + 1)..(l - 1) : h \in (k + 1)..(i - 1)
      BY <1>1, <2>1
    <3>2. OffAt(l)
      BY <2>1, <3>1 DEF OffAt
    <3>3. QED
      BY <1>1, <3>1, <3>2, DocumentedIs
  <2>3. \A l \in k..i : l \in 1..n /\ prog'[l] = prog[l]
    BY <1>4, <2>2
  <2>4. Toggle(k, "off")'
    <3>1. k \in k..i
      BY <2>1
    <3>2. QED
      BY <1>6, <2>1, <2>3, <3>1 DEF Toggle
  <2>5. ASSUME NEW l \in (k + 1)..(i - 1), Toggle(l, "on")'
        PROVE  FALSE
    <3>1. l \in k..i
      BY <2>1
    <3>2. Toggle(l, "on")
      BY <1>6, <2>3, <2>5, <3>1 DEF Toggle
    <3>3. QED
      BY <2>1, <3>2
  <2>6. QED
    BY <1>3, <2>4, <2>5 DEF Documented
<1>8. ASSUME NEW i \in 1..n, SkipAt(i)
      PROVE  i \in Documented'
  <2>1. PICK j \in DOMAIN prog : Skips(j) /\ ~Between(j) /\ ~Between(i)
                                 /\ ((OneStatement(i, j) /\ i <= j) \/ (OneStatement(j, i) /\ j <= i))
    BY <1>8 DEF SkipAt
  <2>2. j \in 1..n /\ j \in Nat
    BY <1>1, <2>1
  <2>3. j \in Documented
    <3>1. OneStatement(j, j) /\ j <= j
      BY <2>2 DEF OneStatement
    <3>2. SkipAt(j)
      BY <2>1, <3>1 DEF SkipAt
    <3>3. QED
      BY <3>2, DocumentedIs
  <2>4. <<"skip">> \in Range(prog[j].comment)'
    <3>1. prog'[j] = prog[j]
      BY <1>4, <2>3
    <3>2. QED
      BY <2>1, <3>1 DEF Skips, Range
  <2>5. ~Between(j)' /\ ~Between(i)'
    BY <1>6, <2>1, <2>2
  <2>6. \A a, b \in 1..n : OneStatement(a, b)' <=> OneStatement(a, b)
    <3> TAKE a \in 1..n, b \in 1..n
    <3>1. \A k \in (a + 1)..b : k \in 1..n
      BY <1>1
    <3>2. QED
      BY <1>5, <3>1 DEF OneStatement
  <2>7. (OneStatement(i, j)' /\ i <= j) \/ (OneStatement(j, i)' /\ j <= i)
    BY <2>1, <2>2, <2>6
  <2>8. QED
    BY <1>3, <2>2, <2>4, <2>5, <2>7 DEF Documented
<1>9. QED
  BY <1>1, <1>7, <1>8, DocumentedIs DEF n

\* A # noqa and a #: are not the reader's to remove, and an empty comment stays empty.
LEMMA AuditedMisplaced ==
  ASSUME prog \in Seq(Line), FollowAudit
  PROVE  Misplaced' \subseteq Misplaced
<1> SUFFICES ASSUME NEW i \in Misplaced'
             PROVE  i \in Misplaced
  OBVIOUS
<1> DEFINE c == prog[i].comment
           d == prog'[i].comment
<1>1. i \in DOMAIN prog' /\ prog'[i].code \in {"inner", "close", "closetext"} /\ d # <<>>
      /\ d[1] # <<"attribute">> /\ \A k \in DOMAIN d : d[k] # <<"noqa">>
  BY DEF Misplaced, BracketOnly, IsLinterPragma, IsAttributeComment
<1>2. i \in DOMAIN prog
  BY <1>1, AuditedLine
<1>3. prog'[i].code = prog[i].code
  BY <1>2, AuditedLine
<1>4. Unused(i) = {} => d = c
  BY <1>2, AuditedLine
<1>5. Unused(i) # {} => d = Cleared(c, Unused(i))
  BY <1>2, AuditedLine
<1>6. c # <<>>
  BY <1>1, <1>4, UnusedIs
<1>7. c \in Seq(Seq(STRING))
  <2>1. prog[i] \in Line
    BY <1>2
  <2>2. QED
    BY <2>1 DEF Line
<1> HIDE DEF d
<1>8. ASSUME NEW k \in DOMAIN c, c[k][1] # "pytriage"
      PROVE  /\ \E r \in DOMAIN d : d[r] = c[k]
             /\ k = 1 => d[1] = c[1]
  <2>1. CASE Unused(i) = {}
    BY <1>4, <2>1
  <2>2. CASE Unused(i) # {}
    <3>1. k \notin Directives(c)
      BY <1>8 DEF Directives
    <3>2. \A l \in DOMAIN c[k] : <<k, l>> \notin Unused(i)
      BY <3>1, UnusedIs
    <3>3. c[k] # <<"pytriage">>
      <4>1. <<"pytriage">>[1] = "pytriage"
        OBVIOUS
      <4>2. QED
        BY <1>8, <4>1
    <3> DEFINE places == Unused(i)
               e == Cleared(c, places)
    <3>4. \A l \in DOMAIN c[k] : <<k, l>> \notin places
      BY <3>2
    <3> HIDE DEF places, c
    <3>5. (\E r \in DOMAIN e : e[r] = c[k]) /\ (k = 1 => e[1] = c[1])
      BY ONLY <1>7, <1>8, <3>3, <3>4, ClearedKeepsSegment, ZenonT(60)
    <3>6. d = e
      BY <1>5, <2>2 DEF places
    <3> HIDE DEF e
    <3>7. QED
      BY <3>5, <3>6
  <2>3. QED
    BY <2>1, <2>2
<1>9. ~\E k \in DOMAIN c : c[k] = <<"noqa">>
  <2>1. <<"noqa">>[1] = "noqa"
    OBVIOUS
  <2>2. \A k \in DOMAIN c : c[k] = <<"noqa">> => c[k][1] # "pytriage"
    BY <2>1
  <2> HIDE DEF c
  <2>3. QED
    BY <1>1, <1>8, <2>2
<1>10. c[1] # <<"attribute">>
  <2>1. <<"attribute">>[1] = "attribute" /\ 1 \in DOMAIN c
    BY <1>6, <1>7
  <2>2. c[1] = <<"attribute">> => c[1][1] # "pytriage"
    BY <2>1
  <2> HIDE DEF c
  <2>3. QED
    BY <1>1, <1>8, <2>1, <2>2
<1>11. QED
  BY <1>1, <1>2, <1>3, <1>6, <1>9, <1>10 DEF Misplaced, BracketOnly, IsLinterPragma, IsAttributeComment

\* The rules find nothing that they did not find before.
LEMMA AuditedFindings ==
  ASSUME prog \in Seq(Line), FollowAudit
  PROVE  Findings' \subseteq Findings
<1>1. Active' = Active
  BY SameGrammar DEF FollowAudit, Changed
<1>2. DOMAIN prog' = DOMAIN prog /\ \A i \in DOMAIN prog : prog'[i].found = prog[i].found
  BY AuditedLine
<1>3. Misplaced' \subseteq Misplaced
  BY AuditedMisplaced
<1>4. \A c : FoundAt(c)' \subseteq FoundAt(c)
  BY <1>2, <1>3 DEF FoundAt
<1>5. FoundAt("TR5")' = FoundAt("TR5")
  <2>1. FoundAt("TR5") = {i \in DOMAIN prog : "TR5" \in prog[i].found}
    BY DEF FoundAt
  <2>2. FoundAt("TR5")' = {i \in DOMAIN prog' : "TR5" \in prog'[i].found}
    BY DEF FoundAt
  <2>3. QED
    BY <1>2, <2>1, <2>2
<1>6. \A c : LinesOf(c)' \subseteq LinesOf(c)
  <2> TAKE c
  <2>1. CASE c = "TR5"
    BY <1>5, <2>1 DEF LinesOf
  <2>2. CASE c # "TR5"
    <3>1. LinesOf(c) = {{i} : i \in FoundAt(c)}
      BY <2>2 DEF LinesOf
    <3>2. LinesOf(c)' = {{i} : i \in FoundAt(c)'}
      BY <2>2 DEF LinesOf
    <3>3. QED
      BY <1>4, <3>1, <3>2
  <2>3. QED
    BY <2>1, <2>2
<1>7. QED
  BY <1>1, <1>6 DEF Findings

LEMMA FindingsOf ==
  ASSUME NEW f \in Findings
  PROVE  f.lines \subseteq DOMAIN prog /\ f.code \in Active
<1>1. PICK c \in Active : \E at \in LinesOf(c) : f = [code |-> c, lines |-> at]
  BY DEF Findings
<1>2. PICK at \in LinesOf(c) : f = [code |-> c, lines |-> at]
  BY <1>1
<1>3. FoundAt(c) \subseteq DOMAIN prog
  BY DEF FoundAt
<1>4. at \subseteq DOMAIN prog
  BY <1>3 DEF LinesOf
<1>5. QED
  BY <1>2, <1>4

\* A code the audit does not list keeps its rule quiet at its line.
LEMMA AuditedKeeps ==
  ASSUME prog \in Seq(Line), FollowAudit, NEW i \in DOMAIN prog, NEW code,
         NEW k \in Directives(prog[i].comment), NEW l \in 2..Len(prog[i].comment[k]),
         prog[i].comment[k][l] = code, <<k, l>> \notin Unused(i)
  PROVE  i \in IgnoredByComment(code)'
<1> DEFINE c == prog[i].comment
           places == Unused(i)
<1>1. prog[i] \in Line
  OBVIOUS
<1>2. c \in Seq(Seq(STRING)) /\ k \in DOMAIN c
  BY <1>1 DEF Line, Directives
<1>3. <<k, 1>> \notin places /\ <<k, l>> \notin places
  BY <1>2, UnusedIs
<1>4. c[k] \in Seq(STRING) /\ Len(c[k]) \in Nat
  BY <1>2
<1>5. i \in DOMAIN prog' /\ (places = {} => prog'[i] = prog[i]) /\ (places # {} => prog'[i].comment = Cleared(c, places))
  BY AuditedLine
<1> HIDE DEF c, places
<1>6. k \in Directives(c) /\ l \in 2..Len(c[k]) /\ c[k][l] = code
  BY DEF c
<1>7. Ignores(Cleared(c, places), code)
  BY ONLY <1>2, <1>3, <1>6, ClearedIgnores
<1>8. Ignores(c, code)
  <2>1. c[k] # <<>>
    BY <1>4, <1>6
  <2>2. /\ Tail(c[k]) \in Seq(STRING) /\ Len(Tail(c[k])) = Len(c[k]) - 1
        /\ \A j \in 1..Len(Tail(c[k])) : Tail(c[k])[j] = c[k][j + 1]
    BY <1>4, <2>1, HeadTailProperties
  <2>3. l - 1 \in 1..Len(Tail(c[k])) /\ (l - 1) + 1 = l
    BY <1>4, <1>6, <2>2
  <2>4. l - 1 \in DOMAIN Tail(c[k]) /\ Tail(c[k])[l - 1] = code
    BY <1>6, <2>2, <2>3
  <2>5. code \in Range(Tail(c[k]))
    BY <2>4 DEF Range
  <2>6. QED
    BY <1>6, <2>5 DEF Ignores
<1>9. Ignores(prog'[i].comment, code)
  <2>1. CASE places = {}
    BY <1>5, <1>8, <2>1 DEF c
  <2>2. CASE places # {}
    BY <1>5, <1>7, <2>2
  <2>3. QED
    BY <2>1, <2>2
<1>10. QED
  BY <1>5, <1>9 DEF IgnoredByComment, Ignores, Directives

\* Where a code is in a comment
LEMMA ParsedIs ==
  ASSUME NEW c \in Seq(Seq(STRING)), NEW p \in Parsed(c)
  PROVE  \E k \in Directives(c) : \E l \in 2..Len(c[k]) : p = <<k, l>>
<1>1. Directives(c) # {}
  BY DEF Parsed
<1>2. PICK k \in Directives(c) : p \in {<<k, l>> : l \in (IF k = FirstDirective(c) THEN 2 ELSE 3)..Len(c[k])}
  BY <1>1 DEF Parsed
<1>3. PICK l \in (IF k = FirstDirective(c) THEN 2 ELSE 3)..Len(c[k]) : p = <<k, l>>
  BY <1>2
<1>4. c[k] \in Seq(STRING)
  BY DEF Directives
<1>5. Len(c[k]) \in Nat
  BY <1>4
<1>6. l \in 2..Len(c[k])
  BY <1>3, <1>5
<1>7. QED
  BY <1>3, <1>6

\* The first mention of a code in a comment comes before all others.
IsFirst(c, code, k, l) ==
  /\ <<k, l>> \in Parsed(c) /\ c[k][l] = code
  /\ \A q \in Parsed(c) : c[q[1]][q[2]] = code => ~(q[1] < k \/ (q[1] = k /\ q[2] < l))

LEMMA FirstMention ==
  ASSUME NEW c \in Seq(Seq(STRING)), NEW code \in ParsedCodes(c)
  PROVE  \E k \in Directives(c) : \E l \in 2..Len(c[k]) : IsFirst(c, code, k, l)
<1> DEFINE M == {p \in Parsed(c) : c[p[1]][p[2]] = code}
           K == {p[1] : p \in M}
<1>1. \A p \in M : \E k \in Directives(c) : \E l \in 2..Len(c[k]) : p = <<k, l>>
  BY ParsedIs
<1>2. Directives(c) \subseteq Nat
  BY DEF Directives
<1>3. M # {}
  BY DEF ParsedCodes
<1> HIDE DEF M
<1>4. \A p \in M : p[1] \in Nat /\ p[2] \in Nat /\ p = <<p[1], p[2]>> /\ p[1] \in Directives(c) /\ p[2] \in 2..Len(c[p[1]])
  <2> TAKE p \in M
  <2>1. PICK k \in Directives(c) : \E l \in 2..Len(c[k]) : p = <<k, l>>
    BY <1>1
  <2>2. PICK l \in 2..Len(c[k]) : p = <<k, l>>
    BY <2>1
  <2>3. p[1] = k /\ p[2] = l /\ k \in Nat /\ l \in Nat
    BY <1>2, <2>2
  <2>4. QED
    BY <2>2, <2>3
<1>5. K \subseteq Nat /\ K # {}
  BY <1>3, <1>4
<1>6. PICK k \in K : \A h \in K : k <= h
  BY <1>5, LeastElement
<1> DEFINE L == {p[2] : p \in {q \in M : q[1] = k}}
<1>7. L \subseteq Nat /\ L # {}
  BY <1>4
<1>8. PICK l \in L : \A h \in L : l <= h
  BY <1>7, LeastElement
<1>9. <<k, l>> \in M /\ k \in Directives(c) /\ l \in 2..Len(c[k]) /\ k \in Nat /\ l \in Nat
  <2>1. PICK p \in M : p[1] = k /\ p[2] = l
    OBVIOUS
  <2>2. QED
    BY <1>4, <2>1
<1>10. ASSUME NEW q \in M, q[1] < k \/ (q[1] = k /\ q[2] < l)
       PROVE  FALSE
  <2>1. q[1] \in K /\ k <= q[1] /\ q[1] \in Nat /\ q[2] \in Nat
    BY <1>4, <1>6
  <2>2. q[1] = k /\ q[2] < l
    BY <1>9, <1>10, <2>1
  <2>3. l <= q[2]
    BY <1>8, <2>2
  <2>4. QED
    BY <1>9, <2>1, <2>2, <2>3
<1>11. \A q \in Parsed(c) : c[q[1]][q[2]] = code => q \in M
  BY DEF M
<1>12. <<k, l>> \in Parsed(c) /\ c[k][l] = code
  BY <1>9 DEF M
<1>13. \A q \in Parsed(c) : c[q[1]][q[2]] = code => ~(q[1] < k \/ (q[1] = k /\ q[2] < l))
  BY <1>10, <1>11
<1>14. QED
  BY <1>9, <1>12, <1>13 DEF IsFirst

\* A finding that was kept quiet is kept quiet: by a region or a skip, by the mention
\* whose use the audit has recorded, or by one that it cannot list.
LEMMA AuditedQuiet ==
  ASSUME FileInv, KnownInv, FollowAudit, NEW f \in Findings, Quiet(f)
  PROVE  f.lines \cap (Documented' \cup IgnoredByComment(f.code)') # {}
<1>1. prog \in Seq(Line) /\ DOMAIN prog \subseteq Nat /\ suppressed = Documented
  BY DEF FileInv, KnownInv, FollowAudit, Changed
<1>2. f.lines \subseteq DOMAIN prog
  BY FindingsOf
<1>3. \A i \in DOMAIN prog : prog[i].comment \in Seq(Seq(STRING))
  <2> TAKE i \in DOMAIN prog
  <2>1. prog[i] \in Line
    BY <1>1
  <2>2. QED
    BY <2>1 DEF Line
<1>4. CASE f.lines \cap suppressed # {}
  <2>1. Documented \subseteq Documented'
    BY AuditedDocumented
  <2>2. QED
    BY <1>1, <1>4, <2>1
<1>5. CASE f.lines \cap suppressed = {} /\ UsableAt(f) = {}
  <2>1. PICK i \in f.lines : i \in Ignored(f.code)
    BY DEF Quiet
  <2>2. i \notin suppressed /\ i \in DOMAIN prog
    BY <1>2, <1>5
  <2>3. Ignores(prog[i].comment, f.code)
    BY <2>1, <2>2 DEF Ignored
  <2> DEFINE c == prog[i].comment
  <2>4. PICK k \in Directives(c) : f.code \in Range(Tail(c[k]))
    BY <2>3 DEF Ignores
  <2>5. c[k] \in Seq(STRING) /\ Len(c[k]) \in Nat /\ c[k] # <<>>
    <3>1. c \in Seq(Seq(STRING)) /\ k \in DOMAIN c
      BY <1>3, <2>2 DEF Directives
    <3>2. c[k] \in Seq(STRING) /\ Len(c[k]) \in Nat
      BY <3>1
    <3>3. c[k] = <<>> => Tail(c[k]) = <<>>
      OBVIOUS
    <3>4. QED
      BY <2>4, <3>2, <3>3 DEF Range
  <2> HIDE DEF c
  <2>6. /\ Tail(c[k]) \in Seq(STRING) /\ Len(Tail(c[k])) = Len(c[k]) - 1
        /\ \A j \in 1..Len(Tail(c[k])) : Tail(c[k])[j] = c[k][j + 1]
    BY <2>5, HeadTailProperties
  <2>7. PICK j \in DOMAIN Tail(c[k]) : Tail(c[k])[j] = f.code
    BY <2>4 DEF Range
  <2>8. j \in 1..Len(Tail(c[k])) /\ j + 1 \in 2..Len(c[k]) /\ c[k][j + 1] = f.code
    BY <2>5, <2>6, <2>7
  <2>9. <<k, j + 1>> \notin Unused(i)
    <3>1. f.code \notin ParsedCodes(c)
      BY <1>5, <2>1, <2>2 DEF UsableAt, c
    <3>2. <<k, j + 1>> \notin Parsed(c)
      <4>1. <<k, j + 1>>[1] = k /\ <<k, j + 1>>[2] = j + 1
        OBVIOUS
      <4>2. QED
        BY <2>8, <3>1, <4>1 DEF ParsedCodes
    <3>3. Unused(i) \subseteq Parsed(c)
      BY DEF Unused, c
    <3>4. QED
      BY <3>2, <3>3
  <2>10. i \in IgnoredByComment(f.code)'
    <3>1. k \in Directives(prog[i].comment) /\ j + 1 \in 2..Len(prog[i].comment[k])
          /\ prog[i].comment[k][j + 1] = f.code
      BY <2>8 DEF c
    <3>2. QED
      BY <1>1, <2>2, <2>9, <3>1, AuditedKeeps
  <2>11. QED
    BY <2>10
<1>6. CASE f.lines \cap suppressed = {} /\ UsableAt(f) # {}
  <2>1. UsableAt(f) \subseteq f.lines /\ UsableAt(f) \subseteq Nat
    BY <1>1, <1>2 DEF UsableAt
  <2>2. PICK i \in UsableAt(f) : \A j \in UsableAt(f) : i <= j
    BY <1>6, <2>1, LeastElement
  <2>3. <<f.code, i>> \in Used
    <3>1. <<f.code, i>> \in Usage(f)
      BY <1>6, <2>2 DEF Usage
    <3>2. QED
      BY <3>1 DEF Used
  <2>4. i \in f.lines /\ i \in DOMAIN prog
    BY <1>2, <2>1
  <2> DEFINE c == prog[i].comment
  <2>5. f.code \in ParsedCodes(c) /\ c \in Seq(Seq(STRING))
    BY <1>3, <2>4 DEF UsableAt
  <2> HIDE DEF c
  <2>6. PICK k \in Directives(c) : \E l \in 2..Len(c[k]) : IsFirst(c, f.code, k, l)
    BY <2>5, FirstMention
  <2>7. PICK l \in 2..Len(c[k]) : IsFirst(c, f.code, k, l)
    BY <2>6
  <2>8. <<k, l>> \notin Unused(i)
    <3> SUFFICES ASSUME <<k, l>> \in Unused(i)
                 PROVE  FALSE
      OBVIOUS
    <3>1. <<k, l>>[1] = k /\ <<k, l>>[2] = l
      OBVIOUS
    <3>2. \/ <<c[k][l], i>> \notin Used
          \/ \E q \in Parsed(c) : c[q[1]][q[2]] = c[k][l] /\ (q[1] < k \/ (q[1] = k /\ q[2] < l))
      BY <3>1 DEF Unused, c
    <3>3. QED
      BY <2>3, <2>7, <3>2 DEF IsFirst
  <2>9. i \in IgnoredByComment(f.code)'
    <3>1. k \in Directives(prog[i].comment) /\ l \in 2..Len(prog[i].comment[k])
          /\ prog[i].comment[k][l] = f.code
      BY <2>7 DEF IsFirst, c
    <3>2. QED
      BY <1>1, <2>4, <2>8, <3>1, AuditedKeeps
  <2>10. QED
    BY <2>4, <2>9
<1>7. QED
  BY <1>4, <1>5, <1>6

\* What is shown is what is not quiet.
LEMMA ShownIs ==
  ASSUME suppressed = Documented
  PROVE  Shown = {Ids(f) : f \in {g \in Findings : ~Quiet(g)}}
BY DEF Shown, Quiet, Ignored, IgnoredByComment

LEMMA SameShown ==
  ASSUME prog' = prog, grammar' = grammar
  PROVE  Shown' = Shown
<1>1. Documented' = Documented
  BY SameDocumented
<1>2. Active' = Active
  BY SameGrammar
<1>3. \A code : IgnoredByComment(code)' = IgnoredByComment(code)
  BY DEF IgnoredByComment
<1>4. Misplaced' = Misplaced
  BY DEF Misplaced, BracketOnly, IsLinterPragma, IsAttributeComment
<1>5. \A c : FoundAt(c)' = FoundAt(c)
  BY <1>4 DEF FoundAt
<1>6. \A c : LinesOf(c)' = LinesOf(c)
  BY <1>5 DEF LinesOf
<1>7. Findings' = Findings
  BY <1>2, <1>6 DEF Findings
<1>8. \A f : Ids(f)' = Ids(f)
  BY DEF Ids
<1>9. QED
  BY <1>1, <1>3, <1>7, <1>8 DEF Shown

\* After the audit there is nothing to show that was not shown before.
LEMMA AuditedShown ==
  ASSUME FileInv, KnownInv, FollowAudit
  PROVE  Shown' \subseteq Shown
<1>1. prog \in Seq(Line) /\ suppressed = Documented
  BY DEF FileInv, KnownInv, FollowAudit, Changed
<1>2. SUFFICES ASSUME NEW x \in Shown'
               PROVE  x \in Shown
  OBVIOUS
<1>3. PICK f \in Findings' : /\ f.lines \cap (Documented' \cup IgnoredByComment(f.code)') = {}
                             /\ x = Ids(f)'
  BY DEF Shown
<1>4. f \in Findings
  BY <1>1, AuditedFindings
<1>5. ~Quiet(f)
  BY <1>3, <1>4, AuditedQuiet
<1>6. Ids(f)' = Ids(f)
  <2>1. \A i \in f.lines : prog'[i].id = prog[i].id
    BY <1>1, <1>4, FindingsOf, AuditedLine
  <2>2. QED
    BY <2>1 DEF Ids
<1>7. QED
  BY <1>1, <1>3, <1>4, <1>5, <1>6, ShownIs

LEMMA ReportNext ==
  ASSUME FileInv, KnownInv, KnownInv', ReportInv, [Next]_vars
  PROVE  ReportInv'
<1>1. CASE UNCHANGED vars
  <2>1. phase' = phase /\ last' = last /\ reported' = reported /\ Shown' = Shown
    BY <1>1, SameShown DEF vars
  <2>2. QED
    BY <2>1 DEF ReportInv
<1>2. CASE Write
  <2>1. phase' = "write"
    BY <1>2 DEF Write
  <2>2. QED
    BY <2>1 DEF ReportInv
<1>3. CASE Save
  <2>1. phase' = "saved" /\ last' = "writer"
    BY <1>3 DEF Save, FileInv
  <2>2. QED
    BY <2>1 DEF ReportInv
<1>4. CASE Scan \/ Finalize
  <2>1. phase = "saved" /\ phase' \in {"saved", "scanned"} /\ last' = last /\ reported' = reported
        /\ prog' = prog /\ grammar' = grammar
    BY <1>4 DEF Scan, Finalize
  <2>2. Shown' = Shown
    BY <2>1, SameShown
  <2>3. QED
    BY <2>1, <2>2 DEF ReportInv
<1>5. CASE Check
  <2>1. phase = "scanned" /\ phase' = "checked" /\ prog' = prog /\ grammar' = grammar
        /\ reported' = {Ids(f) : f \in {g \in Findings : ~Quiet(g)}}
    BY <1>5 DEF Check
  <2>2. reported' = Shown
    BY <2>1, ShownIs DEF KnownInv
  <2>3. Shown' = Shown
    BY <2>1, SameShown
  <2>4. QED
    BY <2>1, <2>2, <2>3 DEF ReportInv
<1>6. CASE FixComments
  <2>1. phase' = "saved" /\ last' = "fix"
    BY <1>6 DEF FixComments, Changed
  <2>2. QED
    BY <2>1 DEF ReportInv
<1>7. CASE FollowAudit
  <2>1. phase = "checked" /\ phase' = "saved" /\ reported' = reported
    BY <1>7 DEF FollowAudit, Changed
  <2>2. Shown' \subseteq reported'
    BY <1>7, <2>1, AuditedShown DEF ReportInv
  <2>3. QED
    BY <2>1, <2>2 DEF ReportInv
<1>8. QED
  BY <1>1, <1>2, <1>3, <1>4, <1>5, <1>6, <1>7 DEF Next

\* What a comment suppresses stays suppressed, in every file: the fix of a comment
\* rewrites no line that a formatter leaves alone (ADR 0050), and no report appears
\* when the codes that the audit lists are removed (docs/rules/unused-pytriage.md).
THEOREM SuppressionsKeptHolds ==
  Spec => SuppressionsKept
<1>1. Init => IInv
  <2> SUFFICES ASSUME Init
               PROVE  IInv
    OBVIOUS
  <2>1. phase = "write" /\ last = "writer"
    BY DEF Init
  <2>2. QED
    BY <2>1, FileInit, ScanInit DEF IInv, KnownInv, ReportInv
<1>2. IInv /\ [Next]_vars => IInv'
  <2> SUFFICES ASSUME IInv, [Next]_vars
               PROVE  IInv'
    OBVIOUS
  <2>1. FileInv /\ ScanInv /\ KnownInv /\ ReportInv
    BY DEF IInv
  <2>2. FileInv'
    BY <2>1, FileNext
  <2>3. ScanInv'
    BY <2>1, <2>2, ScanNext
  <2>4. KnownInv'
    BY <2>1, KnownNext
  <2>5. ReportInv'
    BY <2>1, <2>4, ReportNext
  <2>6. QED
    BY <2>2, <2>3, <2>4, <2>5 DEF IInv
<1>3. IInv /\ [Next]_vars => [~AuditHides]_vars /\ [~Rewrites]_vars
  <2> SUFFICES ASSUME IInv, [Next]_vars
               PROVE  ~AuditHides /\ ~Rewrites
    OBVIOUS
  <2>1. FileInv /\ KnownInv /\ ReportInv
    BY DEF IInv
  <2>2. ASSUME AuditHides
        PROVE  FALSE
    <3>1. phase = "scanned" /\ last = "reader" /\ ~(reported' \subseteq reported)
          /\ reported' = {Ids(f) : f \in {g \in Findings : ~Quiet(g)}}
      BY <2>2 DEF AuditHides, Check
    <3>2. reported' = Shown
      BY <2>1, <3>1, ShownIs DEF KnownInv
    <3>3. QED
      BY <2>1, <3>1, <3>2 DEF ReportInv
  <2>3. ASSUME Rewrites
        PROVE  FALSE
    BY <2>1, <2>3, FixLeaves DEF Rewrites
  <2>4. QED
    BY <2>2, <2>3
<1>4. QED
  BY <1>1, <1>2, <1>3, PTL DEF Spec, SuppressionsKept, AuditHidesNothing, LeftAlone

=============================================================================
