---------------------------- MODULE Suppressions ----------------------------
(***************************************************************************)
(* Comments that keep a rule quiet (# pytriage: ..., # fmt: off, on and    *)
(* skip), the audit of the ones that are of no use (unused-pytriage, TR8), *)
(* and the fix that moves comments (misplaced-comment, TR7).  A behaviour  *)
(* writes a file line by line; then comments are moved by the fix, and     *)
(* codes that the audit lists are removed by the reader.                   *)
(*                                                                         *)
(* A comment is a sequence of segments, each starting with its own #: a    *)
(* kind, followed by the codes when the kind is "pytriage".                *)
(***************************************************************************)
EXTENDS Naturals, Sequences, SequencesExt, FiniteSets

CONSTANT
  Grammars       \* by name, which files there are, see below

VARIABLES
  grammar,       \* that of this file
  prog,          \* the lines
  phase,         \* "write", "saved", "scanned" or "checked"
  last,          \* who changed the file last: the writer, the fix or the reader
  scan, seen,      \* the scanner, and the lines it has seen
  suppressed,    \* the lines a formatter leaves alone, as of the last scan
  reported       \* what the last check reported

vars == <<grammar, prog, phase, last, scan, seen, suppressed, reported>>

Lines    == Grammars[grammar].lines   \* what code is on it, its comment, what the rules find there
MaxLines == Grammars[grammar].length
Active   == Grammars[grammar].active  \* the codes of the rules that run

(* What is on a line: a statement, the first line of one that goes on in    *)
(* brackets, a part of it, nothing but closing brackets, the last of which  *)
(* may end the statement; the same with a string of several lines in it.    *)
Codes == {"none", "one", "head", "item", "inner", "close", "headtext", "text", "closetext"}
EndsStatement == {"one", "close", "closetext"}

ASSUME GrammarsWriteFiles ==
  \A n \in DOMAIN Grammars :
    /\ Grammars[n].length \in Nat
    /\ Grammars[n].lines \subseteq [code : Codes, comment : Seq(Seq(STRING)), found : SUBSET STRING]

(* Where line i of a file begins. *)
After(code) ==
  IF code \in EndsStatement THEN "statement" ELSE IF code \in {"headtext", "text"} THEN "string" ELSE "bracket"
BeforeIn(file, i) ==
  LET before == {j \in 1..(i - 1) : file[j].code # "none" /\ \A k \in (j + 1)..(i - 1) : file[k].code = "none"}
  IN  IF before = {} THEN "statement" ELSE After(file[CHOOSE j \in before : TRUE].code)
Before(i) == BeforeIn(prog, i)

-----------------------------------------------------------------------------
(* _base.py: the lines a formatter is told to leave alone                   *)

Nothing == [from |-> 0, start |-> 0, skip |-> FALSE, out |-> {}]

(* _FormatSuppressionScanner.observe, the tokens of line i                  *)
(* Mutant: skip is for the line it is on. *)
ObserveLine(s, i) ==
  LET line   == prog[i]
      start  == IF s.start = 0 /\ line.code # "none" THEN i ELSE s.start
      skip   == start # 0 /\ <<"skip">> \in Range(line.comment)
      opens  == start = 0 /\ s.from = 0 /\ line.comment = <<<<"off">>>>
      closes == start = 0 /\ s.from # 0 /\ line.comment = <<<<"on">>>>
  IN  [from  |-> IF opens THEN i ELSE IF closes THEN 0 ELSE s.from,
       start |-> IF line.code \in EndsStatement THEN 0 ELSE start,
       skip  |-> FALSE,
       out   |-> s.out \cup (IF closes THEN s.from..i ELSE {}) \cup (IF skip THEN {i} ELSE {})]
Observe(s, i) ==
  LET line   == prog[i]
      start  == IF s.start = 0 /\ line.code # "none" THEN i ELSE s.start
      skip   == s.skip \/ (start # 0 /\ <<"skip">> \in Range(line.comment))
      opens  == start = 0 /\ s.from = 0 /\ line.comment = <<<<"off">>>>
      closes == start = 0 /\ s.from # 0 /\ line.comment = <<<<"on">>>>
      ends   == line.code \in EndsStatement
  IN  [from  |-> IF opens THEN i ELSE IF closes THEN 0 ELSE s.from,
       start |-> IF ends THEN 0 ELSE start,
       skip  |-> skip /\ ~ends,
       out   |-> s.out \cup (IF closes THEN s.from..i ELSE {}) \cup (IF ends /\ skip THEN start..i ELSE {})]

-----------------------------------------------------------------------------
(* # pytriage comments                                                      *)

Directives(c) == {k \in DOMAIN c : c[k][1] = "pytriage"}
FirstDirective(c) == CHOOSE k \in Directives(c) : \A l \in Directives(c) : k <= l

(* ignore_pattern_for: every segment that names the code *)
Ignores(c, code) == \E k \in Directives(c) : code \in Range(Tail(c[k]))

(* _parse_pytriage_comment: the rest of the comment is split at the commas, *)
(* so that of a second directive the first code is lost.  The places of the *)
(* codes, in order.                                                         *)
Parsed(c) ==
  IF Directives(c) = {} THEN {}
  ELSE UNION {{<<k, l>> : l \in (IF k = FirstDirective(c) THEN 2 ELSE 3)..Len(c[k])} : k \in Directives(c)}
ParsedCodes(c) == {c[p[1]][p[2]] : p \in Parsed(c)}

(* Mutant: what a formatter leaves alone is rewritten. *)
IgnoredByComment(code) == {i \in DOMAIN prog : Ignores(prog[i].comment, code)}
Ignored(code) == suppressed \cup {i \in DOMAIN prog : Ignores(prog[i].comment, code)}

-----------------------------------------------------------------------------
(* misplaced_comment.py *)

(* is_bracket_only_line goes by the tokens that start on the line. *)
BracketOnly(i) == prog[i].code \in {"inner", "close", "closetext"}
IsLinterPragma(c) == \E k \in DOMAIN c : c[k] = <<"noqa">>

(* #: documents an attribute, when the comment begins with it. *)
IsAttributeComment(c) == c[1] = <<"attribute">>

Misplaced ==
  {i \in DOMAIN prog : LET c == prog[i].comment
                       IN  BracketOnly(i) /\ c # <<>> /\ ~IsLinterPragma(c) /\ ~IsAttributeComment(c)}

-----------------------------------------------------------------------------
(* The rules.  TR5 names one finding by two lines, the assignment and the   *)
(* use; the other rules name one line.                                      *)

FoundAt(c) == {i \in DOMAIN prog : c \in prog[i].found \/ (c = "TR7" /\ i \in Misplaced)}
LinesOf(c) == IF c = "TR5" THEN {FoundAt(c)} \ {{}} ELSE {{i} : i \in FoundAt(c)}
Findings == UNION {{[code |-> c, lines |-> at] : at \in LinesOf(c)} : c \in Active}

Quiet(f) == f.lines \cap Ignored(f.code) # {}

(* find_suppression_usage: the first comment on one of the lines            *)
UsableAt(f) == {i \in f.lines \ suppressed : f.code \in ParsedCodes(prog[i].comment)}

(* record_suppression_usage_if_ignored                                      *)
(* Mutant: only the first of the lines counts. *)
UsageOnFirst(f) ==
  IF ~Quiet(f) \/ f.lines \cap suppressed # {} THEN {}
  ELSE {<<f.code, i>> : i \in {j \in UsableAt(f) : \A k \in f.lines : j <= k}}
Usage(f) ==
  IF ~Quiet(f) \/ f.lines \cap suppressed # {} THEN {}
  ELSE {<<f.code, i>> : i \in {j \in UsableAt(f) : \A k \in UsableAt(f) : j <= k}}
Used == UNION {Usage(f) : f \in Findings}

(* check_with_suppression_usage: the places of the codes of line i that are *)
(* of no use; the second mention of a code is of none.                      *)
Unused(i) ==
  LET c == prog[i].comment
      code(p) == c[p[1]][p[2]]
      earlier(p, q) == p[1] < q[1] \/ (p[1] = q[1] /\ p[2] < q[2])
  IN  IF i \in suppressed THEN {}
      ELSE {p \in Parsed(c) : /\ code(p) \in Active \ {"TR8"}
                              /\ \/ <<code(p), i>> \notin Used
                                 \/ \E q \in Parsed(c) : code(q) = code(p) /\ earlier(q, p)}

-----------------------------------------------------------------------------

Init == grammar \in DOMAIN Grammars /\ prog = <<>> /\ phase = "write" /\ last = "writer" /\ scan = Nothing /\ seen = 0
        /\ suppressed = {} /\ reported = {}

Follows(code) ==
  LET at == Before(Len(prog) + 1)
  IN  code \in CASE at = "statement" -> {"none", "one", "head", "headtext"}
                 [] at = "bracket" -> {"none", "item", "inner", "close"}
                 [] OTHER -> {"text", "closetext"}

Write ==
  /\ phase = "write" /\ Len(prog) < MaxLines
  /\ \E line \in Lines :
       /\ Follows(line.code)
       /\ prog' = Append(prog, [code |-> line.code, comment |-> line.comment, found |-> line.found,
                                id |-> Len(prog) + 1, text |-> <<>>])
  /\ UNCHANGED <<grammar, phase, last, scan, seen, suppressed, reported>>

Save ==
  /\ phase = "write" /\ prog # <<>> /\ Before(Len(prog) + 1) = "statement"
  /\ phase' = "saved" /\ UNCHANGED <<grammar, prog, last, scan, seen, suppressed, reported>>

(* ignored_lines_and_classify_comments_and_pytriage_from_tokens: the        *)
(* scanner gets line after line and, in the end, finalize.                  *)
Scan ==
  /\ phase = "saved" /\ seen < Len(prog) /\ seen' = seen + 1 /\ scan' = Observe(scan, seen + 1)
  /\ UNCHANGED <<grammar, prog, phase, last, suppressed, reported>>

Finalize ==
  /\ phase = "saved" /\ seen = Len(prog) /\ phase' = "scanned"
  /\ suppressed' = scan.out \cup (IF scan.from # 0 THEN scan.from..Len(prog) ELSE {})
  /\ seen' = 0 /\ scan' = Nothing /\ UNCHANGED <<grammar, prog, last, reported>>

(* A finding is known by the lines as they were written. *)
Ids(f) == [code |-> f.code, lines |-> {prog[i].id : i \in f.lines}]

Check ==
  /\ phase = "scanned" /\ phase' = "checked" /\ reported' = {Ids(f) : f \in {g \in Findings : ~Quiet(g)}}
  /\ UNCHANGED <<grammar, prog, last, scan, seen, suppressed>>

Changed(who) == phase = "checked" /\ phase' = "saved" /\ last' = who /\ UNCHANGED <<grammar, scan, seen, suppressed, reported>>

Without(line) == [line EXCEPT !.comment = <<>>]

(* A line that gets a comment: in a string, it is a part of the string.     *)
Joined(line, i, c) ==
  IF line.code \in {"headtext", "text"} THEN [line EXCEPT !.text = @ \o c] ELSE [line EXCEPT !.comment = @ \o c]
Above(i, c) ==
  [code |-> IF Before(i) = "string" THEN "text" ELSE "none", comment |-> IF Before(i) = "string" THEN <<>> ELSE c,
   found |-> {}, id |-> 0, text |-> IF Before(i) = "string" THEN c ELSE <<>>]

(* MisplacedCommentCheck.fix: each comment goes to the end of the line      *)
(* before or, where that gets too long, on a line of its own above it.      *)
(* The lines of the file are those the tokens count (str.splitlines knows   *)
(* more ends of lines).                                                     *)
(* Mutant: the comment is not cut off where it was. *)
RewrittenTwice(i, movable, fits) ==
  IF i + 1 \in movable
  THEN LET c == prog[i + 1].comment IN IF i + 1 \in fits THEN <<Joined(prog[i], i, c)>> ELSE <<Above(i, c), prog[i]>>
  ELSE <<prog[i]>>
(* Mutant: a comment stays that would come to another line of brackets. *)
RewrittenWithin(i, movable, fits) ==
  LET goes(j) == j \in movable /\ (j = 1 \/ ~BracketOnly(j - 1))
      kept == IF goes(i) THEN Without(prog[i]) ELSE prog[i]
  IN  IF i + 1 \in movable /\ goes(i + 1)
      THEN LET c == prog[i + 1].comment IN IF i + 1 \in fits THEN <<Joined(kept, i, c)>> ELSE <<Above(i, c), kept>>
      ELSE <<kept>>
Rewritten(i, movable, fits) ==
  LET kept == IF i \in movable THEN Without(prog[i]) ELSE prog[i]
  IN  IF i + 1 \in movable
      THEN LET c == prog[i + 1].comment IN IF i + 1 \in fits THEN <<Joined(kept, i, c)>> ELSE <<Above(i, c), kept>>
      ELSE <<kept>>

Movable == Misplaced \ Ignored("TR7")

(* Blocks of one line or two, one after the other. *)
Flattened(blocks) ==
  LET double == {j \in DOMAIN blocks : Len(blocks[j]) = 2}
      end(i) == i + Cardinality(double \cap (1..i))
      block(n) == CHOOSE i \in DOMAIN blocks : end(i - 1) < n /\ n <= end(i)
  IN  [n \in 1..end(Len(blocks)) |-> blocks[block(n)][n - end(block(n) - 1)]]

FixComments ==
  /\ Changed("fix") /\ "TR7" \in Active /\ Movable # {}
  /\ \E blocks \in {[i \in DOMAIN prog |-> Rewritten(i, Movable, fits)] : fits \in SUBSET Movable} :
       prog' = Flattened(blocks)

(* What is at some places of a sequence, in order *)
Picked(s, places) ==
  LET nth(n) == CHOOSE k \in places : Cardinality({j \in places : j <= k}) = n
  IN  [n \in 1..Cardinality(places) |-> s[nth(n)]]

(* A comment without some of its codes, and without the directives that    *)
(* have none left                                                          *)
Cleared(c, places) ==
  LET segments == [k \in DOMAIN c |-> Picked(c[k], {l \in DOMAIN c[k] : <<k, l>> \notin places})]
  IN  Picked(segments, {k \in DOMAIN c : segments[k] # <<"pytriage">>})

(* The reader removes every code the audit lists. *)
FollowAudit ==
  /\ Changed("reader") /\ "TR8" \in Active
  /\ LET unused == [i \in DOMAIN prog |-> Unused(i)]
         listed == {i \in DOMAIN prog : unused[i] # {}}
     IN  /\ listed # {}
         /\ prog' = [i \in DOMAIN prog |->
                       IF i \in listed THEN [prog[i] EXCEPT !.comment = Cleared(@, unused[i])] ELSE prog[i]]

Next == Write \/ Save \/ Scan \/ Finalize \/ Check \/ FixComments \/ FollowAudit

Spec == Init /\ [][Next]_vars
FairSpec == Spec /\ WF_vars(Scan) /\ WF_vars(Finalize) /\ WF_vars(Check) /\ WF_vars(FixComments)

-----------------------------------------------------------------------------
(* Properties *)

TypeOK ==
  /\ phase \in {"write", "saved", "scanned", "checked"} /\ last \in {"writer", "fix", "reader"}
  /\ Len(prog) <= 2 * MaxLines
  /\ \A i \in DOMAIN prog : prog[i].code \in Codes /\ prog[i].id \in 0..MaxLines
  /\ seen <= Len(prog) /\ scan.start <= seen /\ scan.from <= seen
  /\ phase \in {"scanned", "checked"} => suppressed \subseteq DOMAIN prog

(* ADR 0050: off and on count as comments of their own between statements,  *)
(* off up to the next on or the end of the file; skip counts for the whole  *)
(* of the statement it is behind.                                           *)
Between(i) == Before(i) = "statement" /\ prog[i].code = "none"
Toggle(i, kind) == Between(i) /\ prog[i].comment = <<<<kind>>>>
OneStatement(i, j) == \A k \in (i + 1)..j : Before(k) # "statement"
Documented ==
  {i \in DOMAIN prog :
     \/ \E k \in 1..i : Toggle(k, "off") /\ ~\E l \in (k + 1)..(i - 1) : Toggle(l, "on")
     \/ \E j \in DOMAIN prog : /\ <<"skip">> \in Range(prog[j].comment) /\ ~Between(j) /\ ~Between(i)
                               /\ (OneStatement(i, j) /\ i <= j) \/ (OneStatement(j, i) /\ j <= i)}
FormatAsDocumented == TypeOK /\ (phase = "scanned" => suppressed = Documented)

(* "Reports # pytriage codes that no longer suppress a matching violation"  *)
(* (docs/rules/unused-pytriage.md): no report appears when all the codes    *)
(* the audit lists are removed at once.                                     *)
AuditHides == Check /\ last = "reader" /\ ~(reported' \subseteq reported)
AuditHidesNothing == [][~AuditHides]_vars

(* "A region the user has told ruff format never to touch should not be     *)
(* silently rewritten" (ADR 0050).                                          *)
Rewrites == FixComments /\ \E i \in suppressed : prog[i] \notin Range(prog')
LeftAlone == [][~Rewrites]_vars

(* What is suppressed stays so: by the fix of a comment, and by the removal  *)
(* of suppressions the audit calls unused.                                   *)
SuppressionsKept == AuditHidesNothing /\ LeftAlone

(* "Its fix is a purely mechanical text move that never changes semantics"  *)
(* (docs/rules/misplaced-comment.md): no comment becomes part of a string.  *)
StringsKept == \A i \in DOMAIN prog : prog[i].text = <<>>

(* "Never moves linter pragma comments (noqa, type: ignore, pragma:, etc.)" *)
(* (ibid.): moving comments silences no other report.                       *)
Silences == Check /\ last = "fix" /\ \E f \in reported \ reported' : f.code # "TR7"
SilencesNothing == [][~Silences]_vars

(* The fix moves a comment off a line of brackets to a line that may be     *)
(* one of brackets too: applied again and again it comes to an end.         *)
Settles == phase = "saved" ~> phase = "checked" /\ Movable = {}
=============================================================================
