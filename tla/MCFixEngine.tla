------------------------------ MODULE MCFixEngine ------------------------------
(* Small instances of FixEngine. *)
EXTENDS FixEngine, TLC

CONSTANTS p1, p2, k1, k2, x1, x2, c1, c2, c3, b1, msg

OneCheck == <<k1>>
TwoChecks == <<k1, k2>>
SameMessages == [x \in Keys |-> msg]

\* Anything the checks may say.
AnySemantics == [Checks -> [Parsable -> [Keys -> Verdicts]]]

\* The violations of the first check are all fixable; the second's are anything.
FixableFirst == {f \in AnySemantics : \A c \in Parsable, x \in Keys : f[k1][c][x] # "open"}

\* ... and no content has more than three.
UpToThree ==
  {f \in FixableFirst : \A c \in Parsable :
     Cardinality({w \in Checks \X Keys : f[w[1]][c][w[2]] # "absent"}) <= 3}

\* No definition tells contents, violations with the same message, or processes apart.
Symmetric == Permutations(Parsable) \cup Permutations(Keys) \cup Permutations(Procs)
================================================================================
