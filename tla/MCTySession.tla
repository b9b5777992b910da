----------------------------- MODULE MCTySession -----------------------------
(* Instances of TySession: file a depends on file b. *)
EXTENDS TySession

CONSTANTS c1, c2

ADependsOnB == [f \in Files |-> IF f = "a" THEN {"b"} ELSE {}]

Both(first, second) == [c \in Clients |-> IF c = c1 THEN first ELSE second]

\* One process runs three times, while the files and ty's configuration change between.
Again == [batch |-> Both(Files, {}), key |-> Both("normal", "normal"), candidates |-> Files \X Texts,
          keepOpen |-> TRUE, runs |-> Both(3, 0), edits |-> 2, contexts |-> 1,
          flaky |-> FALSE, mortal |-> {}]

\* Two processes share the session and file a.
Sharing == [Again EXCEPT !.batch = Both({"a"}, Files), !.runs = Both(1, 1), !.edits = 0,
                         !.contexts = 0]

\* ty fails, and a process may be killed.
Faulty == [Sharing EXCEPT !.batch = Both({"a"}, {"b"}), !.flaky = TRUE, !.mortal = {c1},
                          !.candidates = (Files \X Texts) \ {<<"b", "t2">>}]

\* Two processes check file a while ty fails.
Failing == [Sharing EXCEPT !.flaky = TRUE, !.batch = Both({"a"}, {"a"})]

\* A process with a session of its own.
Private == [Again EXCEPT !.keepOpen = FALSE, !.runs = Both(2, 0), !.edits = 1, !.flaky = TRUE,
                         !.candidates = (Files \X Texts) \ {<<"b", "t2">>}]

MCSettings ==
  [again |-> Again, sharing |-> Sharing, faulty |-> Faulty, failing |-> Failing, private |-> Private]
=============================================================================
