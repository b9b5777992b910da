----------------------------- MODULE MCTyDaemon -----------------------------
(* Instances of TyDaemon: two hook processes in the situations they may meet. *)
EXTENDS TyDaemon

CONSTANTS c1, c2

Both(first, second) == [c \in Clients |-> IF c = c2 THEN second ELSE first]

Calm == [calls |-> Both("connect", "connect"), identities |-> {"i1"}, upgrades |-> 0, tries |-> 2,
         slow |-> FALSE, faulty |-> FALSE, mortal |-> {}, starts |-> {"none", "running", "stale"}]

\* Answers come too late, starts fail, and a daemon may be killed.
Late == [Calm EXCEPT !.tries = 1, !.slow = TRUE, !.faulty = TRUE, !.mortal = {1}, !.starts = {"none"}]

\* Starts fail and an existing daemon is probed for.
Failing == [Calm EXCEPT !.calls = Both("connect", "probe"), !.tries = 1, !.faulty = TRUE, !.starts = {"none", "running"}]

\* ty is upgraded while the processes and a daemon run.
Upgraded == [Calm EXCEPT !.identities = {"i1", "i2"}, !.upgrades = 1, !.tries = 1, !.starts = {"none"}]

\* A process asks for the shutdown; the other one and the first daemon may be killed.
Killed == [Calm EXCEPT !.calls = Both("connect", "shutdown"), !.identities = {"i1", "i2"}, !.mortal = {c1, 1}]

MCSettings == [calm |-> Calm, late |-> Late, failing |-> Failing, upgraded |-> Upgraded, killed |-> Killed]
=============================================================================
