# ruff-extra-rules: a TLA+ model

ruff-extra-rules (`src/pre_commit_hooks`) runs twelve AST rules over Python files, optionally fixes
what they find, and is meant to be called over and over, often concurrently, by pre-commit, editors and
CI. Two kinds of things are hard to get right in it, and both are modelled here:

* what is *around* the rules: a result cache shared by processes, fixers that rewrite a file others may
  be writing, a report that must agree with the file a sequence of fixes leaves behind, a background `ty`
  daemon that all invocations in a repository share;
* what some rules *claim*: that a `d.get(k)` is redundant, that an assignment may be inlined or moved,
  that a name may be replaced, that a comment may be moved or a suppression removed. Each such rule is
  modelled next to the program it judges, and the two are compared.

All paths below are relative to `src/src/pre_commit_hooks` (rules in `ast_checks`), documents to
`src/docs`. `PROJECT.json` lists the components, the runs, what every definition translates, and every
hazard at the line where it bites.

## 1. The system

| Component | State it keeps | Operations | Interacts with | What is hard | Modules |
|---|---|---|---|---|---|
| Advisory lock (`_filelock.py`) | an `flock` per lock file | acquire, poll to a deadline, release | cache, fix engine, daemon spawn | holder killed or stalled; a deadline passing as the lock is freed | inside its users |
| Result cache (`_cache.py`) | a JSON blob per source file: version, hash, mtime, size, one entry per configuration ("hook") | `get_cached_result`, `set_cached_result` | lock, orchestrator | read-modify-write by several processes; edits between stat, analysis and hash; crash and damage | `ResultCache`, `ResultStore`, `ResultCacheStore` |
| Fix engine (`_orchestrator.py` `_check_file_locked`, `_apply_fixes`; `_base.py` `atomic_write_text`) | the file; violations with outcomes; `file_changed`, `externally_modified` | check, select, fix, compare, rename, verify, refresh, attribute | fix lock, fixers, cache | edits at any step; fixes that move other checks' violations; a step failing half-way | `FixEngine` |
| File run, diagnostics (`_orchestrator.py` `process_files`, `_process_single_file`, `_reconcile_direct_inputs`; `_diagnostics.py`) | results per file, failures, unavailable checks | choose checks, hit plus always-rerun checks, audit, reconcile, exit code | cache, fix engine, `ty` session | results replaced after the fact; what was not run must not look clean | `FileRun` |
| ty daemon life cycle (`redundant_type_conversion/daemon.py`) | socket and pid files, spawn lock, processes | connect, probe, spawn, bind, idle exit, clean-up, shut down | clients in other processes | unlocked clean-up against a new daemon's bind; idle exit against a connection | `TyDaemon` |
| ty session (`daemon.py` `_handle_connection`, `session.py`) | session lock, open documents, cached redundancies, direct-input digests | analysis transaction, cache, reconcile | LSP client, all hook processes | a client lost inside a transaction; other clients' inputs and results | `TySession` |
| LSP client (`_lsp.py`) | pending requests, connection flag | request, notify, reader thread, close | `ty server` | late answers, connection loss during registration | `LspClient` |
| Suppressions (`_base.py`, `unused_pytriage.py`) and misplaced-comment | none | format suppression, usage audit, moving comments | all rules | a suppression that looks unused and is not | `Suppressions` |
| redundant-dict-get | facts about names, roots and keys | visit statements | - | joins, loops, aliases | `DictGet` |
| redundant-assignment | tracked uses and rebindings | judge, inline | - | evaluation order, loops, closures | `RedundantAssignment` |
| defined-far-from-use | exits, effects, bindings per block | find a move | - | what a move skips, and what it changes places with | `DefinedFarFromUse` |
| meaningless-vars | bindings per scope | plan names, rename | - | Python's scopes | `MeaninglessVars` |
| Configuration, file discovery, process entry | none | parse, merge, list files | command line | - | not modelled (section 9) |
| Other AST rules, release scripts, benchmarks | none | - | - | - | not modelled (section 9) |

Processes meet in three places: the blob of the cache (under its lock), the source file (under the fix
lock, but editors do not take it), and the `ty` daemon (socket, pid file, spawn lock, then the session
lock). Each place has a module of its own in which everything else is a parameter: `FixEngine` and
`FileRun` take what a check finds as an arbitrary function of the text; `FileRun` takes the cache as
what `ResultStore` says it is and a fix as one step; `TyDaemon` takes a session as something that lasts
until the client closes it, and `TySession` takes the connection as given.

## 2. Order of work

The modules were written in this order, the shared state first: `ResultCache`, `FixEngine`, `TyDaemon`,
`TySession`, `LspClient`, `FileRun`, the rules (`DictGet`, `RedundantAssignment`, `DefinedFarFromUse`,
`Suppressions`, `MeaninglessVars`), then the abstract store `ResultStore` with the refinement
`ResultCacheStore`. `MC*` modules give a module its small instances and add nothing else. `*Proofs`
modules hold theorems. Still worth doing: the repository-wide reference search of
validate-function-name; type parameters and deferred annotations in `MeaninglessVars`.

*Settings and grammars.* One run of a module covers several situations: a module takes a CONSTANT
`Settings` (or `Grammars`), a function from names to records of parameters, and a variable that is chosen
at the start and never changes. The operators `MaxEdits == Settings[setting].edits` and so on read it. A
"grammar" is the set of statements (occurrences, lines) of which the programs of a behaviour are made,
with a length and a depth; TLC then writes every program of the grammar.

*Conjunctions.* Some properties are conjunctions of named parts that ask one question of the system. The
parts are defined, and commented, each by itself.

## 3. The cache

### ResultCache

One source file (`content`, `mtime`; its size is `SizeOf[content]`), the blob (`Absent`, `Corrupt` or a
record with the code's fields), the holder of the flock, and per process the locals of the call it is in:
`job` (hook and cache version), `stat`, `hash`, `data` (the loaded or merged blob), `source` (the content
analysed), `answer`. `seen` is a history variable: the contents the file had during the lookup.

Every access to shared state is a step. `Begin, CheckExists, Acquire, LoadForGet, HashForGet,
WriteForGet, TakeHit` are `get_cached_result`; `Analyse` stands for the orchestrator's own read and
analysis; `StatForSet, HashForSet, Acquire, LoadForSet, WriteForSet` are `set_cached_result`. `TimeOut`
is the `TimeoutError` of `locked`, `IoError` any other `OSError`: both calls swallow them, so a lookup
becomes a miss and a store is given up. `Crash` kills the process (the kernel drops the flock), `Edit`
is any writer of the source file, `Damage` a blob that became unreadable, `ClearCache` the deletion of
the cache directory. A cached result is abstracted to the content it was computed from. The content hash
is taken as collision-free.

`Coarse` says whether an edit may leave the timestamp as it was. The run and the theorem about hits have
`Coarse = FALSE`; section 8 says what happens otherwise.

### ResultStore and the refinement

`ResultStore` is what a caller may rely on: a set of entries that may lose members at any moment, answers
a question with an entry of the same hook and version filed for a content the file had since the question
was asked, and forgets, when an entry is filed, all that was filed for another content or version. It
knows no blob, stat, timestamp, hash or lock. `ResultCacheStore` maps the one to the other: the entries of
the blob are the store (`Kept`), a process's program counter is how far its call has come (`PhaseOf`).
Two details of the code show in `Kept`: a blob damaged while a process is inside with a loaded copy is
only lost if that process fails to write it back, and a merge in memory is not in the store before the
rename. `StoreImplemented` is `Store!Spec` as a property of the run.

| Run | Instance | Shows |
|---|---|---|
| `ResultCache` | 2 processes, 2 contents of the same size, 2 hooks, 2 versions (the constraint `ThreeJobs` leaves out the fourth pair), 1 edit, 1 crash, time-outs, damage | types, lock, entries filed under the blob's identity, hits current, no sibling lost by a merge, every call ends, and the refinement |

*Bounds.* A process meets the others only through the blob and the lock, so two suffice for every race.
One advance of the clock (`MaxTime = 1`) gives a file before and after an edit; the clock only orders
edits. Three jobs share a hook, a version or neither. All properties but liveness are proved for every
value of the constants. *Fairness:* a process that has begun a call is scheduled (`WF` of `Proceed(p)`);
nothing obliges anyone to begin a call, fail or edit. A waiter's deadline is part of `Proceed`, so the
lock needs no fairness of its own.

## 4. Fixing and reporting

### FixEngine

One file in fix mode. `finds` is what the checks say of each content: per check and violation identity
(position and message), absent, open or fixable. It is chosen once per behaviour from `Semantics`.
`run[p]` is process p: `pc` and the index `at` of the check whose turn it is, the text `base` a fix is
computed from, the `fresh` fixable violations, their `outcome`s, the `draft` to be written and the
violations it `claim`s to fix, and the result so far: `entries`, the `initial` findings, the flags
`changed` (`file_changed`) and `external` (`externally_modified`), and the `failed` checks. An entry's
`initial` field stands for the object identity the code compares with `id()`. `cached` is the last
stored result. `late`, `foreign`, `decided` and `missed` are history variables: an editor has written since
p's last comparison, somebody else has written since p checked the file, the terminal outcomes p has
recorded, and what p did not notice of its own writes.

| Action | Code |
|---|---|
| `Lock`, `LockTimeout` | `_check_file_with_lifecycle` |
| `CheckFile` | `_check_file_locked`, up to `_apply_fixes` |
| `Skip`, `Select` | the head of the loop of `_apply_fixes`: re-read, check again, keep the fixable ones |
| `Fix` | `fix()` of a rule that writes once: decline, raise, have its draft rejected, or go on to write |
| `FixNext`, `FixedAll` | `fix()` of validate-function-name: each rename reads and writes the file |
| `Compare`, `Rename` | `atomic_write_text` after its `compile()` |
| `Verify` | `_mark_resolved_and_get_still_present` and what follows it |
| `Finish` | the end of `_apply_fixes`: `_refresh_stale_positions`, `_record_indirect_resolutions`, lock release |
| `Store` | `_cache_violations`, with the file hashed as it is then |
| `Edit`, `Crash` | another writer of the file; a killed process |

What a fixer proposes is any content, with as many violations as there may be, and it may claim any non-empty
part of its violations. `MayRaise` lets every check, fixer and file operation fail; both runs have it.
`_apply_fixes` takes the file for changed when the check that was fixed has fewer violations afterwards
(`_orchestrator.py:851`). A fix that wrote something and after which there are as many, or after which the file
cannot be read or the check raises, is not noticed that way: `Observed` records it as `"fix" \in missed[p]`, and
`Unnoticed(p)` says that no other fix of the run was noticed either. What such a run reports and stores is stale
in the code too (section 8), so the three properties about reports except exactly these runs; a fix that lands
without being noticed beside one that is noticed is within them. `"end" \in missed[p]` is the last read of
`_refresh_stale_positions` that fails, which leaves no trace (`_orchestrator.py:874`); only `OpenIsPresent`
excepts it. The fix lock is assumed available (as it is wherever `fcntl` is).

| Run | Instance | Shows |
|---|---|---|
| `FixEngine_report` | 1 process, 2 checks (the second writes per violation), 2 violations, 3 contents, every verdict with up to three violations on a content, everything may raise, nobody else writes | unless the run's writes went unnoticed: open entries are in the final file; no violation vanishes from the report |
| `FixEngine_faults` | 2 processes, 2 checks, 1 violation each, 2 contents and an unparsable one, 1 edit, everything may fail | what is stored is what all checks find in the file; failed outcomes reach the report; a detected edit stops attribution; one fixer at a time; no lost edit; no fixer breaks the file |

*Bounds.* Two checks are the least in which one's fix disturbs the other's violations; two violations the
least in which one moves or stays while the other is fixed; three contents allow one fix by each check.
`FixEngine_report` quantifies over every verdict function of that size, but for contents in which both checks
report both violations; fixes that keep the count, or raise it, are among them. In `FixEngine_faults` the first
check's violations are fixable. Every comparison is against the text read for that write, so one edit suffices. *Symmetry* permutes contents, violations with one message and
processes, which no definition tells apart. `FixCounts` assumes what `ALL_CHECKS` (`ast_checks/__init__.py`)
and Python give: a check is listed once, and a file has finitely many violations. No liveness is claimed: the loop over checks is bounded and the lock has a deadline. `Over` is the
stuttering of a system whose processes are all through, so deadlock is checked everywhere else.

### FileRun

A run of the orchestrator over one file, and several runs after each other that share the cache; between
runs the file may be edited, and the choice of checks changes. `facts[c][t]` is what check `c` makes of
text `t`: whether its prefilter pattern matches, whether it reports something, whether a comment names its
code, whether that comment suppresses something; it is any function a text can have.

`Start` is `_checks_by_file` with the prefilter and the ignored checks; `Lookup` the cache lookup;
`CheckAlways` what is run beside a hit; `CheckAll` and `CheckOthers` a miss. All three call `_check_file`:
`CheckFile` and `Pass` are the first look at the text and the fixes that follow it. After `Unnoticed` the file counts
as unchanged: no fix, fixes that decline, fail or raise, or one that landed and that the count does not show.
After `Noticed` it counts as changed: open findings are looked for again, unless the file cannot be read or a
check raises then (`Fixed`), and the audit is made again, unless the file cannot be read or parsed, or the audit
raises; checks may raise or be unavailable in that pass too (`Again`, `Refreshed`). `Use` is what becomes of the
result, with the store (`Store`); `RecordOnly` a file of which nothing is checked (the cached result is the result, and the input is
recorded all the same); `Reconcile` the second
pass over files a changed input affects; `Report` the exit code of `_diagnostics.report`. Every check may
fail or be unavailable at each of these.

Some failures leave an older finding or audit in the result, and no failure on record. A history variable, the
`doubt` of a result, marks them, goes with the result into the cache and out of it, and is all that the properties
except: `"unseen"` is a fix taken for none; `"left"` are open findings that were not looked at again after a fix,
because the read failed (`_orchestrator.py:874-881`) or because they are of the checks run beside a hit, whose fix made
the others run after all and change the text again (`:354-367`); `"audit"` is an audit that was not made again
(`:720-722`), or, in that second pass, one that was given old usages or counted a check as active that then raised; `"untold"` is an entry stored, for a text with comments, by a run
without the audit, whose usages nobody asked for (`:665`). A check that raises or is unavailable in the repeated
look (`:731-733`, `:883-892`) is on record in the run, and the properties hold with it.

| Run | Instance | Shows |
|---|---|---|
| `FileRun` | 2 runs, 2 texts, five sets of checks: a cacheable check with a fixer, a never-cached one and the audit; the same with a fixer on the latter; that beside two cacheable ones; two cacheable ones with every choice of ignored checks; comments of two cacheable checks that come and go, in runs with the audit and without | but for the doubts named: `ReportExact` (open findings are in the text, the audit is right and complete), `ExitHonest` (0 means nothing is left unsaid), `CacheComplete` (nothing of a failed, unavailable or left-out check is stored) |

*Bounds.* Two runs are one that stores and one that takes; two texts, which symmetry permutes, are before and after
an edit or fix. `ExitHonest` and `CacheComplete` except `"unseen"` only; the parts of `ReportExact` those of the four
that concern them, and each of these exceptions is needed: without it TLC finds the situation in this run.
`introduces` says whether a fix beside a hit may bring the pattern of a cacheable check into a text it was not
in; the run has it `FALSE` (section 8). A check that reconciles has no fixer: `redundant-type-conversion`, the
only one, reports nothing it could fix. Everything the run checks is proved for any checks, texts and number of runs
(section 7).

## 5. The ty daemon

### TyDaemon

Daemons are processes with ids given in order. `sock` and `pid` say whose socket is at the socket path and
whom the pid file names, `lock` who has the spawn lock, `dm[d]` where a daemon is in `_serve`,
`_accept_loop` and `cleanup`, `cl[c]` where a hook process is in `connect`, `probe_existing`,
`shutdown_if_running`, `_spawn_daemon` and `_kill_spawn_attempt`, `conns` the connections with their state.
`identity` is what `_daemon_identity` returns now; it may change (`ty` is upgraded) while processes that
computed the old one go on. Every unlink, read of the pid file, liveness test, bind, listen and accept is a
step, and every time-out is a choice a setting allows (`slow`).

| Setting | Situation |
|---|---|
| `calm` | two processes connect; at first no daemon, a running one, or a dead one's files |
| `late` | answers come after their time-outs, starts fail, and the first daemon may be killed |
| `failing` | starts fail, and one of the two processes only probes for a daemon |
| `upgraded` | the identity changes under processes and daemon |
| `killed` | a process asks for the shutdown; the other and the first daemon may be killed |

`DaemonsAgree` joins `OneStarting`, `NoCompetitors`, `SocketCredited` and `SessionMatches` (nobody gets a
session with a daemon of another identity); `Reachable` says a serving daemon is the one at the path;
`NothingLeft` that the files are gone when everybody ended by himself; `EverybodyEnds` joins `CallsEnd` and
`DaemonsEnd`. Three of them need a condition, and section 8 shows what happens without it: `OneStarting`
that no process is killed while another may start a daemon (`SpawnersLive`); `NoCompetitors`,
`SocketCredited` and `Reachable` that there is one identity and all processes connect and live (`Orderly`;
daemons may still be killed, starts fail and answers be late); `NothingLeft` that nothing is killed or too
late, and that a start which fails does not find a dead daemon's files. Within them all safety properties
are proved for any number of processes, daemons, identities and attempts.

*Bounds.* Two processes and three daemons: one that leaves, one that starts, one that replaces it.
*Fairness:* `WF` of every process and daemon, because the operating system schedules them and each of their
waits has a deadline, and `SF` of `IdleExit`: a daemon whose accept times out again and again with nobody
connected has its idle deadline pass, however often it goes round the loop.

### TySession

The session as the daemon keeps it for all hook processes, the request loop with its lock, and what a hook
process asks of it. `ty` is external: it answers from the text of open documents and, for other files,
from the file as it was when it was last told of a change. What it finds in a file is represented by the
texts it looked at (`seen`), so "fresh" means "of the texts as they are". `doc`, `known`, `coming` are
`ty`'s; `dirty`, `cache`, `identity`, `direct`, `reconciled` the session's; `lock` the accept loop's. An
analysis opens, takes a baseline, rewrites, pulls, and puts the text back in its `finally`.

| Setting | Situation |
|---|---|
| `again` | one process runs three times, files and configuration change in between |
| `sharing` | two processes share the session and a file |
| `faulty`, `failing` | `ty` fails, a process may be killed or dropped inside a transaction |
| `private` | a session of one process, which keeps nothing open |

A private session's `ty` starts with its process (`RunAgain`) and ends with it. `AnalysesApart` joins
`BaselineComparable`, `DocsReal` (for processes nobody kills) and `PrivateForgets`; `CacheFresh` and
`ReportsFresh` are about a process alone that is not killed, with a `ty` that answers (`Alone`): the same
files in each of its runs, in any order. `ChangeKept` says a recorded input is forgotten only
when `ty` was told of it; `RunsEnd` that every run ends, whoever is lost inside a transaction. *Bounds:* two
files, one depending on the other, two texts each, are the least in which an input can change; the safety
properties are proved for any files, dependencies, texts and processes.
*Fairness:* `WF` of every process; a worker that waits for a lost client drops it after its time-out,
which is part of the step. Its requests to `ty` have deadlines; a write into the full pipe of a `ty` that lives and
does not read has none (`LspClient`), and is taken to end here and in `TyDaemon`.

### LspClient

The thread that makes requests, the reader thread, the closing of the process, and a server that answers in
order but late or never, dies, writes what is no message, and sends notifications and requests of its own
with any id. The lock around `_pending` makes registration and look-up steps; a box is filled outside of
it, which is a step of its own (`Put`), as is the failing of each pending request (`Lose`, `Fail`).
`RequestsApart` joins `AnswerIsMine`, `NoneLeft` and `ServerGone`; `BarrierHolds` is what
`reconcile_direct_inputs` relies on: an answer proves that every notification sent before it was handed on;
a message is written at once, or the caller waits in the write until the server has read enough (`blocked`, `Unblock`),
or the pipe is broken (`BrokenPipe`). `CallsEnd` needs nothing of the server: its only exception is a call that
is blocked in the write to a server that lives, for that write has no deadline (`_lsp.py:205`). *Bounds:* two requests and the shutdown's, two notifications; the
safety properties are proved for any number. *Fairness:* `WF` of the two threads.

## 6. The rules

A behaviour of these modules writes a program of a grammar, statement by statement, and then does what the
rule does and what Python does. What Python does is external and modelled from the language.

| Run | Programs | Shows |
|---|---|---|
| `DictGet` | up to 5 or 6 statements: dicts, aliases, collections, deletions, calls, `if`, `match`, `try`, `for` and opaque blocks; four grammars | `BeliefsHold`: a key the analyser would report is there, names with one root mean one object, nothing is believed of an object no name means |
| `RedundantAssignment` | function bodies of up to 4 to 6 statements: assignments, calls, closures that read or rebind the variable and names besides, suspensions, branches, loops; five grammars | `SameToOthers`: the function tells its callers and callees the same before and after any inlining the analyser allows, in up to two passes |
| `DefinedFarFromUse` | function bodies of up to 5 to 8 statements: values of every kind, all ways out of a block, `try` with what it catches, a handler's name read after it, the aggressive level; four grammars | `SameValues`: after the reported move every statement sees the same; `ExitsAreExits`: what the message calls an exit leaves its statement |
| `Suppressions` | files of 5 lines with format toggles, skips, brackets and comments that are pragmas or attribute comments (`#:`); of 3 lines with findings and directives | `FormatAsDocumented`; `SuppressionsKept` (nothing a formatter may not touch is rewritten, and removing all codes the audit lists brings no report back); `Settles` (the fix, applied again and again, comes to an end) |
| `MeaninglessVars` | one name all over three nested scopes of every kind, bodies and heads; several names to be given at once, with suppressed lines | `RenameSound`: two occurrences are one variable after the rename just when they were before; `LeavesFewer`: each run leaves fewer |

`DictGet` runs the analyser and Python together: `abs` is the code's `_State` (roots, dicts, required keys,
collections, relations, present names), `env` and `heap` what is so, `mode` whether Python is here, since a
branch that is not executed is visited all the same. `blocks` holds what the code keeps in its call stack:
the state before a branch, the states to be joined. `RedundantAssignment` and `DefinedFarFromUse` keep the
program (`prog`) with what the visitor records of the place of a statement, judge an assignment by the
code's conditions, one named operator each, and execute original and changed text side by side (`one`,
`two`), choosing every undetermined outcome once for both. `Suppressions` keeps the scanner's state (`scan`)
and the lines; a fix makes a block of one line or two of every line (`Rewritten`) and puts the blocks one after the
other (`Flattened`). The removal of codes (`Cleared`) is that of a reader who follows the audit, which has no fixer. `MeaninglessVars` has scopes and occurrences; `HomeOf` is Python's scoping rule (external),
`Plan` the names to be given, `Renames` what the fix writes over.

*Bounds.* Program lengths are the least at which all the pieces a judgement combines fit: an assignment,
its use, something in between that matters, and the blocks around them. Each grammar holds the statements
of one theme. A program need not be completed, so deadlock is not checked in these runs. `Settles` assumes
`WF` of the steps of the tool itself: the scan, the check and the fix run when they are called, and the
property speaks of calling them repeatedly.

## 7. What is proved

Every theorem holds for all values of the constants that satisfy the named assumptions of its module; TLC
evaluates those on every run.

| Theorem | Property | Argument |
|---|---|---|
| `ResultCacheProofs!TypeCorrect` | `TypeOK` | one step per action |
| `ResultCacheProofs!LockIsDisciplined` | `LockDiscipline` | inductive with `TypeOK`: only a free lock is taken, every exit of the critical section, errors included, gives it back |
| `ResultCacheProofs!EntriesStayFiled` | `EntriesMatchBlob` | by `FiledInv` |
| `ResultCacheProofs!SiblingsAreKept` | `NoSiblingLost` | by `MergeInv` |
| `ResultCacheProofs!HitsAreCurrent` | `HitIsCurrent` | by `HitInv`, assuming `Coarse = FALSE` |
| `ResultCacheProofs!CacheIsAStore` | `StoreImplemented` | the refinement: by `StoreInv` and `HitsAreCurrent`, assuming `Coarse = FALSE` |
| `FixEngineProofs!TypeCorrect` | `TypeOK` | one step per action; `Ready` is part of it |
| `FixEngineProofs!FixersAreAlone` | `OneFixer` | inductive with `TypeOK` |
| `FixEngineProofs!EditsAreKept` | `NoLostEdit` | by `WriteInv` |
| `FixEngineProofs!FixesKeepValidity` | `FixKeepsValid` | by `WriteInv` |
| `FixEngineProofs!DecisionsAreKept` | `TerminalKept` | by `Decided` |
| `FixEngineProofs!AbortsStandAlone` | `AbortAttributesNothing` | by `Attributed` |
| `FixEngineProofs!OpenIsThere` | `OpenIsPresent` | by `Faithful` |
| `FixEngineProofs!NothingVanishes` | `NoneVanishes` | by `Faithful` |
| `FixEngineProofs!StoredIsFresh` | `CachedIsFresh` | by `Faithful` |
| `LspClientProofs!Apart` | `RequestsApart` | by `TypeInv`, `CallInv`, `IdInv` |
| `LspClientProofs!Barrier` | `BarrierHolds` | by `StreamInv` |
| `TySessionProofs!TypeCorrect` | `TypeOK` | one step per action |
| `TySessionProofs!AnalysesAreApart` | `AnalysesApart` | by `AnalysisInv` |
| `TySessionProofs!ChangesAreKept` | `ChangeKept` | action by action, from `TakenInv` |
| `TySessionProofs!CachesAreFresh` | `CacheFresh` | by `LoneInv` |
| `TySessionProofs!ReportsAreFresh` | `ReportsFresh` | by `LoneInv` |
| `TyDaemonProofs!TypeCorrect` | `TypeOK` | one step per action |
| `TyDaemonProofs!NoDaemonIsDoubled` | `DaemonsAgree` | by `ClientInv`, `StartInv`, `ConnsInv`, `OrderlyInv` |
| `TyDaemonProofs!ServingIsReachable` | `Reachable` | by `OrderlyInv` |
| `TyDaemonProofs!FilesAreRemoved` | `NothingLeft` | by `WaitInv`, `FilesInv` |
| `FileRunProofs!TypeCorrect` | `TypeOK` | one step per action |
| `FileRunProofs!OnlyCompleteIsStored` | `CacheComplete` | by `FreshInv`, assuming `NothingIntroduced` |
| `FileRunProofs!ZeroIsHonest` | `ExitHonest` | by `FreshInv`, `HitInv` and `ToldInv`, under the same assumption |
| `DictGetProofs!CarefulBeliefsHold` | `Careful => BeliefsHold` | by `IInv`: `World`, `HereInv`, `BlocksOk`, `LoopInv` |
| `SuppressionsProofs!FormatAsDocumentedHolds` | `FormatAsDocumented` | by `FileInv`, `ScanInv`, `KnownInv` |
| `SuppressionsProofs!SuppressionsKeptHolds` | `SuppressionsKept` | by `ReportInv` besides |
| `FileRunProofs!ReportsAreExact` | `ReportExact` | by `SaidInv`, `ChoiceInv` and `AuditInv` besides, assuming `NothingIntroduced` |

*ResultCache.* The properties are not inductive by themselves. `FiledInv` adds that what a process has
loaded or is about to write is filed under its own hash and version: `EntriesMatchBlob` speaks of the file
only, and the next write could otherwise bring in anything. `MergeInv` says that between load and write
the copy in memory keeps the siblings of the blob on disk; it needs `LockDiscipline`, for it would fail if
another process could write meanwhile. `HitInv` says that the time and content recorded in a blob, or held
by a process, belong together: no write of the source file has the recorded time with another content.
`Coarse = FALSE` is where the code's trust in timestamps is stated.

*The refinement.* Initial states map to initial states; the lemma `StoreStep` maps every step to a step of
the store or to none. `CarryInv` says what a process inside the critical section carries back: a lookup
exactly the entries of the blob, a store its own entry and the siblings it kept, unless the blob was
damaged meanwhile. Without it a rename could bring entries back that the store had forgotten.

*FixEngine.* The lemma `StepEffect` reduces the fourteen actions to what matters: a process enters, stays
or leaves; the others are where they were; the file changes by a rename only; a rename follows a
comparison that found the source unchanged; a text to compare was compiled. `WriteInv` says that from the
comparison to the rename the file still holds the source of the fix, unless an editor wrote, and that the
text about to be written parses. Its step needs `OneFixer`: without the lock another fixer's rename could
come between.

What a process reports is followed by a second reduction, `StepMoves`, to twelve moves (`Moves`): finding,
passing a check by, fixing, ending a fix with an outcome per violation, closing the report, and so on.
`Decided`: what is final belongs to a check the loop is through with. A check is listed once, so no later
`Place` touches it, and the refresh skips the check because it has settled. `Attributed`: before the report is closed
nothing is attributed, and an abort on record is one that was noticed or one of a fixer that writes per
violation. `Faithful` is about a process since whose check nobody else has written (`foreign`). As long as it has
neither noticed a fix nor missed one (`Excused`), its report is exactly what all checks find (`Same`), so it may be
stored; and a fix under way has either not written yet, and then its violations are those the check finds now
(`Unwritten`), or has `"write"` among what it missed. At the end of the fix the count settles which: fewer violations
are noticed, anything else is a fix missed, and only a fix that wrote nothing leaves the report exact. A run that has
noticed a fix stores nothing; it is refreshed, which makes what it lists as open present (`RefreshedIsPresent`),
unless the last read failed, and its losses are attributed, which makes it complete: a counting argument
(`AttributedIsComplete`) over the initial violations kept, those that replace others, and those attributed. Here a
missed fix does no harm, since the refresh looks at the file as it is. A check that fails is on record, and a
run with failures stores nothing, so `Exact` speaks of runs without.

*LspClient.* `CallInv`: the table holds exactly the box of the request under way. `IdInv`: an id is written
to the pipe once, and an answer to it, wherever it is (pipe, reader, box, caller), is there after its
request was read; registration gives an id none of them has. `StreamInv`: as long as the reader reads, the
pipe goes on message by message where the notifications handed on stop (`Stream`), so that an answer taken
from it has been overtaken by nothing. Nothing is assumed of the order of the server's own messages.

*FileRun.* The lemma `CheckEffect` reduces a call of `_check_file`, with all that may fail in it, to three cases:
nothing was changed, and what the checks find is reported or its absence is on record (`PlainEffect`); a fix went
unnoticed, and the result is in doubt (`UnseenEffect`); or a fix was noticed and says so (`FixEffect`). `FreshInv` carries what the prefilter left out from the start of a run to
the store: a check that is not asked has no pattern in the text. `HitInv` says that what is kept of a hit is all
its checks find, which is `CacheComplete` at the look-up. `ToldInv` is exit code 0 before the report: a run in
which nothing failed, and whose report holds nothing that reconciliation could not still replace, has a
violation of every check that finds something. The clause about what reconciliation may replace is what makes it
inductive: the report of a fix stays, that of a dependent check may go, and it goes for a newer verdict.
`SaidInv` is the other direction: what is reported as open, and is not in doubt (`Sure`), is in the text. `Seen` says
what a pass has looked at for the audit: after a noticed fix the new text (`Refreshed`), or the result is in doubt.
`UsedAt` says of usages that they are those of one text, for a set of checks, unless comments were not judged
(`"untold"`). The audit of a miss is right by that alone. That of a hit mixes stored usages with those of the checks
run beside it (`AuditSays`); what is stored is of the text (`UsagesInv`), and after a fix beside a hit only the usages
of the checks that gave a result in that pass are kept (`KeptInv`), so that neither brings in a comment of another
text. `ChoiceInv` says which checks were asked. `NothingIntroduced`, a setting with `introduces` has no never-cached
check with a fixer, is the only assumption; no never-cached rule has a fixer today.

*TySession.* `AnalysisInv`: who is inside a transaction has the lock (a private session needs none), a document
with a rewritten text belongs to an analysis under way, and at its end holds the file's text again.
`TakenInv`: the inputs a reconciliation has taken are still the changed ones when it speaks to `ty`. The
freshness theorems follow one process through its runs (`LoneInv`, of two halves for the shared and the
private session). A result need not be fresh at every moment: `FreshInv` says that it is what `ty` would say of
the texts the files will have when the analysis at hand is over (`Settled`), *or* that `ty` will yet be told
of an input (`Due`), or the notification of it is still coming (`Awaited`), or the file is checked again in the second pass
(`CheckedAgain`). `TextInv` and `InputInv` are what makes `Due` true: every changed file of the batch is
recorded, and what is recorded and differs is told. At the end nothing is due.

*TyDaemon.* `ClientInv`: who may start a daemon holds the lock from the attempt under it to the end of the
call. `StartInv`: a daemon that starts has a parent that waits for it or was killed; so two that start would
have two holders of the lock, or one left behind. `OrderlyInv`: when a client is about to spawn, nobody is
alive, because the liveness test under the lock reads a pidfile that names every living daemon past its claim;
from the claim to the end the pidfile is that daemon's, and from its bind the socket path too. `ConnsInv` ties an
accepted connection to the identity of its daemon. `NothingLeft` needs no such order: `FilesInv` says that a
socket is never beside a foreign pidfile and that whoever owns one of them is on the way to its clean-up;
`Stale` describes the files of a dead daemon until the client or daemon that removes them comes by.

*Suppressions.* For files of any length, over any lines and rules (`GrammarsWriteFiles` only says that a grammar has
lines and a length). The documents say of a line whether it is to be left alone by looking forward and back in the
whole file (`Documented`); the scanner knows the lines it has seen. `Scanned` says what it knows after n of them:
the statement it is in (`InStatement`), the first `off` that is open (`InRegion`), whether the statement has a
`skip` yet (`HasSkip`), and, as what it has collected, the documented lines of all the statements and regions it
has *left* (`HasLeft`). The last is what makes it inductive: a line is collected only when its statement or region
ends, and from then on no later line can change whether it is documented. The end of the file ends both, since a
finished file is at the end of a statement.
`FileInv` is about the text. A fix that adds a line takes a comment off a line of brackets, so the length plus the
number of such lines with a comment never grows (`FixedSize`), though comments go from one such line to the next.
What is put together from blocks is described by where each block ends (`FlattenedLine`), and a block begins in the
file where its line began (`FixedBefore`); therefore the file stays one a scanner can read (`WellFormed`).
Suppressed lines are not rewritten: a line gives its comment to the line before, so a suppressed line could only
change by a comment from the next one, which is a line of brackets, within the same statement, and so
suppressed as well (`DocumentedNext`). For the audit, `ReportInv` says that after the reader's removal there is
nothing to report (`Shown`) that was not reported. Documented lines are not audited, so they stay
(`AuditedDocumented`); a rule finds no more than before, since a `# noqa` and a `#:` stay (`AuditedFindings`); and a finding that was
quiet stays so (`AuditedQuiet`): the first comment on its lines that has the code is recorded as used, the
audit lists later mentions only (`FirstMention`), and a mention that the audit does not read is never listed.

*redundant-dict-get.* The theorem is about careful grammars (`Careful`): those without the statements section
8 shows the analyser to be wrong about, which are a deletion through an expression that is no name, a guard, a
`finally`, `d = d`, and aliases beside collections. The grammars `paths`, `loops` and `aliases` of the run are
careful; `quiet`, which has `finally`, is not, and stays with TLC. `BeliefsHold` speaks of the state at hand,
but every state in a frame of `blocks` will be at hand again, joined with others, so the invariant speaks of
all of them. `Wf` says what any state the analyser can be in looks like, wherever Python is: what is known
belongs to a root a name has, a relation ends at a dict, and, without aliases, a root belongs to the name it
is called after. `Ok` says that what the state believes is so (`DictsOk`, `RelationsOk`, `RootsOk`); it is
required only of the states of places Python may come to from here. `HereInv` is `BeliefsHold` of the state at
hand if Python is there; `BlocksOk` says of every open statement that the state its next part starts in
(`fall`) is right if Python goes on there (`rest`), that one of the states to be joined (`paths`) is right if
Python is waiting behind it (`after`), and that Python is in one place at most. `Join` keeps what all paths
believe, so it is right wherever one of them is. `LoopInv` is about the body of a `for`, which is visited once
but runs again for each element: what its entry believes of dicts and collections survives any round as long
as no statement so far in its log invalidates it (`Invalidates`), since a name with a root at the entry is
neither bound nor mutated, and without aliases beside collections nothing else reaches its object. Last,
`NewRoot` always finds a free suffix: a name's suffixes are one more than the names.

Only model-checked: liveness (`EveryCallReturns`, `EverybodyEnds`, `RunsEnd`, `CallsEnd`, `Settles`), which
the prover does not do; `BeliefsHold` for programs with `finally` (the grammar `quiet`); and `SameToOthers`,
`SameValues`, `ExitsAreExits`, `RenameSound` and `LeavesFewer`, which compare an original with a changed
program over all of its executions, where what matters is what Python does with short programs.

## 8. Where the code and its documents disagree

Met while modelling. Each can be seen with TLC by the setting or grammar named; the runs leave these
situations out, by a guard in the property or by their instance, and say so. The grammars are in the
`Disagreements` of the MC modules (give `Grammars` that value and keep one of its names).

* Cache. `HitIsCurrent` with `Coarse = TRUE`: two writes of one size within one timestamp tick make the
  second content hit the first one's result (`_cache.py:97`); `docs/audits/0005` says the mtime is never
  trusted alone. An edit between analysis and hash files old diagnostics under the new content
  (`_cache.py:118`, `HitWasComputedFromCurrent`; accepted by ADR 0044, excluded by
  `docs/behavioral_contract.md:268`).
* Fixing. `CachedIsFresh`, `OpenIsPresent` and `NoneVanishes` without `Unnoticed`: `_apply_fixes` infers from a count
  whether the file changed (`_orchestrator.py:851`); redundant-assignment on `a = y.z; b = x; return a + b` makes `a`
  fixable while it inlines `b`, and the stale report is cached. The same happens when the file cannot be read once,
  right after a fix that landed (`:911-925`). `OpenIsPresent` without `"end"`: the read of `_refresh_stale_positions`
  fails, the findings stay at their old places and no failure is recorded (`:874-881`).
  `AbortAttributesNothing` without its exception for `Multi`: validate-function-name keeps an abort to
  itself (ADR 0053). `NothingOverwritten`: the window between comparison and rename (ADR 0042 accepts it,
  `docs/behavioral_contract.md:115` does not).
* File run. `AuditTrue` without its exceptions: a result cached by a run without the audit has no suppression
  usages and is taken by one with it (`"untold"`, `_orchestrator.py:665`), and the second pass does not repeat the audit
  (`_orchestrator.py:280`): needed comments are reported as unused. `CacheComplete` with `introduces` (setting
  `introduced` of the `Disagreements`): when a never-cached check's fix changes the file after a hit, the other
  checks are those the prefilter chose for the old text, and their result is stored for the new one
  (`_orchestrator.py:354`), so that the next run takes it as complete. And when the second pass, over the cached
  checks, fixes more, what the never-cached ones found and used before is kept as it was (`"left"`, `"audit"`), while its
  audit counts as active a check that raises only then (`:361-366`). No rule of today does that, for neither
  never-cached rule has a fixer; nor has the one that reconciles, whose second result would replace the report
  of its own fix (`_orchestrator.py:296`) and let a run that changed the file end with 0. With the rules of today:
  when the file cannot be read or parsed once after a fix, the audit's verdicts of before stay
  (`"audit"`, `:720-722`), and so do open findings (`"left"`, `:874-881`), without a failure on record. A fix that is
  not noticed (`"unseen"`, see above) leaves all of it as it was and lets its stale result be stored, so `ExitHonest`
  and `CacheComplete` except it too.
* LSP client. `CallsEnd` without its exception: `_write` has no deadline (`_lsp.py:205`), so a call blocks for as long as
  a server that lives does not read its input and the pipe is full, although the time-out of the request suggests
  otherwise.
* Daemon. `ReplacementKept` (setting `upgraded` or `killed`): a departing daemon reads the pid file and then
  unlinks, and removes its replacement's files (`daemon.py:99`, against ADR 0041). `ProbeKeepsLive` (a call
  `"probe"`): `probe_existing` cleans up without the spawn lock (`daemon.py:305`). `BusyIsAlive`: `connect`
  waits its whole budget for a daemon that has just left (`daemon.py:257`). Two daemons serve at a time, each of
  these a variant of a setting with the condition of `OneStarting`, `NoCompetitors` or `Reachable` dropped: a
  process is killed while the daemon it spawned starts, its lock is freed and another process spawns a second
  one; a probe removes a new daemon's files and the next process spawns another; with two identities, a client
  told that the daemon departs does not ask whether one is alive (`daemon.py:253`), or the departing one removes
  the files of its replacement. A dead daemon's files stay if the start that should replace it fails, until the
  next one.
* Session. A run tells `ty` of its own files only (`_orchestrator.py:284`), and the model gives a process the
  same files in each run; what other files were edited to is `ty`'s own affair. `CacheFresh` without `Alone`, two processes: a result computed before another process dropped the
  file's results is cached after it (`session.py:289`). `DocsReal` with a mortal process: a rewritten text
  stays in `ty`'s document when its client is lost (`daemon.py:503`). `DocsCurrent`, one process, three runs:
  a file edited until no candidate is left keeps its old text in the open document
  (`redundant_type_conversion/__init__.py:108`).
* redundant-dict-get (`ReportsHold`): `finally` is visited in the join of the normal ends (`local.py:291`); a
  guarded case continues in the state of the false guard (`:274`); a subscript of a subscript is no mutation
  (`:599`); a root is given out again while a name has it (`:78`), which `d = d` brings about as well; a loop
  is taken to change nothing although its body makes a new name an alias of the dict and deletes a key through
  it (`:636`). Grammars `finally`, `guarded`, `nested`, `reused`, `aliased`.
* redundant-assignment (`SameToOthers`): a loop brings a rebinding before the use; `del` is no rebinding;
  imports and the like bind unseen; a call rebinds a global; the message of an `assert` counts as evaluated;
  class bodies are not visited; two statements on a line; a global, or a name a closure rebinds, is loaded before the
  call that is moved behind it; and a closure rebinds, by `nonlocal`, the `y` of `x = y` before `x` is used, for
  rebindings are looked for in the scope of the assignment only (`analysis.py:1109`, `:1121`, `:479`, `:1101`, `:161`,
  `:572`). Grammars `looping` to `captured`.
* defined-far-from-use (`SameValues`): an import between binds the variable unseen (`analysis.py:277`); what a
  loop's body deletes at its end counts as bound in the second round (`:214`). Grammars `importing`,
  `looping`.
* misplaced-comment: a comment moved into a string of several lines (`StringsKept`, grammar `strings`,
  `misplaced_comment.py:206`); a `# pytriage` comment moved off the line it is for (`SilencesNothing`, grammar
  `pragmas`, `:106`).
* meaningless-vars (`SameBindings`): `from . import data` binds nothing (`analysis.py:179`); a name in the
  target of a comprehension counts as bound by it (`meaningless_vars.py:184`); `eval` in a comprehension is
  not seen (`analysis.py:150`); a form feed shifts the lines (`meaningless_vars.py:501`). Grammars `relative`,
  `target`, `evaluated`, `broken`. `OneRunIsEnough` (grammar `planned`): a second run renames more
  (`analysis.py:388`, against ADR 0025).

## 9. Not modelled

* Configuration, file discovery, globs, process entry: functions from the command line, a TOML table and
  git's output to values read once before a run; they keep no state, and their outcome is a constant of the
  modules.
* validate-function-name's analysis and its repository-wide search, and the remaining rules (pattern
  matching over the AST without state): their verdict is an arbitrary function in `FixEngine` and `FileRun`.
  For the modelled rules: names are judged by one fixed wish in `MeaninglessVars` (the evidence they are
  derived from is left out), the score and the line lengths of redundant-assignment are any choice,
  arithmetic, shadowed builtins and captured variables are left out of `DefinedFarFromUse`, TypedDict
  declarations of `DictGet` (a parameter's required keys are given).
* Details: hash collisions, file metadata, the layout of diagnostics, the framing of messages and the
  draining of stderr in `LspClient`, a failing `record_direct_input` in `FileRun` (it only adds to the
  failures), `forget_direct_input` in `TySession`.
* Where lines end: misplaced-comment splits the text by `str.splitlines` (`misplaced_comment.py:188`), which also ends a
  line at a form feed, U+0085 or U+2028, while its findings are numbered by the tokenizer; `Suppressions` has one kind of
  line, so a file with such a character in it is outside of it.
* Release scripts and benchmarks are not part of the program.
