# Zhen subnet: TLA+ models and proofs

Zhen is a Bittensor subnet: a validator asks miners to calibrate building models,
re-runs what they answer against a BOPTEST emulation, scores them, and puts weights on
the chain. This directory models the parts of the repository with state, concurrency and
failure — most of the validator, the miner, the updater — and the metrics of a
calibration report, in TLA+; it checks the models with TLC and proves their safety
properties with TLAPS. Paths below are relative to `src/`.

Contents: [Inventory](#inventory) · [Plan](#plan) · [Modules](#modules) ·
[Runs](#runs) · [Fairness](#fairness) · [Proofs](#proofs) ·
[Where code and documentation part](#where-code-and-documentation-part) ·
[Observations](#observations) · [Not modelled](#not-modelled)

## Inventory

| Component | State | Operations | What is hard | What makes it correct |
|---|---|---|---|---|
| Runtime (`validator/main.py:565-918`) | three asyncio loops, `_subtensor_lock`, `_weight_commit_started_at`, `_shutdown`, the default thread pool | `_chain_op`, the gate read with retries, `_compute_and_commit_weights`, watchdog, signals, `run` | `wait_for` abandons threads it cannot stop; the pool is finite; a synchronous verification, or in local mode the ground truth, stalls every timer | no loop loses its call or stops turning; awaited chain calls are serialised; the watchdog fires when it should and not otherwise; shutdown ends |
| Challenge round (`validator/main.py:335-563`, `validator/round/`) | metagraph, UIDs and axons asked, answers, verdicts, reports | sync, split, ground truth, dispatch, parse, verify, score, insert, report | the metagraph changes under the round; pairing is by position; any step may raise | an answer is scored and reported under the miner that was asked |
| BOPTEST client (`validator/emulator/`, `validator/main.py:260-333`) | the test case it has selected | select, set step, initialise, advance, results, stop; warm-up with one retry; unit conversion, resampling | any call fails or loses its answer; the service's workers are few; recordings do not divide into hours | a test case is stopped on every path; resampling conserves energy and temperature |
| Verification (`validator/verification/engine.py`) | none kept | `verify_all`, `_verify_single` | one submission raises, the simulation is synchronous | every submission gets a verdict |
| Scoring (`scoring/engine.py`, `validator/scoring/window_ema.py`) | none kept | `compute`, `compute_window_ema` | ceilings, ranks, floors, pruning, absence and return | better is never paid less; rejected is neutral; the average is a weighted mean |
| Metrics and reports (`scoring/metrics.py`, `scoring/ashrae.py`, `scoring/report*.py`) | the report of a submission | hourly and monthly metrics, four bands, table of outputs, JSON and back | outputs without a mean, one-month windows, defaults, NaN | monthly metrics, table and bands agree; a pass on record was earned |
| Scoring database (`validator/scoring_db.py`) | SQLite file, write-ahead log, archives, one shared connection | `set_round_count`, `insert_round_scores`, `persist_report`, `cleanup_older_than`, reads; open, migrate, archive, close | two loops write through one connection; `BEGIN` stands before the `try`; the window is read row by row while others write; window and cleanup cut by the stamp of each row; kills at every step of opening, losses of power | a ledger of rounds: begun once, published whole, retired row by row when old; a window read is exact; versions never mix; nothing committed disappears but by age |
| Weight commits (`validator/weights/setter.py`, `validator/main.py:620-758`) | none kept beyond a call | gate, `set_weights`, `copy_weights_from_chain` | a submission that timed out may land later; the chain has a rate limit | weights keep flowing; the gate is right |
| Updater (`scripts/auto_update.sh`) | the working copy, what was fetched | fetch, compare, pull, restart | no command's failure is looked at; it restarts a validator at any point of its start | new code arrives; no stale code without a cause |
| Miner (`miner/`) | `_metagraph`, challenges, the thread pool | start, `blacklist_fn`, `forward`, calibrate, sync, shutdown | the gate reads list by list what the sync replaces list by list, on another thread; a synchronous sync holds the event loop | a validator in good standing is let in, a stranger is not; challenges end; so does the miner |
| Registry, RC simulation, health, alerts, start scripts | — | — | numerical or I/O | unit tests |

The components interact as follows. The **challenge loop** numbers a round in the
database, syncs the metagraph through `_chain_op`, simulates two periods on BOPTEST,
sends the training period to every serving miner, verifies and scores the answers,
writes rows and then reports. The **weight loop** polls the chain's rate limit, reads the
rows of the last 72 hours, averages them and submits; if that does not succeed it submits
a copy of the chain's weights. The **cleanup loop** deletes old rows and reports. All
three share the thread pool, the metagraph, the lock and the database connection. The
watchdog reads the time at which the current commit started. A **miner** admits or
refuses each challenge by its own copy of the metagraph and calibrates in a thread. The
**updater** restarts the validator on new code, and a new `__spec_version__` makes the
database archive itself.

The hazards this leads to are listed, each at its line, in `PROJECT.json`.

## Plan

Done:

1. `ValidatorRuntime`: loops, lock, timeouts, threads, watchdog, shutdown; its proofs.
2. `RoundLedger` (abstract), `ScoringDB` (statement by statement) implementing it; its
   proofs, the refinement included.
3. `ScoringEngine`, `WindowEma`, and `ScoreWindow`, which composes them; its proofs.
4. `WeightCommit` against the chain; its proofs.
5. `Boptest`, and `ChallengeRound`, which composes it with the metagraph and the miners;
   its proofs.
6. `DatabaseFiles`, the life of the database across starts, and `Deployment`, which
   composes it with the updater; its proofs.
7. `Miner`, with its proofs.
8. `CalibrationMetrics`, and `CalibrationReport`, from BOPTEST's samples to the report on
   record; its proofs.

Every invariant that a passing run checks is a theorem, and so is the refinement of
`RoundLedger`. Left: an abstract specification of a challenge round that
`ChallengeRound` implements, and one of what the weights on the chain promise.

## Modules

| Module | Models | State and actions |
|---|---|---|
| `ValidatorRuntime` | `validator/main.py:565-918` | `pc` is the await a loop stands at. `After` is the control flow of the loops; `Goto` is one slice of the event loop. `lockq` is the FIFO line of `asyncio.Lock`, `timer` the running `wait_for`, `queue` and `thread` the executor. `TimeOut` turns the thread of a call into an orphan (`for = "nobody"`) or cancels the queued job. `Tick` passes a unit of time; `Verifying` lets timers be served up to `MaxStall` late. `SliceTime` lets the slice after a round's metagraph sync, which in local mode simulates the ground truth after it has released the lock, take up to `MaxTruth`. |
| `RoundLedger` | what `ScoringDB` promises | `Begin`, `Publish` (all scores of a round at once, each with its own stamp), `Retire` (the rows up to some age, wherever in a round that cuts), `Pass` (time). |
| `ScoringDB` | `validator/scoring_db.py:264-465` and its callers | `live` is what the connection sees, `disk` what is committed, `inTxn` whether a transaction is open. Every statement of the four writers is an action. A loop's statements may run between those of another, because they run on different threads. `Fail` is an exception inside the `try`. Rows and reports carry the time of their own statement, and `Tick` may come between any two of them; the clock is assumed not to be set back. `StartRead`, `ReadRow` and `LeaveRead` are the weight loop's `SELECT`: its cutoff is computed once, its rows are fetched one by one along the index on `received_at`, in whatever state the connection is by then, until none is left (`Fetched`) or it raises. History variables (`recorded`, `ran`, `crashes`, `due`, `since`) only serve the properties and bounds. |
| `DatabaseFiles` | `validator/scoring_db.py:103-262, 264-297, 505-509` | `phase` is the step of `ScoringDB.__init__`; `main`, `wal` and `archives` are files, each content a record of its schema version, tables, spec version, counter and scores. A commit is one step here. The deletes of `cleanup_older_than` are not in this module but in `ScoringDB`. `Kill` may come at any step, `PowerLoss` takes some end of the log. `runs`, `written` and `undone` are history. |
| `Deployment` | `scripts/auto_update.sh` over `DatabaseFiles` | `step` is the line of the script, `checkout` the commit of the working copy, `code` the one the process was started from. Each command may fail (`FetchFails`, `PullFails`, `RestartLost`) and the script goes on. `Publish` is a push, `StartProcess` is pm2. |
| `ScoringEngine` | `scoring/engine.py` | `Compute` is `compute`, in exact integer arithmetic; non-finite metrics never reach it, because `scoring/metrics.py` drops them. |
| `WindowEma` | `validator/scoring/window_ema.py` | `Blend` takes one round; `Averages` folds it over the window. The final division by the total changes no comparison. |
| `ScoreWindow` | the two above, as rounds run and age out | `RunRound`; `AgeOut`, which takes rows of the oldest round, lowest UIDs first, as they were stamped. |
| `WeightCommit` | `validator/main.py:620-758`, `validator/weights/setter.py` | time in blocks. `call` is the submission that is awaited, `orphans` those that are not any more, `since` the chain's `blocks_since_last_update`. |
| `Boptest` | `validator/emulator/`, `validator/main.py:260-333` | `phase` is the call in flight; each may fail, and a select or a stop may take effect without an answer or answer without effect (`leaks` counts these). |
| `ChallengeRound` | `validator/main.py:335-563` over `Boptest` | `stage` is the step of the round. `chain` is who owns a UID, `metagraph` the validator's copy; `Register` changes the first, `RefreshMetagraph` (the weight loop's sync, or an abandoned one that finishes) the second, at any moment. What a miner answers is any payload of a small set, or none. With `local` the RC model makes the ground truth in one step and BOPTEST is not called. |
| `Miner` | `miner/main.py`, `miner/network/axon_handler.py`, `miner/calibration/` | `stage` and `sync` are the main thread, `gate` is `_metagraph`, `at` the place of each challenge. `CheckMember`, `FindUid` and `Judge` are the reads of `blacklist_fn`; `ReplaceKeys` and `ReplacePermits` the assignments of the SDK's sync, in either order, between any of them. Permit and stake are one flag: both lists are read by position, with the same outcome. |
| `CalibrationMetrics` | `scoring/metrics.py` | operators over sequences of integers; a metric of one output in hundredths, rounded away from zero so that it can be compared with a limit exactly; an average as a sum and a count. |
| `CalibrationReport` | `validator/emulator/manager.py:21-107, 236-278`, `validator/verification/engine.py`, `scoring/ashrae.py`, `scoring/report_builder.py`, `scoring/report.py` | `Collect` brings one output's recording to hours, `Measure` or `Refuse` is the verdict, `Score` the ceiling, `Build` or `BuildRejected` the report, `Persist` its JSON. |
| `...Proofs`: eight modules, for `ValidatorRuntime`, `ScoringDB`, `Deployment` (with `DatabaseFiles`), `ScoreWindow` (with `ScoringEngine` and `WindowEma`), `WeightCommit`, `ChallengeRound` (with `Boptest`), `Miner` and `CalibrationReport` (with `CalibrationMetrics`) | — | theorems, see [Proofs](#proofs). |
| `MC...` | — | instances for TLC. |

A definition marked *faulty* (such as `BeginInsideTry`) is not part of a model: it is a
plausible mistake in the definition that follows it. `PROJECT.json` pairs each property
with one that it detects.

## Runs

Runs that pass:

| Run | Bounds, and why they are enough | Shows |
|---|---|---|
| `RuntimeSafety` | two threads (one may wedge, so that calls queue for the other), the real timeouts in units of 30 s (1, 2, 4, 6), three attempts, a stall of one unit by a verification and one by local ground truth, two reports, two signals | `CallsAccounted`, `AwaitedCallsSerialized`, `CommitAgeBounded` |
| `RuntimeLive` | the same in units of 60 s, one attempt, no stall of either kind, one signal | `LoopsKeepTurning`, `ShutdownCompletes`, `WatchdogSilent` |
| `DBLedger` | two miners (partial inserts, reads and reports), two rounds (an older and a current one), one crash, a clock of three values, a window of the current unit and a retention of one more: a row may leave the window, be deleted, or see its round split while it is read | `TransactionOwned`, `WindowExact`, `ReportsFollowScores`, `RoundsRunOnce`, and that `ScoringDB` implements `RoundLedger` |
| `Deployment` | two commits, the second with a new spec version (an archive can happen, and be interrupted), two faults (one while another is being repaired), two rounds, with or without local commits, with or without a database of the first schema | `OneRegime`, `NothingLost`, `RunsAccounted`, `StaleCodeHasCause`, `UpdatesArrive` |
| `ScoreWindow` | three rounds of up to three miners, four results (two clean, one above the ceiling, one rejected; miners with equal results are tied), two paid ranks (someone is always unpaid), a pruning threshold high enough to be met within three rounds, a window that may end inside a round. Every mixture of results is dealt to the UIDs in one order: within a round they are interchangeable | `BetterNeverEarnsLess`, `RejectedDoNotCount`, `EmaIsWeightedMean` |
| `WeightCommit` | rate limit of three blocks and a timeout of two (both shorter and longer than a pass), two faults (first commit and fallback), one restart, submissions that stay in flight past the next gate | `RefusalHasCause`, `PassEnds`, `WeightsKeepFlowing` |
| `ChallengeRound` | local mode, or two BOPTEST workers (a leak leaves one), one advance and one output, three UIDs of which one is ours, one registration, two rounds, answers with every kind of verdict. Deadlock is not checked: rounds are bounded | `LeaksHaveCause`, `PairedResponses`, `EveryAnswerIsJudged`, `ReportsGoHome`, `ReportsNameTheAsked`, `PeriodsFit` |
| `Miner` | two senders (one with a permit at first), one thread (the second challenge waits), two changes on the chain (a UID that changes hands and a permit that goes), a sync that may fail once. Deadlock is not checked: a miner that failed or stopped is at its end | `SteadyServed`, `StrangersRefused`, `ChallengesEnd`, `ShutdownEnds`, `GateCatchesUp` |
| `Report` | a temperature and an energy; months of two hours and periods of one to four (half a month, one, one and a half, two); recordings that divide, that leave a sample over, that are too short, empty, missing, silent. The model's assumption `ExactDivisions` makes every integer division of a recording exact | `ResamplingConserves`, `MonthlyAgrees`, `TableExplainsTotals`, `PassIsEarned` |

Runs that find a violation are [below](#where-code-and-documentation-part).

The counters of wedged threads, faults, restarts, crashes, registrations, changes and
rounds, and the clock of `ScoringDB`, are bounded by constants named `Max...`. Nothing
else is bounded. `LoopsKeepTurning` holds only while a thread is left that cannot wedge:
the constants of its run say so, and with `MaxWedged = Cardinality(Workers)` it would
fail, which is what happens to a validator whose pool (min(32, CPUs + 4) threads) is
used up.

## Fairness

- `ValidatorRuntime`: the event loop serves each ready task (`WF` on each loop), the pool
  gives a queued job to an idle thread, a call that is not wedged ends, time passes, and
  the watchdog and the way out of `run` are served. Wedging, signals and the choice of
  outcomes are not fair: nothing obliges them.
- `WeightCommit`: the loop is served, the chain deals with submissions, blocks are
  produced. Faults, restarts and changes of the window are not fair. A submission that is
  neither included nor refused is covered by the loop's timeout.
- `Deployment`: the script goes on (`WF` on its commands), pm2 starts a process that is
  down, and a process that opens the database goes on opening it. Pushes, rounds,
  failures, kills and losses of power are not fair, and the last three are bounded.
- `Miner`: each thread goes on (`WF`), a running calibration ends, and a sync that does
  not hang ends. A signal is served with `SF`: syncs are ten minutes apart
  (`miner/main.py:231`), so the event loop, which serves the signal between two of them,
  is not taken by syncs for ever. Nothing obliges a signal, a challenge or a hanging sync.
- The other modules state safety only.

## Proofs

All proofs hold for every value of the constants allowed by the assumptions of their
module. Most are about shape: sets are finite, bounds are natural numbers, miners and
submissions have the fields the code gives them. Those of `CalibrationReport` say more:

- no recording, prediction or freezing point is negative, and no recorded temperature is
  below freezing. A measured mean below zero would turn the sign of the code's metrics;
- the ceiling of the CVRMSE is no lower than the 0.30 of its band (the code's is 10.0).
  Otherwise a report could be passed and above the ceiling at once;
- `ExactDivisions`: the samples of a recording share an energy evenly, and the samples of
  an hour average to a whole number. The code divides floating-point numbers; the model
  would lose the remainders, and with them `ResamplingConserves` in its exact form. The
  means of months need no such assumption: they are counted in a unit in which every
  month of the series, the short one included, divides.

`ValidatorRuntimeProofs`, about any pool of threads (finite or not) and any timeouts:

- `TypeCorrect`, `AwaitedSerialized`, `CommitAge`, `AccountsBalance`;
- `WatchdogNeverFires`, assuming `SyncTimeout + MaxTruth + CommitTimeout + MaxStall <=
  WatchdogLimit`. With 60, 120 and 180 s this is an equality without a stall: in local
  mode, or while a verification runs, the code does not leave the watchdog the room.

None but the first is inductive. The age of a commit depends on how long its task has
stood in the lock's line, so the invariant `IInv` says who is in front of it and how long
he may stay:

- `Program`: a loop only stands at locations of its own code;
- `LockLine`: the loops in a chain call are exactly those in the lock's line, once each,
  and only the first has a `wait_for` running;
- `Jobs`: a job, queued or on a thread, is the only one of a task that awaits it — also
  after a cancellation, because `wait_for` disowns the thread or removes the job;
- `Ages`: a commit that waits is at most as old as the sync in front of it plus the ground
  truth simulated after it, a commit that runs at most that plus its own timer, and only a running verification stretches a timer.

`AccountsBalance` needs one more conjunct, `Served`: whoever awaits the executor has a
job, in the queue or on a thread. With `Jobs` (at most one) this is the count that
`CallsAccounted` makes.

The proof has one lemma per action. `GotoStep` does the slice of the event loop that
`Proceed`, `TimeOut` and `FinishJob` share; `JoinLine`, `LeaveLine` and `CancelLine` are
the facts about lines of distinct tasks they rest on.

`ScoringDBProofs`, for any set of miners and any numbers of rounds, crashes and units of
time: `TransactionsOwned`, `RoundsNeverReplayed`, `ReportsAfterScores`, `ExactWindow`, and
`LedgerRefined` — `ScoringDB` implements `RoundLedger`. The invariant adds to
`TransactionOwned` what the open transaction holds that the disk does not (`Pending`: the
next counter, the rows inserted so far with their stamps, one report, or the rows past
their retention gone), how far the counter in memory may be ahead at each station
(`Progress`), and that what is on record is what was committed and is not yet past its
retention (`History`). The refinement then goes statement by statement: committing the
counter is `Begin`, committing the rows is `Publish`, committing a cleanup is `Retire` at
the cutoff its `DELETE` computed, the clock is `Pass`, and everything else, failures and
crashes included, changes nothing the ledger shows. `ExactWindow` needs `Reader`: every
committed row from the cutoff on was there when the read began or is of a later round, and
whatever is fetched is one or the other. The lemma `View` says that of what was ever
committed the connection lacks only rows past their retention, and besides them shows only
the rows of the insert in progress; so a read that has nothing left to fetch has what it
owes. A rollback, a crash or a cleanup between two rows leaves all of this true.

`DeploymentProofs`, for any sequence of commits, any spec versions, any number of faults:
`RegimesApart`, `ArchivesKeepScores`, `StaleCode`, and that a deployment implements the
specification of the files (`DSpec => Spec`). What a step of opening may do depends on
what the steps before it left behind: `Sound` says what every content on the disk is
like, `Staged` what each phase of `ScoringDB.__init__` finds — the log is empty when the
file is renamed, because closing the last connection is a checkpoint — and `Kept` names
the archives one by one. `RunsAccountedFor`, about how often a round number ran, adds
`Accounts`: for every number, those that never ran included, the runs are the archives
whose counter is past it, plus the losses of power that took it back, plus one if the
counter of the database is past it. It needs that counters only grow along the log
(`Ordered`) and that a running validator has its database's (`InStep`).

`MinerProofs`, for any number of validators, challenges, threads and changes:
`SteadyAreServed` and `StrangersStayOut`. `Fits` says of a metagraph that it names nobody
who was never registered, and has whoever kept registration and permit at the place it
always had. It says so of each list by itself, so that a mixture of two metagraphs, which
is what the gate sees in the middle of a sync, fits as well. `Judging` carries that to
the challenges between two reads.

`WeightCommitProofs`: `GateRefusal`, that the chain refuses a submission only if another
of ours was included since the gate was read, and `CommitTypes`. The strengthening `Open`
says that while a pass runs the rate limit is still met or something of ours has landed;
`Awaited` ties the awaited submission to the places that await one.

`ChallengeRoundProofs`, for any subnet, any answers, any number of rounds, newcomers and
BOPTEST workers: `RoundTypes`, `LeaksExplained`, `ResponsesPaired`, `AnswersJudged`,
`ReportsDelivered`, `ReportsNamed`, `SplitsFit`. `Service` counts what runs at BOPTEST:
the test case in hand and the leaks, nothing else. `Asked` says that no UID is asked
twice, without which a verdict under a UID would not tell which answer it is about;
`Judged` follows the answers to the verdicts, `Named` the metagraph's names of those who
were asked, and `Filed` what becomes of both in a report.

`ScoreWindowProofs`, for any miners, submissions, ceiling, number of paid ranks, pruning
threshold and length of the window: `BetterEarnsNoLess`, `RejectedChangeNothing`,
`AveragesAreWeighted`. The invariants are short (a round maps miners to results, a window
is a sequence of scores); the work is in the operators. Who is better is ranked no later
(`Ranks`), so its decay weight is no smaller (`PowersGrow`), its composite neither, and
floor, power law and division keep the order. Without a rejected submission nothing
changes but a summand that is zero. The average goes round by round: `AverageSteps` is
what one more round does to the definition, `BlendOne` what it does to the fold, and
`BlendTells` that the two agree, pruning and restarts included.

`CalibrationReportProofs`, for any outputs, recordings, periods and predictions:
`SamplesConserved`, `TableExplains`, `PassesAreEarned`, `MonthsAgree`. The invariant says
where each piece of the state comes from: `Timed` and `Recorded` the truth, `Judged` the
result, `Built` the report, `Stored` the row. The laws are about sums over chunks and
months, quotients and roots rounded up — that the root exists, so that a metric is a
number; that a monthly CVRMSE is at most the hourly one is Cauchy's inequality over the
hours of a month — and about averages over the outputs that count.

These two modules reason about sums over finite sets and about recursive functions, which
are defined by `CHOOSE`. Each law starts from the existence of what is chosen, built up
element by element: `NatMin` (a set of numbers has a least one), from it `Grow`
(induction over a finite set, stated for a set of its subsets) and `Count` (over the
numbers, for a set of them). The library's theorems of this kind take an operator as a
parameter, which the provers do not instantiate; a set in its place they do. The few laws
of sums that both modules need stand in each of them.

The type invariants of `ValidatorRuntime`, `ScoringDB`, `Deployment`, `WeightCommit`,
`ChallengeRound` and `Miner` are theorems too; those of `ScoringDB`, `Deployment` and
`WeightCommit` are therefore not repeated in the runs.

Only model-checked is liveness: `LoopsKeepTurning`, `ShutdownCompletes`, `UpdatesArrive`,
`PassEnds`, `WeightsKeepFlowing`, `ChallengesEnd`, `ShutdownEnds` and `GateCatchesUp`.
Their proofs would need `ENABLED` under fairness, which the prover does not handle.

## Where code and documentation part

Three runs state what a comment or a document says and find a behaviour of the code that
contradicts it (quoted in `PROJECT.json` under `findings`):

| Run | Says | Does |
|---|---|---|
| `RuntimeSingleReader` | `_chain_op` serialises access to the websocket (`validator/main.py:583-585`) | after a timeout the abandoned thread and the next call are in it together |
| `RuntimeHungCommit` | a hung commit is detected by the watchdog (`validator/main.py:776-791`) | the setter's timeout clears the clock first; nothing restarts the process |
| `DirtyRead` | the averages are computed from persisted scores (`validator/scoring/window_ema.py:1`, `:29`) | a window read while a round is being inserted contains the rows inserted so far; the round's other miners decay as if absent, and the rows may still be rolled back |

The models also contain these, which need no run of their own to be seen:

- `validator/scoring_db.py:11-13` says there are no concurrent writers. The cleanup thread
  and the challenge loop do write at once; the second `BEGIN` raises, and a round, an
  insert, a report or a cleanup is lost (`Begin` in `ScoringDB`). What is committed stays
  intact (`TransactionOwned`, `LedgerKept`); what is read meanwhile is not only what is
  committed (`DirtyRead`), but nothing else is wrong with it (`WindowExact`).
- `docs/SCORING.md:140` says that a miner's first score is set directly, with no history
  to blend. Scores and averages are keyed by UID alone (`validator/scoring/window_ema.py:59`,
  `Blend` in `WindowEma`): a newcomer that is registered on a recycled UID is blended into
  the average of the miner before it for as long as its rows are in the window.
- The docstring of `_resample_to_hourly` says that values which cannot be evenly chunked
  raise a `ValueError` (`validator/emulator/manager.py:76-77`); the code drops the samples
  left over with a warning (`:90-94`, `Hourly` in `CalibrationReport`), and the energy of
  the period is short by them. `ResamplingConserves` bounds the loss.
- `validator/scoring_db.py:267-269` and `validator/main.py:344-346` say that a round is
  not replayed. That is so for a crash (`RoundsRunOnce`), not for a loss of power
  under `synchronous = NORMAL`, nor across an archive, which takes the counter along
  (`docs/VALIDATE.md:238` says that a restart resumes from the last persisted value).
  `RunsAccounted` says that nothing else replays a round.
- An average without a positive entry makes the weight loop skip its pass
  (`validator/main.py:666-668`, `SkipWindow` in `WeightCommit`);
  `validator/scoring/window_ema.py:34` and `docs/SCORING.md:132` promise a copy of the
  chain's weights.
- `docs/ARCHITECTURE.md:595` describes how a miner updates itself when the manifest
  version differs, and a reason code for it; `miner/network/axon_handler.py:46-50` logs a
  warning.
- A report that exceeded the ceiling has a `verification_reason`, numbers and possibly
  passed bands; `scoring/report.py:30-32` says that reports with a reason carry NaN and
  False.
- `scoring/metrics.py:30` calls the default of 1.0 the worst plausible value; a submission
  may be worse (the ceiling is 10.0).
- `docs/SCORING.md:26` and its first example give the first rank 1.0 and the second 0.5;
  the code divides by the sum of the decay weights (`scoring/engine.py:148-151`).
- `docs/SCORING.md:203` says about ten absences prune a miner; 0.7^10 of a usual average
  is about 0.03 and 1e-6 takes some 39. Absent miners do not decay at all in a round
  without any submission, because it records no row.
- `docs/ARCHITECTURE.md:208` calls 300 s a hard limit per verification, but the simulation
  is synchronous and `wait_for` cannot interrupt it.

## Observations

Not contradictions, but worth knowing; the models show each of them.

- The oldest round of the window, or of the retention, may be there in part: both cut by
  the stamp of each row, and the rows of a round differ by milliseconds. The average of a
  miner whose row is cut off starts one round later than the others'.
- When a restart is lost after a pull, the updater never tries it again: `HEAD` equals
  `origin/main` from then on (`StaleCodeHasCause`). With local commits on top, `HEAD`
  never equals `origin/main`, and the validator is restarted every five minutes
  (`UpdatesArrive`).
- A sync that hangs takes the miner's event loop with it, signals included; challenges
  are still served, by an ever older gate (`ShutdownEnds`, `GateCatchesUp`).
- `hotkeys.index` may raise in the middle of a sync, but not for a validator in good
  standing (`SteadyServed`).
- A report averages biases with their sign: two outputs with opposite biases may pass the
  NMBE bands that each of them fails. So may a submission with a CVRMSE of one output
  above the limit.
- Test periods are far shorter than 720 hours: the monthly metrics of every report
  are the bias once more (`MonthlyAgrees`; proved for any period of at most a month).
- BOPTEST samples that do not divide among the hours are dropped at the end, while each
  sample's length is taken from their full number: with k·h + 1 samples the energy is
  short by the last one. (The docstring says otherwise, see above.)
- A mean of R² is taken over the outputs that vary, a mean of CVRMSE over those with a
  non-zero mean: not always the same ones.
- Without any measured output every submission gets the same default metrics, which pass
  no band (`PassIsEarned`).

## Not modelled

- The RC network: differential equations without state of their own. What it predicts is
  any series of a small set.
- The u16 conversion of weights and the manual normalisation: SDK code and array
  arithmetic without state.
- Measured series with negative values, whose mean, and with it the CVRMSE, may be
  negative (a zone below 0 °C); series that are not finite; series of unequal length.
- What a torn read of the validator's metagraph may see while a sync in a thread replaces
  its parts: `RefreshMetagraph` replaces it at once. (For the miner, the tearing is
  modelled.)
- Archives made twice within one second, whose names would be the same; a rename that is
  not yet durable when power is lost; another process that holds the database open.
- A wall clock that is set back, so that rows are not stamped in the order in which they
  are written.
- The health endpoint, which only reads; the alerter, which keeps one timestamp for each
  kind of alert; the start scripts, the containers and the
  generator of weather data.
- Registry and manifest: a JSON file read and validated at start. The choice of a test
  case is a hash.
- The optimiser of a calibration, and a miner that loses its registration while it
  serves, which it does not notice.
- Metadata, `simulations_used` and training CVRMSE of an answer: sanitised field by field,
  without influence on who is scored.
