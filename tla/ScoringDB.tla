------------------------------- MODULE ScoringDB -------------------------------
(***************************************************************************)
(* validator/scoring_db.py, statement by statement.  The challenge loop     *)
(* (set_round_count inline on the event loop, insert_round_scores and       *)
(* persist_report on worker threads) and the cleanup loop (a worker thread) *)
(* share ONE sqlite3 connection in autocommit mode, so a transaction opened *)
(* by one is the transaction of all; the weight loop reads its window       *)
(* through it, row by row.  Every row and report is stamped with the time of *)
(* its own statement, and the window and the cleanup go by these stamps.    *)
(* The caller's part in validator/main.py (the counter, the order of the    *)
(* three writes, what an exception skips) is included.                      *)
(***************************************************************************)
EXTENDS Integers, FiniteSets

CONSTANTS Miners,      \* UIDs that may be verified in a round
          Reportable,  \* those whose report can be built
          Window,      \* the age a score counts up to
          Retention,   \* the age a score or report is kept up to
          MaxTime,     \* what the clock can reach (bound)
          MaxRounds,   \* rounds started (bound)
          MaxCrashes   \* process crashes (bound)

ASSUME DBAssumption ==
  /\ Reportable \subseteq Miners
  /\ {Window, Retention, MaxTime, MaxRounds, MaxCrashes} \subseteq Nat

VARIABLES disk,      \* committed content: round_count, scores, reports
          live,      \* what the shared connection sees, uncommitted included
          inTxn,     \* the connection has an open transaction
          pc,        \* where each writer is
          mem,       \* ZhenValidator.round_count
          verified,  \* miners verified in the current round
          todo,      \* of them, those whose row or report is still to come
          now,       \* the clock the statements read
          reader,    \* where the weight loop's read is
          cutoff,    \* the oldest stamp it asks for
          seen,      \* the rows it has fetched
          due,       \* history: what was committed of its window as it began
          since,     \* history: the first round without scores at that time
          recorded,  \* history: every row ever committed
          ran,       \* history: how often a round went past its counter write
          crashes    \* history: crashes so far

database == <<disk, live, inTxn, pc, mem>>
book     == <<verified, todo, recorded, ran, crashes>>
read     == <<reader, cutoff, seen, due, since>>
vars     == <<database, book, now, read>>

Rounds  == 0..(MaxRounds - 1)
Times   == 0..MaxTime
Entries == Rounds \X Miners \X Times
Writers == {"challenge", "cleanup"}
round   == mem - 1              \* the round the challenge loop is in

Empty   == [count |-> 0, rows |-> {}, reports |-> {}]
Content == [count : 0..MaxRounds, rows : SUBSET Entries, reports : SUBSET Entries]

\* Locations between a BEGIN and its COMMIT or ROLLBACK.
InsideTxn == [challenge |-> {"count", "countCommit", "insert", "reportWrite", "reportCommit"},
              cleanup   |-> {"scores", "reports", "commit"}]
Locations == {"idle", "running", "report"} \cup InsideTxn["challenge"] \cup InsideTxn["cleanup"]

\* Where an exception out of the method leaves its writer: a report that
\* fails is skipped, anything else ends the round or the cleanup.
AfterFailureSwallowed(t) ==  \* faulty: a failed insert is logged and forgotten
  IF pc[t] \in {"count", "countCommit"} \/ t = "cleanup" THEN "idle" ELSE "report"

AfterFailure(t) ==
  IF pc[t] \in {"report", "reportWrite", "reportCommit"} THEN "report" ELSE "idle"

-------------------------------------------------------------------------------
(* The statements, as sqlite3 runs them on a shared autocommit connection.   *)

At(t, p) == pc' = [pc EXCEPT ![t] = p]

RollbackForgotten == UNCHANGED <<live, inTxn>>  \* faulty: except without ROLLBACK

Rollback == live' = disk /\ inTxn' = FALSE

BeginInsideTry(t, next) ==  \* faulty: a failing BEGIN reaches except's ROLLBACK
  IF inTxn THEN Rollback /\ At(t, AfterFailure(t))
           ELSE inTxn' = TRUE /\ At(t, next) /\ UNCHANGED live

\* BEGIN stands before the try: inside a transaction it raises, and nothing
\* is rolled back.
Begin(t, next) ==
  /\ inTxn' = TRUE
  /\ At(t, IF inTxn THEN AfterFailure(t) ELSE next)
  /\ UNCHANGED live

Write(t, content, next) ==
  /\ live' = content
  /\ disk' = IF inTxn THEN disk ELSE content
  /\ At(t, next)
  /\ UNCHANGED <<inTxn, mem>>

\* COMMIT, and the ROLLBACK and re-raise when there is nothing to commit.
Commit(t, next) ==
  /\ IF inTxn THEN disk' = live /\ At(t, next)
              ELSE UNCHANGED disk /\ At(t, AfterFailure(t))
  /\ inTxn' = FALSE
  /\ UNCHANGED <<live, mem>>

-------------------------------------------------------------------------------
Init ==
  /\ disk = Empty /\ live = Empty /\ inTxn = FALSE
  /\ pc = [t \in Writers |-> "idle"]
  /\ mem = 0 /\ verified = {} /\ todo = {}
  /\ now = 0
  /\ reader = "idle" /\ cutoff = 0 /\ seen = {} /\ due = {} /\ since = 0
  /\ recorded = {}
  /\ ran = [n \in Rounds |-> 0]
  /\ crashes = 0

(* _run_challenge_round takes its number and calls set_round_count.          *)
StartRound ==
  /\ pc["challenge"] = "idle"
  /\ mem < MaxRounds
  /\ mem' = mem + 1
  /\ Begin("challenge", "count")
  /\ UNCHANGED <<disk, book>>

WriteCountLate ==  \* faulty: the counter is written before it is incremented
  /\ pc["challenge"] = "count"
  /\ Write("challenge", [live EXCEPT !.count = mem - 1], "countCommit")
  /\ UNCHANGED book

WriteCount ==
  /\ pc["challenge"] = "count"
  /\ Write("challenge", [live EXCEPT !.count = mem], "countCommit")
  /\ UNCHANGED book

CommitCount ==
  /\ pc["challenge"] = "countCommit"
  /\ Commit("challenge", "running")
  /\ ran' = IF inTxn THEN [ran EXCEPT ![round] = @ + 1] ELSE ran
  /\ UNCHANGED <<verified, todo, recorded, crashes>>

(* No miner answered, or the round raised before it had scores.              *)
RoundFails ==
  /\ pc["challenge"] = "running"
  /\ At("challenge", "idle")
  /\ UNCHANGED <<disk, live, inTxn, mem, book>>

(* insert_round_scores: one row per verified miner, in one transaction.      *)
StartInsert ==
  /\ pc["challenge"] = "running"
  /\ \E S \in (SUBSET Miners) \ {{}} : verified' = S /\ todo' = S
  /\ Begin("challenge", "insert")
  /\ UNCHANGED <<disk, mem, recorded, ran, crashes>>

InsertRow ==
  /\ pc["challenge"] = "insert"
  /\ \E m \in todo :
       /\ Write("challenge", [live EXCEPT !.rows = @ \cup {<<round, m, now>>}], "insert")
       /\ todo' = todo \ {m}
  /\ UNCHANGED <<verified, recorded, ran, crashes>>

CommitInsert ==
  /\ pc["challenge"] = "insert"
  /\ todo = {}
  /\ Commit("challenge", "report")
  /\ todo' = verified
  /\ recorded' = IF inTxn THEN recorded \cup live.rows ELSE recorded
  /\ UNCHANGED <<verified, ran, crashes>>

(* persist_report for one verified miner after the other.  A report that     *)
(* cannot be built is skipped, like one whose BEGIN is refused.              *)
SkipReport ==
  /\ pc["challenge"] = "report"
  /\ \E m \in todo : todo' = todo \ {m}
  /\ UNCHANGED <<disk, live, inTxn, pc, mem, verified, recorded, ran, crashes>>

StartReport ==
  /\ pc["challenge"] = "report"
  /\ \E m \in todo \cap Reportable : todo' = IF inTxn THEN todo \ {m} ELSE todo
  /\ Begin("challenge", "reportWrite")
  /\ UNCHANGED <<disk, mem, verified, recorded, ran, crashes>>

\* INSERT OR REPLACE: the key is the round and the miner.
WithReport(reports, m) ==
  {e \in reports : e[1] # round \/ e[2] # m} \cup {<<round, m, now>>}

WriteReport ==
  /\ pc["challenge"] = "reportWrite"
  /\ \E m \in todo \cap Reportable :
       /\ Write("challenge", [live EXCEPT !.reports = WithReport(@, m)], "reportCommit")
       /\ todo' = todo \ {m}
  /\ UNCHANGED <<verified, recorded, ran, crashes>>

CommitReport ==
  /\ pc["challenge"] = "reportCommit"
  /\ Commit("challenge", "report")
  /\ UNCHANGED book

RoundDone ==
  /\ pc["challenge"] = "report"
  /\ todo = {}
  /\ At("challenge", "idle")
  /\ UNCHANGED <<disk, live, inTxn, mem, book>>

(* cleanup_older_than: two deletes, each by its own "now" and by the stamp of *)
(* each row, so that a round may lose some of its rows before the others.    *)
KeptByWindow(entries) ==  \* faulty: the scoring window instead of the retention
  {e \in entries : e[3] >= now - Window}

Kept(entries) == {e \in entries : e[3] >= now - Retention}

StartCleanup ==
  /\ pc["cleanup"] = "idle"
  /\ Begin("cleanup", "scores")
  /\ UNCHANGED <<disk, mem, book>>

DeleteScores ==
  /\ pc["cleanup"] = "scores"
  /\ Write("cleanup", [live EXCEPT !.rows = Kept(@)], "reports")
  /\ UNCHANGED book

DeleteReports ==
  /\ pc["cleanup"] = "reports"
  /\ Write("cleanup", [live EXCEPT !.reports = Kept(@)], "commit")
  /\ UNCHANGED book

CommitCleanup ==
  /\ pc["cleanup"] = "commit"
  /\ Commit("cleanup", "idle")
  /\ UNCHANGED book

(* A statement inside the try raises (disk full, I/O error): ROLLBACK.       *)
Fail(t) ==
  /\ pc[t] \in InsideTxn[t]
  /\ Rollback
  /\ At(t, AfterFailure(t))
  /\ IF pc[t] = "reportWrite"
     THEN \E m \in todo \cap Reportable : todo' = todo \ {m}
     ELSE UNCHANGED todo
  /\ UNCHANGED <<disk, mem, verified, recorded, ran, crashes>>

(* get_scores_in_window, called by the weight loop: one SELECT, without a     *)
(* transaction of its own, whose cutoff is computed as it starts and whose   *)
(* rows are fetched one by one along the index on received_at.               *)
Recording == pc["challenge"] \in {"count", "countCommit", "running", "insert"}

StartRead ==
  /\ reader = "idle"
  /\ reader' = "reading"
  /\ cutoff' = now - Window
  /\ seen' = {}
  /\ due' = {e \in recorded : e[3] >= now - Window}
  /\ since' = IF Recording THEN round ELSE mem

Unread == {e \in live.rows \ seen : e[3] >= cutoff}

ReadRow ==
  /\ reader = "reading"
  /\ \E e \in Unread :
       /\ \A f \in Unread : e[3] <= f[3]
       /\ seen' = seen \cup {e}
  /\ UNCHANGED <<reader, cutoff, due, since>>

\* The rows go to compute_window_ema once none is left, or the SELECT raises.
LeaveRead ==
  /\ reader # "idle"
  /\ reader' = "idle"
  /\ cutoff' = 0 /\ seen' = {} /\ due' = {} /\ since' = 0

(* The process dies and restarts: an open transaction is gone, the counter   *)
(* is read back by get_round_count.                                          *)
Restart(content) ==
  /\ crashes < MaxCrashes
  /\ crashes' = crashes + 1
  /\ disk' = content /\ live' = content /\ inTxn' = FALSE
  /\ pc' = [t \in Writers |-> "idle"]
  /\ mem' = content.count
  /\ verified' = {} /\ todo' = {}
  /\ reader' = "idle" /\ cutoff' = 0 /\ seen' = {} /\ due' = {} /\ since' = 0
  /\ UNCHANGED <<recorded, ran, now>>

Crash == Restart(disk)

(* The wall clock, which is assumed not to be set back.                      *)
Tick ==
  /\ now < MaxTime
  /\ now' = now + 1

Challenge ==
  \/ StartRound \/ WriteCount \/ CommitCount \/ RoundFails
  \/ StartInsert \/ InsertRow \/ CommitInsert
  \/ SkipReport \/ StartReport \/ WriteReport \/ CommitReport \/ RoundDone

Cleanup == StartCleanup \/ DeleteScores \/ DeleteReports \/ CommitCleanup

Writing == Challenge \/ Cleanup \/ \E t \in Writers : Fail(t)
Reading == StartRead \/ ReadRow \/ LeaveRead

Next ==
  \/ Writing /\ UNCHANGED <<now, read>>
  \/ Reading /\ UNCHANGED <<database, book, now>>
  \/ Tick /\ UNCHANGED <<database, book, read>>
  \/ Crash

Spec == Init /\ [][Next]_vars
-------------------------------------------------------------------------------
TypeOK ==
  /\ disk \in Content /\ live \in Content
  /\ inTxn \in BOOLEAN
  /\ pc \in [Writers -> Locations]
  /\ mem \in 0..MaxRounds
  /\ verified \subseteq Miners /\ todo \subseteq Miners
  /\ now \in Times
  /\ reader \in {"idle", "reading"}
  /\ cutoff \in Int /\ since \in Int
  /\ seen \subseteq Entries /\ due \subseteq Entries
  /\ recorded \subseteq Entries
  /\ ran \in [Rounds -> Nat]
  /\ crashes \in 0..MaxCrashes

(* The shared connection is in a transaction exactly while one writer is     *)
(* between its BEGIN and its COMMIT or ROLLBACK, no second writer is ever    *)
(* there with it, and outside transactions nothing uncommitted lingers: a    *)
(* BEGIN that is refused neither joins nor ends the other's transaction.     *)
Inside(t) == pc[t] \in InsideTxn[t]

TransactionOwned ==
  /\ inTxn <=> \E t \in Writers : Inside(t)
  /\ ~(Inside("challenge") /\ Inside("cleanup"))
  /\ ~inTxn => live = disk

(* What get_scores_in_window returns when no row is left: of the rows committed when *)
(* it began and in the window then, every one, save those the retention has   *)
(* meanwhile given up; and besides them only rows of rounds whose scores were *)
(* still to come when it began.  No row that was rolled back, lost in a      *)
(* crash or never in the window is there, whatever was written meanwhile.    *)
Fetched    == reader = "reading" /\ Unread = {}
Expired(e) == e[3] < now - Retention

WindowExact ==
  Fetched =>
    /\ \A e \in due : e \in seen \/ Expired(e)
    /\ \A e \in seen : e \in due \/ (e[1] >= since /\ e[3] >= cutoff)

(* What the weights are computed from is persisted ("persisted round         *)
(* scores", validator/scoring/window_ema.py:1,29).  It is not: the shared    *)
(* connection shows the rows of an insert that is not yet committed.         *)
ReadsArePersisted == Fetched => seen \subseteq recorded

(* A calibration report on record belongs to a miner whose score for that    *)
(* round was committed before it.                                            *)
Scored(n) == {e[2] : e \in {f \in recorded : f[1] = n}}

ReportsFollowScores == \A e \in disk.reports : e[2] \in Scored(e[1])

(* No round number, which fixes test case and periods, runs twice, whatever  *)
(* collides, fails or crashes; and none runs before the counter on disk has  *)
(* passed it.                                                                *)
RoundsRunOnce ==
  \A n \in Rounds : ran[n] <= 1 /\ (ran[n] > 0 => n < disk.count)

(* The connection keeps the promises of a round ledger.                      *)
Ledger == INSTANCE RoundLedger WITH
  Rounds  <- 0..MaxRounds,
  next    <- disk.count,
  begun   <- {n \in Rounds : ran[n] > 0},
  entries <- disk.rows

LedgerKept == Ledger!LSpec
===============================================================================
