----------------------------- MODULE DatabaseFiles -----------------------------
(***************************************************************************)
(* The life of the scoring database as files, across starts of the          *)
(* validator: ScoringDB.__init__ opens, migrates and checks it, and archives*)
(* one that code of another spec version wrote (scoring_db.py:108-262).     *)
(* What happens inside a transaction is in ScoringDB; here a COMMIT is one   *)
(* step.  Of SQLite (external) the model keeps what the code relies on: in   *)
(* WAL mode a commit is appended to the -wal file, a checkpoint moves it to  *)
(* the database file, closing the last connection is a checkpoint, and a     *)
(* -wal file beside a database that does not exist is discarded.  With       *)
(* synchronous = NORMAL a commit survives a killed process, while a loss of  *)
(* power may take the end of the -wal file with it.                          *)
(***************************************************************************)
EXTENDS Integers, Sequences, SequencesExt, FiniteSets

CONSTANTS Specs,      \* values of protocol.__spec_version__
          MaxRounds   \* rounds started in all (bound)

ASSUME FilesAssumption == Specs \subseteq Nat \ {0} /\ MaxRounds \in Nat

VARIABLES phase,     \* how far ScoringDB.__init__ is; then whether a round runs
          spec,      \* protocol.__spec_version__ of the process
          main,      \* the database file, or None
          wal,       \* the commits in the -wal file, each as the content it makes
          archives,  \* the files renamed to .archived.<ts>
          legacy,    \* a validator_state.json is still there
          mem,       \* ZhenValidator.round_count
          runs,      \* history: the rounds that were begun, in order
          written,   \* history: the scores that were committed
          undone     \* history: what losses of power took: rounds and scores

database == <<main, wal, archives>>
history  == <<runs, written, undone>>
vars     == <<phase, spec, main, wal, archives, legacy, mem, runs, written, undone>>

Tables  == 3                    \* round_scores, validator_meta, calibration_reports
SchemaVersion == 2
Phases  == {"down", "connect", "migrate", "tables", "check", "close", "rename",
            "sidecars", "legacy", "count", "running", "round"}
Running == phase \in {"running", "round"}

\* user_version, how many tables there are, and what validator_meta and round_scores hold; a
\* score is known by its place in runs and the spec version that computed it.
None    == [version |-> -1, tables |-> 0, spec |-> 0, count |-> 0, scores |-> {}]
Blank   == [None EXCEPT !.version = 0]
FirstSchema(v) == [version |-> 1, tables |-> Tables - 1, spec |-> v, count |-> 0, scores |-> {}]
View    == IF wal = <<>> THEN main ELSE Last(wal)
Commit(content) == wal' = Append(wal, content) /\ UNCHANGED <<main, archives>>
Checkpointed    == main' = View /\ wal' = <<>>
Go(from, to)    == phase = from /\ phase' = to

-------------------------------------------------------------------------------
(* A process starts with the code it finds.                                  *)
Start(v) ==
  /\ Go("down", "connect")
  /\ spec' = v
  /\ UNCHANGED <<database, legacy, mem, history>>

(* sqlite3.connect and the pragmas, which create a missing database.         *)
Connect ==
  /\ Go("connect", "migrate")
  /\ IF main = None THEN main' = Blank /\ wal' = <<>> ELSE UNCHANGED <<main, wal>>
  /\ UNCHANGED <<spec, archives, legacy, mem, history>>

(* _migrate: CREATE ... IF NOT EXISTS, one statement at a time, then          *)
(* user_version.                                                             *)
Migrate ==
  /\ phase = "migrate"
  /\ phase' = IF View.version >= SchemaVersion THEN "check" ELSE "tables"
  /\ UNCHANGED <<spec, database, legacy, mem, history>>

CreateTable ==
  /\ Go("tables", "tables")
  /\ View.tables < Tables
  /\ Commit([View EXCEPT !.tables = @ + 1])
  /\ UNCHANGED <<spec, legacy, mem, history>>

SetUserVersion ==
  /\ View.tables = Tables
  /\ Go("tables", "check")
  /\ Commit([View EXCEPT !.version = SchemaVersion])
  /\ UNCHANGED <<spec, legacy, mem, history>>

(* _check_spec_version: record it, accept it, or archive.                    *)
CheckSpecAdopts ==  \* faulty: a database of another version is taken over
  /\ phase = "check"
  /\ phase' = "legacy"
  /\ IF View.spec # spec THEN Commit([View EXCEPT !.spec = spec]) ELSE UNCHANGED database
  /\ UNCHANGED <<spec, legacy, mem, history>>

CheckSpec ==
  /\ phase = "check"
  /\ phase' = IF View.spec \in {0, spec} THEN "legacy" ELSE "close"
  /\ IF View.spec = 0 THEN Commit([View EXCEPT !.spec = spec]) ELSE UNCHANGED database
  /\ UNCHANGED <<spec, legacy, mem, history>>

(* _archive_and_reinit: close, rename, unlink the sidecars, open again.      *)
CloseOldForgotten ==  \* faulty: the file is renamed under an open connection
  /\ Go("close", "rename")
  /\ UNCHANGED <<spec, database, legacy, mem, history>>

CloseOld ==
  /\ Go("close", "rename")
  /\ Checkpointed
  /\ UNCHANGED <<spec, archives, legacy, mem, history>>

Rename ==
  /\ Go("rename", "sidecars")
  /\ archives' = Append(archives, main)
  /\ main' = None
  /\ UNCHANGED <<spec, wal, legacy, mem, history>>

UnlinkSidecars ==
  /\ Go("sidecars", "connect")
  /\ wal' = <<>>
  /\ UNCHANGED <<spec, main, archives, legacy, mem, history>>

(* _archive_legacy_json_state.                                               *)
ArchiveLegacy ==
  /\ Go("legacy", "count")
  /\ legacy' = FALSE
  /\ UNCHANGED <<spec, database, mem, history>>

(* ZhenValidator.__init__ reads the counter.                                 *)
ReadCountZero ==  \* faulty: the counter cannot be read and becomes zero
  /\ Go("count", "running")
  /\ mem' = 0
  /\ UNCHANGED <<spec, database, legacy, history>>

ReadCount ==
  /\ Go("count", "running")
  /\ mem' = View.count
  /\ UNCHANGED <<spec, database, legacy, history>>

-------------------------------------------------------------------------------
(* set_round_count at the start of a round; a round's scores, if it has any.  *)
BeginRound ==
  /\ Go("running", "round")
  /\ Len(runs) < MaxRounds
  /\ mem' = mem + 1
  /\ Commit([View EXCEPT !.count = mem + 1])
  /\ runs' = Append(runs, mem)
  /\ UNCHANGED <<spec, legacy, written, undone>>

Record ==
  /\ Go("round", "running")
  /\ LET score == <<Len(runs), spec>> IN
       /\ Commit([View EXCEPT !.scores = @ \cup {score}])
       /\ written' = written \cup {score}
  /\ UNCHANGED <<spec, legacy, mem, runs, undone>>

RoundFails ==
  /\ Go("round", "running")
  /\ UNCHANGED <<spec, database, legacy, mem, history>>

(* SQLite moves the log into the file when it has grown.                      *)
Checkpoint ==
  /\ Running
  /\ wal # <<>>
  /\ Checkpointed
  /\ UNCHANGED <<phase, spec, archives, legacy, mem, history>>

-------------------------------------------------------------------------------
(* The end of a process: run() closes the database, or it is killed at any   *)
(* point.  A loss of power kills it too.                                     *)
Close ==
  /\ Running /\ phase' = "down"
  /\ Checkpointed
  /\ UNCHANGED <<spec, archives, legacy, mem, history>>

Kill ==
  /\ phase \in Phases \ {"down"} /\ phase' = "down"
  /\ UNCHANGED <<spec, database, legacy, mem, history>>

PowerLoss ==
  /\ phase' = "down"
  /\ \E k \in 0..Len(wal) - 1 :
       LET left == IF k = 0 THEN main ELSE wal[k] IN
       /\ wal' = SubSeq(wal, 1, k)
       /\ undone' = [scores |-> undone.scores \cup (View.scores \ left.scores),
                     rounds |-> Append(undone.rounds, left.count .. View.count - 1)]
  /\ UNCHANGED <<spec, main, archives, legacy, mem, runs, written>>

-------------------------------------------------------------------------------
(* A first start beside a state file of the retired JSON format, and perhaps  *)
(* a database that a release with the first schema left behind.               *)
Init ==
  /\ phase = "down"
  /\ spec \in Specs
  /\ main \in {None} \cup {FirstSchema(v) : v \in Specs}
  /\ wal = <<>> /\ archives = <<>>
  /\ legacy = TRUE
  /\ mem = 0
  /\ runs = <<>> /\ written = {}
  /\ undone = [scores |-> {}, rounds |-> <<>>]

Open ==
  \/ Connect \/ Migrate \/ CreateTable \/ SetUserVersion \/ CheckSpec
  \/ CloseOld \/ Rename \/ UnlinkSidecars \/ ArchiveLegacy \/ ReadCount

\* What a running validator does to the files.  The deletes of its cleanup
\* (scoring_db.py:400-425) are in ScoringDB: here no score is old enough to go.
Run == BeginRound \/ Record \/ RoundFails

Next == (\E v \in Specs : Start(v)) \/ Open \/ Run \/ Checkpoint \/ Close \/ Kill \/ PowerLoss

Spec == Init /\ [][Next]_vars
-------------------------------------------------------------------------------
Contents == {None, main} \cup Range(wal) \cup Range(archives)

Scores  == (1..MaxRounds) \X Specs
Content == [version : -1..SchemaVersion, tables : 0..Tables, spec : Specs \cup {0},
            count : Nat, scores : SUBSET Scores]

TypeOK ==
  /\ phase \in Phases /\ spec \in Specs /\ legacy \in BOOLEAN /\ mem \in Nat
  /\ main \in Content /\ wal \in Seq(Content) /\ archives \in Seq(Content)
  /\ runs \in Seq(Nat) /\ Len(runs) <= MaxRounds
  /\ written \in SUBSET Scores /\ undone \in [scores : SUBSET Scores, rounds : Seq(SUBSET Nat)]

(* Scores of two spec versions never meet in one database, whichever version  *)
(* was started, stopped or interrupted in whatever step of opening it, and a  *)
(* validator only runs on a complete database of its own version.             *)
OneRegime ==
  /\ \A c \in Contents : \A s \in c.scores : s[2] = c.spec
  /\ phase \in {"legacy", "count"} \/ Running =>
       View.spec = spec /\ View.version = SchemaVersion /\ View.tables = Tables

(* A score that was committed is in the database or in an archive, unless a   *)
(* loss of power took it: neither an interrupted archiving nor the removal of  *)
(* the sidecar files loses any.  What the cleanup deletes on purpose, by age   *)
(* (cleanup_older_than, scoring_db.py:400-425), is outside this module.       *)
NothingLost ==
  \A s \in written : s \in undone.scores \/ \E c \in {View} \cup Range(archives) : s \in c.scores

(* Whenever a round number is begun again, an archive took the counter away    *)
(* or a loss of power turned it back, once for every time: restarts, crashes   *)
(* while opening, and interrupted archiving replay nothing.                    *)
RunsAccounted ==
  \A n \in Range(runs) :
    Cardinality({i \in DOMAIN runs : runs[i] = n})
      = Cardinality({i \in DOMAIN archives : n < archives[i].count})
        + Cardinality({i \in DOMAIN undone.rounds : n \in undone.rounds[i]})
        + (IF n < View.count THEN 1 ELSE 0)
===============================================================================
