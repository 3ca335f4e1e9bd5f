---------------------------- MODULE DeploymentProofs ----------------------------
(***************************************************************************)
(* Proofs about the database files and their updates, for any set of spec   *)
(* versions, any sequence of commits and any number of rounds and faults.    *)
(*                                                                          *)
(* OneRegime and NothingLost are not inductive: what a step of opening the  *)
(* database may do depends on what the steps before it left behind.  Sound  *)
(* says what every content on the disk is like, Staged what each phase of   *)
(* ScoringDB.__init__ finds, and Kept is NothingLost with the archives       *)
(* named one by one.  Accounts is RunsAccounted for every number, with the   *)
(* order of the commits that a loss of power needs.                          *)
(***************************************************************************)
EXTENDS Deployment, SequenceTheorems, FiniteSetTheorems, TLAPS

Good(c) ==
  /\ c \in Content
  /\ c.version = SchemaVersion => c.tables = Tables
  /\ \A s \in c.scores : s[2] = c.spec

Sound ==
  /\ Good(main)
  /\ \A i \in 1..Len(wal) : Good(wal[i]) /\ wal[i].version >= 0
  /\ \A i \in 1..Len(archives) : Good(archives[i])

Staged ==
  /\ main = None \/ main.version >= 0
  /\ main = None => wal = <<>>
  /\ phase \notin {"down", "connect", "sidecars"} => main # None
  /\ phase = "sidecars" => main = None
  /\ phase = "rename" => wal = <<>>
  /\ phase = "check" => View.version = SchemaVersion
  /\ phase \in {"legacy", "count"} \/ Running => View.spec = spec /\ View.version = SchemaVersion
  /\ phase = "round" => runs # <<>>

Kept ==
  \A s \in written :
    s \in undone.scores \/ s \in View.scores \/ \E i \in 1..Len(archives) : s \in archives[i].scores

IInv == TypeOK /\ Sound /\ Staged /\ Kept

(* What a reader of the database sees is the file or the last commit.        *)
LEMMA ViewGood == IInv => Good(View) /\ View \in Content /\ (main # None => View.version >= 0)
<1> SUFFICES ASSUME IInv PROVE Good(View) /\ View \in Content /\ (main # None => View.version >= 0)
  OBVIOUS
<1>1. CASE wal = <<>>
  BY <1>1 DEF IInv, Sound, Staged, View, Good
<1>2. CASE wal # <<>>
  <2>1. Len(wal) \in 1..Len(wal)
    BY <1>2 DEF IInv, TypeOK
  <2>2. View = wal[Len(wal)]
    BY <1>2 DEF View, Last
  <2>3. QED
    BY <2>1, <2>2 DEF IInv, Sound, Good
<1>3. QED
  BY <1>1, <1>2

LEMMA ViewKept == UNCHANGED <<main, wal>> => View' = View
  BY DEF View

LEMMA SoundKept == Sound /\ UNCHANGED database => Sound'
  BY DEF Sound, database

(* A commit of a sound content is what is seen from then on.                 *)
LEMMA CommitStep ==
  ASSUME IInv, NEW c, Good(c), c.version >= 0, Commit(c)
  PROVE  /\ Sound' /\ View' = c
         /\ main' = main /\ archives' = archives /\ wal' \in Seq(Content) /\ wal' # <<>>
<1>1. c \in Content /\ wal \in Seq(Content) /\ wal' = Append(wal, c)
  BY DEF Good, Commit, IInv, TypeOK
<1>2. /\ wal' \in Seq(Content) /\ Len(wal') = Len(wal) + 1 /\ Len(wal) \in Nat
      /\ \A i \in 1..Len(wal) : wal'[i] = wal[i]
      /\ wal'[Len(wal) + 1] = c
  BY <1>1, AppendProperties
<1>3. wal' # <<>>
  BY <1>1, <1>2
<1>4. View' = c
  BY <1>2, <1>3 DEF View, Last
<1>5. \A i \in 1..Len(wal') : Good(wal'[i]) /\ wal'[i].version >= 0
  BY <1>2 DEF IInv, Sound
<1>6. QED
  BY <1>2, <1>3, <1>4, <1>5 DEF Commit, IInv, Sound

(* A checkpoint changes where a content is, not what is seen.                *)
LEMMA CheckpointStep ==
  ASSUME IInv, Checkpointed, archives' = archives
  PROVE  /\ Sound' /\ View' = View /\ main' = View /\ wal' = <<>>
         /\ main' \in Content /\ wal' \in Seq(Content)
         /\ main # None => main' # None /\ main'.version >= 0
         /\ main = None => main' = None
<1>1. main' = View /\ wal' = <<>>
  BY DEF Checkpointed
<1>2. View' = View
  BY <1>1 DEF View
<1>3. Sound'
  BY <1>1, ViewGood DEF IInv, Sound
<1>4. main = None => View = None
  BY DEF IInv, Staged, View
<1>5. View.version >= 0 => View # None
  BY DEF None
<1>6. QED
  BY <1>1, <1>2, <1>3, <1>4, <1>5, ViewGood

(* The contents that the statements of scoring_db.py make of a sound one.    *)
LEMMA Edits ==
  ASSUME NEW c, Good(c), c.version >= 0
  PROVE  /\ c.tables < Tables =>
              Good([c EXCEPT !.tables = @ + 1]) /\ [c EXCEPT !.tables = @ + 1].version = c.version
         /\ c.tables = Tables => Good([c EXCEPT !.version = SchemaVersion])
         /\ \A v \in Specs : c.spec = 0 => Good([c EXCEPT !.spec = v])
         /\ \A n \in Nat : Good([c EXCEPT !.count = n])
         /\ \A n \in 1..MaxRounds : Good([c EXCEPT !.scores = @ \cup {<<n, c.spec>>}]) \/ c.spec = 0
<1> USE FilesAssumption DEF Good, Content, Tables, SchemaVersion, Scores
<1>1. c.tables < Tables =>
        Good([c EXCEPT !.tables = @ + 1]) /\ [c EXCEPT !.tables = @ + 1].version = c.version
  OBVIOUS
<1>2. c.tables = Tables => Good([c EXCEPT !.version = SchemaVersion])
  OBVIOUS
<1>3. \A v \in Specs : c.spec = 0 => Good([c EXCEPT !.spec = v])
  <2> SUFFICES ASSUME NEW v \in Specs, c.spec = 0 PROVE Good([c EXCEPT !.spec = v])
    OBVIOUS
  <2>1. c.scores = {}
    OBVIOUS
  <2>2. QED
    BY <2>1
<1>4. \A n \in Nat : Good([c EXCEPT !.count = n])
  OBVIOUS
<1>5. \A n \in 1..MaxRounds : Good([c EXCEPT !.scores = @ \cup {<<n, c.spec>>}]) \/ c.spec = 0
  <2> SUFFICES ASSUME NEW n \in 1..MaxRounds, c.spec # 0
               PROVE  Good([c EXCEPT !.scores = @ \cup {<<n, c.spec>>}])
    OBVIOUS
  <2> DEFINE more == c.scores \cup {<<n, c.spec>>}
  <2>1. more \in SUBSET Scores /\ \A s \in more : s[2] = c.spec
    OBVIOUS
  <2>2. [c EXCEPT !.scores = @ \cup {<<n, c.spec>>}] = [c EXCEPT !.scores = more]
    OBVIOUS
  <2> HIDE DEF more
  <2>3. Good([c EXCEPT !.scores = more])
    BY <2>1
  <2>4. QED
    BY <2>2, <2>3
<1>6. QED
  BY <1>1, <1>2, <1>3, <1>4, <1>5

LEMMA InitIInv == Init => IInv
<1> SUFFICES ASSUME Init PROVE IInv
  OBVIOUS
<1>1. None \in Content /\ None.scores = {} /\ None.version = -1
  BY FilesAssumption DEF None, Content, Tables, SchemaVersion
<1>2. \A v \in Specs : FirstSchema(v) \in Content /\ FirstSchema(v).scores = {} /\ FirstSchema(v).version = 1
  BY FilesAssumption DEF FirstSchema, Content, Tables, SchemaVersion
<1>3. /\ main \in Content /\ main.scores = {} /\ main.version \in {-1, 1}
      /\ main = None \/ main.version >= 0
  BY <1>1, <1>2 DEF Init
<1>4. /\ phase = "down" /\ spec \in Specs /\ legacy = TRUE /\ mem = 0 /\ wal = <<>> /\ archives = <<>>
      /\ runs = <<>> /\ written = {} /\ undone = [scores |-> {}, rounds |-> <<>>]
  BY DEF Init
<1>5. TypeOK
  BY <1>3, <1>4, FilesAssumption DEF TypeOK, Phases
<1>6. Good(main)
  BY <1>3 DEF Good, SchemaVersion
<1>7. Sound
  BY <1>4, <1>6 DEF Sound
<1>8. Staged
  BY <1>3, <1>4 DEF Staged, Running
<1>9. Kept
  BY <1>4 DEF Kept
<1>10. QED
  BY <1>5, <1>7, <1>8, <1>9 DEF IInv

(* Steps that leave the files as they are.                                   *)
LEMMA FilesUnchanged ==
  ASSUME IInv,
         (\E v \in Specs : Start(v)) \/ Migrate \/ ArchiveLegacy \/ ReadCount \/ RoundFails \/ Kill \/ UNCHANGED vars
  PROVE  IInv'
<1>1. UNCHANGED <<database, history>> /\ UNCHANGED <<main, wal, archives, runs, written, undone>>
  BY DEF Start, Migrate, ArchiveLegacy, ReadCount, RoundFails, Kill, vars, database, history
<1>2. View' = View /\ Sound'
  BY <1>1, ViewKept, SoundKept DEF IInv
<1>3. TypeOK'
  <2>1. phase' \in Phases /\ spec' \in Specs /\ legacy' \in BOOLEAN /\ mem' \in Nat
    BY ViewGood DEF IInv, TypeOK, Content, Phases, Go, Start, Migrate, ArchiveLegacy, ReadCount,
       RoundFails, Kill, vars
  <2>2. QED
    BY <1>1, <2>1 DEF IInv, TypeOK
<1>4. Staged'
  <2> USE DEF Go, Running, IInv
  <2>1. CASE (\E v \in Specs : Start(v)) \/ ArchiveLegacy \/ ReadCount \/ RoundFails \/ Kill \/ UNCHANGED vars
    BY <1>1, <1>2, <2>1 DEF Staged, Start, ArchiveLegacy, ReadCount, RoundFails, Kill, vars
  <2>2. CASE Migrate
    <3>1. View.version \in -1..SchemaVersion
      BY ViewGood DEF Content
    <3>2. QED
      BY <1>1, <1>2, <2>2, <3>1 DEF Staged, Migrate, SchemaVersion
  <2>3. QED
    BY <2>1, <2>2
<1>5. Kept'
  BY <1>1, <1>2 DEF IInv, Kept
<1>6. QED
  BY <1>2, <1>3, <1>4, <1>5 DEF IInv

(* Steps that commit something.                                              *)
LEMMA ConnectIInv == IInv /\ Connect => IInv'
<1> SUFFICES ASSUME IInv, Connect PROVE IInv'
  OBVIOUS
<1>0. /\ phase = "connect" /\ phase' = "migrate" /\ archives' = archives
      /\ UNCHANGED <<spec, legacy, mem, runs, written, undone>>
  BY DEF Connect, Go, history
<1>1. CASE main # None
  <2>1. UNCHANGED database /\ main' = main /\ wal' = wal
    BY <1>0, <1>1 DEF Connect, database
  <2>2. View' = View /\ Sound'
    BY <2>1, ViewKept, SoundKept DEF IInv
  <2>3. TypeOK' /\ Staged' /\ Kept'
    BY <1>0, <1>1, <2>1, <2>2 DEF IInv, TypeOK, Phases, Staged, Running, Kept
  <2>4. QED
    BY <2>2, <2>3 DEF IInv
<1>2. CASE main = None
  <2>1. main' = Blank /\ wal' = <<>> /\ View = None
    BY <1>2 DEF Connect, IInv, Staged, View
  <2>2. View' = Blank
    BY <2>1 DEF View
  <2>3. Blank.scores = {} /\ Blank.version = 0 /\ Blank \in Content /\ Blank # None /\ None.scores = {}
    BY FilesAssumption DEF Blank, None, Content, Tables, SchemaVersion
  <2>4. Good(Blank)
    BY <2>3 DEF Good, SchemaVersion
  <2>5. Sound'
    BY <1>0, <2>1, <2>4 DEF IInv, Sound
  <2>6. TypeOK' /\ Staged'
    BY <1>0, <2>1, <2>3 DEF IInv, TypeOK, Phases, Staged, Running
  <2>7. Kept'
    BY <1>0, <2>1, <2>3 DEF IInv, Kept
  <2>8. QED
    BY <2>5, <2>6, <2>7 DEF IInv
<1>3. QED
  BY <1>1, <1>2

LEMMA SchemaIInv == IInv /\ (CreateTable \/ SetUserVersion) => IInv'
<1> SUFFICES ASSUME IInv, CreateTable \/ SetUserVersion PROVE IInv'
  OBVIOUS
<1>1. phase = "tables" /\ main # None /\ UNCHANGED <<spec, legacy, mem, runs, written, undone>>
  BY DEF CreateTable, SetUserVersion, Go, IInv, Staged, history
<1>2. Good(View) /\ View.version >= 0 /\ View \in Content
  BY <1>1, ViewGood
<1>3. PICK c : /\ Commit(c) /\ Good(c) /\ c.version >= 0 /\ c.scores = View.scores
               /\ phase' \in {"tables", "check"} /\ (phase' = "check" => c.version = SchemaVersion)
  <2>1. CASE CreateTable
    <3> DEFINE c == [View EXCEPT !.tables = @ + 1]
    <3>1. Commit(c) /\ phase' = "tables" /\ View.tables < Tables
      BY <2>1 DEF CreateTable, Go
    <3>2. Good(c) /\ c.version = View.version
      BY <1>2, <3>1, Edits
    <3>3. c.scores = View.scores
      BY <1>2 DEF Content
    <3>4. QED
      BY <1>2, <3>1, <3>2, <3>3
  <2>2. CASE SetUserVersion
    <3> DEFINE c == [View EXCEPT !.version = SchemaVersion]
    <3>1. Commit(c) /\ phase' = "check" /\ View.tables = Tables
      BY <2>2 DEF SetUserVersion, Go
    <3>2. Good(c)
      BY <1>2, <3>1, Edits
    <3>3. c.scores = View.scores /\ c.version = SchemaVersion /\ c.version >= 0
      BY <1>2 DEF Content, SchemaVersion
    <3>4. QED
      BY <3>1, <3>2, <3>3
  <2>3. QED
    BY <2>1, <2>2
<1>4. Sound' /\ View' = c /\ main' = main /\ archives' = archives /\ wal' \in Seq(Content)
  BY <1>3, CommitStep
<1>5. TypeOK' /\ Staged' /\ Kept'
  BY <1>1, <1>3, <1>4 DEF IInv, TypeOK, Phases, Staged, Running, Kept
<1>6. QED
  BY <1>4, <1>5 DEF IInv

LEMMA CheckSpecIInv == IInv /\ CheckSpec => IInv'
<1> SUFFICES ASSUME IInv, CheckSpec PROVE IInv'
  OBVIOUS
<1>1. /\ phase = "check" /\ phase' = (IF View.spec \in {0, spec} THEN "legacy" ELSE "close")
      /\ main # None /\ View.version = SchemaVersion
      /\ UNCHANGED <<spec, legacy, mem, runs, written, undone>>
  BY DEF CheckSpec, IInv, Staged, history
<1>2. Good(View) /\ View.version >= 0 /\ View \in Content
  BY <1>1, ViewGood
<1>3. CASE View.spec = 0
  <2> DEFINE c == [View EXCEPT !.spec = spec]
  <2>1. Commit(c) /\ phase' = "legacy"
    BY <1>1, <1>3 DEF CheckSpec
  <2>2. Good(c)
    BY <1>2, <1>3, Edits DEF IInv, TypeOK
  <2>3. c.scores = View.scores /\ c.version = SchemaVersion /\ c.version >= 0 /\ c.spec = spec
    BY <1>1, <1>2 DEF Content, SchemaVersion
  <2> HIDE DEF c
  <2>4. Sound' /\ View' = c /\ main' = main /\ archives' = archives /\ wal' \in Seq(Content)
    BY <2>1, <2>2, <2>3, CommitStep
  <2>5. TypeOK' /\ Staged' /\ Kept'
    BY <1>1, <2>1, <2>3, <2>4 DEF IInv, TypeOK, Phases, Staged, Running, Kept
  <2>6. QED
    BY <2>4, <2>5 DEF IInv
<1>4. CASE View.spec # 0
  <2>1. UNCHANGED database /\ main' = main /\ wal' = wal /\ archives' = archives
    BY <1>4 DEF CheckSpec, database
  <2>2. View' = View /\ Sound'
    BY <2>1, ViewKept, SoundKept DEF IInv
  <2>3. TypeOK' /\ Staged' /\ Kept'
    BY <1>1, <1>4, <2>1, <2>2 DEF IInv, TypeOK, Phases, Staged, Running, Kept
  <2>4. QED
    BY <2>2, <2>3 DEF IInv
<1>5. QED
  BY <1>3, <1>4

LEMMA RoundIInv == IInv /\ (BeginRound \/ Record) => IInv'
<1> SUFFICES ASSUME IInv, BeginRound \/ Record PROVE IInv'
  OBVIOUS
<1>1. /\ Running /\ main # None /\ View.version = SchemaVersion /\ View.spec = spec
      /\ UNCHANGED <<spec, legacy, undone>>
  BY DEF BeginRound, Record, Go, Running, IInv, Staged
<1>2. Good(View) /\ View.version >= 0 /\ View \in Content
  BY <1>1, ViewGood
<1>3. CASE BeginRound
  <2> DEFINE c == [View EXCEPT !.count = mem + 1]
  <2>1. /\ Commit(c) /\ phase' = "round" /\ Len(runs) < MaxRounds
        /\ mem' = mem + 1 /\ runs' = Append(runs, mem) /\ written' = written
    BY <1>3 DEF BeginRound, Go
  <2>2. mem \in Nat /\ mem + 1 \in Nat /\ runs \in Seq(Nat)
    BY DEF IInv, TypeOK
  <2>3. Good(c)
    BY <1>2, <2>2, Edits
  <2>4. c.scores = View.scores /\ c.version = SchemaVersion /\ c.version >= 0 /\ c.spec = spec
    BY <1>1, <1>2 DEF Content, SchemaVersion
  <2> HIDE DEF c
  <2>5. Sound' /\ View' = c /\ main' = main /\ archives' = archives /\ wal' \in Seq(Content)
    BY <2>1, <2>3, <2>4, CommitStep
  <2>6. runs' \in Seq(Nat) /\ Len(runs') <= MaxRounds /\ runs' # <<>>
    BY <2>1, <2>2, FilesAssumption
  <2>7. TypeOK' /\ Staged' /\ Kept'
    BY <1>1, <2>1, <2>2, <2>4, <2>5, <2>6 DEF IInv, TypeOK, Phases, Staged, Running, Kept
  <2>8. QED
    BY <2>5, <2>7 DEF IInv
<1>4. CASE Record
  <2> DEFINE score == <<Len(runs), spec>>
             c     == [View EXCEPT !.scores = @ \cup {score}]
  <2>1. /\ Commit(c) /\ phase = "round" /\ phase' = "running"
        /\ mem' = mem /\ runs' = runs /\ written' = written \cup {score}
    BY <1>4 DEF Record, Go
  <2>2. Len(runs) \in 1..MaxRounds /\ spec \in Specs /\ spec # 0
    BY <2>1, FilesAssumption DEF IInv, TypeOK, Staged
  <2>3. Good(c)
    BY <1>1, <1>2, <2>2, Edits
  <2>4. c.scores = View.scores \cup {score} /\ c.version = SchemaVersion /\ c.version >= 0
          /\ c.spec = spec
    BY <1>1, <1>2 DEF Content, SchemaVersion
  <2>5. score \in Scores
    BY <2>2 DEF Scores
  <2> HIDE DEF c, score
  <2>6. Sound' /\ View' = c /\ main' = main /\ archives' = archives /\ wal' \in Seq(Content)
    BY <2>1, <2>3, <2>4, CommitStep
  <2>7. TypeOK' /\ Staged'
    BY <1>1, <2>1, <2>4, <2>5, <2>6 DEF IInv, TypeOK, Phases, Staged, Running
  <2>8. Kept'
    BY <1>1, <2>1, <2>4, <2>6 DEF IInv, Kept
  <2>9. QED
    BY <2>6, <2>7, <2>8 DEF IInv
<1>5. QED
  BY <1>3, <1>4

(* Steps that move the log into the file.                                    *)
LEMMA CheckpointIInv == IInv /\ (CloseOld \/ Checkpoint \/ Close) => IInv'
<1> SUFFICES ASSUME IInv, CloseOld \/ Checkpoint \/ Close PROVE IInv'
  OBVIOUS
<1>1. /\ Checkpointed /\ archives' = archives /\ UNCHANGED <<spec, legacy, mem, runs, written, undone>>
      /\ main # None
      /\ \/ phase' = "rename" \/ phase' = "down"
         \/ Running /\ phase' = phase
  BY DEF CloseOld, Checkpoint, Close, Go, Running, IInv, Staged, history
<1>2. /\ Sound' /\ View' = View /\ wal' = <<>> /\ wal' \in Seq(Content)
      /\ main' \in Content /\ main' # None /\ main'.version >= 0
  BY <1>1, CheckpointStep
<1>3. TypeOK' /\ Kept'
  BY <1>1, <1>2 DEF IInv, TypeOK, Phases, Running, Kept
<1>4. Staged'
  BY <1>1, <1>2 DEF IInv, Staged, Running
<1>5. QED
  BY <1>2, <1>3, <1>4 DEF IInv

(* The old database goes to an archive as a whole: its log is in the file.   *)
LEMMA RenameIInv == IInv /\ Rename => IInv'
<1> SUFFICES ASSUME IInv, Rename PROVE IInv'
  OBVIOUS
<1>1. /\ phase = "rename" /\ phase' = "sidecars" /\ archives' = Append(archives, main) /\ main' = None
      /\ wal = <<>> /\ wal' = <<>> /\ UNCHANGED <<spec, legacy, mem, runs, written, undone>>
  BY DEF Rename, Go, IInv, Staged, history
<1>2. /\ archives' \in Seq(Content) /\ Len(archives') = Len(archives) + 1 /\ Len(archives) \in Nat
      /\ \A i \in 1..Len(archives) : archives'[i] = archives[i]
      /\ archives'[Len(archives) + 1] = main
  BY <1>1, AppendProperties DEF IInv, TypeOK
<1>3. None \in Content /\ None.scores = {} /\ None.version = -1
  BY FilesAssumption DEF None, Content, Tables, SchemaVersion
<1>4. Good(None)
  BY <1>3 DEF Good, SchemaVersion
<1>5. Sound'
  BY <1>1, <1>2, <1>4 DEF IInv, Sound
<1>6. TypeOK' /\ Staged'
  BY <1>1, <1>2, <1>3 DEF IInv, TypeOK, Phases, Staged, Running
<1>7. Kept'
  <2>1. View = main
    BY <1>1 DEF View
  <2>2. SUFFICES ASSUME NEW s \in written, s \notin undone.scores
                 PROVE  \E i \in 1..Len(archives') : s \in archives'[i].scores
    BY <1>1 DEF Kept
  <2>3. CASE s \in View.scores
    BY <1>2, <2>1, <2>3
  <2>4. CASE \E i \in 1..Len(archives) : s \in archives[i].scores
    BY <1>2, <2>4
  <2>5. QED
    BY <2>2, <2>3, <2>4 DEF IInv, Kept
<1>8. QED
  BY <1>5, <1>6, <1>7 DEF IInv

LEMMA UnlinkIInv == IInv /\ UnlinkSidecars => IInv'
<1> SUFFICES ASSUME IInv, UnlinkSidecars PROVE IInv'
  OBVIOUS
<1>1. /\ phase = "sidecars" /\ phase' = "connect" /\ main = None /\ main' = None
      /\ wal = <<>> /\ wal' = <<>> /\ archives' = archives
      /\ UNCHANGED <<spec, legacy, mem, runs, written, undone>>
  BY DEF UnlinkSidecars, Go, IInv, Staged, history
<1>2. View' = View /\ Sound'
  BY <1>1, ViewKept, SoundKept DEF IInv, database
<1>3. TypeOK' /\ Staged' /\ Kept'
  BY <1>1, <1>2 DEF IInv, TypeOK, Phases, Staged, Running, Kept
<1>4. QED
  BY <1>2, <1>3 DEF IInv

(* A loss of power leaves a beginning of the log, and the scores it takes    *)
(* are recorded as undone.                                                   *)
LEMMA PowerLossIInv == IInv /\ PowerLoss => IInv'
<1> SUFFICES ASSUME IInv, PowerLoss PROVE IInv'
  OBVIOUS
<1>1. PICK k \in 0..Len(wal) - 1 :
        LET left == IF k = 0 THEN main ELSE wal[k] IN
        /\ wal' = SubSeq(wal, 1, k)
        /\ undone' = [scores |-> undone.scores \cup (View.scores \ left.scores),
                      rounds |-> Append(undone.rounds, left.count .. View.count - 1)]
  BY DEF PowerLoss
<1> DEFINE left == IF k = 0 THEN main ELSE wal[k]
<1>2. /\ phase' = "down" /\ UNCHANGED <<spec, main, archives, legacy, mem, runs, written>>
      /\ wal' = SubSeq(wal, 1, k)
      /\ undone' = [scores |-> undone.scores \cup (View.scores \ left.scores),
                    rounds |-> Append(undone.rounds, left.count .. View.count - 1)]
  BY <1>1 DEF PowerLoss
<1>3. wal \in Seq(Content) /\ Len(wal) \in Nat /\ k \in Nat /\ k < Len(wal)
  BY <1>1 DEF IInv, TypeOK
<1>4. \A i \in 1..k : wal[i] \in Content /\ Good(wal[i]) /\ wal[i].version >= 0
  BY <1>3 DEF IInv, Sound, Good
<1>5. /\ wal' \in Seq(Content) /\ Len(wal') = k
      /\ \A i \in 1..k : wal'[i] = wal[i]
  <2>1. /\ SubSeq(wal, 1, k) \in Seq(Content)
        /\ Len(SubSeq(wal, 1, k)) = IF 1 <= k THEN k - 1 + 1 ELSE 0
        /\ \A i \in 1..k - 1 + 1 : SubSeq(wal, 1, k)[i] = wal[1 + i - 1]
    BY <1>3, <1>4, SubSeqProperties
  <2>2. QED
    BY <1>2, <1>3, <2>1
<1>6. left \in Content /\ Good(left)
  BY <1>3, <1>4 DEF IInv, Sound, TypeOK
<1>7. View' = left
  <2>1. CASE k = 0
    BY <1>2, <1>5, <2>1, EmptySeq DEF View
  <2>2. CASE k # 0
    BY <1>3, <1>5, <2>2 DEF View, Last
  <2>3. QED
    BY <2>1, <2>2
<1>8. Sound'
  BY <1>2, <1>4, <1>5 DEF IInv, Sound
<1>9. undone' \in [scores : SUBSET Scores, rounds : Seq(SUBSET Nat)]
  <2>1. View \in Content /\ View.scores \subseteq Scores /\ left.count \in Nat /\ View.count \in Nat
    BY <1>6, ViewGood DEF Content
  <2>2. left.count .. View.count - 1 \in SUBSET Nat
    BY <2>1
  <2>3. undone.scores \in SUBSET Scores /\ undone.rounds \in Seq(SUBSET Nat)
    BY DEF IInv, TypeOK
  <2>4. Append(undone.rounds, left.count .. View.count - 1) \in Seq(SUBSET Nat)
    BY <2>2, <2>3, AppendProperties
  <2>5. QED
    BY <1>2, <2>1, <2>3, <2>4
<1> HIDE DEF left
<1>10. TypeOK'
  BY <1>2, <1>5, <1>9 DEF IInv, TypeOK, Phases
<1>11. Staged'
  <2>1. main = None => wal' = <<>>
    BY <1>3 DEF IInv, Staged
  <2>2. QED
    BY <1>2, <2>1 DEF IInv, Staged, Running
<1>12. Kept'
  <2>1. undone'.scores = undone.scores \cup (View.scores \ View'.scores)
    BY <1>2, <1>7
  <2>2. QED
    BY <1>2, <2>1 DEF IInv, Kept
<1>13. QED
  BY <1>8, <1>10, <1>11, <1>12 DEF IInv

LEMMA StepIInv == IInv /\ [Next]_vars => IInv'
  BY FilesUnchanged, ConnectIInv, SchemaIInv, CheckSpecIInv, RoundIInv, CheckpointIInv, RenameIInv,
     UnlinkIInv, PowerLossIInv DEF Next, Open, Run

LEMMA Promises == IInv => OneRegime /\ NothingLost
<1> SUFFICES ASSUME IInv PROVE OneRegime /\ NothingLost
  OBVIOUS
<1>1. \A c \in Contents : \A s \in c.scores : s[2] = c.spec
  <2>1. None.scores = {}
    BY DEF None
  <2>2. \A c \in Range(wal) : Good(c)
    <3>1. DOMAIN wal = 1..Len(wal) /\ \A i \in 1..Len(wal) : Good(wal[i])
      BY DEF IInv, Sound, TypeOK
    <3>2. QED
      BY <3>1 DEF Range
  <2>3. \A c \in Range(archives) : Good(c)
    BY DEF Range, IInv, Sound, TypeOK
  <2>4. QED
    BY <2>1, <2>2, <2>3 DEF Contents, IInv, Sound, Good
<1>2. View.version = SchemaVersion => View.tables = Tables
  BY ViewGood DEF Good
<1>3. OneRegime
  BY <1>1, <1>2 DEF OneRegime, IInv, Staged
<1>4. NothingLost
  <2>1. \A i \in 1..Len(archives) : archives[i] \in Range(archives)
    BY DEF Range, IInv, TypeOK
  <2>2. QED
    BY <2>1 DEF NothingLost, IInv, Kept
<1>5. QED
  BY <1>3, <1>4

-------------------------------------------------------------------------------
(* The accounts of the round counter.  That a number is run again only with a *)
(* reason is inductive for all numbers at once, those that never ran included.*)

Tally(s, T) == Cardinality({i \in DOMAIN s : s[i] \in T})

\* The counter only grows from commit to commit.
Ordered ==
  /\ \A i \in 1..Len(wal) : main.count <= wal[i].count
  /\ \A i, j \in 1..Len(wal) : i <= j => wal[i].count <= wal[j].count

\* A running validator has the counter that its database has.
InStep == Running => mem = View.count

Ahead(n)   == {c \in Content : n < c.count}
Taken(n)   == {r \in SUBSET Nat : n \in r}
Accounted(n) ==
  Tally(runs, {n}) = Tally(archives, Ahead(n)) + Tally(undone.rounds, Taken(n))
                       + (IF n < View.count THEN 1 ELSE 0)

Accounts == Ordered /\ InStep /\ \A n \in Nat : Accounted(n)

(* One more element counts once where it belongs. *)
LEMMA TallyAppend ==
  ASSUME NEW S, NEW s \in Seq(S), NEW e \in S, NEW T
  PROVE  /\ Tally(s, T) \in Nat
         /\ Tally(Append(s, e), T) = Tally(s, T) + (IF e \in T THEN 1 ELSE 0)
<1> DEFINE a    == Append(s, e)
           k    == Len(s) + 1
           old  == {i \in DOMAIN s : s[i] \in T}
           new  == {i \in DOMAIN a : a[i] \in T}
<1>1. /\ DOMAIN s = 1..Len(s) /\ Len(s) \in Nat /\ DOMAIN a = 1..k
      /\ \A i \in 1..Len(s) : a[i] = s[i]
      /\ a[k] = e
  BY AppendProperties
<1>2. IsFiniteSet(old) /\ Cardinality(old) \in Nat
  <2>1. IsFiniteSet(1..Len(s))
    BY <1>1, FS_Interval
  <2>2. old \subseteq 1..Len(s)
    BY <1>1
  <2>3. QED
    BY <2>1, <2>2, FS_Subset, FS_CardinalityType
<1>3. k \notin old
  BY <1>1
<1>4. new = IF e \in T THEN old \cup {k} ELSE old
  <2>1. \A i : i \in 1..k <=> i \in 1..Len(s) \/ i = k
    BY <1>1
  <2>2. \A i : i \in new <=> (i \in old \/ (i = k /\ e \in T))
    BY <1>1, <2>1
  <2> HIDE DEF old, new
  <2>3. QED
    BY <2>2
<1> HIDE DEF old, new
<1>5. Cardinality(new) = Cardinality(old) + (IF e \in T THEN 1 ELSE 0)
  <2>1. Cardinality(old \cup {k}) = Cardinality(old) + 1
    BY <1>2, <1>3, FS_AddElement
  <2>2. QED
    BY <1>2, <1>4, <2>1
<1>6. QED
  BY <1>2, <1>5 DEF Tally, old, new

(* Three tallies of which each is a number. *)
LEMMA Tallies ==
  ASSUME IInv, NEW n \in Nat
  PROVE  /\ Tally(runs, {n}) \in Nat /\ Tally(archives, Ahead(n)) \in Nat
         /\ Tally(undone.rounds, Taken(n)) \in Nat
<1>1. /\ runs \in Seq(Nat) /\ archives \in Seq(Content) /\ undone.rounds \in Seq(SUBSET Nat)
      /\ main \in Content
  BY DEF IInv, TypeOK
<1>2. Tally(runs, {n}) \in Nat
  <2>1. \A T : Tally(runs, T) \in Nat
    BY <1>1, TallyAppend
  <2>2. QED
    BY <2>1
<1>3. Tally(archives, Ahead(n)) \in Nat
  <2>1. \A T : Tally(archives, T) \in Nat
    BY <1>1, TallyAppend
  <2>2. QED
    BY <2>1
<1>4. Tally(undone.rounds, Taken(n)) \in Nat
  <2> DEFINE Sets == SUBSET Nat
  <2>1. {} \in Sets /\ undone.rounds \in Seq(Sets)
    BY <1>1
  <2> HIDE DEF Sets
  <2>2. QED
    BY <2>1, TallyAppend
<1>5. QED
  BY <1>2, <1>3, <1>4

LEMMA InitAccounts == Init => Accounts
<1> SUFFICES ASSUME Init PROVE Accounts
  OBVIOUS
<1>1. /\ wal = <<>> /\ archives = <<>> /\ runs = <<>> /\ undone.rounds = <<>> /\ phase = "down"
      /\ main.count = 0 /\ Len(wal) = 0
  BY DEF Init, None, FirstSchema
<1>2. View.count = 0
  BY <1>1 DEF View
<1>3. \A T : Tally(<<>>, T) = 0
  <2>1. \A T : {i \in DOMAIN <<>> : <<>>[i] \in T} = {}
    OBVIOUS
  <2>2. QED
    BY <2>1, FS_EmptySet DEF Tally
<1>4. ASSUME NEW n \in Nat PROVE Accounted(n)
  BY <1>1, <1>2, <1>3 DEF Accounted
<1>5. QED
  BY <1>1, <1>4 DEF Accounts, Ordered, InStep, Running

(* A step that neither begins a round nor turns the counter keeps the accounts. *)
LEMMA SameCount ==
  ASSUME Accounts, Ordered', View'.count = View.count,
         UNCHANGED <<archives, runs, undone>>, Running' => (Running /\ mem' = mem) \/ mem' = View.count
  PROVE  Accounts'
<1>1. InStep'
  BY DEF Accounts, InStep
<1>2. ASSUME NEW n \in Nat PROVE Accounted(n)'
  BY DEF Accounts, Accounted, Tally, Ahead, Taken
<1>3. QED
  BY <1>1, <1>2 DEF Accounts

(* A commit that does not turn the counter back keeps the commits in order. *)
LEMMA CommitOrdered ==
  ASSUME IInv, Ordered, NEW c \in Content, View.count <= c.count, Commit(c)
  PROVE  Ordered' /\ View' = c /\ archives' = archives
<1>1. /\ wal \in Seq(Content) /\ wal' = Append(wal, c) /\ main' = main /\ archives' = archives
      /\ main.count \in Nat /\ c.count \in Nat
  BY DEF IInv, TypeOK, Commit, Content
<1>2. /\ Len(wal') = Len(wal) + 1 /\ Len(wal) \in Nat /\ wal' # <<>>
      /\ \A i \in 1..Len(wal) : wal'[i] = wal[i] /\ wal[i].count \in Nat
      /\ wal'[Len(wal) + 1] = c
  <2>1. \A i \in 1..Len(wal) : wal[i] \in Content
    BY <1>1
  <2>2. \A i \in 1..Len(wal) : wal[i].count \in Nat
    BY <2>1 DEF Content
  <2>3. QED
    BY <1>1, <2>2, AppendProperties
<1>3. View' = c
  BY <1>2 DEF View, Last
<1>4. main.count <= View.count /\ \A i \in 1..Len(wal) : wal[i].count <= View.count
  <2>1. CASE wal = <<>>
    BY <1>1, <2>1 DEF View
  <2>2. CASE wal # <<>>
    <3>1. View = wal[Len(wal)] /\ Len(wal) \in 1..Len(wal)
      BY <1>1, <2>2 DEF View, Last
    <3>2. QED
      BY <3>1 DEF Ordered
  <2>3. QED
    BY <2>1, <2>2
<1>5. View.count \in Nat
  BY ViewGood DEF Content
<1>6. main.count <= c.count /\ \A i \in 1..Len(wal) : wal[i].count <= c.count
  BY <1>1, <1>2, <1>4, <1>5
<1>7. \A i \in 1..Len(wal') : main.count <= wal'[i].count
  BY <1>2, <1>6 DEF Ordered
<1>8. \A i, j \in 1..Len(wal') : i <= j => wal'[i].count <= wal'[j].count
  <2> SUFFICES ASSUME NEW i \in 1..Len(wal'), NEW j \in 1..Len(wal'), i <= j
               PROVE  wal'[i].count <= wal'[j].count
    OBVIOUS
  <2>1. CASE j \in 1..Len(wal)
    BY <1>2, <2>1 DEF Ordered
  <2>2. CASE j = Len(wal) + 1
    BY <1>1, <1>2, <1>6, <2>2
  <2>3. QED
    BY <1>2, <2>1, <2>2
<1>9. QED
  BY <1>1, <1>3, <1>7, <1>8 DEF Ordered

(* Steps after which a reader finds the same counter. *)
LEMMA QuietAccounts ==
  ASSUME IInv, Accounts,
         (\E v \in Specs : Start(v)) \/ Open \/ Record \/ RoundFails \/ Checkpoint \/ Close \/ Kill
           \/ UNCHANGED vars,
         ~Rename
  PROVE  Accounts'
<1>1. View \in Content /\ View.count \in Nat
  BY ViewGood DEF Content
<1>2. CASE \/ (\E v \in Specs : Start(v)) \/ Migrate \/ ArchiveLegacy \/ ReadCount \/ RoundFails
           \/ Kill \/ UnlinkSidecars \/ UNCHANGED vars
  <2>1. UNCHANGED <<main, wal, archives, runs, undone>>
    BY <1>2 DEF Start, Migrate, ArchiveLegacy, ReadCount, RoundFails, Kill, UnlinkSidecars,
       vars, database, history, Go, IInv, Staged
  <2>2. View' = View /\ Ordered'
    BY <2>1, ViewKept DEF Accounts, Ordered
  <2>3. Running' => (Running /\ mem' = mem) \/ mem' = View.count
    BY <1>2 DEF Start, Migrate, ArchiveLegacy, ReadCount, RoundFails, Kill, UnlinkSidecars,
       vars, Go, Running
  <2>4. QED
    BY <2>1, <2>2, <2>3, SameCount
<1>3. CASE CreateTable \/ SetUserVersion \/ CheckSpec \/ Record
  <2>1. UNCHANGED <<runs, undone>> /\ (Running' => Running /\ mem' = mem)
    BY <1>3 DEF CreateTable, SetUserVersion, CheckSpec, Record, history, Go, Running
  <2>2. CASE UNCHANGED database
    <3>1. View' = View /\ Ordered' /\ archives' = archives
      BY <2>2, ViewKept DEF Accounts, Ordered, database
    <3>2. QED
      BY <2>1, <3>1, SameCount
  <2>3. CASE \E c \in Content : c.count = View.count /\ Commit(c)
    <3>1. PICK c \in Content : c.count = View.count /\ Commit(c)
      BY <2>3
    <3>2. Ordered' /\ View' = c /\ archives' = archives
      BY <1>1, <3>1, CommitOrdered DEF Accounts
    <3>3. QED
      BY <2>1, <3>1, <3>2, SameCount
  <2>4. UNCHANGED database \/ \E c \in Content : c.count = View.count /\ Commit(c)
    <3>1. CASE CreateTable
      <4>1. /\ View.tables < Tables /\ Commit([View EXCEPT !.tables = @ + 1])
        BY <3>1 DEF CreateTable
      <4>2. [View EXCEPT !.tables = @ + 1] \in Content /\ [View EXCEPT !.tables = @ + 1].count = View.count
        BY <1>1, <4>1 DEF Content, Tables
      <4>3. QED
        BY <4>1, <4>2
    <3>2. CASE SetUserVersion
      <4>1. Commit([View EXCEPT !.version = SchemaVersion])
        BY <3>2 DEF SetUserVersion
      <4>2. /\ [View EXCEPT !.version = SchemaVersion] \in Content
            /\ [View EXCEPT !.version = SchemaVersion].count = View.count
        BY <1>1 DEF Content, SchemaVersion
      <4>3. QED
        BY <4>1, <4>2
    <3>3. CASE CheckSpec
      <4>1. UNCHANGED database \/ Commit([View EXCEPT !.spec = spec])
        BY <3>3 DEF CheckSpec
      <4>2. [View EXCEPT !.spec = spec] \in Content /\ [View EXCEPT !.spec = spec].count = View.count
        BY <1>1 DEF Content, IInv, TypeOK
      <4>3. QED
        BY <4>1, <4>2
    <3>4. CASE Record
      <4> DEFINE more == View.scores \cup {<<Len(runs), spec>>}
      <4>1. Commit([View EXCEPT !.scores = @ \cup {<<Len(runs), spec>>}]) /\ phase = "round"
        BY <3>4 DEF Record, Go
      <4>2. [View EXCEPT !.scores = @ \cup {<<Len(runs), spec>>}] = [View EXCEPT !.scores = more]
        BY <1>1 DEF Content
      <4>3. <<Len(runs), spec>> \in Scores
        BY <4>1, FilesAssumption DEF IInv, TypeOK, Staged, Scores
      <4>4. more \in SUBSET Scores
        BY <1>1, <4>3 DEF Content
      <4> HIDE DEF more
      <4>5. [View EXCEPT !.scores = more] \in Content /\ [View EXCEPT !.scores = more].count = View.count
        BY <1>1, <4>4 DEF Content
      <4>6. QED
        BY <4>1, <4>2, <4>5
    <3>5. QED
      BY <1>3, <3>1, <3>2, <3>3, <3>4
  <2>5. QED
    BY <2>2, <2>3, <2>4
<1>4. CASE CloseOld \/ Checkpoint \/ Close
  <2>1. /\ main' = View /\ wal' = <<>> /\ UNCHANGED <<archives, runs, undone>>
        /\ Running' => Running /\ mem' = mem
    BY <1>4 DEF CloseOld, Checkpoint, Close, Checkpointed, history, Go, Running
  <2>2. View' = View /\ Len(wal') = 0
    BY <2>1 DEF View
  <2>3. Ordered'
    BY <2>2 DEF Ordered
  <2>4. QED
    BY <2>1, <2>2, <2>3, SameCount
<1>5. CASE Connect
  <2>1. UNCHANGED <<archives, runs, undone>> /\ ~Running'
    BY <1>5 DEF Connect, history, Go, Running
  <2>2. CASE main # None
    <3>1. UNCHANGED <<main, wal>>
      BY <1>5, <2>2 DEF Connect
    <3>2. View' = View /\ Ordered'
      BY <3>1, ViewKept DEF Accounts, Ordered
    <3>3. QED
      BY <2>1, <3>2, SameCount
  <2>3. CASE main = None
    <3>1. main' = Blank /\ wal' = <<>> /\ View = None
      BY <1>5, <2>3 DEF Connect, IInv, Staged, View
    <3>2. View' = Blank /\ Len(wal') = 0
      BY <3>1 DEF View
    <3>3. Ordered' /\ Blank.count = None.count
      BY <3>2 DEF Ordered, Blank, None
    <3>4. QED
      BY <2>1, <3>1, <3>2, <3>3, SameCount
  <2>4. QED
    BY <2>2, <2>3
<1>6. QED
  BY <1>2, <1>3, <1>4, <1>5 DEF Open

(* A round takes the number that the counter had, which nothing had taken. *)
LEMMA BeginAccounts ==
  ASSUME IInv, Accounts, BeginRound
  PROVE  Accounts'
<1> DEFINE c == [View EXCEPT !.count = mem + 1]
<1>1. /\ Running /\ mem' = mem + 1 /\ runs' = Append(runs, mem) /\ undone' = undone /\ Commit(c)
  BY DEF BeginRound, Go, Running
<1>2. View \in Content /\ View.count = mem /\ mem \in Nat /\ runs \in Seq(Nat)
  BY <1>1, ViewGood DEF Accounts, InStep, IInv, TypeOK
<1>3. c \in Content /\ c.count = mem + 1
  <2>1. mem + 1 \in Nat
    BY <1>2
  <2>2. \A x \in Nat : [View EXCEPT !.count = x] \in Content /\ [View EXCEPT !.count = x].count = x
    BY <1>2 DEF Content
  <2>3. QED
    BY <2>1, <2>2
<1> HIDE DEF c
<1>4. Ordered' /\ View'.count = mem + 1 /\ archives' = archives
  BY <1>1, <1>2, <1>3, CommitOrdered DEF Accounts
<1>5. ASSUME NEW n \in Nat PROVE Accounted(n)'
  <2>1. Tally(runs', {n}) = Tally(runs, {n}) + (IF mem \in {n} THEN 1 ELSE 0)
    BY <1>1, <1>2, TallyAppend
  <2>2. Tally(archives', Ahead(n)) = Tally(archives, Ahead(n))
    BY <1>4
  <2>3. Tally(undone'.rounds, Taken(n)) = Tally(undone.rounds, Taken(n))
    BY <1>1
  <2>4. Accounted(n)
    BY DEF Accounts
  <2>5. QED
    BY <1>2, <1>4, <2>1, <2>2, <2>3, <2>4, Tallies DEF Accounted, Ahead, Taken
<1>6. QED
  BY <1>1, <1>4, <1>5 DEF Accounts, InStep

(* An archive takes the numbers below its counter away from the next database. *)
LEMMA RenameAccounts ==
  ASSUME IInv, Accounts, Rename
  PROVE  Accounts'
<1>1. /\ phase' = "sidecars" /\ archives' = Append(archives, main) /\ main' = None
      /\ wal = <<>> /\ wal' = <<>> /\ UNCHANGED <<runs, undone>>
  BY DEF Rename, Go, IInv, Staged, history
<1>2. View = main /\ View'.count = 0 /\ Len(wal') = 0
  BY <1>1 DEF View, None
<1>3. main \in Content /\ main.count \in Nat /\ archives \in Seq(Content)
  BY DEF IInv, TypeOK, Content
<1>4. ASSUME NEW n \in Nat PROVE Accounted(n)'
  <2>1. Tally(archives', Ahead(n)) = Tally(archives, Ahead(n)) + (IF main \in Ahead(n) THEN 1 ELSE 0)
    BY <1>1, <1>3, TallyAppend
  <2>2. main \in Ahead(n) <=> n < View.count
    BY <1>2, <1>3 DEF Ahead
  <2>3. Accounted(n)
    BY DEF Accounts
  <2>4. Tally(runs', {n}) = Tally(runs, {n}) /\ Tally(undone'.rounds, Taken(n)) = Tally(undone.rounds, Taken(n))
    BY <1>1
  <2>5. QED
    BY <1>2, <2>1, <2>2, <2>3, <2>4, Tallies DEF Accounted, Ahead, Taken
<1>5. QED
  BY <1>1, <1>2, <1>4 DEF Accounts, Ordered, InStep, Running

(* A loss of power turns the counter back over the numbers it records. *)
LEMMA PowerLossAccounts ==
  ASSUME IInv, Accounts, PowerLoss
  PROVE  Accounts'
<1>1. PICK k \in 0..Len(wal) - 1 :
        LET left == IF k = 0 THEN main ELSE wal[k] IN
        /\ wal' = SubSeq(wal, 1, k)
        /\ undone' = [scores |-> undone.scores \cup (View.scores \ left.scores),
                      rounds |-> Append(undone.rounds, left.count .. View.count - 1)]
  BY DEF PowerLoss
<1> DEFINE left == IF k = 0 THEN main ELSE wal[k]
           gone == left.count .. View.count - 1
<1>2. /\ phase' = "down" /\ UNCHANGED <<main, archives, runs>>
      /\ wal' = SubSeq(wal, 1, k) /\ undone'.rounds = Append(undone.rounds, gone)
  BY <1>1 DEF PowerLoss
<1>3. wal \in Seq(Content) /\ Len(wal) \in Nat /\ k \in Nat /\ k < Len(wal)
  BY <1>1 DEF IInv, TypeOK
<1>4. Len(wal') = k /\ \A i \in 1..k : wal'[i] = wal[i]
  <2>1. \A i \in 1..k : wal[i] \in Content
    BY <1>3
  <2>2. /\ Len(SubSeq(wal, 1, k)) = IF 1 <= k THEN k - 1 + 1 ELSE 0
        /\ \A i \in 1..k - 1 + 1 : SubSeq(wal, 1, k)[i] = wal[1 + i - 1]
    BY <1>3, <2>1, SubSeqProperties
  <2>3. QED
    BY <1>2, <1>3, <2>2
<1>5. View' = left
  <2>1. CASE k = 0
    <3>1. wal' = <<>>
      BY <1>2, <1>3, <2>1
    <3>2. QED
      BY <1>2, <2>1, <3>1 DEF View
  <2>2. CASE k # 0
    BY <1>3, <1>4, <2>2 DEF View, Last
  <2>3. QED
    BY <2>1, <2>2
<1>6. left.count <= View.count
  <2>1. View = wal[Len(wal)] /\ Len(wal) \in 1..Len(wal)
    BY <1>3 DEF View, Last
  <2>2. QED
    BY <1>3, <2>1 DEF Accounts, Ordered
<1>7. left.count \in Nat /\ View.count \in Nat /\ undone.rounds \in Seq(SUBSET Nat)
  <2>1. left \in Content
    BY <1>3 DEF IInv, TypeOK
  <2>2. QED
    BY <2>1, ViewGood DEF Content, IInv, TypeOK
<1> HIDE DEF left
<1>8. gone \in SUBSET Nat
  BY <1>7
<1>9. Ordered'
  <2>1. \A i \in 1..Len(wal') : i \in 1..Len(wal) /\ wal'[i] = wal[i]
    BY <1>3, <1>4
  <2>2. main' = main
    BY <1>2
  <2>3. Ordered
    BY DEF Accounts
  <2>4. QED
    BY <2>1, <2>2, <2>3, Zenon DEF Ordered
<1>10. ASSUME NEW n \in Nat PROVE Accounted(n)'
  <2>1. gone \in Taken(n) <=> left.count <= n /\ n < View.count
    BY <1>7, <1>8 DEF Taken
  <2> HIDE DEF gone
  <2>2. Tally(undone'.rounds, Taken(n)) = Tally(undone.rounds, Taken(n)) + (IF gone \in Taken(n) THEN 1 ELSE 0)
    <3>1. Tally(Append(undone.rounds, gone), Taken(n))
            = Tally(undone.rounds, Taken(n)) + (IF gone \in Taken(n) THEN 1 ELSE 0)
      <4> DEFINE Sets == SUBSET Nat
      <4>1. gone \in Sets /\ undone.rounds \in Seq(Sets)
        BY <1>7, <1>8
      <4> HIDE DEF Sets
      <4>2. QED
        BY <4>1, TallyAppend
    <3>2. QED
      BY <1>2, <3>1
  <2>3. Accounted(n)
    BY DEF Accounts
  <2>4. Tally(runs', {n}) = Tally(runs, {n}) /\ Tally(archives', Ahead(n)) = Tally(archives, Ahead(n))
    BY <1>2
  <2>5. QED
    BY <1>5, <1>6, <1>7, <2>1, <2>2, <2>3, <2>4, Tallies DEF Accounted, Ahead, Taken
<1>11. QED
  BY <1>2, <1>9, <1>10 DEF Accounts, InStep, Running

LEMMA StepAccounts == IInv /\ Accounts /\ [Next]_vars => Accounts'
  BY QuietAccounts, BeginAccounts, RenameAccounts, PowerLossAccounts DEF Next, Run

(* The tallies are what RunsAccounted counts. *)
LEMMA AccountsHere == IInv /\ Accounts => RunsAccounted
<1> SUFFICES ASSUME IInv, Accounts, NEW n \in Range(runs)
             PROVE  Cardinality({i \in DOMAIN runs : runs[i] = n})
                      = Cardinality({i \in DOMAIN archives : n < archives[i].count})
                        + Cardinality({i \in DOMAIN undone.rounds : n \in undone.rounds[i]})
                        + (IF n < View.count THEN 1 ELSE 0)
  BY DEF RunsAccounted
<1>1. /\ runs \in Seq(Nat) /\ archives \in Seq(Content) /\ undone.rounds \in Seq(SUBSET Nat)
  BY DEF IInv, TypeOK
<1>2. n \in Nat
  BY <1>1 DEF Range
<1>3. {i \in DOMAIN runs : runs[i] = n} = {i \in DOMAIN runs : runs[i] \in {n}}
  OBVIOUS
<1>4. {i \in DOMAIN archives : n < archives[i].count} = {i \in DOMAIN archives : archives[i] \in Ahead(n)}
  <2>1. \A i \in DOMAIN archives : archives[i] \in Content
    BY <1>1
  <2>2. QED
    BY <2>1 DEF Ahead
<1>5. {i \in DOMAIN undone.rounds : n \in undone.rounds[i]}
        = {i \in DOMAIN undone.rounds : undone.rounds[i] \in Taken(n)}
  <2>1. \A i \in DOMAIN undone.rounds : undone.rounds[i] \in SUBSET Nat
    BY <1>1
  <2>2. QED
    BY <2>1 DEF Taken
<1>6. Accounted(n)
  BY <1>2 DEF Accounts
<1>7. QED
  BY <1>3, <1>4, <1>5, <1>6 DEF Accounted, Tally

-------------------------------------------------------------------------------
(* Every state of the database files is well formed, whichever versions are  *)
(* started in whatever order and wherever they are interrupted.              *)
THEOREM FilesTypes == Spec => []TypeOK
<1>1. IInv => TypeOK
  BY DEF IInv
<1>2. QED
  BY InitIInv, StepIInv, <1>1, PTL DEF Spec

(* Seen from the files, an update is nothing but starts, steps and ends of a  *)
(* process: a deployment never does to a database what a validator under      *)
(* DatabaseFiles would not.                                                   *)
LEMMA DInitTypes == DInit => Init /\ DTypeOK
<1> SUFFICES ASSUME DInit PROVE Init /\ DTypeOK
  OBVIOUS
<1>1. Init
  BY DEF DInit
<1>2. TypeOK
  BY <1>1, InitIInv DEF IInv
<1>3. 1 \in Commits
  BY DeploymentAssumption DEF Commits
<1>4. QED
  <2>1. /\ remote = 1 /\ fetched = 1 /\ checkout = 1 /\ code = 1 /\ step = "sleep"
        /\ faults = 0
    BY DEF DInit
  <2>2. own \in BOOLEAN /\ lost \in BOOLEAN
    BY DEF DInit
  <2>3. QED
    BY <1>1, <1>2, <1>3, <2>1, <2>2, DeploymentAssumption DEF DTypeOK

LEMMA DStepFiles == DTypeOK /\ [DNext]_dvars => [Next]_vars
<1> SUFFICES ASSUME DTypeOK, [DNext]_dvars PROVE Next \/ UNCHANGED vars
  OBVIOUS
<1>1. CASE Publish \/ Fetch \/ FetchFails \/ Compare \/ Pull \/ PullFails \/ RestartLost \/ UNCHANGED dvars
  BY <1>1 DEF Publish, Fetch, FetchFails, Compare, Pull, PullFails, RestartLost, dvars
<1>2. CASE Restart \/ Validator \/ Crash
  BY <1>2 DEF Restart, Validator, Crash, Next
<1>3. CASE StartProcess
  <2>1. SpecOf[checkout] \in Specs
    BY DeploymentAssumption DEF DTypeOK, Commits
  <2>2. QED
    BY <1>3, <2>1 DEF StartProcess, Next
<1>4. QED
  BY <1>1, <1>2, <1>3 DEF DNext, Update

LEMMA DStepTypes == DTypeOK /\ TypeOK' /\ [DNext]_dvars => DTypeOK'
<1> SUFFICES ASSUME DTypeOK, TypeOK', [DNext]_dvars PROVE DTypeOK'
  OBVIOUS
<1> USE DeploymentAssumption DEF DTypeOK, Commits, updater, world
<1>1. CASE Publish
  BY <1>1 DEF Publish
<1>2. CASE Fetch \/ FetchFails \/ Compare
  BY <1>2 DEF Fetch, FetchFails, Compare, At, Fault
<1>3. CASE Pull \/ PullFails
  BY <1>3 DEF Pull, PullFails, At, Fault
<1>4. CASE Restart \/ RestartLost
  <2>1. lost' \in BOOLEAN
    BY <1>4 DEF Restart, RestartLost
  <2>2. UNCHANGED <<remote, own, fetched, checkout, code>> /\ step' = "sleep"
    BY <1>4 DEF Restart, RestartLost, At
  <2>3. faults' \in 0..MaxFaults
    BY <1>4 DEF Restart, RestartLost, Fault
  <2>4. QED
    BY <2>1, <2>2, <2>3
<1>5. CASE StartProcess \/ Validator \/ Crash
  BY <1>5 DEF StartProcess, Validator, Crash, Fault
<1>6. CASE UNCHANGED dvars
  BY <1>6 DEF dvars
<1>7. QED
  BY <1>1, <1>2, <1>3, <1>4, <1>5, <1>6 DEF DNext, Update

(* What holds for the files in every deployment.                             *)
LEMMA DeploymentInvariant == DSpec => [](IInv /\ DTypeOK)
<1>1. DInit => IInv /\ DTypeOK
  BY DInitTypes, InitIInv
<1>2. IInv /\ DTypeOK /\ [DNext]_dvars => IInv' /\ DTypeOK'
  <2>1. IInv' => TypeOK'
    BY DEF IInv
  <2>2. QED
    BY <2>1, StepIInv, DStepFiles, DStepTypes
<1>3. QED
  BY <1>1, <1>2, PTL DEF DSpec

(* The updater keeps its state in shape: the working copy is never ahead of  *)
(* origin/main, nor the process ahead of the working copy                    *)
(* (scripts/auto_update.sh:13-31).                                           *)
THEOREM DeploymentTypes == DSpec => []DTypeOK
  BY DeploymentInvariant, PTL

(* A deployment implements the specification of the files.                   *)
THEOREM DeploymentImplementsFiles == DSpec => Spec
  BY DInitTypes, DStepFiles, DeploymentInvariant, PTL DEF DSpec, Spec

(* _check_spec_version and the archive (scoring_db.py:194-240) never let the  *)
(* scores of two spec versions meet, and a validator runs only on a complete  *)
(* database of its own version, for any versions in any order, each start     *)
(* interrupted anywhere.                                                      *)
THEOREM RegimesApart == DSpec => []OneRegime
  BY DeploymentInvariant, Promises, PTL

(* Closing before the rename (scoring_db.py:218-240) keeps every committed    *)
(* score in the database or an archive, unless a loss of power took it.       *)
THEOREM ArchivesKeepScores == DSpec => []NothingLost
  BY DeploymentInvariant, Promises, PTL

(* set_round_count and get_round_count (scoring_db.py:264-295) with the       *)
(* archive: a round number is begun again once for every archive and every    *)
(* loss of power that took it, and for nothing else, whichever versions are   *)
(* started and wherever each start is interrupted.                            *)
THEOREM RunsAccountedFor == DSpec => []RunsAccounted
<1>1. DInit => Accounts
  BY DInitTypes, InitAccounts
<1>2. IInv /\ DTypeOK /\ Accounts /\ [DNext]_dvars => Accounts'
  BY DStepFiles, StepAccounts
<1>3. QED
  BY <1>1, <1>2, AccountsHere, DeploymentInvariant, PTL DEF DSpec

(* A running process has the code of the working copy, except between the     *)
(* pull and the restart, or when the restart was lost                         *)
(* (scripts/auto_update.sh:20-28).                                            *)
THEOREM StaleCode == DSpec => []StaleCodeHasCause
<1> DEFINE Fresh == step # "restart" /\ phase # "down" /\ code # checkout => lost
<1>1. DInit => Fresh
  BY DEF DInit, Init
<1>2. Fresh /\ [DNext]_dvars => Fresh'
  <2> SUFFICES ASSUME Fresh, [DNext]_dvars PROVE Fresh'
    OBVIOUS
  <2> USE DEF updater, world, vars
  <2>1. CASE Publish \/ UNCHANGED dvars
    BY <2>1 DEF Publish, dvars
  <2>2. CASE Fetch \/ FetchFails \/ Compare
    BY <2>2 DEF Fetch, FetchFails, Compare, At
  <2>3. CASE Pull \/ PullFails
    BY <2>3 DEF Pull, PullFails, At
  <2>4. CASE Restart
    BY <2>4 DEF Restart, At, Close, Kill
  <2>5. CASE RestartLost
    BY <2>5 DEF RestartLost
  <2>6. CASE StartProcess
    BY <2>6 DEF StartProcess
  <2>7. CASE Crash
    BY <2>7 DEF Crash, Kill, PowerLoss
  <2>8. CASE Validator
    <3>1. phase # "down"
      BY <2>8 DEF Validator, Open, Run, Connect, Migrate, CreateTable, SetUserVersion, CheckSpec,
         CloseOld,
                  Rename, UnlinkSidecars, ArchiveLegacy, ReadCount, BeginRound, Record, RoundFails,
                  Checkpoint, Running, Go
    <3>2. QED
      BY <2>8, <3>1 DEF Validator
  <2>9. QED
    BY <2>1, <2>2, <2>3, <2>4, <2>5, <2>6, <2>7, <2>8 DEF DNext, Update
<1>3. Fresh => StaleCodeHasCause
  BY DEF StaleCodeHasCause
<1>4. QED
  BY <1>1, <1>2, <1>3, PTL DEF DSpec
=================================================================================
