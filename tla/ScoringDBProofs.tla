---------------------------- MODULE ScoringDBProofs ----------------------------
(***************************************************************************)
(* The scoring database, for every number of miners, rounds, crashes and    *)
(* units of time: no writer enters another's transaction, no round number   *)
(* runs twice, the window the weights are computed from is exact, and the   *)
(* statements implement the ledger of RoundLedger.                          *)
(*                                                                          *)
(* None of this is inductive by itself.  Pending says, for each station of a*)
(* writer inside its transaction, by what the connection's view differs from*)
(* the disk; Progress relates the challenge loop's round to the counter on  *)
(* disk; History what is on disk to what was ever committed; Reader the rows*)
(* a read has seen and has ahead to the window it asked for.                *)
(***************************************************************************)
EXTENDS ScoringDB, TLAPS

Numbering  == {"count", "countCommit"}
Scoring    == {"running", "insert"}
Reporting  == {"report", "reportWrite", "reportCommit"}
Place(t)   == pc[t]

DBTypes ==
  /\ disk \in Content /\ live \in Content
  /\ inTxn \in BOOLEAN
  /\ pc \in [Writers -> Locations]
  /\ mem \in 0..MaxRounds
  /\ verified \subseteq Miners /\ todo \subseteq Miners
  /\ now \in Times
  /\ recorded \subseteq Entries
  /\ ran \in [Rounds -> Nat]
  /\ crashes \in 0..MaxCrashes

ReadTypes ==
  /\ reader \in {"idle", "reading"}
  /\ cutoff \in Int /\ since \in Int
  /\ seen \subseteq Entries /\ due \subseteq Entries

\* The rows a cleanup may leave: those from some time within the retention on.
Trimmed == \E t \in Int : t + Retention <= now /\ live.rows = {e \in disk.rows : e[3] >= t}

\* The rows an insert has written, stamped after all that are on disk.
Inserted(at, left) == {<<round, m, at[m]>> : m \in verified \ left}
NotBefore(at)      == \A m \in Miners, e \in disk.rows : e[3] <= at[m]

\* Reports beyond those on disk are the current round's, on miners it scored.
Reported(c) ==
  \A e \in c.reports : e \in disk.reports \/ (e[1] = round /\ e[2] \in Scored(round))

Pending ==
  /\ Place("challenge") \in {"count", "reportWrite"} => live = disk
  /\ Place("challenge") = "countCommit" =>
       live.count = mem /\ live.rows = disk.rows /\ live.reports = disk.reports
  /\ Place("challenge") = "insert" =>
       /\ live.count = disk.count /\ live.reports = disk.reports
       /\ \E at \in [Miners -> 0..now] :
            NotBefore(at) /\ live.rows = disk.rows \cup Inserted(at, todo)
  /\ Place("challenge") = "reportCommit" =>
       live.count = disk.count /\ live.rows = disk.rows /\ Reported(live)
  /\ Place("cleanup") = "scores" => live = disk
  /\ Place("cleanup") \in {"reports", "commit"} =>
       live.count = disk.count /\ live.reports \subseteq disk.reports /\ Trimmed

Unscored(n) == \A e \in recorded : e[1] # n

Progress ==
  /\ disk.count <= mem
  /\ Place("challenge") \in Numbering => disk.count < mem
  /\ Place("challenge") \in Scoring \cup Reporting =>
       disk.count = mem /\ mem > 0 /\ ran[round] > 0
  /\ Place("challenge") \in Scoring => Unscored(round)
  /\ Place("challenge") = "insert" => todo \subseteq verified /\ verified # {}
  /\ Place("challenge") \in Reporting => todo \subseteq Scored(round)

History ==
  /\ \A e \in recorded : e[1] < disk.count /\ e[3] <= now
  /\ disk.rows \subseteq recorded
  /\ \A e \in recorded : e \in disk.rows \/ Expired(e)
  /\ ReportsFollowScores
  /\ RoundsRunOnce

DBInv == DBTypes /\ TransactionOwned /\ Pending /\ Progress /\ History

\* The first round whose scores are still to come.
NextRound == IF Recording THEN round ELSE mem

Reader ==
  reader # "idle" =>
    /\ since <= NextRound
    /\ due \subseteq recorded
    /\ \A e \in recorded : e[3] >= cutoff => e \in due \/ e[1] >= since
    /\ \A e \in due : e[3] >= cutoff
    /\ \A e \in seen : e \in due \/ (e[1] >= since /\ e[3] >= cutoff)

IInv == DBInv /\ ReadTypes /\ Reader

-------------------------------------------------------------------------------
(* The statements, seen by a writer that keeps to its own transactions.      *)

\* One writer moves, the other stays where it is.
Moved(t, p) ==
  /\ pc' \in [Writers -> Locations]
  /\ pc'[t] = p
  /\ \A u \in Writers \ {t} : pc'[u] = pc[u]

LEMMA Moves ==
  ASSUME DBTypes, NEW t \in Writers, NEW p \in Locations, At(t, p)
  PROVE  Moved(t, p)
  BY DEF DBTypes, At, Moved

LEMMA Owned ==
  ASSUME DBTypes, TransactionOwned, NEW t \in Writers, Inside(t)
  PROVE  inTxn /\ \A u \in Writers \ {t} : ~Inside(u)
  BY DEF TransactionOwned, Writers

LEMMA FailureIsLocation ==
  ASSUME NEW t \in Writers
  PROVE  AfterFailure(t) \in Locations /\ AfterFailure(t) \in {"idle", "report"}
  BY DEF AfterFailure, Locations

LEMMA BeginStep ==
  ASSUME DBTypes, TransactionOwned, NEW t \in Writers, NEW p \in Locations, Begin(t, p)
  PROVE  /\ inTxn' = TRUE /\ live' = live
         /\ inTxn => Moved(t, AfterFailure(t))
         /\ ~inTxn => Moved(t, p) /\ live = disk /\ \A u \in Writers : ~Inside(u)
  BY Moves, FailureIsLocation DEF Begin, TransactionOwned

LEMMA WriteStep ==
  ASSUME DBTypes, TransactionOwned, NEW t \in Writers, Inside(t), NEW p \in Locations,
         NEW content, Write(t, content, p)
  PROVE  /\ inTxn /\ inTxn' = TRUE /\ disk' = disk /\ live' = content /\ mem' = mem
         /\ Moved(t, p)
         /\ \A u \in Writers \ {t} : ~Inside(u)
  BY Moves, Owned DEF Write, DBTypes

LEMMA CommitStep ==
  ASSUME DBTypes, TransactionOwned, NEW t \in Writers, Inside(t), NEW p \in Locations, Commit(t, p)
  PROVE  /\ inTxn /\ inTxn' = FALSE /\ disk' = live /\ live' = live /\ mem' = mem
         /\ Moved(t, p)
         /\ \A u \in Writers \ {t} : ~Inside(u)
  BY Moves, Owned DEF Commit

\* Contents of the database, field by field.
Fields(c, n, rows, reports) == c.count = n /\ c.rows = rows /\ c.reports = reports

LEMMA ContentFields ==
  ASSUME NEW c \in Content
  PROVE  /\ c.count \in 0..MaxRounds /\ c.rows \subseteq Entries
         /\ c.reports \subseteq Entries
         /\ \A n \in 0..MaxRounds :
              [c EXCEPT !.count = n] \in Content /\ Fields([c EXCEPT !.count = n], n, c.rows, c.reports)
         /\ \A rows \in SUBSET Entries :
              [c EXCEPT !.rows = rows] \in Content
                /\ Fields([c EXCEPT !.rows = rows], c.count, rows, c.reports)
         /\ \A reports \in SUBSET Entries :
              /\ [c EXCEPT !.reports = reports] \in Content
              /\ Fields([c EXCEPT !.reports = reports], c.count, c.rows, reports)
  BY DEF Content, Fields

\* A row or report, field by field.
LEMMA EntryFields ==
  \A e \in Entries : e[1] \in Nat /\ e[1] \in Rounds /\ e[2] \in Miners /\ e[3] \in Nat
  BY DBAssumption DEF Entries, Rounds, Times

LEMMA Numbers ==
  ASSUME DBTypes
  PROVE  /\ disk \in Content /\ live \in Content /\ disk.count \in 0..MaxRounds /\ mem \in 0..MaxRounds
         /\ now \in Times /\ now \in Nat
  BY ContentFields, DBAssumption DEF DBTypes, Times

(* What the disk says of earlier rounds stays as long as nobody writes there.*)
LEMMA HistoryKept ==
  ASSUME History, disk' = disk, recorded' = recorded, ran' = ran, now' = now
  PROVE  History'
  BY DEF History, Expired, ReportsFollowScores, Scored, RoundsRunOnce

-------------------------------------------------------------------------------
LEMMA InitSafe == Init => DBInv
<1> SUFFICES ASSUME Init PROVE DBInv
  OBVIOUS
<1> USE DBAssumption DEF Init, Rounds, Writers, Empty, Content, Locations, InsideTxn, Place
<1>1. DBTypes
  <2>1. disk \in Content /\ live \in Content
    OBVIOUS
  <2>2. recorded \subseteq Entries /\ ran \in [Rounds -> Nat] /\ now \in Times
    BY DEF Times
  <2>3. pc \in [Writers -> Locations]
    OBVIOUS
  <2>4. mem \in 0..MaxRounds /\ crashes \in 0..MaxCrashes
    OBVIOUS
  <2>5. inTxn \in BOOLEAN /\ verified \subseteq Miners /\ todo \subseteq Miners
    OBVIOUS
  <2>6. QED
    BY <2>1, <2>2, <2>3, <2>4, <2>5 DEF DBTypes
<1>2. TransactionOwned
  BY DEF TransactionOwned, Inside
<1>3. Pending /\ Progress
  BY DEF Pending, Progress, Numbering, Scoring, Reporting
<1>4. History
  BY DEF History, Expired, ReportsFollowScores, Scored, RoundsRunOnce
<1>5. QED
  BY <1>1, <1>2, <1>3, <1>4 DEF DBInv

LEMMA StartRoundSafe == DBInv /\ StartRound /\ now' = now => DBInv'
<1> SUFFICES ASSUME DBInv, StartRound, now' = now PROVE DBInv'
  OBVIOUS
<1> USE DBAssumption DEF DBInv
<1>0. /\ pc["challenge"] = "idle" /\ mem < MaxRounds /\ mem' = mem + 1 /\ inTxn' = TRUE
      /\ \/ inTxn /\ Moved("challenge", "idle")
         \/ ~inTxn /\ Moved("challenge", "count") /\ live = disk /\ \A u \in Writers : ~Inside(u)
      /\ disk' = disk /\ live' = live /\ verified' = verified /\ todo' = todo /\ recorded' = recorded
      /\ ran' = ran /\ crashes' = crashes
  BY BeginStep DEF StartRound, AfterFailure, book, Locations, Writers, InsideTxn
<1>1. DBTypes'
  BY <1>0 DEF DBTypes, Moved
<1>2. TransactionOwned'
  BY <1>0 DEF TransactionOwned, Moved, Place, Inside, round, Locations, Writers, InsideTxn
<1>3. Pending'
  BY <1>0 DEF Pending, Trimmed, Inserted, NotBefore, Reported, Scored, Fields, Moved, Place, Inside, round, Locations, Writers, InsideTxn
<1>4. Progress'
  BY <1>0, Numbers DEF Progress, Unscored, Scored, Numbering, Scoring, Reporting, Moved, Place, Inside, round,
     Locations, Writers, InsideTxn
<1>5. History'
  BY <1>0, HistoryKept
<1>6. QED
  BY <1>1, <1>2, <1>3, <1>4, <1>5

LEMMA WriteCountSafe == DBInv /\ WriteCount /\ now' = now => DBInv'
<1> SUFFICES ASSUME DBInv, WriteCount, now' = now PROVE DBInv'
  OBVIOUS
<1> USE DBAssumption DEF DBInv
<1>0. /\ pc["challenge"] = "count" /\ inTxn /\ inTxn' = TRUE /\ Moved("challenge", "countCommit")
      /\ ~Inside("cleanup")
      /\ live' \in Content /\ Fields(live', mem, disk.rows, disk.reports)
      /\ disk' = disk /\ mem' = mem /\ verified' = verified /\ todo' = todo /\ recorded' = recorded
      /\ ran' = ran /\ crashes' = crashes
  <2>1. live = disk /\ mem \in 0..MaxRounds /\ live \in Content
    BY DEF WriteCount, Pending, Place, DBTypes
  <2>2. live' = [live EXCEPT !.count = mem]
    BY WriteStep DEF WriteCount, Inside, Locations, Writers, InsideTxn
  <2>3. live' \in Content /\ Fields(live', mem, disk.rows, disk.reports)
    BY <2>1, <2>2, ContentFields
  <2>4. QED
    BY <2>3, WriteStep DEF WriteCount, Inside, book, Locations, Writers, InsideTxn
<1>1. DBTypes'
  BY <1>0 DEF DBTypes, Moved
<1>2. TransactionOwned'
  BY <1>0 DEF TransactionOwned, Moved, Place, Inside, round, Locations, Writers, InsideTxn
<1>3. Pending'
  BY <1>0 DEF Pending, Trimmed, Inserted, NotBefore, Reported, Scored, Fields, Moved, Place, Inside, round, Locations, Writers, InsideTxn
<1>4. Progress'
  BY <1>0, Numbers DEF Progress, Unscored, Scored, Numbering, Scoring, Reporting, Moved, Place, Inside, round,
     Locations, Writers, InsideTxn
<1>5. History'
  BY <1>0, HistoryKept
<1>6. QED
  BY <1>1, <1>2, <1>3, <1>4, <1>5

LEMMA CommitCountSafe == DBInv /\ CommitCount /\ now' = now => DBInv'
<1> SUFFICES ASSUME DBInv, CommitCount, now' = now PROVE DBInv'
  OBVIOUS
<1> USE DBAssumption DEF DBInv
<1>n. mem \in 0..MaxRounds /\ disk.count \in 0..MaxRounds /\ mem' = mem /\ round' = round
  BY Numbers DEF CommitCount, Commit, round
<1>0. /\ pc["challenge"] = "countCommit" /\ inTxn' = FALSE /\ Moved("challenge", "running")
      /\ ~Inside("cleanup")
      /\ disk' = live /\ live' = live /\ Fields(live, mem, disk.rows, disk.reports)
      /\ ran' = [ran EXCEPT ![round] = @ + 1]
      /\ mem' = mem /\ disk.count < mem
      /\ verified' = verified /\ todo' = todo /\ recorded' = recorded /\ crashes' = crashes
  <2>1. inTxn /\ Fields(live, mem, disk.rows, disk.reports)
    BY Owned DEF CommitCount, Pending, Place, Fields, Inside, Locations, Writers, InsideTxn
  <2>2. disk.count < mem
    BY DEF CommitCount, Progress, Place, Numbering
  <2>3. QED
    BY <2>1, <2>2, CommitStep DEF CommitCount, Inside, Locations, Writers, InsideTxn
<1>1. DBTypes'
  <2>1. round \in Rounds
    BY <1>0, <1>n DEF Rounds, round
  <2>2. ran' \in [Rounds -> Nat]
    BY <1>0, <2>1 DEF DBTypes
  <2>3. QED
    BY <1>0, <2>2 DEF DBTypes, Moved
<1>2. TransactionOwned'
  BY <1>0 DEF TransactionOwned, Moved, Place, Inside, round, Locations, Writers, InsideTxn
<1>3. Pending'
  BY <1>0 DEF Pending, Trimmed, Inserted, NotBefore, Reported, Scored, Fields, Moved, Place, Inside, round, Locations, Writers, InsideTxn
<1>4. Progress'
  <2>1. Unscored(round)
    BY <1>0, <1>n, EntryFields DEF Unscored, History, DBTypes, round
  <2>2. ran'[round] > 0 /\ round \in Rounds
    BY <1>0, <1>n DEF DBTypes, Rounds, round
  <2>3. disk'.count = mem /\ mem > 0
    BY <1>0, <1>n DEF Fields
  <2>4. Unscored(round)' /\ pc'["challenge"] = "running"
    BY <1>0, <1>n, <2>1 DEF Unscored, Moved
  <2>5. QED
    BY <1>0, <1>n, <2>2, <2>3, <2>4 DEF Progress, Numbering, Scoring, Reporting, Place
<1>5. History'
  <2>1. disk'.count = mem /\ disk'.rows = disk.rows /\ disk'.reports = disk.reports /\ round < mem
          /\ round \in Rounds
    BY <1>0, <1>n DEF Fields, Rounds, round
  <2>2. ran[round] = 0
    BY <1>0, <1>n, <2>1 DEF History, RoundsRunOnce, DBTypes, round
  <2>3. \A n \in Rounds : ran'[n] = IF n = round THEN 1 ELSE ran[n]
    BY <1>0, <2>1, <2>2 DEF DBTypes
  <2>4. RoundsRunOnce'
    BY <1>0, <1>n, <2>1, <2>3 DEF History, RoundsRunOnce, Rounds
  <2>5. \A e \in recorded : e[1] < disk'.count
    BY <1>0, <1>n, <2>1, EntryFields DEF History, DBTypes
  <2>6. QED
    BY <1>0, <2>1, <2>4, <2>5 DEF History, Expired, ReportsFollowScores, Scored
<1>6. QED
  BY <1>1, <1>2, <1>3, <1>4, <1>5

LEMMA RoundFailsSafe == DBInv /\ RoundFails /\ now' = now => DBInv'
<1> SUFFICES ASSUME DBInv, RoundFails, now' = now PROVE DBInv'
  OBVIOUS
<1> USE DBAssumption DEF DBInv
<1>0. /\ pc["challenge"] = "running" /\ Moved("challenge", "idle")
      /\ disk' = disk /\ live' = live /\ inTxn' = inTxn /\ mem' = mem /\ verified' = verified
      /\ todo' = todo /\ recorded' = recorded /\ ran' = ran /\ crashes' = crashes
  BY Moves DEF RoundFails, book, Locations, Writers, InsideTxn
<1>1. DBTypes'
  BY <1>0 DEF DBTypes, Moved
<1>2. TransactionOwned'
  BY <1>0 DEF TransactionOwned, Moved, Place, Inside, round, Locations, Writers, InsideTxn
<1>3. Pending'
  BY <1>0 DEF Pending, Trimmed, Inserted, NotBefore, Reported, Scored, Fields, Moved, Place, Inside, round, Locations, Writers, InsideTxn
<1>4. Progress'
  BY <1>0, Numbers DEF Progress, Unscored, Scored, Numbering, Scoring, Reporting, Moved, Place, Inside, round,
     Locations, Writers, InsideTxn
<1>5. History'
  BY <1>0, HistoryKept
<1>6. QED
  BY <1>1, <1>2, <1>3, <1>4, <1>5

LEMMA StartInsertSafe == DBInv /\ StartInsert /\ now' = now => DBInv'
<1> SUFFICES ASSUME DBInv, StartInsert, now' = now PROVE DBInv'
  OBVIOUS
<1> USE DBAssumption DEF DBInv
<1>0. /\ pc["challenge"] = "running" /\ inTxn' = TRUE
      /\ \/ inTxn /\ Moved("challenge", "idle")
         \/ ~inTxn /\ Moved("challenge", "insert") /\ live = disk /\ \A u \in Writers : ~Inside(u)
      /\ verified' \in SUBSET Miners /\ verified' # {} /\ todo' = verified'
      /\ disk' = disk /\ live' = live /\ mem' = mem /\ recorded' = recorded /\ ran' = ran
      /\ crashes' = crashes
  <2>1. verified' \in SUBSET Miners /\ verified' # {} /\ todo' = verified'
    <3>1. \E S \in (SUBSET Miners) \ {{}} : verified' = S /\ todo' = S
      BY DEF StartInsert
    <3>2. verified' \in (SUBSET Miners) \ {{}} /\ todo' = verified'
      BY <3>1
    <3>3. QED
      BY <3>2
  <2>2. QED
    BY <2>1, BeginStep DEF StartInsert, AfterFailure, Inside, Locations, Writers, InsideTxn
<1>1. DBTypes'
  BY <1>0 DEF DBTypes, Moved
<1>2. TransactionOwned'
  BY <1>0 DEF TransactionOwned, Moved, Place, Inside, round, Locations, Writers, InsideTxn
<1>3. Pending'
  <2> DEFINE at == [m \in Miners |-> now]
  <2>1. at \in [Miners -> 0..now] /\ NotBefore(at)
    BY Numbers DEF NotBefore, History
  <2>2. Inserted(at, todo)' = {}
    BY <1>0 DEF Inserted
  <2>3. ~inTxn => \E a \in [Miners -> 0..now] : NotBefore(a)' /\ (live.rows = disk.rows \cup Inserted(a, todo))'
    <3> SUFFICES ASSUME ~inTxn PROVE NotBefore(at)' /\ (live.rows = disk.rows \cup Inserted(at, todo))'
      BY <2>1
    <3>1. NotBefore(at)'
      BY <1>0, <2>1 DEF NotBefore
    <3>2. QED
      BY <1>0, <2>2, <3>1
  <2>4. CASE inTxn
    BY <1>0, <2>4 DEF Pending, Trimmed, Moved, Place, Inside, Locations, Writers, InsideTxn
  <2>5. CASE ~inTxn
    <3>1. pc'["challenge"] = "insert" /\ pc'["cleanup"] = pc["cleanup"] /\ ~Inside("cleanup")
          /\ live' = disk'
      BY <1>0, <2>5 DEF Moved, Writers
    <3>2. QED
      BY <1>0, <2>3, <2>5, <3>1 DEF Pending, Place, Inside, InsideTxn
  <2>6. QED
    BY <2>4, <2>5
<1>4. Progress'
  BY <1>0, Numbers DEF Progress, Unscored, Scored, Numbering, Scoring, Reporting, Moved, Place, Inside, round,
     Locations, Writers, InsideTxn
<1>5. History'
  BY <1>0, HistoryKept
<1>6. QED
  BY <1>1, <1>2, <1>3, <1>4, <1>5

LEMMA InsertRowSafe == DBInv /\ InsertRow /\ now' = now => DBInv'
<1> SUFFICES ASSUME DBInv, InsertRow, now' = now PROVE DBInv'
  OBVIOUS
<1> USE DBAssumption DEF DBInv
<1>0. /\ pc["challenge"] = "insert" /\ inTxn /\ inTxn' = TRUE /\ Moved("challenge", "insert")
      /\ ~Inside("cleanup")
      /\ live' \in Content /\ todo' \subseteq todo
      /\ \E at \in [Miners -> 0..now] :
           /\ Fields(live', disk.count, disk.rows \cup Inserted(at, todo'), disk.reports)
           /\ NotBefore(at)
      /\ disk' = disk /\ mem' = mem /\ verified' = verified /\ recorded' = recorded /\ ran' = ran
      /\ crashes' = crashes
  <2>1. PICK m \in todo :
          /\ Write("challenge", [live EXCEPT !.rows = @ \cup {<<round, m, now>>}], "insert")
          /\ todo' = todo \ {m}
    BY DEF InsertRow
  <2>2. /\ live \in Content /\ live.count = disk.count /\ live.reports = disk.reports
        /\ todo \subseteq verified /\ m \in Miners /\ round \in Rounds
    BY Numbers DEF InsertRow, Pending, Progress, Place, DBTypes, Scoring, Rounds, round
  <2>3. PICK at \in [Miners -> 0..now] : NotBefore(at) /\ live.rows = disk.rows \cup Inserted(at, todo)
    BY DEF InsertRow, Pending, Place
  <2> DEFINE stamp == [at EXCEPT ![m] = now]
  <2>4. /\ stamp \in [Miners -> 0..now] /\ stamp[m] = now
        /\ \A n \in Miners \ {m} : stamp[n] = at[n]
    BY <2>2, <2>3, Numbers
  <2>5. NotBefore(stamp)
    BY <2>3, <2>4 DEF NotBefore, History
  <2>6. live.rows \cup {<<round, m, now>>} = disk.rows \cup Inserted(stamp, todo')
    <3> HIDE DEF stamp
    <3>1. Inserted(stamp, todo') = Inserted(at, todo) \cup {<<round, m, now>>}
      BY <2>1, <2>2, <2>4 DEF Inserted, DBTypes
    <3>2. QED
      BY <2>3, <3>1
  <2>7. live.rows \cup {<<round, m, now>>} \in SUBSET Entries
    BY <2>2, ContentFields, Numbers DEF Entries
  <2>8. live' = [live EXCEPT !.rows = @ \cup {<<round, m, now>>}]
    BY <2>1 DEF Write
  <2>9. live' \in Content
          /\ Fields(live', disk.count, disk.rows \cup Inserted(stamp, todo'), disk.reports)
    <3> HIDE DEF stamp
    <3>1. QED
      BY <2>2, <2>6, <2>7, <2>8, ContentFields
  <2>10. \E a \in [Miners -> 0..now] :
           Fields(live', disk.count, disk.rows \cup Inserted(a, todo'), disk.reports) /\ NotBefore(a)
    <3> HIDE DEF stamp
    <3>1. QED
      BY <2>4, <2>5, <2>9
  <2>11. QED
    BY <2>1, <2>9, <2>10, WriteStep DEF InsertRow, Inside, Locations, Writers, InsideTxn
<1>1. DBTypes'
  BY <1>0 DEF DBTypes, Moved
<1>2. TransactionOwned'
  BY <1>0 DEF TransactionOwned, Moved, Place, Inside, round, Locations, Writers, InsideTxn
<1>3. Pending'
  BY <1>0 DEF Pending, Trimmed, Inserted, NotBefore, Reported, Scored, Fields, Moved, Place, Inside, round, Locations, Writers, InsideTxn
<1>4. Progress'
  BY <1>0, Numbers DEF Progress, Unscored, Scored, Numbering, Scoring, Reporting, Moved, Place, Inside, round,
     Locations, Writers, InsideTxn
<1>5. History'
  BY <1>0, HistoryKept
<1>6. QED
  BY <1>1, <1>2, <1>3, <1>4, <1>5

LEMMA CommitInsertSafe == DBInv /\ CommitInsert /\ now' = now => DBInv'
<1> SUFFICES ASSUME DBInv, CommitInsert, now' = now PROVE DBInv'
  OBVIOUS
<1> USE DBAssumption DEF DBInv
<1>0. /\ pc["challenge"] = "insert" /\ inTxn' = FALSE /\ Moved("challenge", "report")
      /\ ~Inside("cleanup")
      /\ disk' = live /\ live' = live
      /\ live.count = disk.count /\ live.reports = disk.reports
      /\ todo' = verified /\ recorded' = recorded \cup live.rows
      /\ disk.count = mem /\ mem > 0 /\ ran[round] > 0 /\ verified # {}
      /\ round \in Rounds
      /\ mem' = mem /\ verified' = verified /\ ran' = ran /\ crashes' = crashes
  <2>1. inTxn /\ live.count = disk.count /\ live.reports = disk.reports
    BY Owned DEF CommitInsert, Pending, Place, Inside, Locations, Writers, InsideTxn
  <2>2. disk.count = mem /\ mem > 0 /\ ran[round] > 0 /\ verified # {} /\ round \in Rounds
    BY Numbers DEF CommitInsert, Progress, Place, Scoring, Rounds, round
  <2>3. QED
    BY <2>1, <2>2, CommitStep DEF CommitInsert, Inside, Locations, Writers, InsideTxn
<1>r. PICK at \in [Miners -> 0..now] :
        NotBefore(at) /\ live.rows = disk.rows \cup {<<round, m, at[m]>> : m \in verified}
  BY DEF CommitInsert, Pending, Place, Inserted
<1>s. /\ \A e \in live.rows : e[1] <= round /\ e[3] <= now
      /\ \A m \in verified : \E e \in live.rows : e[1] = round /\ e[2] = m
      /\ disk.rows \subseteq live.rows /\ live.rows \subseteq Entries
      /\ recorded' \subseteq Entries
  <2>1. \A e \in disk.rows : e[1] <= round /\ e[3] <= now
    BY <1>0, Numbers, ContentFields, EntryFields DEF History, round
  <2>2. \A m \in verified : m \in Miners /\ at[m] \in 0..now
    BY <1>r DEF DBTypes
  <2>3. \A e \in live.rows : e[1] <= round /\ e[3] <= now
    <3>1. ASSUME NEW m \in verified
          PROVE  <<round, m, at[m]>>[1] <= round /\ <<round, m, at[m]>>[3] <= now
      BY <1>0, <2>2, Numbers DEF Rounds
    <3>2. QED
      BY <1>r, <2>1, <3>1
  <2>4. \A m \in verified : \E e \in live.rows : e[1] = round /\ e[2] = m
    <3>1. ASSUME NEW m \in verified PROVE \E e \in live.rows : e[1] = round /\ e[2] = m
      <4>1. <<round, m, at[m]>> \in live.rows
        BY <1>r
      <4>2. QED
        BY <4>1
    <3>2. QED
      BY <3>1
  <2>5. disk.rows \subseteq live.rows /\ live.rows \subseteq Entries
    BY <1>r, Numbers, ContentFields
  <2>6. recorded' \subseteq Entries
    BY <1>0, <2>5 DEF DBTypes
  <2>7. QED
    BY <2>3, <2>4, <2>5, <2>6
<1>1. DBTypes'
  BY <1>0, <1>s DEF DBTypes, Moved
<1>2. TransactionOwned'
  BY <1>0 DEF TransactionOwned, Moved, Place, Inside, round, Locations, Writers, InsideTxn
<1>3. Pending'
  BY <1>0 DEF Pending, Trimmed, Inserted, NotBefore, Reported, Scored, Fields, Moved, Place, Inside, round, Locations, Writers, InsideTxn
<1>4. Progress'
  BY <1>0, <1>s, Numbers DEF Progress, Scored, DBTypes, Numbering, Scoring, Reporting, Moved, Place, Inside,
     round, Locations, Writers, InsideTxn
<1>5. History'
  <2>1. \A e \in recorded' : e[1] < disk'.count /\ e[3] <= now
    <3>1. \A e \in live.rows : e[1] < disk'.count
      BY <1>0, <1>s, Numbers, ContentFields, EntryFields DEF round
    <3>2. QED
      BY <1>0, <1>s, <3>1 DEF History
  <2>2. disk'.rows \subseteq recorded' /\ \A e \in recorded' : e \in disk'.rows \/ Expired(e)'
    BY <1>0, <1>s DEF History, Expired
  <2>3. ReportsFollowScores'
    BY <1>0 DEF History, ReportsFollowScores, Scored
  <2>4. RoundsRunOnce'
    BY <1>0 DEF History, RoundsRunOnce
  <2>5. QED
    BY <2>1, <2>2, <2>3, <2>4 DEF History
<1>6. QED
  BY <1>1, <1>2, <1>3, <1>4, <1>5

LEMMA SkipReportSafe == DBInv /\ SkipReport /\ now' = now => DBInv'
<1> SUFFICES ASSUME DBInv, SkipReport, now' = now PROVE DBInv'
  OBVIOUS
<1> USE DBAssumption DEF DBInv
<1>0. /\ todo' \subseteq todo /\ pc["challenge"] = "report" /\ pc' = pc
      /\ disk.count = mem /\ mem > 0 /\ ran[round] > 0 /\ round \in Rounds
      /\ todo \subseteq Scored(round)
      /\ disk' = disk /\ live' = live /\ inTxn' = inTxn /\ mem' = mem /\ verified' = verified
      /\ recorded' = recorded /\ ran' = ran /\ crashes' = crashes
  BY Numbers DEF SkipReport, Progress, Place, Reporting, Rounds, round
<1>1. DBTypes'
  BY <1>0 DEF DBTypes, Moved
<1>2. TransactionOwned'
  BY <1>0 DEF TransactionOwned, Moved, Place, Inside, round, Locations, Writers, InsideTxn
<1>3. Pending'
  BY <1>0 DEF Pending, Trimmed, Inserted, NotBefore, Reported, Scored, Fields, Moved, Place, Inside, round, Locations, Writers, InsideTxn
<1>4. Progress'
  BY <1>0, Numbers DEF Progress, Unscored, Scored, Numbering, Scoring, Reporting, Moved, Place, Inside, round,
     Locations, Writers, InsideTxn
<1>5. History'
  BY <1>0, HistoryKept
<1>6. QED
  BY <1>1, <1>2, <1>3, <1>4, <1>5

LEMMA StartReportSafe == DBInv /\ StartReport /\ now' = now => DBInv'
<1> SUFFICES ASSUME DBInv, StartReport, now' = now PROVE DBInv'
  OBVIOUS
<1> USE DBAssumption DEF DBInv
<1>0. /\ pc["challenge"] = "report" /\ inTxn' = TRUE /\ todo' \subseteq todo
      /\ \/ inTxn /\ Moved("challenge", "report")
         \/ ~inTxn /\ Moved("challenge", "reportWrite") /\ live = disk /\ \A u \in Writers : ~Inside(u)
      /\ disk.count = mem /\ mem > 0 /\ ran[round] > 0 /\ round \in Rounds
      /\ todo \subseteq Scored(round)
      /\ disk' = disk /\ live' = live /\ mem' = mem /\ verified' = verified /\ recorded' = recorded
      /\ ran' = ran /\ crashes' = crashes
  <2>1. pc["challenge"] = "report" /\ todo' \subseteq todo
    BY DEF StartReport
  <2>2. disk.count = mem /\ mem > 0 /\ ran[round] > 0 /\ round \in Rounds /\ todo \subseteq Scored(round)
    BY <2>1, Numbers DEF Progress, Place, Reporting, Rounds, round
  <2>3. QED
    BY <2>1, <2>2, BeginStep DEF StartReport, AfterFailure, Inside, Locations, Writers, InsideTxn
<1>1. DBTypes'
  BY <1>0 DEF DBTypes, Moved
<1>2. TransactionOwned'
  BY <1>0 DEF TransactionOwned, Moved, Place, Inside, round, Locations, Writers, InsideTxn
<1>3. Pending'
  BY <1>0 DEF Pending, Trimmed, Inserted, NotBefore, Reported, Scored, Fields, Moved, Place, Inside, round, Locations, Writers, InsideTxn
<1>4. Progress'
  BY <1>0, Numbers DEF Progress, Unscored, Scored, Numbering, Scoring, Reporting, Moved, Place, Inside, round,
     Locations, Writers, InsideTxn
<1>5. History'
  BY <1>0, HistoryKept
<1>6. QED
  BY <1>1, <1>2, <1>3, <1>4, <1>5

LEMMA WriteReportSafe == DBInv /\ WriteReport /\ now' = now => DBInv'
<1> SUFFICES ASSUME DBInv, WriteReport, now' = now PROVE DBInv'
  OBVIOUS
<1> USE DBAssumption DEF DBInv
<1>0. /\ pc["challenge"] = "reportWrite" /\ inTxn /\ inTxn' = TRUE
      /\ Moved("challenge", "reportCommit") /\ ~Inside("cleanup")
      /\ live' \in Content /\ todo' \subseteq todo
      /\ disk.count = mem /\ mem > 0 /\ ran[round] > 0 /\ round \in Rounds
      /\ todo \subseteq Scored(round)
      /\ live'.count = disk.count /\ live'.rows = disk.rows /\ Reported(live')
      /\ disk' = disk /\ mem' = mem /\ verified' = verified /\ recorded' = recorded /\ ran' = ran
      /\ crashes' = crashes
  <2>1. PICK m \in todo \cap Reportable :
          /\ Write("challenge", [live EXCEPT !.reports = WithReport(@, m)], "reportCommit")
          /\ todo' = todo \ {m}
    BY DEF WriteReport
  <2>2. disk.count = mem /\ mem > 0 /\ ran[round] > 0 /\ round \in Rounds /\ todo \subseteq Scored(round)
    BY Numbers DEF WriteReport, Progress, Place, Reporting, Rounds, round
  <2>3. live = disk /\ live \in Content /\ m \in Miners
    BY Numbers DEF WriteReport, Pending, Place, DBTypes
  <2>4. WithReport(live.reports, m) \in SUBSET Entries
    BY <2>2, <2>3, ContentFields, Numbers DEF WithReport, Entries
  <2>5. live' = [live EXCEPT !.reports = WithReport(live.reports, m)]
    BY <2>1 DEF Write
  <2>6. live' \in Content /\ Fields(live', disk.count, disk.rows, WithReport(disk.reports, m))
    BY <2>3, <2>4, <2>5, ContentFields
  <2>7. Reported(live')
    BY <2>1, <2>2, <2>6 DEF Reported, Fields, WithReport
  <2>8. QED
    BY <2>1, <2>2, <2>6, <2>7, WriteStep DEF WriteReport, Fields, Inside, Locations, Writers, InsideTxn
<1>1. DBTypes'
  BY <1>0 DEF DBTypes, Moved
<1>2. TransactionOwned'
  BY <1>0 DEF TransactionOwned, Moved, Place, Inside, round, Locations, Writers, InsideTxn
<1>3. Pending'
  BY <1>0 DEF Pending, Trimmed, Inserted, NotBefore, Reported, Scored, Fields, Moved, Place, Inside, round, Locations, Writers, InsideTxn
<1>4. Progress'
  BY <1>0, Numbers DEF Progress, Unscored, Scored, Numbering, Scoring, Reporting, Moved, Place, Inside, round,
     Locations, Writers, InsideTxn
<1>5. History'
  BY <1>0, HistoryKept
<1>6. QED
  BY <1>1, <1>2, <1>3, <1>4, <1>5

LEMMA CommitReportSafe == DBInv /\ CommitReport /\ now' = now => DBInv'
<1> SUFFICES ASSUME DBInv, CommitReport, now' = now PROVE DBInv'
  OBVIOUS
<1> USE DBAssumption DEF DBInv
<1>0. /\ pc["challenge"] = "reportCommit" /\ inTxn' = FALSE /\ Moved("challenge", "report")
      /\ ~Inside("cleanup")
      /\ disk' = live /\ live' = live
      /\ live.count = disk.count /\ live.rows = disk.rows /\ Reported(live)
      /\ disk.count = mem /\ mem > 0 /\ ran[round] > 0 /\ round \in Rounds
      /\ todo \subseteq Scored(round)
      /\ mem' = mem /\ verified' = verified /\ todo' = todo /\ recorded' = recorded /\ ran' = ran
      /\ crashes' = crashes
  <2>1. inTxn
          /\ live.count = disk.count /\ live.rows = disk.rows /\ Reported(live)
    BY Owned DEF CommitReport, Pending, Place, Fields, Inside, Locations, Writers, InsideTxn
  <2>2. disk.count = mem /\ mem > 0 /\ ran[round] > 0 /\ round \in Rounds /\ todo \subseteq Scored(round)
    BY Numbers DEF CommitReport, Progress, Place, Reporting, Rounds, round
  <2>3. QED
    BY <2>1, <2>2, CommitStep DEF CommitReport, Inside, book, Locations, Writers, InsideTxn
<1>1. DBTypes'
  BY <1>0 DEF DBTypes, Moved
<1>2. TransactionOwned'
  BY <1>0 DEF TransactionOwned, Moved, Place, Inside, round, Locations, Writers, InsideTxn
<1>3. Pending'
  BY <1>0 DEF Pending, Trimmed, Inserted, NotBefore, Reported, Scored, Fields, Moved, Place, Inside, round, Locations, Writers, InsideTxn
<1>4. Progress'
  <2>1. Scored(round)' = Scored(round) /\ round' = round
    BY <1>0 DEF Scored, round
  <2>2. QED
    BY <1>0, <2>1, Numbers DEF Progress, Numbering, Scoring, Reporting, Moved, Place
<1>5. History'
  BY <1>0 DEF History, Reported, Expired, ReportsFollowScores, Scored, RoundsRunOnce
<1>6. QED
  BY <1>1, <1>2, <1>3, <1>4, <1>5

LEMMA RoundDoneSafe == DBInv /\ RoundDone /\ now' = now => DBInv'
<1> SUFFICES ASSUME DBInv, RoundDone, now' = now PROVE DBInv'
  OBVIOUS
<1> USE DBAssumption DEF DBInv
<1>0. /\ pc["challenge"] = "report" /\ Moved("challenge", "idle")
      /\ disk' = disk /\ live' = live /\ inTxn' = inTxn /\ mem' = mem /\ verified' = verified
      /\ todo' = todo /\ recorded' = recorded /\ ran' = ran /\ crashes' = crashes
  BY Moves DEF RoundDone, book, Locations, Writers, InsideTxn
<1>1. DBTypes'
  BY <1>0 DEF DBTypes, Moved
<1>2. TransactionOwned'
  BY <1>0 DEF TransactionOwned, Moved, Place, Inside, round, Locations, Writers, InsideTxn
<1>3. Pending'
  BY <1>0 DEF Pending, Trimmed, Inserted, NotBefore, Reported, Scored, Fields, Moved, Place, Inside, round, Locations, Writers, InsideTxn
<1>4. Progress'
  BY <1>0, Numbers DEF Progress, Unscored, Scored, Numbering, Scoring, Reporting, Moved, Place, Inside, round,
     Locations, Writers, InsideTxn
<1>5. History'
  BY <1>0, HistoryKept
<1>6. QED
  BY <1>1, <1>2, <1>3, <1>4, <1>5

LEMMA StartCleanupSafe == DBInv /\ StartCleanup /\ now' = now => DBInv'
<1> SUFFICES ASSUME DBInv, StartCleanup, now' = now PROVE DBInv'
  OBVIOUS
<1> USE DBAssumption DEF DBInv
<1>0. /\ pc["cleanup"] = "idle" /\ inTxn' = TRUE
      /\ \/ inTxn /\ Moved("cleanup", "idle")
         \/ ~inTxn /\ Moved("cleanup", "scores") /\ live = disk /\ \A u \in Writers : ~Inside(u)
      /\ disk' = disk /\ live' = live /\ mem' = mem /\ verified' = verified /\ todo' = todo
      /\ recorded' = recorded /\ ran' = ran /\ crashes' = crashes
  BY BeginStep DEF StartCleanup, AfterFailure, book, Locations, Writers, InsideTxn
<1>1. DBTypes'
  BY <1>0 DEF DBTypes, Moved
<1>2. TransactionOwned'
  BY <1>0 DEF TransactionOwned, Moved, Place, Inside, round, Locations, Writers, InsideTxn
<1>3. Pending'
  BY <1>0 DEF Pending, Trimmed, Inserted, NotBefore, Reported, Scored, Fields, Moved, Place, Inside, round, Locations, Writers, InsideTxn
<1>4. Progress'
  BY <1>0, Numbers DEF Progress, Unscored, Scored, Numbering, Scoring, Reporting, Moved, Place, Inside, round,
     Locations, Writers, InsideTxn
<1>5. History'
  BY <1>0, HistoryKept
<1>6. QED
  BY <1>1, <1>2, <1>3, <1>4, <1>5

LEMMA DeleteScoresSafe == DBInv /\ DeleteScores /\ now' = now => DBInv'
<1> SUFFICES ASSUME DBInv, DeleteScores, now' = now PROVE DBInv'
  OBVIOUS
<1> USE DBAssumption DEF DBInv
<1>0. /\ pc["cleanup"] = "scores" /\ inTxn /\ inTxn' = TRUE /\ Moved("cleanup", "reports")
      /\ ~Inside("challenge")
      /\ live' \in Content /\ live'.count = disk.count /\ live'.reports \subseteq disk.reports
      /\ \E t \in Int : t + Retention <= now /\ live'.rows = {e \in disk.rows : e[3] >= t}
      /\ disk' = disk /\ mem' = mem /\ verified' = verified /\ todo' = todo /\ recorded' = recorded
      /\ ran' = ran /\ crashes' = crashes
  <2>1. Write("cleanup", [live EXCEPT !.rows = Kept(@)], "reports")
    BY DEF DeleteScores
  <2>2. live = disk /\ live \in Content
    BY Numbers DEF DeleteScores, Pending, Place
  <2>3. Kept(live.rows) \in SUBSET Entries
    BY <2>2, ContentFields DEF Kept
  <2>4. live' = [live EXCEPT !.rows = Kept(live.rows)]
    BY <2>1 DEF Write
  <2>5. live' \in Content /\ Fields(live', disk.count, Kept(disk.rows), disk.reports)
    BY <2>2, <2>3, <2>4, ContentFields
  <2>6. \E t \in Int : t + Retention <= now /\ Kept(disk.rows) = {e \in disk.rows : e[3] >= t}
    <3>1. now - Retention \in Int /\ (now - Retention) + Retention <= now
      BY Numbers
    <3>2. QED
      BY <3>1 DEF Kept
  <2>7. QED
    BY <2>1, <2>2, <2>5, <2>6, WriteStep DEF DeleteScores, Inside, Fields, book, Locations, Writers, InsideTxn
<1>1. DBTypes'
  BY <1>0 DEF DBTypes, Moved
<1>2. TransactionOwned'
  BY <1>0 DEF TransactionOwned, Moved, Place, Inside, round, Locations, Writers, InsideTxn
<1>3. Pending'
  BY <1>0 DEF Pending, Trimmed, Inserted, NotBefore, Reported, Scored, Fields, Moved, Place, Inside, round, Locations, Writers, InsideTxn
<1>4. Progress'
  BY <1>0, Numbers DEF Progress, Unscored, Scored, Numbering, Scoring, Reporting, Moved, Place, Inside, round,
     Locations, Writers, InsideTxn
<1>5. History'
  BY <1>0, HistoryKept
<1>6. QED
  BY <1>1, <1>2, <1>3, <1>4, <1>5

LEMMA DeleteReportsSafe == DBInv /\ DeleteReports /\ now' = now => DBInv'
<1> SUFFICES ASSUME DBInv, DeleteReports, now' = now PROVE DBInv'
  OBVIOUS
<1> USE DBAssumption DEF DBInv
<1>0. /\ pc["cleanup"] = "reports" /\ inTxn /\ inTxn' = TRUE /\ Moved("cleanup", "commit")
      /\ ~Inside("challenge")
      /\ live' \in Content /\ live'.count = disk.count /\ live'.reports \subseteq disk.reports
      /\ \E t \in Int : t + Retention <= now /\ live'.rows = {e \in disk.rows : e[3] >= t}
      /\ disk' = disk /\ mem' = mem /\ verified' = verified /\ todo' = todo /\ recorded' = recorded
      /\ ran' = ran /\ crashes' = crashes
  <2>1. Write("cleanup", [live EXCEPT !.reports = Kept(@)], "commit")
    BY DEF DeleteReports
  <2>2. live \in Content /\ live.count = disk.count /\ live.reports \subseteq disk.reports /\ Trimmed
    BY Numbers DEF DeleteReports, Pending, Place
  <2>3. Kept(live.reports) \in SUBSET Entries /\ Kept(live.reports) \subseteq live.reports
    BY <2>2, ContentFields DEF Kept
  <2>4. live' = [live EXCEPT !.reports = Kept(live.reports)]
    BY <2>1 DEF Write
  <2>5. live' \in Content /\ Fields(live', disk.count, live.rows, Kept(live.reports))
    BY <2>2, <2>3, <2>4, ContentFields
  <2>6. QED
    BY <2>1, <2>2, <2>3, <2>5, WriteStep DEF DeleteReports, Inside, Fields, Trimmed, book, Locations,
       Writers, InsideTxn
<1>1. DBTypes'
  BY <1>0 DEF DBTypes, Moved
<1>2. TransactionOwned'
  BY <1>0 DEF TransactionOwned, Moved, Place, Inside, round, Locations, Writers, InsideTxn
<1>3. Pending'
  BY <1>0 DEF Pending, Trimmed, Inserted, NotBefore, Reported, Scored, Fields, Moved, Place, Inside, round, Locations, Writers, InsideTxn
<1>4. Progress'
  BY <1>0, Numbers DEF Progress, Unscored, Scored, Numbering, Scoring, Reporting, Moved, Place, Inside, round,
     Locations, Writers, InsideTxn
<1>5. History'
  BY <1>0, HistoryKept
<1>6. QED
  BY <1>1, <1>2, <1>3, <1>4, <1>5

LEMMA CommitCleanupSafe == DBInv /\ CommitCleanup /\ now' = now => DBInv'
<1> SUFFICES ASSUME DBInv, CommitCleanup, now' = now PROVE DBInv'
  OBVIOUS
<1> USE DBAssumption DEF DBInv
<1>0. /\ pc["cleanup"] = "commit" /\ inTxn' = FALSE /\ Moved("cleanup", "idle") /\ ~Inside("challenge")
      /\ disk' = live /\ live' = live
      /\ live.count = disk.count /\ live.reports \subseteq disk.reports /\ Trimmed
      /\ mem' = mem /\ verified' = verified /\ todo' = todo /\ recorded' = recorded /\ ran' = ran
      /\ crashes' = crashes
  <2>1. inTxn /\ live.count = disk.count /\ live.reports \subseteq disk.reports /\ Trimmed
    BY Owned DEF CommitCleanup, Pending, Place, Inside, Locations, Writers, InsideTxn
  <2>2. QED
    BY <2>1, CommitStep DEF CommitCleanup, Inside, book, Locations, Writers, InsideTxn
<1>1. DBTypes'
  BY <1>0 DEF DBTypes, Moved
<1>2. TransactionOwned'
  BY <1>0 DEF TransactionOwned, Moved, Place, Inside, round, Locations, Writers, InsideTxn
<1>3. Pending'
  BY <1>0 DEF Pending, Trimmed, Inserted, NotBefore, Reported, Scored, Fields, Moved, Place, Inside, round, Locations, Writers, InsideTxn
<1>4. Progress'
  BY <1>0, Numbers DEF Progress, Unscored, Scored, Numbering, Scoring, Reporting, Moved, Place, Inside, round,
     Locations, Writers, InsideTxn
<1>5. History'
  <2>1. PICK t \in Int : t + Retention <= now /\ live.rows = {e \in disk.rows : e[3] >= t}
    BY <1>0 DEF Trimmed
  <2>2. \A e \in recorded : e \in disk'.rows \/ Expired(e)'
    BY <1>0, <2>1, Numbers, EntryFields DEF History, Expired, DBTypes
  <2>3. QED
    BY <1>0, <2>1, <2>2 DEF History, ReportsFollowScores, Scored, RoundsRunOnce
<1>6. QED
  BY <1>1, <1>2, <1>3, <1>4, <1>5

LEMMA FailSafe == DBInv /\ (\E t \in Writers : Fail(t)) /\ now' = now => DBInv'
<1> SUFFICES ASSUME DBInv, (\E t \in Writers : Fail(t)), now' = now PROVE DBInv'
  OBVIOUS
<1> USE DBAssumption DEF DBInv
<1> PICK t \in Writers : Fail(t)
  OBVIOUS
<1>0. /\ Inside(t) /\ inTxn /\ inTxn' = FALSE /\ live' = disk /\ disk' = disk
      /\ Moved(t, AfterFailure(t)) /\ todo' \subseteq todo
      /\ \A u \in Writers \ {t} : ~Inside(u)
      /\ mem' = mem /\ verified' = verified /\ recorded' = recorded /\ ran' = ran /\ crashes' = crashes
  BY Owned, Moves, FailureIsLocation DEF Fail, Rollback, Inside
<1>1. DBTypes'
  BY <1>0 DEF DBTypes, Moved
<1>2. TransactionOwned'
  BY <1>0, FailureIsLocation DEF TransactionOwned, Moved, Place, Inside, round, Locations, Writers,
     InsideTxn
<1>3. Pending'
  BY <1>0, FailureIsLocation DEF Pending, Trimmed, Moved, Place, Inside, round, Locations, Writers, InsideTxn
<1>4. Progress'
  BY <1>0, FailureIsLocation, Numbers DEF Progress, Unscored, Scored, AfterFailure, Numbering, Scoring, Reporting,
     Moved, Place, Inside, round, Locations, Writers, InsideTxn
<1>5. History'
  BY <1>0, HistoryKept
<1>6. QED
  BY <1>1, <1>2, <1>3, <1>4, <1>5

LEMMA CrashSafe == DBInv /\ Crash /\ now' = now => DBInv'
<1> SUFFICES ASSUME DBInv, Crash, now' = now PROVE DBInv'
  OBVIOUS
<1> USE DBAssumption DEF DBInv
<1>0. /\ pc' = [t \in Writers |-> "idle"] /\ inTxn' = FALSE /\ live' = disk /\ disk' = disk
      /\ mem' = disk.count
      /\ verified' = {} /\ todo' = {} /\ crashes < MaxCrashes /\ crashes' = crashes + 1
      /\ recorded' = recorded /\ ran' = ran
  BY DEF Crash, Restart
<1>1. DBTypes'
  <2>1. pc' \in [Writers -> Locations]
    BY <1>0 DEF Locations
  <2>2. crashes' \in 0..MaxCrashes
    BY <1>0 DEF DBTypes
  <2>3. QED
    BY <1>0, <2>1, <2>2, Numbers DEF DBTypes
<1>2. TransactionOwned'
  BY <1>0 DEF TransactionOwned, Moved, Place, Inside, round, Locations, Writers, InsideTxn
<1>3. Pending'
  BY <1>0 DEF Pending, Trimmed, Inserted, NotBefore, Reported, Scored, Fields, Moved, Place, Inside, round, Locations, Writers, InsideTxn
<1>4. Progress'
  BY <1>0, Numbers DEF Progress, Unscored, Scored, Numbering, Scoring, Reporting, Moved, Place, Inside, round,
     Locations, Writers, InsideTxn
<1>5. History'
  BY <1>0, HistoryKept
<1>6. QED
  BY <1>1, <1>2, <1>3, <1>4, <1>5

-------------------------------------------------------------------------------
(* The reader, beside the writers.                                           *)

\* Of what was ever committed, the connection's view lacks only what expired,
\* and beyond it it holds only rows of the insert in progress.
LEMMA View ==
  ASSUME DBInv
  PROVE  /\ \A e \in recorded : e \in live.rows \/ Expired(e)
         /\ \A e \in live.rows : e \in recorded \/ (pc["challenge"] = "insert" /\ e[1] = round)
<1> USE DEF DBInv
<1>1. /\ disk.rows \subseteq recorded /\ recorded \subseteq Entries
      /\ \A e \in recorded : e \in disk.rows \/ Expired(e)
  BY DEF History, DBTypes
<1>2. CASE live.rows = disk.rows
  BY <1>1, <1>2
<1>3. CASE pc["challenge"] = "insert"
  <2>1. PICK at \in [Miners -> 0..now] : live.rows = disk.rows \cup Inserted(at, todo)
    BY <1>3 DEF Pending, Place
  <2>2. \A e \in Inserted(at, todo) : e[1] = round
    BY DEF Inserted
  <2>3. QED
    BY <1>1, <1>3, <2>1, <2>2
<1>4. CASE Trimmed
  <2>1. PICK t \in Int : t + Retention <= now /\ live.rows = {e \in disk.rows : e[3] >= t}
    BY <1>4 DEF Trimmed
  <2>2. \A e \in disk.rows : e \in live.rows \/ Expired(e)
    BY <1>1, <2>1, Numbers, EntryFields, DBAssumption DEF Expired
  <2>3. QED
    BY <1>1, <2>1, <2>2
<1>5. live.rows = disk.rows \/ pc["challenge"] = "insert" \/ Trimmed
  <2>1. CASE inTxn
    BY <2>1 DEF TransactionOwned, Pending, Place, Inside, InsideTxn, Writers
  <2>2. CASE ~inTxn
    BY <2>2 DEF TransactionOwned
  <2>3. QED
    BY <2>1, <2>2 DEF DBTypes
<1>6. QED
  BY <1>2, <1>3, <1>4, <1>5

(* A step of a writer never moves back the round whose scores are to come.   *)
LEMMA NextRoundGrows ==
  ASSUME DBInv, Writing
  PROVE  NextRound' >= NextRound /\ NextRound \in Int
<1> USE DEF DBInv
<1>1. mem \in Int /\ round = mem - 1 /\ NextRound \in {mem, mem - 1}
  BY Numbers, DBAssumption DEF NextRound, round
<1>2. CASE StartRound
  BY <1>1, <1>2, BeginStep DEF StartRound, NextRound, Recording, round, AfterFailure, Moved,
     Writers, Locations, InsideTxn
<1>3. CASE WriteCount \/ CommitCount \/ StartInsert \/ InsertRow
  BY <1>1, <1>3, Owned, Numbers, DBAssumption DEF WriteCount, CommitCount, StartInsert, InsertRow,
     Begin, Write, Commit, At, AfterFailure, NextRound, Recording, round, DBTypes, Inside, InsideTxn, Writers
<1>4. CASE RoundFails \/ CommitInsert
  BY <1>1, <1>4 DEF RoundFails, CommitInsert, Commit, At, AfterFailure, NextRound, Recording, round,
     DBTypes, Writers
<1>5. CASE SkipReport \/ StartReport \/ WriteReport \/ CommitReport \/ RoundDone
  <2>1. mem' = mem /\ pc["challenge"] \in {"report", "reportWrite", "reportCommit"}
    BY <1>5 DEF SkipReport, StartReport, WriteReport, CommitReport, RoundDone, Write, Commit
  <2>2. pc'["challenge"] \in {"report", "reportWrite", "reportCommit", "idle"}
    <3>1. CASE SkipReport \/ StartReport
      BY <3>1 DEF SkipReport, StartReport, Begin, At, AfterFailure, DBTypes, Writers
    <3>2. CASE WriteReport \/ CommitReport \/ RoundDone
      BY <3>2 DEF WriteReport, CommitReport, RoundDone, Write, Commit, At, AfterFailure, DBTypes, Writers
    <3>3. QED
      BY <1>5, <3>1, <3>2
  <2>3. ~Recording /\ ~Recording'
    BY <2>1, <2>2 DEF Recording
  <2>4. QED
    BY <1>1, <2>1, <2>3 DEF NextRound
<1>6. CASE Cleanup
  BY <1>1, <1>6 DEF Cleanup, StartCleanup, DeleteScores, DeleteReports, CommitCleanup, Begin, Write,
     Commit, At, NextRound, Recording, round, DBTypes, Writers, book
<1>7. CASE \E t \in Writers : Fail(t)
  BY <1>1, <1>7 DEF Fail, At, AfterFailure, NextRound, Recording, round, DBTypes, Writers
<1>8. QED
  BY <1>2, <1>3, <1>4, <1>5, <1>6, <1>7 DEF Writing, Challenge

LEMMA WritingSafe == DBInv /\ Writing /\ now' = now => DBInv'
  BY StartRoundSafe, WriteCountSafe, CommitCountSafe, RoundFailsSafe, StartInsertSafe, InsertRowSafe,
     CommitInsertSafe, SkipReportSafe, StartReportSafe, WriteReportSafe, CommitReportSafe, RoundDoneSafe,
     StartCleanupSafe, DeleteScoresSafe, DeleteReportsSafe, CommitCleanupSafe, FailSafe
  DEF Writing, Challenge, Cleanup

(* What is committed is a later reader's; an earlier one may see it or not.  *)
LEMMA WritingRead == DBInv /\ ReadTypes /\ Reader /\ Writing /\ UNCHANGED <<now, read>> => Reader'
<1> SUFFICES ASSUME DBInv, ReadTypes, Reader, Writing, UNCHANGED <<now, read>>, reader # "idle" PROVE Reader'
  BY DEF Reader, read
<1>1. /\ reader' = reader /\ cutoff' = cutoff /\ seen' = seen /\ due' = due /\ since' = since /\ now' = now
  BY DEF read
<1>2. recorded \subseteq recorded' /\ \A e \in recorded' : e \in recorded \/ e[1] >= since
  <2>1. CASE CommitInsert
    <3>1. recorded \subseteq recorded' /\ recorded' \subseteq recorded \cup live.rows
      BY <2>1 DEF CommitInsert
    <3>2. pc["challenge"] = "insert" /\ since <= round
      BY <2>1 DEF CommitInsert, Reader, NextRound, Recording
    <3>3. \A e \in live.rows : e \in recorded \/ e[1] = round
      BY View
    <3>4. \A e \in live.rows : e \in recorded \/ e[1] >= since
      BY <3>2, <3>3
    <3>5. QED
      BY <3>1, <3>4
  <2>2. CASE ~CommitInsert
    <3>1. recorded' = recorded
      BY <2>2 DEF Writing, Challenge, Cleanup, StartRound, WriteCount, CommitCount, RoundFails,
         StartInsert, InsertRow, SkipReport, StartReport, WriteReport, CommitReport, RoundDone,
         StartCleanup, DeleteScores, DeleteReports, CommitCleanup, Fail, book
    <3>2. QED
      BY <3>1
  <2>3. QED
    BY <2>1, <2>2
<1>3. since <= NextRound'
  <2>1. NextRound' \in Int
    <3>1. DBTypes'
      BY WritingSafe, <1>1 DEF DBInv
    <3>2. QED
      BY <3>1, DBAssumption DEF DBTypes, NextRound, round
  <2>2. QED
    BY <2>1, NextRoundGrows DEF Reader, ReadTypes
<1>4. QED
  BY <1>1, <1>2, <1>3 DEF Reader, Expired

LEMMA Unmoved ==
  ASSUME DBInv, disk' = disk, live' = live, inTxn' = inTxn, pc' = pc, mem' = mem,
         verified' = verified, todo' = todo, recorded' = recorded, ran' = ran,
         crashes' = crashes, now' = now
  PROVE  DBInv'
<1> USE DEF DBInv
<1>1. DBTypes' /\ TransactionOwned'
  BY DEF DBTypes, TransactionOwned, Inside
<1>2. Pending'
  BY DEF Pending, Trimmed, NotBefore, Inserted, Reported, Scored, Place, round
<1>3. Progress'
  BY DEF Progress, Scored, Unscored, Place, round
<1>4. QED
  BY <1>1, <1>2, <1>3, HistoryKept

(* The steps of the read itself change nothing else.                         *)
LEMMA ReadingSafe ==
  IInv /\ Reading /\ UNCHANGED <<database, book, now>> => IInv'
<1> SUFFICES ASSUME IInv, Reading, UNCHANGED <<database, book, now>> PROVE IInv'
  OBVIOUS
<1>1. DBInv' /\ recorded' = recorded /\ live' = live /\ now' = now /\ NextRound' = NextRound
  <2>1. /\ disk' = disk /\ live' = live /\ inTxn' = inTxn /\ pc' = pc /\ mem' = mem
        /\ verified' = verified /\ todo' = todo /\ recorded' = recorded /\ ran' = ran
        /\ crashes' = crashes /\ now' = now
    BY DEF database, book
  <2>2. QED
    BY <2>1, Unmoved DEF IInv, NextRound, Recording, round
<1>2. now \in Nat /\ now - Window \in Int /\ NextRound \in Int /\ live.rows \subseteq Entries
        /\ recorded \subseteq Entries
  BY Numbers, ContentFields, DBAssumption DEF IInv, DBInv, DBTypes, NextRound, round
<1>3. CASE StartRead
  <2>1. ReadTypes'
    BY <1>2, <1>3 DEF StartRead, ReadTypes, NextRound, round
  <2>2. since' = NextRound
    BY <1>3 DEF StartRead, NextRound
  <2>3. Reader'
    BY <1>1, <1>2, <1>3, <2>2 DEF StartRead, Reader
  <2>4. QED
    BY <1>1, <2>1, <2>3 DEF IInv
<1>4. CASE ReadRow
  <2>1. PICK e \in Unread : seen' = seen \cup {e}
    BY <1>4 DEF ReadRow
  <2>2. e \in live.rows /\ e[3] >= cutoff
    BY <2>1 DEF Unread
  <2>3. e \in due \/ e[1] >= since
    <3>1. CASE e \in recorded
      BY <1>4, <2>2, <3>1 DEF IInv, Reader, ReadRow
    <3>2. CASE e \notin recorded
      <4>1. pc["challenge"] = "insert" /\ e[1] = round
        BY <2>2, <3>2, View DEF IInv
      <4>2. QED
        BY <1>4, <4>1 DEF IInv, Reader, ReadRow, NextRound, Recording
    <3>3. QED
      BY <3>1, <3>2
  <2>4. ReadTypes'
    BY <1>2, <1>4, <2>1, <2>2 DEF IInv, ReadTypes, ReadRow
  <2>5. Reader'
    BY <1>1, <1>4, <2>1, <2>2, <2>3 DEF IInv, Reader, ReadRow
  <2>6. QED
    BY <1>1, <2>4, <2>5 DEF IInv
<1>5. CASE LeaveRead
  BY <1>1, <1>5 DEF LeaveRead, IInv, ReadTypes, Reader
<1>6. QED
  BY <1>3, <1>4, <1>5 DEF Reading

(* As time passes, rows expire and nothing else changes.                     *)
LEMMA TickSafe == IInv /\ Tick /\ UNCHANGED <<database, book, read>> => IInv'
<1> SUFFICES ASSUME IInv, Tick, UNCHANGED <<database, book, read>> PROVE IInv'
  OBVIOUS
<1> USE DBAssumption DEF IInv, DBInv
<1>1. /\ disk' = disk /\ live' = live /\ inTxn' = inTxn /\ pc' = pc /\ mem' = mem
      /\ verified' = verified /\ todo' = todo /\ recorded' = recorded /\ ran' = ran
      /\ crashes' = crashes /\ reader' = reader /\ cutoff' = cutoff /\ seen' = seen /\ due' = due
      /\ since' = since
  BY DEF database, book, read
<1>2. now \in Nat /\ now' = now + 1 /\ now' \in Times
  BY Numbers DEF Tick, Times
<1>3. DBTypes' /\ ReadTypes' /\ TransactionOwned'
  BY <1>1, <1>2 DEF DBTypes, ReadTypes, TransactionOwned, Inside
<1>4. Pending'
  <2>1. Trimmed => Trimmed'
    BY <1>1, <1>2 DEF Trimmed
  <2>2. ASSUME NEW at \in [Miners -> 0..now], NotBefore(at), live.rows = disk.rows \cup Inserted(at, todo)
        PROVE  /\ at \in [Miners -> 0..now']
               /\ NotBefore(at)' /\ (live.rows = disk.rows \cup Inserted(at, todo))'
    <3>1. at \in [Miners -> 0..now']
      BY <1>2
    <3>2. NotBefore(at)'
      BY <1>1, <2>2 DEF NotBefore
    <3>3. (live.rows = disk.rows \cup Inserted(at, todo))'
      BY <1>1, <2>2 DEF Inserted, round
    <3>4. QED
      BY <3>1, <3>2, <3>3
  <2>3. Reported(live) => Reported(live)'
    BY <1>1 DEF Reported, Scored, round
  <2>4. QED
    BY <1>1, <2>1, <2>2, <2>3 DEF Pending, Place
<1>5. Progress'
  BY <1>1 DEF Progress, Place, round, Scored, Unscored
<1>6. \A e \in Entries : Expired(e) => Expired(e)'
  BY <1>2, EntryFields DEF Expired
<1>7. History'
  BY <1>1, <1>2, <1>6, EntryFields DEF History, ReportsFollowScores, Scored, RoundsRunOnce, DBTypes
<1>8. Reader'
  BY <1>1, <1>6 DEF Reader, NextRound, Recording, round, ReadTypes
<1>9. QED
  BY <1>3, <1>4, <1>5, <1>7, <1>8

(* The invariant holds from the first opening of the database on.            *)
THEOREM DatabaseInvariant == Spec => []IInv
<1>1. Init => IInv
  BY InitSafe DEF Init, IInv, ReadTypes, Reader
<1>2. IInv /\ [Next]_vars => IInv'
  <2> SUFFICES ASSUME IInv, [Next]_vars PROVE IInv'
    OBVIOUS
  <2>1. CASE Writing /\ UNCHANGED <<now, read>>
    <3>1. ReadTypes'
      BY <2>1 DEF IInv, ReadTypes, read
    <3>2. QED
      BY <2>1, <3>1, WritingSafe, WritingRead DEF IInv
  <2>2. CASE Reading /\ UNCHANGED <<database, book, now>>
    BY <2>2, ReadingSafe
  <2>3. CASE Tick /\ UNCHANGED <<database, book, read>>
    BY <2>3, TickSafe
  <2>4. CASE Crash
    <3>1. ReadTypes' /\ Reader'
      BY <2>4 DEF Crash, Restart, ReadTypes, Reader
    <3>2. DBInv'
      BY <2>4, CrashSafe DEF IInv, Crash, Restart
    <3>3. QED
      BY <3>1, <3>2 DEF IInv
  <2>5. CASE UNCHANGED vars
    <3>1. DBInv'
      BY <2>5, Unmoved DEF IInv, vars, database, book
    <3>2. ReadTypes' /\ Reader'
      BY <2>5 DEF IInv, vars, database, book, read, ReadTypes, Reader, NextRound, Recording, round,
         Expired
    <3>3. QED
      BY <3>1, <3>2 DEF IInv
  <2>6. QED
    BY <2>1, <2>2, <2>3, <2>4, <2>5 DEF Next
<1>3. QED
  BY <1>1, <1>2, PTL DEF Spec

(* The content, the stations, the stamps and the reader have their types.    *)
THEOREM DatabaseTypes == Spec => []TypeOK
<1>1. IInv => TypeOK
  BY DEF IInv, DBInv, DBTypes, ReadTypes, TypeOK
<1>2. QED
  BY DatabaseInvariant, <1>1, PTL

(* scoring_db.py:280-425, 438-462: a BEGIN refused by another writer's       *)
(* transaction neither joins nor ends it, for any number of miners, rounds,  *)
(* failures and crashes.                                                     *)
THEOREM TransactionsOwned == Spec => []TransactionOwned
<1>1. IInv => TransactionOwned
  BY DEF IInv, DBInv
<1>2. QED
  BY DatabaseInvariant, <1>1, PTL

(* main.py:335-347 and set_round_count: no round number runs twice, and none *)
(* before the counter on disk has passed it.                                 *)
THEOREM RoundsNeverReplayed == Spec => []RoundsRunOnce
<1>1. IInv => RoundsRunOnce
  BY DEF IInv, DBInv, History
<1>2. QED
  BY DatabaseInvariant, <1>1, PTL

(* main.py:446-470: every report on record is about a miner whose score was  *)
(* committed before.                                                         *)
THEOREM ReportsAfterScores == Spec => []ReportsFollowScores
<1>1. IInv => ReportsFollowScores
  BY DEF IInv, DBInv, History
<1>2. QED
  BY DatabaseInvariant, <1>1, PTL

(* get_scores_in_window (scoring_db.py:371-388), row by row beside an insert,*)
(* a rollback and a cleanup: of the rows committed in its window none is     *)
(* missing but those the retention gave up meanwhile, whatever its length,   *)
(* and none is added but of rounds whose scores were still to come.          *)
THEOREM ExactWindow == Spec => []WindowExact
<1>1. IInv => WindowExact
  <2> SUFFICES ASSUME IInv, Fetched PROVE WindowExact
    BY DEF WindowExact
  <2>1. ASSUME NEW e \in due PROVE e \in seen \/ Expired(e)
    <3>1. e \in recorded /\ e[3] >= cutoff
      BY DEF IInv, Reader, Fetched
    <3>2. e \in live.rows \/ Expired(e)
      BY <3>1, View DEF IInv
    <3>3. QED
      BY <3>1, <3>2 DEF Fetched, Unread
  <2>2. QED
    BY <2>1 DEF IInv, Reader, Fetched, WindowExact
<1>2. QED
  BY DatabaseInvariant, <1>1, PTL
-------------------------------------------------------------------------------
(* The statements implement the ledger: three commits and the clock are its    *)
(* steps, and everything else leaves it as it is.                                       *)
Begun == {n \in Rounds : ran[n] > 0}

LEMMA BeginsARound == IInv /\ CommitCount /\ now' = now => Ledger!Begin(round)
<1> SUFFICES ASSUME IInv, CommitCount, now' = now PROVE Ledger!Begin(round)
  OBVIOUS
<1> USE DEF IInv, DBInv
<1>1. inTxn /\ live.count = mem /\ live.rows = disk.rows /\ disk.count < mem
  BY Owned DEF CommitCount, Pending, Progress, Place, Numbering, Inside, Writers, InsideTxn
<1>2. disk.count \in 0..MaxRounds /\ mem \in 0..MaxRounds /\ round \in Rounds /\ ran \in [Rounds -> Nat]
  BY <1>1, Numbers, DBAssumption DEF DBTypes, Rounds, round
<1>3. disk' = live /\ ran' = [ran EXCEPT ![round] = @ + 1]
  BY <1>1 DEF CommitCount, Commit
<1>4. ran[round] = 0
  BY <1>1, <1>2 DEF History, RoundsRunOnce, round
<1>5. {n \in Rounds : ran'[n] > 0} = Begun \cup {round}
  BY <1>2, <1>3, <1>4 DEF Begun
<1>6. QED
  BY <1>1, <1>2, <1>3, <1>4, <1>5 DEF Ledger!Begin, Begun, round

LEMMA PublishesARound == IInv /\ CommitInsert /\ now' = now => Ledger!Publish(round, verified)
<1> SUFFICES ASSUME IInv, CommitInsert, now' = now PROVE Ledger!Publish(round, verified)
  OBVIOUS
<1> USE DEF IInv, DBInv
<1>1. inTxn /\ todo = {} /\ live.count = disk.count
  BY Owned DEF CommitInsert, Pending, Place, Inside, Writers, InsideTxn
<1>2. PICK at \in [Miners -> 0..now] :
        NotBefore(at) /\ live.rows = disk.rows \cup {<<round, m, at[m]>> : m \in verified}
  BY <1>1 DEF CommitInsert, Pending, Place, Inserted
<1>3. disk.count = mem /\ mem > 0 /\ ran[round] > 0 /\ Unscored(round) /\ verified # {}
  BY DEF CommitInsert, Progress, Place, Scoring
<1>4. round \in Rounds /\ round + 1 = disk.count /\ verified \subseteq Miners
  BY <1>3, Numbers, DBAssumption DEF DBTypes, Rounds, round
<1>5. disk' = live /\ ran' = ran
  BY <1>1 DEF CommitInsert, Commit
<1>6. Ledger!EntriesOf(round) = {}
  BY <1>3 DEF Unscored, History, Ledger!EntriesOf
<1>7. \A m \in verified, e \in disk.rows : e[3] <= at[m]
  BY <1>2, <1>4 DEF NotBefore
<1>8. QED
  BY <1>1, <1>2, <1>3, <1>4, <1>5, <1>6, <1>7 DEF Ledger!Publish

LEMMA RetiresEntries ==
  IInv /\ CommitCleanup /\ now' = now =>
    (\E t \in 0..now : Ledger!Retire(t)) \/ UNCHANGED Ledger!ledger
<1> SUFFICES ASSUME IInv, CommitCleanup, now' = now
             PROVE  (\E t \in 0..now : Ledger!Retire(t)) \/ UNCHANGED Ledger!ledger
  OBVIOUS
<1> USE DEF IInv, DBInv
<1>1. inTxn /\ live.count = disk.count /\ Trimmed
  BY Owned DEF CommitCleanup, Pending, Place, Inside, Writers, InsideTxn
<1>2. disk' = live /\ ran' = ran
  BY <1>1 DEF CommitCleanup, Commit, book
<1>3. PICK t \in Int : t + Retention <= now /\ live.rows = {e \in disk.rows : e[3] >= t}
  BY <1>1 DEF Trimmed
<1>4. CASE t >= 0
  <2>1. t \in 0..now
    BY <1>3, <1>4, Numbers, DBAssumption
  <2>2. Ledger!Retire(t)
    BY <1>1, <1>2, <1>3 DEF Ledger!Retire
  <2>3. QED
    BY <2>1, <2>2
<1>5. CASE ~(t >= 0)
  <2>1. \A e \in disk.rows : e[3] >= t
    BY <1>3, <1>5, Numbers, ContentFields, EntryFields
  <2>2. live.rows = disk.rows
    BY <1>3, <2>1
  <2>3. QED
    BY <1>1, <1>2, <2>2 DEF Ledger!ledger
<1>6. QED
  BY <1>4, <1>5

LEMMA Stutters ==
  IInv /\ Writing /\ now' = now /\ ~CommitCount /\ ~CommitInsert /\ ~CommitCleanup =>
    UNCHANGED Ledger!ledger
<1> SUFFICES ASSUME IInv, Writing, ~CommitCount, ~CommitInsert, ~CommitCleanup
             PROVE  disk'.count = disk.count /\ disk'.rows = disk.rows /\ ran' = ran
  BY DEF Ledger!ledger
<1> USE DEF IInv, DBInv
<1>1. CASE WriteCount \/ InsertRow \/ WriteReport \/ DeleteScores \/ DeleteReports
  <2>1. inTxn
    BY <1>1, Owned DEF WriteCount, InsertRow, WriteReport, DeleteScores, DeleteReports, Inside,
       Writers, InsideTxn
  <2>2. QED
    BY <1>1, <2>1 DEF WriteCount, InsertRow, WriteReport, DeleteScores, DeleteReports, Write, book
<1>2. CASE CommitReport
  <2>1. live.count = disk.count /\ live.rows = disk.rows
    BY <1>2 DEF CommitReport, Pending, Place
  <2>2. QED
    BY <1>2, <2>1 DEF CommitReport, Commit, book
<1>3. CASE StartRound \/ RoundFails \/ StartInsert \/ SkipReport \/ StartReport \/ RoundDone \/ StartCleanup
  BY <1>3 DEF StartRound, RoundFails, StartInsert, SkipReport, StartReport, RoundDone, StartCleanup, book
<1>4. CASE \E t \in Writers : Fail(t)
  BY <1>4 DEF Fail
<1>5. QED
  BY <1>1, <1>2, <1>3, <1>4 DEF Writing, Challenge, Cleanup

(* scoring_db.py keeps the promise of RoundLedger, whatever fails, collides  *)
(* or crashes: rounds begin once and in order, their scores appear all at    *)
(* once while the round is the latest, stamped after all on record, and they *)
(* leave one by one, oldest first, when their retention is over.             *)
THEOREM LedgerRefined == Spec => LedgerKept
<1>1. Init => Ledger!LInit
  BY DEF Init, Empty, Ledger!LInit
<1>2. IInv /\ [Next]_vars => [Ledger!LNext]_(Ledger!ledger)
  <2> SUFFICES ASSUME IInv, [Next]_vars PROVE Ledger!LNext \/ UNCHANGED Ledger!ledger
    OBVIOUS
  <2>1. mem > 0 => round \in 0..MaxRounds
    BY Numbers, DBAssumption DEF IInv, DBInv, round
  <2>2. CASE CommitCount /\ now' = now
    <3>1. mem > 0
      BY <2>2, Numbers DEF IInv, DBInv, CommitCount, Progress, Place, Numbering
    <3>2. Ledger!Begin(round)
      BY <2>2, BeginsARound
    <3>3. \E n \in 0..MaxRounds : Ledger!Begin(n)
      BY <2>1, <3>1, <3>2 DEF Ledger!Begin
    <3>4. QED
      BY <3>3 DEF Ledger!LNext
  <2>3. CASE CommitInsert /\ now' = now
    <3>1. mem > 0 /\ verified \in SUBSET Miners
      BY <2>3 DEF IInv, DBInv, CommitInsert, Progress, Place, Scoring, DBTypes
    <3>2. Ledger!Publish(round, verified)
      BY <2>3, PublishesARound
    <3>3. QED
      BY <2>1, <3>1, <3>2 DEF Ledger!LNext
  <2>4. CASE CommitCleanup /\ now' = now
    BY <2>4, RetiresEntries DEF Ledger!LNext
  <2>5. CASE Writing /\ now' = now
    BY <2>2, <2>3, <2>4, <2>5, Stutters
  <2>6. CASE Tick /\ UNCHANGED <<database, book, read>>
    BY <2>6 DEF Tick, database, book, Ledger!LNext, Ledger!Pass
  <2>7. CASE (Reading /\ UNCHANGED <<database, book, now>>) \/ Crash \/ UNCHANGED vars
    BY <2>7 DEF Crash, Restart, database, book, vars, Ledger!ledger
  <2>8. QED
    BY <2>5, <2>6, <2>7 DEF Next
<1>3. QED
  BY <1>1, <1>2, DatabaseInvariant, PTL DEF Spec, LedgerKept, Ledger!LSpec
===============================================================================
