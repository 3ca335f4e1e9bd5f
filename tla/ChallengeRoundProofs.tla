-------------------------- MODULE ChallengeRoundProofs --------------------------
(***************************************************************************)
(* The challenge round, proved for any number of miners, rounds, newcomers   *)
(* and BOPTEST workers, and for whatever miners may answer.                  *)
(*                                                                          *)
(* The invariant has six parts.  Service counts what runs at BOPTEST: each   *)
(* test case there is the one this client holds or one of the leaks.  Known  *)
(* is about the metagraph, Asked about whom the round asked, Judged about    *)
(* the way from the answers to the verdicts, Named about whom the metagraph  *)
(* names under the UIDs that were asked, and Filed about the reports.        *)
(***************************************************************************)
EXTENDS ChallengeRound, TLAPS

Serving == {"heldOut", "training"}
Warming == {"warmSelect", "warmStop"}

Service ==
  /\ TypeOKBoptest
  /\ running = leaks + (IF Holding THEN 1 ELSE 0)
  /\ phase \in Warming \cup {"advance", "results"} => left >= 1
  /\ local \in BOOLEAN /\ stage \in Stages
  /\ local => phase = "warmed"
  /\ phase \in Warming => stage = "idle"
  /\ ~local /\ stage \in Serving <=> phase \notin Warming \cup {"warmed"}

Known ==
  /\ chain \in [Uids -> Hotkeys] /\ IsInjective(chain)
  /\ metagraph \in [Uids -> Hotkeys] /\ IsInjective(metagraph)
  /\ rounds \in 0..MaxRounds /\ swaps \in 0..MaxSwaps
  /\ refreshed \in BOOLEAN

Asked ==
  /\ \A i \in DOMAIN asked : asked[i] \in [uid : Uids, hotkey : Hotkeys \ {Self}]
  /\ \A i, j \in DOMAIN asked : asked[i].uid = asked[j].uid => i = j

Judged ==
  /\ \A i \in DOMAIN answers : i \in DOMAIN asked /\ answers[i].by = asked[i].hotkey
  /\ \A u \in DOMAIN verified :
       /\ verified[u].verdict \in Verdicts
       /\ \E i \in DOMAIN answers : asked[i].uid = u /\ verified[u].by = asked[i].hotkey
  /\ EveryAnswerIsJudged
  /\ stage \in Serving \cup {"sync", "send", "sent"} => answers = <<>> /\ verified = <<>>

Named ==
  /\ stage \in {"sent", "insert"} /\ ~refreshed =>
       \A i \in DOMAIN asked : metagraph[asked[i].uid] = asked[i].hotkey
  /\ stage = "report" /\ ~refreshed =>
       \A i \in DOMAIN asked : names[asked[i].uid] = asked[i].hotkey

Filed == \A r \in reports : r.attached = r.about /\ (r.names # r.about => r.stale)

IInv == Service /\ Known /\ Asked /\ Judged /\ Named /\ Filed /\ PeriodsFit

-------------------------------------------------------------------------------
(* Facts about the operators of a round.                                     *)

(* The two periods of a split lie end to end within the year. *)
LEMMA SplitFits ==
  ASSUME NEW hash \in Nat
  PROVE  LET p == Split(hash)
         IN  /\ p.train[2] = p.test[1]
             /\ p.train[1] \in 0..TotalHours /\ p.test[2] \in 0..TotalHours
<1> DEFINE n     == TotalHours - TrainHours - TestHours + 1
           start == hash % n
<1>1. n \in Nat /\ n > 0
  BY RoundAssumption
<1> HIDE DEF n
<1>2. start \in 0..(n - 1)
  BY <1>1
<1>3. start + TrainHours + TestHours <= TotalHours
  BY <1>2, RoundAssumption DEF n
<1> HIDE DEF start
<1>4. Split(hash) = [train |-> <<start, start + TrainHours>>,
                     test  |-> <<start + TrainHours, start + TrainHours + TestHours>>]
  BY DEF Split, start, n
<1>5. QED
  BY <1>2, <1>3, <1>4, RoundAssumption

(* With answers in the order of the UIDs, parsing yields for each UID that   *)
(* gave a usable answer that answer and no other.                            *)
LEMMA ParsePairs ==
  ASSUME Asked, NEW as, DOMAIN as \subseteq DOMAIN asked
  PROVE  LET submissions == Parse(AskedUids, as)
             usable      == {i \in DOMAIN as : Usable(as[i])}
         IN  /\ DOMAIN submissions = {asked[i].uid : i \in usable}
             /\ \A i \in usable : submissions[asked[i].uid] = as[i]
<1> DEFINE submissions == Parse(AskedUids, as)
           usable      == {i \in DOMAIN as : i \in DOMAIN AskedUids /\ Usable(as[i])}
<1>1. /\ DOMAIN AskedUids = DOMAIN asked
      /\ \A i \in DOMAIN asked : AskedUids[i] = asked[i].uid
  BY DEF AskedUids
<1>2. usable = {i \in DOMAIN as : Usable(as[i])}
  BY <1>1
<1>3. submissions = [u \in {AskedUids[i] : i \in usable} |->
                       as[CHOOSE i \in usable : AskedUids[i] = u]]
  BY DEF Parse
<1> HIDE DEF usable, submissions
<1>4. {AskedUids[i] : i \in usable} = {asked[i].uid : i \in usable}
  BY <1>1, <1>2
<1>5. ASSUME NEW i \in usable
      PROVE  submissions[asked[i].uid] = as[i]
  <2>1. i \in DOMAIN asked /\ AskedUids[i] = asked[i].uid
    BY <1>1, <1>2
  <2>2. (CHOOSE j \in usable : AskedUids[j] = asked[i].uid) = i
    <3>1. \A j \in usable : AskedUids[j] = asked[i].uid => j = i
      BY <1>1, <1>2, <2>1 DEF Asked
    <3>2. QED
      BY <2>1, <3>1
  <2>3. QED
    BY <1>3, <2>1, <2>2
<1>6. QED
  BY <1>2, <1>3, <1>4, <1>5 DEF submissions

(* Every submission gets a verdict under its own UID. *)
LEMMA EverySubmissionVerified ==
  ASSUME NEW submissions, NEW simulated \in [DOMAIN submissions -> Simulations]
  PROVE  LET v == VerifyAll(submissions, simulated)
         IN  /\ DOMAIN v = DOMAIN submissions
             /\ \A u \in DOMAIN submissions :
                  v[u].by = submissions[u].by /\ v[u].verdict \in Verdicts
<1>1. ASSUME NEW u \in DOMAIN submissions
      PROVE  VerifySingle(submissions[u].payload.params, simulated[u]) \in Verdicts
  BY DEF VerifySingle, Simulations, Verdicts
<1>2. QED
  BY <1>1 DEF VerifyAll

-------------------------------------------------------------------------------
LEMMA InitIInv == Init => IInv
<1> SUFFICES ASSUME Init PROVE IInv
  OBVIOUS
<1>1. Service
  <2>1. raised \in BOOLEAN /\ local \in BOOLEAN /\ (local => phase = "warmed")
    BY DEF Init, InitBoptest
  <2>2. /\ left = TestCases /\ attempt = 0 /\ running = 0 /\ leaks = 0
        /\ phase \in {"warmed", "warmSelect"}
        /\ TestCases = 0 => phase = "warmed"
        /\ stage = "idle"
    BY DEF Init, InitBoptest
  <2>3. QED
    BY <2>1, <2>2, BoptestAssumption
       DEF Service, TypeOKBoptest, Phases, Stages, Holding, Serving, Warming
<1>2. Known
  <2>1. /\ chain \in [Uids -> Hotkeys] /\ IsInjective(chain)
        /\ metagraph \in [Uids -> Hotkeys] /\ IsInjective(metagraph)
    BY Zenon DEF Init
  <2>2. rounds \in 0..MaxRounds /\ swaps \in 0..MaxSwaps
    BY RoundAssumption DEF Init
  <2>3. refreshed \in BOOLEAN
    BY DEF Init
  <2>4. QED
    BY <2>1, <2>2, <2>3 DEF Known
<1>3. Asked /\ Judged /\ Named /\ Filed
  <2>1. DOMAIN asked = {} /\ DOMAIN answers = {} /\ DOMAIN verified = {}
    BY DEF Init
  <2>2. stage = "idle" /\ reports = {}
    BY DEF Init
  <2>3. QED
    BY <2>1, <2>2 DEF Asked, Judged, Named, Filed, EveryAnswerIsJudged, Serving
<1>4. PeriodsFit
  BY SplitFits DEF Init, PeriodsFit
<1>5. QED
  BY <1>1, <1>2, <1>3, <1>4 DEF IInv

-------------------------------------------------------------------------------
(* BOPTEST.                                                                  *)

\* The round goes on without a call to BOPTEST.
LEMMA ServiceUncalled ==
  ASSUME Service, UNCHANGED boptestVars, UNCHANGED local,
         stage' \in Stages,
         stage' = stage \/ (stage' \notin Serving /\ stage \notin Serving) \/ local,
         phase \in Warming => stage' = "idle"
  PROVE  Service'
<1>1. TypeOKBoptest'
  BY DEF Service, TypeOKBoptest, boptestVars
<1>2. Holding' = Holding
  BY DEF Holding, boptestVars
<1>3. ~local' /\ stage' \in Serving <=> phase' \notin Warming \cup {"warmed"}
  BY DEF Service, boptestVars, Warming
<1>4. QED
  BY <1>1, <1>2, <1>3 DEF Service, boptestVars

LEMMA ServiceWarmUp == Service /\ WarmUp /\ UNCHANGED <<local, stage>> => Service'
<1> SUFFICES ASSUME Service, WarmUp, UNCHANGED <<local, stage>> PROVE Service'
  OBVIOUS
<1> USE DEF Service, TypeOKBoptest, Holding, Warming
<1>1. CASE WarmSelect
  BY <1>1, BoptestAssumption DEF WarmSelect, Phases
<1>2. CASE WarmSelectFails
  BY <1>2, BoptestAssumption DEF WarmSelectFails, RetryTestCase, NextTestCase, Phases
<1>3. CASE WarmStop
  BY <1>3, BoptestAssumption DEF WarmStop, NextTestCase, Phases
<1>4. CASE WarmStopFails
  BY <1>4, BoptestAssumption DEF WarmStopFails, RetryTestCase, NextTestCase, Phases
<1>5. CASE NoWarmUp
  BY <1>5, BoptestAssumption DEF NoWarmUp, Phases
<1>6. QED
  BY <1>1, <1>2, <1>3, <1>4, <1>5 DEF WarmUp

LEMMA ServiceSimulate == Service /\ ~local /\ Simulate /\ UNCHANGED <<local, stage>> => Service'
<1> SUFFICES ASSUME Service, ~local, Simulate, UNCHANGED <<local, stage>> PROVE Service'
  OBVIOUS
<1> USE DEF Service, TypeOKBoptest, Holding, Warming
<1>1. CASE Select
  BY <1>1, BoptestAssumption DEF Select, Phases
<1>2. CASE SelectFails
  BY <1>2, BoptestAssumption DEF SelectFails, Phases
<1>3. CASE CallReturns
  BY <1>3, BoptestAssumption DEF CallReturns, Phases
<1>4. CASE CallFails
  BY <1>4, BoptestAssumption DEF CallFails, Phases
<1>5. CASE Stop
  BY <1>5, BoptestAssumption DEF Stop, Phases
<1>6. QED
  BY <1>1, <1>2, <1>3, <1>4, <1>5 DEF Simulate

LEMMA ServiceStep == IInv /\ [Next]_vars => Service'
<1> SUFFICES ASSUME IInv, [Next]_vars PROVE Service'
  OBVIOUS
<1>0. Service
  BY DEF IInv
<1> USE <1>0
<1>1. ASSUME UNCHANGED local,
             StartRound \/ ConfigFails \/ LocalGroundTruth \/ SendChallenge \/ Answered
             \/ InsertScores \/ InsertFails \/ BuildReports \/ Register \/ RefreshMetagraph
      PROVE  Service'
  <2>1. UNCHANGED boptestVars
    BY <1>1 DEF StartRound, ConfigFails, LocalGroundTruth, SendChallenge, Answered,
                InsertScores, InsertFails, BuildReports, Register, RefreshMetagraph
  <2>2. /\ stage' \in Stages
        /\ stage' = stage \/ (stage' \notin Serving /\ stage \notin Serving) \/ local
        /\ phase \in Warming => stage' = "idle"
    <3>1. CASE StartRound
      BY <3>1 DEF StartRound, Stages, Serving, Warming
    <3>2. CASE ConfigFails
      BY <3>2 DEF ConfigFails, Stages, Serving
    <3>3. CASE LocalGroundTruth
      BY <3>3 DEF LocalGroundTruth, Service, Stages, Warming
    <3>4. CASE SendChallenge
      BY <3>4 DEF SendChallenge, Service, Stages, Serving
    <3>5. CASE Answered
      BY <3>5 DEF Answered, Service, Stages, Serving
    <3>6. CASE InsertScores \/ InsertFails \/ BuildReports
      BY <3>6 DEF InsertScores, InsertFails, BuildReports, Service, Stages, Serving
    <3>7. CASE Register \/ RefreshMetagraph
      BY <3>7 DEF Register, RefreshMetagraph, Service
    <3>8. QED
      BY <1>1, <3>1, <3>2, <3>3, <3>4, <3>5, <3>6, <3>7
  <2>3. QED
    BY <1>1, <2>1, <2>2, ServiceUncalled
<1>2. ASSUME SyncMetagraph, UNCHANGED local
      PROVE  Service'
  <2>1. stage = "sync" /\ stage' = "heldOut" /\ (IF local THEN UNCHANGED boptestVars ELSE Begin)
    BY <1>2 DEF SyncMetagraph
  <2>2. CASE local
    BY <1>2, <2>1, <2>2, ServiceUncalled DEF Stages, Service
  <2>3. CASE ~local
    BY <1>2, <2>1, <2>3 DEF Begin, Service, TypeOKBoptest, Holding, Warming, Serving, Phases, Stages
  <2>4. QED
    BY <2>2, <2>3
<1>3. ASSUME GroundTruth, UNCHANGED local
      PROVE  Service'
  <2>1. CASE Simulate /\ UNCHANGED stage
    BY <1>3, <2>1, ServiceSimulate DEF GroundTruth
  <2>2. CASE ~(Simulate /\ UNCHANGED stage)
    BY <1>3, <2>2 DEF GroundTruth, Begin, Service, TypeOKBoptest, Holding, Warming, Serving, Phases, Stages
  <2>3. QED
    BY <2>1, <2>2
<1>4. CASE WarmUp /\ UNCHANGED roundVars
  BY <1>4, ServiceWarmUp DEF roundVars
<1>5. CASE UNCHANGED vars
  BY <1>5, ServiceUncalled DEF vars, roundVars, Service
<1>6. QED
  BY <1>1, <1>2, <1>3, <1>4, <1>5 DEF Next, Round

-------------------------------------------------------------------------------
(* The metagraph, and whom the round asked.                                  *)

LEMMA KnownStep == IInv /\ [Next]_vars => Known'
<1> SUFFICES ASSUME IInv, [Next]_vars PROVE Known'
  OBVIOUS
<1>0. Known
  BY DEF IInv
<1> USE <1>0
<1>1. CASE StartRound
  <2>1. rounds' \in 0..MaxRounds
    BY <1>1, RoundAssumption DEF StartRound, Known
  <2>2. UNCHANGED <<chain, swaps, metagraph, refreshed>>
    BY <1>1 DEF StartRound
  <2>3. QED
    BY <2>1, <2>2 DEF Known
<1>2. CASE SyncMetagraph
  BY <1>2 DEF SyncMetagraph, Known
<1>3. CASE SendChallenge
  <2>1. UNCHANGED <<chain, swaps, metagraph, rounds>> /\ refreshed' = FALSE
    BY <1>3 DEF SendChallenge
  <2>2. QED
    BY <2>1 DEF Known
<1>4. CASE RefreshMetagraph
  BY <1>4 DEF RefreshMetagraph, Known
<1>5. CASE Register
  <2>1. PICK u \in Uids, h \in Hotkeys \ Range(chain) : chain' = [chain EXCEPT ![u] = h]
    BY <1>5 DEF Register
  <2>2. chain' \in [Uids -> Hotkeys]
    BY <2>1 DEF Known
  <2>3. IsInjective(chain)'
    BY <2>1 DEF Known, IsInjective, Range
  <2>4. swaps' \in 0..MaxSwaps
    BY <1>5, RoundAssumption DEF Register, Known
  <2>5. UNCHANGED <<metagraph, rounds, refreshed>>
    BY <1>5 DEF Register
  <2>6. QED
    BY <2>2, <2>3, <2>4, <2>5 DEF Known
<1>6. CASE UNCHANGED <<chain, swaps, metagraph, rounds, refreshed>>
  BY <1>6 DEF Known
<1>7. QED
  BY <1>1, <1>2, <1>3, <1>4, <1>5, <1>6
     DEF Next, Round, vars, roundVars, GroundTruth, LocalGroundTruth, ConfigFails, Answered,
         InsertScores, InsertFails, BuildReports

LEMMA AskedStep == IInv /\ [Next]_vars => Asked'
<1> SUFFICES ASSUME IInv, [Next]_vars PROVE Asked'
  OBVIOUS
<1>1. CASE SendChallenge
  <2>0. PICK serving \in SUBSET Miners :
          \E uids \in Injection(1..Cardinality(serving), serving) :
            asked' = [i \in DOMAIN uids |-> [uid |-> uids[i], hotkey |-> metagraph[uids[i]]]]
    BY <1>1 DEF SendChallenge
  <2>1. PICK uids \in Injection(1..Cardinality(serving), serving) :
          asked' = [i \in DOMAIN uids |-> [uid |-> uids[i], hotkey |-> metagraph[uids[i]]]]
    BY <2>0
  <2>2. /\ uids \in [1..Cardinality(serving) -> serving]
        /\ \A i, j \in DOMAIN uids : uids[i] = uids[j] => i = j
    BY <2>1 DEF Injection, IsInjective
  <2>3. \A u \in serving : u \in Uids /\ metagraph[u] \in Hotkeys \ {Self}
    BY <2>1 DEF Miners, IInv, Known
  <2>4. QED
    BY <2>1, <2>2, <2>3 DEF Asked
<1>2. CASE StartRound
  <2>1. DOMAIN asked' = {}
    BY <1>2 DEF StartRound
  <2>2. QED
    BY <2>1 DEF Asked
<1>3. CASE UNCHANGED asked
  BY <1>3 DEF IInv, Asked
<1>4. QED
  BY <1>1, <1>2, <1>3
     DEF Next, Round, vars, roundVars, SyncMetagraph, GroundTruth, LocalGroundTruth, ConfigFails,
         Answered, InsertScores, InsertFails, BuildReports, Register, RefreshMetagraph

LEMMA PeriodStep == IInv /\ [Next]_vars => PeriodsFit'
<1> SUFFICES ASSUME IInv, [Next]_vars PROVE PeriodsFit'
  OBVIOUS
<1>1. CASE SyncMetagraph
  <2>1. PICK hash \in 0..TotalHours : period' = Split(hash)
    BY <1>1 DEF SyncMetagraph
  <2>2. hash \in Nat
    BY <2>1, RoundAssumption
  <2>3. QED
    BY <2>1, <2>2, SplitFits DEF PeriodsFit
<1>2. CASE UNCHANGED period
  BY <1>2 DEF IInv, PeriodsFit
<1>3. QED
  BY <1>1, <1>2
     DEF Next, Round, vars, roundVars, StartRound, GroundTruth, LocalGroundTruth, ConfigFails,
         SendChallenge, Answered, InsertScores, InsertFails, BuildReports, Register, RefreshMetagraph

-------------------------------------------------------------------------------
(* From the answers to the verdicts.                                         *)

\* What the round verifies belongs, answer by answer, to the miners it asked.
LEMMA AnsweredPairs ==
  ASSUME IInv, Answered
  PROVE  /\ UNCHANGED asked
         /\ \A i \in DOMAIN answers' : i \in DOMAIN asked /\ answers'[i].by = asked[i].hotkey
         /\ DOMAIN verified' = {asked[i].uid : i \in {j \in DOMAIN answers' : Usable(answers'[j])}}
         /\ \A i \in {j \in DOMAIN answers' : Usable(answers'[j])} :
              LET v == verified'[asked[i].uid]
              IN  v.by = asked[i].hotkey /\ v.verdict \in Verdicts
<1> DEFINE submissions == Parse(AskedUids, answers')
           usable      == {i \in DOMAIN answers' : Usable(answers'[i])}
<1>1. UNCHANGED asked
  BY DEF Answered
<1>2. \A i \in DOMAIN answers' : i \in DOMAIN asked /\ answers'[i].by = asked[i].hotkey
  BY DEF Answered, Answer
<1>3. /\ DOMAIN submissions = {asked[i].uid : i \in usable}
      /\ \A i \in usable : submissions[asked[i].uid] = answers'[i]
  BY <1>2, ParsePairs DEF IInv
<1>4. PICK simulated \in [DOMAIN submissions -> Simulations] :
        verified' = VerifyAll(submissions, simulated)
  BY DEF Answered
<1> HIDE DEF submissions
<1>5. /\ DOMAIN verified' = DOMAIN submissions
      /\ \A u \in DOMAIN submissions :
           verified'[u].by = submissions[u].by /\ verified'[u].verdict \in Verdicts
  BY <1>4, EverySubmissionVerified
<1>6. QED
  BY <1>1, <1>2, <1>3, <1>5

LEMMA JudgedStep == IInv /\ [Next]_vars => Judged'
<1> SUFFICES ASSUME IInv, [Next]_vars PROVE Judged'
  OBVIOUS
<1>0. Judged
  BY DEF IInv
<1>1. CASE Answered
  <2>1. stage' \in {"idle", "insert"}
    BY <1>1 DEF Answered
  <2>2. EveryAnswerIsJudged'
    BY <1>1, AnsweredPairs DEF EveryAnswerIsJudged
  <2>3. \A u \in DOMAIN verified' :
          /\ verified'[u].verdict \in Verdicts
          /\ \E i \in DOMAIN answers' : asked'[i].uid = u /\ verified'[u].by = asked'[i].hotkey
    BY <1>1, AnsweredPairs
  <2>4. \A i \in DOMAIN answers' : i \in DOMAIN asked' /\ answers'[i].by = asked'[i].hotkey
    BY <1>1, AnsweredPairs
  <2>5. QED
    BY <2>1, <2>2, <2>3, <2>4 DEF Judged, Serving
<1>2. CASE StartRound \/ SendChallenge
  <2>1. answers' = <<>> /\ verified' = <<>>
    BY <1>0, <1>2 DEF StartRound, SendChallenge, Judged
  <2>2. stage' \in {"sync", "idle", "sent"}
    BY <1>2 DEF StartRound, SendChallenge
  <2>3. DOMAIN answers' = {} /\ DOMAIN verified' = {}
    BY <2>1
  <2>4. QED
    BY <2>1, <2>2, <2>3 DEF Judged, EveryAnswerIsJudged
<1>3. CASE UNCHANGED <<asked, answers, verified>> /\ ~Answered /\ ~StartRound
  <2>1. /\ stage' \in {"insert", "report"} => stage \in {"insert", "report"}
        /\ stage' \in Serving \cup {"sync", "send", "sent"} =>
             stage \in Serving \cup {"sync", "send", "sent"}
    BY <1>3 DEF Next, Round, vars, roundVars, SyncMetagraph, GroundTruth, LocalGroundTruth,
                ConfigFails, SendChallenge, InsertScores, InsertFails, BuildReports, Register,
                RefreshMetagraph, Serving
  <2>2. EveryAnswerIsJudged'
    BY <1>0, <1>3, <2>1 DEF Judged, EveryAnswerIsJudged
  <2>3. QED
    BY <1>0, <1>3, <2>1, <2>2 DEF Judged
<1>4. QED
  BY <1>1, <1>2, <1>3
     DEF Next, Round, vars, roundVars, SyncMetagraph, GroundTruth, LocalGroundTruth, ConfigFails,
         InsertScores, InsertFails, BuildReports, Register, RefreshMetagraph

-------------------------------------------------------------------------------
(* Names and reports.                                                        *)

LEMMA NamedStep == IInv /\ [Next]_vars => Named'
<1> SUFFICES ASSUME IInv, [Next]_vars PROVE Named'
  OBVIOUS
<1>0. Named
  BY DEF IInv
<1>1. CASE SendChallenge
  <2>1. \A i \in DOMAIN asked' : metagraph[asked'[i].uid] = asked'[i].hotkey
    BY <1>1 DEF SendChallenge
  <2>2. UNCHANGED metagraph /\ stage' # "report"
    BY <1>1 DEF SendChallenge
  <2>3. QED
    BY <2>1, <2>2 DEF Named
<1>2. CASE InsertScores
  BY <1>0, <1>2 DEF InsertScores, UidHotkeyMap, Named
<1>3. CASE Answered
  BY <1>0, <1>3 DEF Answered, Named
<1>4. CASE RefreshMetagraph
  <2>1. refreshed' = TRUE
    BY <1>4 DEF RefreshMetagraph
  <2>2. QED
    BY <2>1 DEF Named
<1>5. CASE stage' \notin {"sent", "insert", "report"}
  BY <1>5 DEF Named
<1>6. CASE UNCHANGED <<stage, refreshed, asked, metagraph, names>>
  BY <1>0, <1>6 DEF Named
<1>7. QED
  BY <1>1, <1>2, <1>3, <1>4, <1>5, <1>6
     DEF Next, Round, vars, roundVars, StartRound, SyncMetagraph, GroundTruth, LocalGroundTruth,
         ConfigFails, InsertFails, BuildReports, Register

LEMMA FiledStep == IInv /\ [Next]_vars => Filed'
<1> SUFFICES ASSUME IInv, [Next]_vars PROVE Filed'
  OBVIOUS
<1>0. Filed
  BY DEF IInv
<1>1. CASE BuildReports
  <2>1. stage = "report"
    BY <1>1 DEF BuildReports
  <2>2. ASSUME NEW u \in DOMAIN verified
        PROVE  Report(u).attached = Report(u).about /\ (Report(u).names # Report(u).about => Report(u).stale)
    <3>1. PICK i \in DOMAIN answers : asked[i].uid = u /\ verified[u].by = asked[i].hotkey
      BY DEF IInv, Judged
    <3>2. i \in DOMAIN asked /\ answers[i].by = asked[i].hotkey
      BY DEF IInv, Judged
    <3>3. (CHOOSE j \in DOMAIN asked : asked[j].uid = u) = i
      <4>1. \A j \in DOMAIN asked : asked[j].uid = u => j = i
        BY <3>1, <3>2 DEF IInv, Asked
      <4>2. QED
        BY <3>1, <3>2, <4>1
    <3>4. AttachedTo(u) = verified[u].by
      BY <3>1, <3>2, <3>3 DEF AttachedTo
    <3>5. ~refreshed => names[u] = verified[u].by
      BY <2>1, <3>1, <3>2 DEF IInv, Named
    <3>6. QED
      BY <3>4, <3>5 DEF Report
  <2>3. \A r \in reports' : r \in reports \/ \E u \in DOMAIN verified : r = Report(u)
    BY <1>1 DEF BuildReports
  <2>4. QED
    BY <1>0, <2>2, <2>3 DEF Filed
<1>2. CASE UNCHANGED reports
  BY <1>0, <1>2 DEF Filed
<1>3. QED
  BY <1>1, <1>2
     DEF Next, Round, vars, roundVars, StartRound, SyncMetagraph, GroundTruth, LocalGroundTruth,
         ConfigFails, SendChallenge, Answered, InsertScores, InsertFails, Register, RefreshMetagraph

-------------------------------------------------------------------------------
(* The invariant holds of every behaviour, and each property follows from it. *)

LEMMA Invariance == Spec => []IInv
<1>1. IInv /\ [Next]_vars => IInv'
  BY ServiceStep, KnownStep, AskedStep, JudgedStep, NamedStep, FiledStep, PeriodStep DEF IInv
<1>2. QED
  BY <1>1, InitIInv, PTL DEF Spec

(* The shape of the state: what is asked, judged and named is within the     *)
(* subnet, and never the validator itself (validator/main.py:235-258).       *)
THEOREM RoundTypes == Spec => []TypeOK
<1>1. IInv => TypeOK
  <2> SUFFICES ASSUME IInv PROVE TypeOK
    OBVIOUS
  <2>1. DOMAIN answers \subseteq DOMAIN asked
    BY DEF IInv, Judged
  <2>2. /\ DOMAIN verified \subseteq Uids
        /\ \A u \in DOMAIN verified : verified[u].verdict \in Verdicts
    BY DEF IInv, Judged, Asked
  <2>3. \A i \in DOMAIN asked : asked[i].uid \in Uids /\ asked[i].hotkey # Self
    BY DEF IInv, Asked
  <2>4. /\ TypeOKBoptest /\ local \in BOOLEAN /\ stage \in Stages
        /\ ~local /\ stage \in {"heldOut", "training"}
             <=> phase \notin {"warmSelect", "warmStop", "warmed"}
    BY DEF IInv, Service, Serving, Warming
  <2>5. /\ rounds \in 0..MaxRounds /\ swaps \in 0..MaxSwaps
        /\ IsInjective(chain) /\ IsInjective(metagraph) /\ refreshed \in BOOLEAN
    BY DEF IInv, Known
  <2>6. QED
    BY <2>1, <2>2, <2>3, <2>4, <2>5 DEF TypeOK
<1>2. QED
  BY <1>1, Invariance, PTL

(* A test case is left running at BOPTEST by a lost select or a failed stop  *)
(* only: every other failure of a simulation or of the warm-up stops what it *)
(* started (validator/emulator/manager.py:196-288).                          *)
THEOREM LeaksExplained == Spec => []LeaksHaveCause
<1>1. IInv => LeaksHaveCause
  <2> SUFFICES ASSUME IInv PROVE LeaksHaveCause
    OBVIOUS
  <2>1. running = leaks + (IF Holding THEN 1 ELSE 0) /\ running \in Int /\ leaks \in Int
    BY BoptestAssumption DEF IInv, Service, TypeOKBoptest
  <2>2. QED
    BY <2>1 DEF LeaksHaveCause
<1>2. QED
  BY <1>1, Invariance, PTL

(* Pairing by position never mixes up two miners: what is verified under a   *)
(* UID was answered by the hotkey asked under it, whoever failed to answer   *)
(* (validator/network/result_receiver.py:24-87).                             *)
THEOREM ResponsesPaired == Spec => []PairedResponses
<1>1. IInv => PairedResponses
  <2> SUFFICES ASSUME IInv, NEW u \in DOMAIN verified
               PROVE  \E i \in DOMAIN asked : asked[i] = [uid |-> u, hotkey |-> verified[u].by]
    BY DEF PairedResponses
  <2>1. PICK i \in DOMAIN answers : asked[i].uid = u /\ verified[u].by = asked[i].hotkey
    BY DEF IInv, Judged
  <2>2. i \in DOMAIN asked /\ asked[i] \in [uid : Uids, hotkey : Hotkeys \ {Self}]
    BY DEF IInv, Judged, Asked
  <2>3. asked[i] = [uid |-> u, hotkey |-> verified[u].by]
    BY <2>1, <2>2
  <2>4. QED
    BY <2>2, <2>3
<1>2. QED
  BY <1>1, Invariance, PTL

(* Every usable answer gets a verdict, and nothing else does: no exception   *)
(* of a verification loses one (validator/verification/engine.py:38-91).     *)
THEOREM AnswersJudged == Spec => []EveryAnswerIsJudged
<1>1. IInv => EveryAnswerIsJudged
  BY DEF IInv, Judged
<1>2. QED
  BY <1>1, Invariance, PTL

(* A report goes back with the answer it is about (validator/main.py:507-546). *)
THEOREM ReportsDelivered == Spec => []ReportsGoHome
<1>1. IInv => ReportsGoHome
  BY DEF IInv, Filed, ReportsGoHome
<1>2. QED
  BY <1>1, Invariance, PTL

(* A report misnames its miner only if the UID changed hands in the          *)
(* metagraph after the challenge was sent (validator/main.py:552-563).       *)
THEOREM ReportsNamed == Spec => []ReportsNameTheAsked
<1>1. IInv => ReportsNameTheAsked
  BY DEF IInv, Filed, ReportsNameTheAsked
<1>2. QED
  BY <1>1, Invariance, PTL

(* Training and held-out period are end to end within the year, for every    *)
(* hash (validator/round/split_generator.py:16-53).                          *)
THEOREM SplitsFit == Spec => []PeriodsFit
<1>1. IInv => PeriodsFit
  BY DEF IInv
<1>2. QED
  BY <1>1, Invariance, PTL
=================================================================================
