----------------------------- MODULE ChallengeRound -----------------------------
(***************************************************************************)
(* A round of the challenge loop (validator/main.py:335-563) over the       *)
(* BOPTEST service, the metagraph and the miners: split, ground truth,      *)
(* dispatch, parsing, verification, scores, and the report of each miner.   *)
(* Registrations on the chain and the weight loop's metagraph syncs happen  *)
(* at any time in between.                                                  *)
(***************************************************************************)
EXTENDS Boptest, SequencesExt

CONSTANTS Uids,         \* UIDs of the subnet
          Hotkeys,      \* hotkeys that may own a UID
          Self,         \* the validator's own hotkey
          Parameters,   \* parameters of the test case
          Payloads,     \* what a miner may answer
          TrainHours, TestHours, TotalHours,
          MaxRounds,    \* rounds (bound)
          MaxSwaps      \* registrations on the chain (bound)

ASSUME RoundAssumption ==
  /\ Self \in Hotkeys
  /\ TrainHours \in Nat /\ TestHours \in Nat
  /\ TotalHours \in Nat /\ TotalHours >= TrainHours + TestHours
  /\ MaxRounds \in Nat /\ MaxSwaps \in Nat

VARIABLES local,      \* local mode: the RC model stands in for BOPTEST
          stage,      \* where the challenge loop is
          rounds,     \* rounds started
          chain,      \* owner of each UID on the chain
          swaps,      \* registrations so far
          metagraph,  \* the validator's copy of chain
          refreshed,  \* the copy changed since the challenge was sent
          period,     \* train and test period of the round
          asked,      \* <<uid, hotkey>> of each miner asked, in order
          answers,    \* their answers, in the same order
          verified,   \* verdict on each submission, by UID
          names,      \* hotkey of each UID when the reports are built
          rows,       \* who earned the scores recorded for each UID
          reports     \* reports persisted, with whom they name and describe

roundVars == <<local, stage, rounds, chain, swaps, metagraph, refreshed, period, asked,
               answers, verified, names, rows, reports>>
vars == <<roundVars, boptestVars>>

Stages == {"idle", "sync", "heldOut", "training", "send", "sent", "insert", "report"}

-------------------------------------------------------------------------------
(* Split, parsing and verification.                                          *)

SplitLate(hash) ==  \* faulty: max_start + 1 is a possible start
  LET start == hash % (TotalHours - TrainHours - TestHours + 2)
  IN  [train |-> <<start, start + TrainHours>>,
       test  |-> <<start + TrainHours, start + TrainHours + TestHours>>]

Split(hash) ==
  LET start == hash % (TotalHours - TrainHours - TestHours + 1)
  IN  [train |-> <<start, start + TrainHours>>,
       test  |-> <<start + TrainHours, start + TrainHours + TestHours>>]

\* An answer: who sent it, and its calibrated_params.  They may be missing (no
\* answer, an error, a timeout), no dictionary or too large, or give a value for
\* some parameters.
Answer(hotkey, payload) == [by |-> hotkey, payload |-> payload]
Usable(answer) == answer.payload.kind = "params"
NoParams == {[kind |-> k, params |-> <<>>] : k \in {"none", "malformed"}}

ParseFiltered(uids, as) ==  \* faulty: failed answers are dropped before the zip
  LET usable == SelectSeq(as, Usable)
  IN  [u \in {uids[i] : i \in DOMAIN usable} |-> usable[CHOOSE i \in DOMAIN usable : uids[i] = u]]

Parse(uids, as) ==
  LET usable == {i \in DOMAIN as : i \in DOMAIN uids /\ Usable(as[i])}
  IN  [u \in {uids[i] : i \in usable} |-> as[CHOOSE i \in usable : uids[i] = u]]

\* _verify_single: parameters are unknown, out of bounds, near the default or
\* moved; missing ones take their default in the simulation.
Verdicts == {"clean", "INVALID_PARAMS", "DEFAULT_PARAMS", "SIMULATION_CRASHED", "SIMULATION_NAN"}

VerifySingle(params, simulation) ==
  IF ~(DOMAIN params \subseteq Parameters) \/ \E p \in DOMAIN params : params[p] = "outside"
  THEN "INVALID_PARAMS"
  ELSE IF \A p \in DOMAIN params : params[p] = "default" THEN "DEFAULT_PARAMS"
  ELSE simulation

Simulations == {"clean", "SIMULATION_CRASHED", "SIMULATION_NAN"}

VerifyAllDropping(submissions, simulated) ==  \* faulty: an exception is dropped
  LET verdict == [u \in DOMAIN submissions |-> VerifySingle(submissions[u].payload.params, simulated[u])]
  IN  [u \in {v \in DOMAIN verdict : verdict[v] # "SIMULATION_CRASHED"} |->
         [by |-> submissions[u].by, verdict |-> verdict[u]]]

VerifyAll(submissions, simulated) ==
  [u \in DOMAIN submissions |->
     [by |-> submissions[u].by, verdict |-> VerifySingle(submissions[u].payload.params, simulated[u])]]

-------------------------------------------------------------------------------
Init ==
  /\ local \in BOOLEAN
  /\ stage = "idle"
  /\ rounds = 0
  /\ chain \in [Uids -> Hotkeys]
  /\ IsInjective(chain) /\ Self \in Range(chain)
  /\ swaps = 0
  /\ metagraph = chain
  /\ refreshed = FALSE
  /\ period = Split(0)
  /\ asked = <<>>
  /\ answers = <<>>
  /\ verified = <<>>
  /\ names = metagraph
  /\ rows = {}
  /\ reports = {}
  /\ InitBoptest(~local)

\* The round starts with nothing left of the last one.
StartRound ==
  /\ stage = "idle" /\ phase = "warmed"
  /\ rounds < MaxRounds
  /\ stage' = "sync"
  /\ rounds' = rounds + 1
  /\ asked' = <<>> /\ answers' = <<>> /\ verified' = <<>>
  /\ UNCHANGED <<chain, swaps, metagraph, refreshed, period, names, rows, reports, boptestVars>>

\* A failed sync leaves the stale metagraph in use.
SyncMetagraph ==
  /\ stage = "sync"
  /\ metagraph' \in {metagraph, chain}
  /\ \E hash \in 0..TotalHours : period' = Split(hash)
  /\ stage' = "heldOut"
  /\ IF local THEN UNCHANGED boptestVars ELSE Begin
  /\ UNCHANGED <<rounds, chain, swaps, refreshed, asked, answers, verified, names, rows, reports>>

\* generate_ground_truth, for the held-out period and then for the training
\* period: an exception ends the round.
GroundTruth ==
  /\ ~local /\ stage \in {"heldOut", "training"}
  /\ \/ Simulate /\ UNCHANGED stage
     \/ phase = "failed" /\ stage' = "idle" /\ phase' = "warmed"
        /\ UNCHANGED <<left, attempt, raised, running, leaks>>
     \/ phase = "got" /\ stage = "heldOut" /\ stage' = "training" /\ Begin
     \/ phase = "got" /\ stage = "training" /\ stage' = "send" /\ phase' = "warmed"
        /\ UNCHANGED <<left, attempt, raised, running, leaks>>
  /\ UNCHANGED <<rounds, chain, swaps, metagraph, refreshed, period, asked, answers,
                 verified, names, rows, reports>>

\* The RC model simulates both periods without a call to anyone.
LocalGroundTruth ==
  /\ local /\ stage = "heldOut"
  /\ stage' = "send"
  /\ UNCHANGED <<rounds, chain, swaps, metagraph, refreshed, period, asked, answers,
                 verified, names, rows, reports, boptestVars>>

\* The selection of a test case, load_test_case_config or the RC model raises.
ConfigFails ==
  /\ stage \in {"sync", "send"} \/ (local /\ stage = "heldOut")
  /\ stage' = "idle"
  /\ UNCHANGED <<rounds, chain, swaps, metagraph, refreshed, period, asked, answers,
                 verified, names, rows, reports, boptestVars>>

EveryNeuron == Uids  \* faulty: ourselves included

Miners == {u \in Uids : metagraph[u] # Self}

\* _get_miner_axons: every miner with a serving axon, in the order of the
\* metagraph; without any the round ends.
SendChallenge ==
  /\ stage = "send"
  /\ \E serving \in SUBSET Miners :
       /\ \E uids \in Injection(1..Cardinality(serving), serving) :
            /\ \A i, j \in DOMAIN uids : i < j => uids[i] < uids[j]
            /\ asked' = [i \in DOMAIN uids |-> [uid |-> uids[i], hotkey |-> metagraph[uids[i]]]]
       /\ stage' = IF serving = {} THEN "idle" ELSE "sent"
  /\ refreshed' = FALSE
  /\ UNCHANGED <<rounds, chain, swaps, metagraph, period, answers, verified, names,
                 rows, reports, boptestVars>>

\* The dendrite returns one answer for each axon, or raises; what is usable is
\* verified in the same go, and a round without a submission ends.
AskedUids == [i \in DOMAIN asked |-> asked[i].uid]

Answered ==
  /\ stage = "sent"
  /\ \/ answers' = <<>>
     \/ \E payloads \in [DOMAIN asked -> Payloads \cup NoParams] :
          answers' = [i \in DOMAIN asked |-> Answer(asked[i].hotkey, payloads[i])]
  /\ LET submissions == Parse(AskedUids, answers')
     IN  /\ \E simulated \in [DOMAIN submissions -> Simulations] :
              verified' = VerifyAll(submissions, simulated)
         /\ stage' = IF DOMAIN submissions = {} THEN "idle" ELSE "insert"
  /\ UNCHANGED <<rounds, chain, swaps, metagraph, refreshed, period, asked, names,
                 rows, reports, boptestVars>>

\* insert_round_scores, by UID; if it or what comes before it raises, nothing is
\* recorded and the round ends.  _build_uid_hotkey_map reads the metagraph as it is after the insert.
NamesByPosition ==  \* faulty: names the i-th miner asked, not the UID
  [u \in Uids |-> IF u \in DOMAIN asked THEN asked[u].hotkey ELSE metagraph[u]]

UidHotkeyMap == metagraph

InsertScores ==
  /\ stage = "insert"
  /\ rows' = rows \cup {[uid |-> u, by |-> verified[u].by] : u \in DOMAIN verified}
  /\ names' = UidHotkeyMap
  /\ stage' = "report"
  /\ UNCHANGED <<rounds, chain, swaps, metagraph, refreshed, period, asked, answers,
                 verified, reports, boptestVars>>

InsertFails ==
  /\ stage = "insert"
  /\ stage' = "idle"
  /\ UNCHANGED <<rounds, chain, swaps, metagraph, refreshed, period, asked, answers,
                 verified, names, rows, reports, boptestVars>>

\* One report for each verdict.  Those that cannot be persisted are skipped; the
\* others are also attached to the answer they are about.
AttachedAmongUsable(u) ==  \* faulty: usable answers zipped with the UIDs
  LET zipped == ParseFiltered(AskedUids, answers)
  IN  IF u \in DOMAIN zipped THEN zipped[u].by ELSE Self

AttachedTo(u) == answers[CHOOSE i \in DOMAIN asked : asked[i].uid = u].by

Report(u) == [round |-> rounds, uid |-> u, names |-> names[u], about |-> verified[u].by,
              attached |-> AttachedTo(u), stale |-> refreshed]

BuildReports ==
  /\ stage = "report"
  /\ \E persisted \in SUBSET DOMAIN verified :
       reports' = reports \cup {Report(u) : u \in persisted}
  /\ stage' = "idle"
  /\ UNCHANGED <<rounds, chain, swaps, metagraph, refreshed, period, asked, answers,
                 verified, names, rows, boptestVars>>

-------------------------------------------------------------------------------
\* A newcomer takes over a UID.
Register ==
  /\ swaps < MaxSwaps
  /\ swaps' = swaps + 1
  /\ \E u \in Uids, h \in Hotkeys \ Range(chain) : chain' = [chain EXCEPT ![u] = h]
  /\ UNCHANGED <<stage, rounds, metagraph, refreshed, period, asked, answers, verified,
                 names, rows, reports, boptestVars>>

\* The weight loop's fallback syncs the shared metagraph, or a sync the round
\* gave up on finishes late.
RefreshMetagraph ==
  /\ metagraph # chain
  /\ metagraph' = chain
  /\ refreshed' = TRUE
  /\ UNCHANGED <<stage, rounds, chain, swaps, period, asked, answers, verified, names,
                 rows, reports, boptestVars>>

Round == StartRound \/ SyncMetagraph \/ GroundTruth \/ LocalGroundTruth \/ ConfigFails \/ SendChallenge
         \/ Answered \/ InsertScores \/ InsertFails \/ BuildReports

Next ==
  \/ (Round \/ Register \/ RefreshMetagraph) /\ UNCHANGED local
  \/ WarmUp /\ UNCHANGED roundVars

Spec == Init /\ [][Next]_vars
-------------------------------------------------------------------------------
TypeOK ==
  /\ TypeOKBoptest
  /\ local \in BOOLEAN /\ stage \in Stages
  /\ rounds \in 0..MaxRounds /\ swaps \in 0..MaxSwaps
  /\ IsInjective(chain) /\ IsInjective(metagraph)
  /\ refreshed \in BOOLEAN
  /\ \A i \in DOMAIN asked : asked[i].uid \in Uids /\ asked[i].hotkey # Self
  /\ DOMAIN answers \subseteq DOMAIN asked
  /\ DOMAIN verified \subseteq Uids
  /\ \A u \in DOMAIN verified : verified[u].verdict \in Verdicts
  /\ ~local /\ stage \in {"heldOut", "training"}
       <=> phase \notin {"warmSelect", "warmStop", "warmed"}

(* Whatever others fail to answer, what is verified and scored under a UID is *)
(* the answer of the miner that was asked under that UID.                     *)
PairedResponses ==
  \A u \in DOMAIN verified :
    \E i \in DOMAIN asked : asked[i] = [uid |-> u, hotkey |-> verified[u].by]

(* Every usable answer gets a verdict, whatever its verification runs into;  *)
(* an answer that is not usable gets none.                                   *)
EveryAnswerIsJudged ==
  stage \in {"insert", "report"} =>
    DOMAIN verified = {asked[i].uid : i \in {j \in DOMAIN answers : Usable(answers[j])}}

(* A report is attached to the answer it is about, and to no other.          *)
ReportsGoHome == \A r \in reports : r.attached = r.about

(* A report names another miner than the one it is about only if the UID     *)
(* changed hands in the metagraph after the challenge was sent.              *)
ReportsNameTheAsked == \A r \in reports : r.names # r.about => r.stale

(* The training period ends where the held-out one starts, and both are      *)
(* within the year.                                                          *)
PeriodsFit ==
  /\ period.train[2] = period.test[1]
  /\ period.train[1] \in 0..TotalHours /\ period.test[2] \in 0..TotalHours
=================================================================================
