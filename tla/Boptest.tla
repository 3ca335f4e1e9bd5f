-------------------------------- MODULE Boptest --------------------------------
(***************************************************************************)
(* One client of a BOPTEST service: the warm-up of the validator's start    *)
(* (validator/main.py:296-333) and a simulation run                         *)
(* (validator/emulator/manager.py:196-288, boptest_client.py).  The service *)
(* has a fixed number of workers, each busy with one selected test case     *)
(* until it is stopped.  Any call may fail or lose its answer.              *)
(***************************************************************************)
EXTENDS Naturals

CONSTANTS Slots,      \* test cases the service can run at once
          TestCases,  \* test cases of the manifest, a number
          Steps,      \* advance calls of a simulation
          Outputs     \* scoring outputs to fetch

ASSUME BoptestAssumption ==
  Slots \in Nat /\ TestCases \in Nat /\ Steps \in Nat \ {0} /\ Outputs \in Nat \ {0}

VARIABLES phase,    \* the call in flight, or how the last simulation ended
          left,     \* test cases, advances or outputs left in this phase
          attempt,  \* warm-up attempts of the test case so far
          raised,   \* the simulation is on its way out with an exception
          running,  \* test cases that run at the service
          leaks     \* selects whose answer and stops whose effect was lost

boptestVars == <<phase, left, attempt, raised, running, leaks>>

Phases == {"warmSelect", "warmStop", "warmed", "select", "step", "initialize",
           "advance", "results", "stop", "got", "failed"}
Holding == phase \in {"warmStop", "step", "initialize", "advance", "results", "stop"}

InitBoptest(used) ==
  /\ phase = (IF TestCases = 0 \/ ~used THEN "warmed" ELSE "warmSelect")
  /\ left = TestCases
  /\ attempt = 0
  /\ raised = FALSE
  /\ running = 0
  /\ leaks = 0

-------------------------------------------------------------------------------
(* _warmup_boptest: select and stop each test case, with one retry.          *)
NextTestCase ==
  /\ left' = left - 1
  /\ attempt' = 0
  /\ phase' = IF left = 1 THEN "warmed" ELSE "warmSelect"

RetryTestCase ==
  IF attempt = 0
  THEN attempt' = 1 /\ phase' = "warmSelect" /\ UNCHANGED left
  ELSE NextTestCase

WarmSelect ==
  /\ phase = "warmSelect"
  /\ running < Slots
  /\ running' = running + 1
  /\ phase' = "warmStop"
  /\ UNCHANGED <<left, attempt, raised, leaks>>

WarmSelectFails ==
  /\ phase = "warmSelect"
  /\ RetryTestCase
  /\ \/ UNCHANGED <<running, leaks>>
     \/ running < Slots /\ running' = running + 1 /\ leaks' = leaks + 1
  /\ UNCHANGED raised

WarmStop ==
  /\ phase = "warmStop"
  /\ running' = running - 1
  /\ NextTestCase
  /\ UNCHANGED <<raised, leaks>>

WarmStopFails ==
  /\ phase = "warmStop"
  /\ RetryTestCase
  /\ \/ leaks' = leaks + 1 /\ UNCHANGED running
     \/ running' = running - 1 /\ UNCHANGED leaks
  /\ UNCHANGED raised

(* _wait_for_boptest gives up before the service answers: no warm-up.        *)
NoWarmUp ==
  /\ phase = "warmSelect" /\ left = TestCases /\ attempt = 0
  /\ phase' = "warmed"
  /\ UNCHANGED <<left, attempt, raised, running, leaks>>

WarmUp == WarmSelect \/ WarmSelectFails \/ WarmStop \/ WarmStopFails \/ NoWarmUp

-------------------------------------------------------------------------------
(* BOPTESTManager.run_simulation.                                            *)
Begin == phase' = "select" /\ raised' = FALSE /\ UNCHANGED <<left, attempt, running, leaks>>

Select ==
  /\ phase = "select"
  /\ running < Slots
  /\ running' = running + 1
  /\ phase' = "step"
  /\ UNCHANGED <<left, attempt, raised, leaks>>

\* The select is outside the try: nothing is stopped, whether or not the
\* service started a test case for it.
SelectFails ==
  /\ phase = "select"
  /\ phase' = "failed"
  /\ \/ UNCHANGED <<running, leaks>>
     \/ running < Slots /\ running' = running + 1 /\ leaks' = leaks + 1
  /\ UNCHANGED <<left, attempt, raised>>

CallReturns ==
  /\ \/ phase = "step" /\ phase' = "initialize" /\ UNCHANGED left
     \/ phase = "initialize" /\ phase' = "advance" /\ left' = Steps
     \/ phase \in {"advance", "results"} /\ left > 1 /\ left' = left - 1 /\ UNCHANGED phase
     \/ phase = "advance" /\ left = 1 /\ phase' = "results" /\ left' = Outputs
     \/ phase = "results" /\ left = 1 /\ phase' = "stop" /\ left' = 0
  /\ UNCHANGED <<attempt, raised, running, leaks>>

CallFailsUnstopped ==  \* faulty: stop is not in a finally
  /\ phase \in {"step", "initialize", "advance", "results"}
  /\ phase' = "failed"
  /\ raised' = TRUE
  /\ UNCHANGED <<left, attempt, running, leaks>>

CallFails ==
  /\ phase \in {"step", "initialize", "advance", "results"}
  /\ phase' = "stop"
  /\ raised' = TRUE
  /\ UNCHANGED <<left, attempt, running, leaks>>

\* A failing stop is only logged; the simulation ends as it would have.
Stop ==
  /\ phase = "stop"
  /\ phase' = IF raised THEN "failed" ELSE "got"
  /\ \/ running' = running - 1 /\ UNCHANGED leaks
     \/ leaks' = leaks + 1 /\ UNCHANGED running
  /\ UNCHANGED <<left, attempt, raised>>

Simulate == Select \/ SelectFails \/ CallReturns \/ CallFails \/ Stop
-------------------------------------------------------------------------------
TypeOKBoptest ==
  /\ phase \in Phases
  /\ left \in Nat /\ attempt \in {0, 1} /\ raised \in BOOLEAN
  /\ running \in 0..Slots /\ leaks \in 0..running

(* Every test case that runs at the service is the one this client holds, or *)
(* the leak of a lost select or of a failed stop: no other failure leaks.    *)
LeaksHaveCause == running <= leaks + (IF Holding THEN 1 ELSE 0)
===============================================================================
