------------------------------- MODULE Deployment -------------------------------
(***************************************************************************)
(* scripts/auto_update.sh beside a validator under pm2 (external: it starts  *)
(* the process again whenever it ends): how new code, and with it a new spec *)
(* version, reaches the process and the database of DatabaseFiles.  No step  *)
(* of the script looks at the result of the one before it.                   *)
(***************************************************************************)
EXTENDS DatabaseFiles

CONSTANTS SpecOf,     \* the spec version of each commit of origin/main
          MaxFaults   \* failing commands, killed processes, losses of power (bound)

ASSUME DeploymentAssumption == SpecOf \in Seq(Specs) /\ SpecOf # <<>> /\ MaxFaults \in Nat

VARIABLES remote,     \* the last commit of origin/main
          fetched,    \* what the last fetch saw of it
          checkout,   \* the commit the working copy is based on
          own,        \* the working copy has commits of its own on top
          step,       \* where the script is
          code,       \* the commit the process was started from
          faults,     \* history: faults so far
          lost        \* history: new code was pulled and the restart never came

updater == <<fetched, checkout, step>>
world   == <<remote, own>>
dvars   == <<vars, updater, world, code, faults, lost>>

Commits == DOMAIN SpecOf
Fault   == faults < MaxFaults /\ faults' = faults + 1
At(from, to) == step = from /\ step' = to

-------------------------------------------------------------------------------
Publish ==
  /\ remote < Len(SpecOf)
  /\ remote' = remote + 1
  /\ UNCHANGED <<vars, updater, own, code, faults, lost>>

(* sleep, git fetch, and the comparison of HEAD with origin/main.             *)
FetchSkipped ==  \* faulty: origin/main is compared as the last pull left it
  /\ At("sleep", "compare")
  /\ UNCHANGED <<vars, fetched, checkout, world, code, faults, lost>>

Fetch ==
  /\ At("sleep", "compare")
  /\ fetched' = remote
  /\ UNCHANGED <<vars, checkout, world, code, faults, lost>>

FetchFails ==
  /\ Fault /\ At("sleep", "compare")
  /\ UNCHANGED <<vars, fetched, checkout, world, code, lost>>

Compare ==
  /\ step = "compare"
  /\ step' = IF checkout # fetched \/ own THEN "pull" ELSE "sleep"
  /\ UNCHANGED <<vars, fetched, checkout, world, code, faults, lost>>

(* git pull --rebase --autostash, which fetches once more; uv sync.           *)
PullUnrestarted ==  \* faulty: the new code waits for the next update
  /\ At("pull", "sleep")
  /\ fetched' = remote /\ checkout' = remote
  /\ UNCHANGED <<vars, world, code, faults, lost>>

Pull ==
  /\ At("pull", "restart")
  /\ fetched' = remote /\ checkout' = remote
  /\ UNCHANGED <<vars, world, code, faults, lost>>

PullFails ==
  /\ Fault /\ At("pull", "restart")
  /\ UNCHANGED <<vars, fetched, checkout, world, code, lost>>

(* pm2 restart: a signal, on which run() closes the database, or a kill.      *)
Restart ==
  /\ At("restart", "sleep")
  /\ Close \/ Kill \/ (phase = "down" /\ UNCHANGED vars)
  /\ UNCHANGED <<fetched, checkout, world, code, faults, lost>>

(* pm2 restart fails, or the script dies somewhere and pm2 starts it anew.    *)
RestartLost ==
  /\ Fault
  /\ step \in {"compare", "pull", "restart"} /\ step' = "sleep"
  /\ lost' = (lost \/ step = "restart")
  /\ UNCHANGED <<vars, fetched, checkout, world, code>>

(* pm2 starts the process from the working copy.                              *)
StartProcess ==
  /\ Start(SpecOf[checkout])
  /\ code' = checkout
  /\ UNCHANGED <<updater, world, faults, lost>>

Validator ==
  /\ Open \/ Run \/ Checkpoint
  /\ UNCHANGED <<updater, world, code, faults, lost>>

Crash ==
  /\ Fault
  /\ Kill \/ PowerLoss
  /\ UNCHANGED <<updater, world, code, lost>>

-------------------------------------------------------------------------------
DInit ==
  /\ Init /\ spec = SpecOf[1]
  /\ remote = 1 /\ fetched = 1 /\ checkout = 1 /\ code = 1
  /\ own \in BOOLEAN
  /\ step = "sleep"
  /\ faults = 0 /\ lost = FALSE

Update == Fetch \/ FetchFails \/ Compare \/ Pull \/ PullFails \/ Restart \/ RestartLost

DNext == Publish \/ Update \/ StartProcess \/ Validator \/ Crash

Fairness ==
  /\ WF_dvars(Fetch) /\ WF_dvars(Compare) /\ WF_dvars(Pull) /\ WF_dvars(Restart)
  /\ WF_dvars(StartProcess)
  /\ WF_dvars(Open /\ UNCHANGED <<updater, world, code, faults, lost>>)

DSpec == DInit /\ [][DNext]_dvars /\ Fairness
-------------------------------------------------------------------------------
DTypeOK ==
  /\ TypeOK
  /\ remote \in Commits /\ fetched \in 1..remote /\ checkout \in 1..remote
  /\ own \in BOOLEAN /\ lost \in BOOLEAN
  /\ step \in {"sleep", "compare", "pull", "restart"}
  /\ code \in 1..checkout
  /\ faults \in 0..MaxFaults

(* While the script sleeps, the process runs the code of the working copy,    *)
(* unless a restart was lost: then nothing ever tries it again, because the   *)
(* working copy is up to date.                                                *)
StaleCodeHasCause ==
  step = "sleep" /\ phase # "down" /\ code # checkout => lost

(* In the end the validator runs the last commit published, on a database of  *)
(* its spec version, and stays up: unless a restart was lost, or the working   *)
(* copy has commits of its own.  Then HEAD never equals origin/main, and the   *)
(* script restarts the validator every five minutes for ever.                  *)
UpdatesArrive ==
  <>[](lost \/ own) \/ <>[](Running /\ code = remote /\ View.spec = SpecOf[remote])
===============================================================================
