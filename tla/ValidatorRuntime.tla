--------------------------- MODULE ValidatorRuntime ---------------------------
(***************************************************************************)
(* The asyncio runtime of the validator (validator/main.py): the challenge, *)
(* weight and cleanup loops, the weight-commit watchdog, the subtensor lock *)
(* and wait_for of _chain_op, and the default ThreadPoolExecutor that every *)
(* asyncio.to_thread call shares.                                           *)
(*                                                                          *)
(* An action is one slice of the event loop (between two awaits), one step  *)
(* of a worker thread, or the passing of one unit of time.  wait_for can    *)
(* stop the awaiting task but never the thread: a timed-out thread becomes  *)
(* an orphan, and a wedged one never returns.                               *)
(***************************************************************************)
EXTENDS Integers, FiniteSets, SequencesExt

CONSTANTS Workers,        \* threads of the default executor
          ReadTimeout,    \* CHAIN_READ_TIMEOUT_SECONDS, in units of 30 s
          SyncTimeout,    \* METAGRAPH_SYNC_TIMEOUT_SECONDS
          CommitTimeout,  \* WeightSetter.WEIGHT_TIMEOUT_SECONDS
          WatchdogLimit,  \* WEIGHT_COMMIT_WATCHDOG_SECONDS
          MaxStall,       \* how long verification may hold the event loop
          MaxTruth,       \* how long simulating ground truth may (local mode)
          MaxAttempts,    \* tenacity stop_after_attempt
          MaxReports,     \* miners verified in a round (bound)
          MaxWedged,      \* threads that never return (bound)
          MaxSignals      \* shutdown signals: none, one, or also a forcing one

ASSUME RuntimeAssumption ==
  /\ Workers # {}
  /\ ReadTimeout \in Nat \ {0} /\ SyncTimeout \in Nat \ {0}
  /\ CommitTimeout \in Nat \ {0} /\ WatchdogLimit \in Nat
  /\ MaxStall \in Nat /\ MaxTruth \in Nat /\ MaxAttempts \in Nat \ {0}
  /\ MaxReports \in Nat /\ MaxWedged \in Nat /\ MaxSignals \in 0..2

VARIABLES pc,         \* where each loop is; most values name an awaited call
          lockq,      \* tasks holding (first) and waiting for _subtensor_lock
          timer,      \* age of the running wait_for of each task, or Unarmed
          queue,      \* jobs submitted to the executor, not yet on a thread
          thread,     \* what each worker thread runs and who awaits it
          booting,    \* the weight loop is in its initial gate read
          tries,      \* failed tenacity attempts of the current gate read
          reports,    \* reports the challenge loop has still to persist
          commitAge,  \* now - _weight_commit_started_at, or Unarmed for None
          watchdog,   \* "polling" or "done"
          shutdown,   \* "no", "grace" (first signal < 5 s ago) or "late"
          process     \* "up", "joining" threads at exit, or how it ended

vars == <<pc, lockq, timer, queue, thread, booting, tries, reports,
          commitAge, watchdog, shutdown, process>>

Loops   == {"challenge", "weight", "cleanup"}
Nobody  == "nobody"
Unarmed == -1

ReadCalls   == {"rate", "since", "bootlog"}
SyncCalls   == {"sync", "fallback"}
CommitCalls == {"commit", "recommit"}
ChainCalls  == ReadCalls \cup SyncCalls \cup CommitCalls
DbCalls     == {"window", "insert", "report", "purge"}
Unblocked   == {"start", "sleep", "backoff", "work", "verify"}
Locations   == ChainCalls \cup DbCalls \cup Unblocked \cup {"done"}

Kind(p) == CASE p \in ReadCalls   -> "read"
             [] p \in SyncCalls   -> "sync"
             [] p \in CommitCalls -> "commit"
             [] p \in DbCalls     -> "db"
             [] OTHER             -> "none"

TimeLimit(p) == CASE Kind(p) = "read"   -> ReadTimeout
                  [] Kind(p) = "sync"   -> SyncTimeout
                  [] Kind(p) = "commit" -> CommitTimeout

Idle    == [kind |-> "none", for |-> Nobody, wedged |-> FALSE]
Threads == [kind : {"none", "read", "sync", "commit", "db"},
            for : Loops \cup {Nobody}, wedged : BOOLEAN]

OnChain(w) == thread[w].kind \in {"read", "sync", "commit"}
Wedged(w)  == thread[w].wedged
Orphan(w)  == thread[w].kind # "none" /\ thread[w].for = Nobody
Verifying  == pc["challenge"] = "verify"

-------------------------------------------------------------------------------
(* Control flow of the three loops: where a task may go from its location,  *)
(* given how the call it awaited ended: "ok", "retry" (ConnectionError,     *)
(* OSError or TimeoutError) or "error" (any other exception).               *)

LoopTopUnending(t) ==  \* faulty: the cleanup loop is a "while True"
  CASE t = "challenge" -> IF shutdown # "no" THEN {"done"} ELSE {"sync", "sleep"}
    [] t = "weight"    -> IF shutdown # "no" THEN {"done"} ELSE {"rate"}
    [] t = "cleanup"   -> {"purge"}

LoopTop(t) ==
  IF shutdown # "no" THEN {"done"}
  ELSE CASE t = "challenge" -> {"sync", "sleep"}  \* set_round_count may raise
         [] t = "weight"    -> {"rate"}
         [] t = "cleanup"   -> {"purge"}

GateGivenUp == IF booting THEN LoopTop("weight") ELSE {"sleep"}

GateFailedOnceMore(outcome) ==  \* faulty: one attempt too many
  IF outcome = "retry" /\ tries < MaxAttempts THEN {"backoff"} ELSE GateGivenUp

GateFailed(outcome) ==
  IF outcome = "retry" /\ tries + 1 < MaxAttempts THEN {"backoff"} ELSE GateGivenUp

GateRead(p, outcome) ==
  IF outcome # "ok" THEN GateFailed(outcome)
  ELSE CASE p = "rate" -> {"since"}
         [] p = "since" -> IF booting THEN {"bootlog"} ELSE {"sleep", "window"}

CommitWeights(p, outcome) ==
  CASE p = "window"   -> IF outcome = "ok" THEN {"sleep", "commit", "fallback"} ELSE {"sleep"}
    [] p = "commit"   -> IF outcome = "ok" THEN {"sleep", "fallback"} ELSE {"fallback"}
    [] p = "fallback" -> IF outcome = "ok" THEN {"sleep", "recommit"} ELSE {"sleep"}
    [] p = "recommit" -> {"sleep"}

ChallengeRound(p, outcome) ==
  CASE p = "sync"   -> {"work"}
    [] p = "work"   -> {"verify", "sleep"}
    [] p = "verify" -> {"insert", "sleep"}
    [] p = "insert" -> IF outcome = "ok" /\ MaxReports > 0 THEN {"report", "sleep"} ELSE {"sleep"}
    [] p = "report" -> IF reports > 1 THEN {"report"} ELSE {"sleep"}

After(t, p, outcome) ==
  CASE p = "start" /\ t = "weight"                   -> {"rate"}
    [] p = "backoff"                                 -> {"rate"}
    [] p \in {"rate", "since"}                       -> GateRead(p, outcome)
    [] p \in CommitCalls \cup {"window", "fallback"} -> CommitWeights(p, outcome)
    [] p \in {"sync", "work", "verify", "insert", "report"} -> ChallengeRound(p, outcome)
    [] p = "purge"                                   -> {"sleep"}
    [] p \in {"sleep", "bootlog"} \/ (p = "start" /\ t # "weight") -> LoopTop(t)

(* _weight_commit_started_at: set when a commit starts, cleared by finally.  *)
CommitClockKept(t, p) ==  \* faulty: no finally
  IF p \in CommitCalls THEN 0 ELSE commitAge

CommitClock(t, p) ==
  IF p \in CommitCalls THEN 0 ELSE IF t = "weight" THEN Unarmed ELSE commitAge

Later(age, d) == IF age = Unarmed THEN Unarmed ELSE age + d

SignalAged(d) == IF d > 0 /\ shutdown = "grace" THEN "late" ELSE shutdown

(* How long a slice may take.  In local mode the slice that follows the sync *)
(* simulates both ground truths: the lock is free, but whoever waits for it  *)
(* is not served before the slice is over.                                   *)
SliceTime(t) == IF t = "challenge" /\ pc[t] = "sync" THEN 0..MaxTruth ELSE {0}

(* Task t leaves its location for p in one slice: it releases the lock it   *)
(* held, queues for the lock or submits its database job (to q, the queue   *)
(* left by what ended its last call), and keeps the books of the location.  *)
(* No other wait_for runs while it holds the lock.                          *)
Goto(t, p, q) ==
  LET released == IF pc[t] \in ChainCalls THEN Tail(lockq) ELSE lockq
      sameGate == t # "weight" \/ pc[t] \in {"start", "backoff"} \/ p \in {"since", "backoff"}
  IN  /\ pc' = [pc EXCEPT ![t] = p]
      /\ lockq' = IF p \in ChainCalls THEN Append(released, t) ELSE released
      /\ timer' = [timer EXCEPT ![t] = Unarmed]
      /\ queue' = IF p \in DbCalls THEN Append(q, t) ELSE q
      /\ \E d \in SliceTime(t) :
           /\ commitAge' = Later(CommitClock(t, p), d)
           /\ shutdown' = SignalAged(d)
      /\ booting' = (booting /\ (sameGate \/ p = "bootlog"))
      /\ tries' = IF ~sameGate THEN 0 ELSE IF p = "backoff" THEN tries + 1 ELSE tries
      /\ IF pc[t] = "insert" /\ p = "report" THEN reports' \in 1..MaxReports
         ELSE reports' = IF pc[t] = "report" THEN reports - 1 ELSE reports
      /\ UNCHANGED <<watchdog, process>>

-------------------------------------------------------------------------------
Init ==
  /\ pc = [t \in Loops |-> "start"]
  /\ lockq = <<>>
  /\ timer = [t \in Loops |-> Unarmed]
  /\ queue = <<>>
  /\ thread = [w \in Workers |-> Idle]
  /\ booting = TRUE
  /\ tries = 0
  /\ reports = 0
  /\ commitAge = Unarmed
  /\ watchdog = "polling"
  /\ shutdown = "no"
  /\ process = "up"

(* A loop goes on from a sleep, or from work that awaits no thread.         *)
Proceed(t) ==
  /\ process = "up"
  /\ pc[t] \in Unblocked
  /\ \E p \in After(t, pc[t], "ok") : Goto(t, p, queue)
  /\ UNCHANGED thread

HasLockUnchecked(t) == Contains(lockq, t)  \* faulty: a call without the lock

HasLock(t) == lockq # <<>> /\ Head(lockq) = t

(* _chain_op: the task that got the lock arms wait_for and submits its call. *)
Submit(t) ==
  /\ process = "up"
  /\ HasLock(t)
  /\ timer[t] = Unarmed
  /\ timer' = [timer EXCEPT ![t] = 0]
  /\ queue' = Append(queue, t)
  /\ UNCHANGED <<pc, lockq, thread, booting, tries, reports, commitAge,
                 watchdog, shutdown, process>>

TimedOutUnlessSync(t) ==  \* faulty: metagraph.sync awaited without a timeout
  pc[t] \in ReadCalls \cup CommitCalls /\ timer[t] >= TimeLimit(pc[t])

TimedOut(t) == pc[t] \in ChainCalls /\ timer[t] >= TimeLimit(pc[t])

NothingCancelled(q, t) == q  \* faulty: the executor still runs the job

Cancelled(q, t) ==
  IF Contains(q, t) THEN RemoveAt(q, CHOOSE i \in 1..Len(q) : q[i] = t) ELSE q

(* wait_for expires: a job still queued is cancelled, a thread is orphaned. *)
TimeOut(t) ==
  /\ process = "up"
  /\ TimedOut(t)
  /\ thread' = [w \in Workers |->
                  IF thread[w].for = t THEN [thread[w] EXCEPT !.for = Nobody] ELSE thread[w]]
  /\ \E p \in After(t, pc[t], "retry") : Goto(t, p, Cancelled(queue, t))

(* ThreadPoolExecutor: an idle worker takes the oldest job.                 *)
StartJob(w) ==
  /\ process \in {"up", "joining"}
  /\ thread[w] = Idle
  /\ queue # <<>>
  /\ thread' = [thread EXCEPT ![w] = [kind |-> Kind(pc[Head(queue)]), for |-> Head(queue), wedged |-> FALSE]]
  /\ queue' = Tail(queue)
  /\ UNCHANGED <<pc, lockq, timer, booting, tries, reports, commitAge,
                 watchdog, shutdown, process>>

(* A call returns or raises to the task that still awaits it.               *)
FinishJob(w) ==
  /\ process = "up"
  /\ thread[w].for # Nobody
  /\ ~Wedged(w)
  /\ thread' = [thread EXCEPT ![w] = Idle]
  /\ LET t == thread[w].for
     IN  \E outcome \in {"ok", "retry", "error"} :
           \E p \in After(t, pc[t], outcome) : Goto(t, p, queue)

(* A call returns after its task has timed out: nobody sees the result.     *)
FinishOrphan(w) ==
  /\ process \in {"up", "joining"}
  /\ Orphan(w)
  /\ ~Wedged(w)
  /\ thread' = [thread EXCEPT ![w] = Idle]
  /\ UNCHANGED <<pc, lockq, timer, queue, booting, tries, reports, commitAge,
                 watchdog, shutdown, process>>

(* The substrate websocket deadlocks under a running call.                  *)
Wedge(w) ==
  /\ process = "up"
  /\ OnChain(w)
  /\ ~Wedged(w)
  /\ Cardinality({v \in Workers : Wedged(v)}) < MaxWedged
  /\ thread' = [thread EXCEPT ![w].wedged = TRUE]
  /\ UNCHANGED <<pc, lockq, timer, queue, booting, tries, reports, commitAge,
                 watchdog, shutdown, process>>

(* One unit passes.  The event loop runs what is ready before it does, save  *)
(* that timers are served late while a verification holds the loop.          *)
Tick ==
  /\ process \in {"up", "joining"}
  /\ lockq # <<>> => timer[Head(lockq)] # Unarmed
  /\ \A t \in Loops : timer[t] # Unarmed =>
        timer[t] < TimeLimit(pc[t]) + (IF Verifying THEN MaxStall ELSE 0)
  /\ timer' = [t \in Loops |-> Later(timer[t], 1)]
  /\ commitAge' = Later(commitAge, 1)
  /\ shutdown' = SignalAged(1)
  /\ UNCHANGED <<pc, lockq, queue, thread, booting, tries, reports, watchdog, process>>

(* _weight_commit_watchdog: os._exit(1) on a commit in flight for too long.  *)
WatchdogKill ==
  /\ process = "up"
  /\ watchdog = "polling"
  /\ commitAge > WatchdogLimit
  /\ process' = "killed"
  /\ UNCHANGED <<pc, lockq, timer, queue, thread, booting, tries, reports,
                 commitAge, watchdog, shutdown>>

WatchdogExit ==
  /\ process = "up"
  /\ watchdog = "polling"
  /\ shutdown # "no"
  /\ ~(commitAge > WatchdogLimit)
  /\ watchdog' = "done"
  /\ UNCHANGED <<pc, lockq, timer, queue, thread, booting, tries, reports,
                 commitAge, shutdown, process>>

(* _handle_shutdown_signal: the first signal asks, one after the grace       *)
(* period forces os._exit(0); one within it is ignored.                      *)
FirstSignal ==
  /\ process = "up"
  /\ shutdown = "no" /\ MaxSignals > 0
  /\ shutdown' = "grace"
  /\ UNCHANGED <<pc, lockq, timer, queue, thread, booting, tries, reports,
                 commitAge, watchdog, process>>

ForcingSignal ==
  /\ process \in {"up", "joining"}
  /\ shutdown = "late" /\ MaxSignals > 1
  /\ process' = "forced"
  /\ UNCHANGED <<pc, lockq, timer, queue, thread, booting, tries, reports,
                 commitAge, watchdog, shutdown>>

(* run() returns once gather() has every loop, then the interpreter joins    *)
(* the executor's threads before the process ends.                           *)
RunReturns ==
  /\ process = "up"
  /\ watchdog = "done"
  /\ \A t \in Loops : pc[t] = "done"
  /\ process' = "joining"
  /\ UNCHANGED <<pc, lockq, timer, queue, thread, booting, tries, reports,
                 commitAge, watchdog, shutdown>>

ThreadsJoined ==
  /\ process = "joining"
  /\ \A w \in Workers : thread[w] = Idle
  /\ process' = "exited"
  /\ UNCHANGED <<pc, lockq, timer, queue, thread, booting, tries, reports,
                 commitAge, watchdog, shutdown>>

Ended == process \in {"killed", "forced", "exited"} /\ UNCHANGED vars

LoopStep(t)   == Proceed(t) \/ Submit(t) \/ TimeOut(t)
WorkerStep(w) == StartJob(w) \/ FinishJob(w) \/ FinishOrphan(w) \/ Wedge(w)
Control       == WatchdogKill \/ WatchdogExit \/ RunReturns \/ ThreadsJoined

Next ==
  \/ \E t \in Loops : LoopStep(t)
  \/ \E w \in Workers : WorkerStep(w)
  \/ Tick \/ Control \/ FirstSignal \/ ForcingSignal \/ Ended

Spec == Init /\ [][Next]_vars

(* The event loop serves every ready task and timer, idle workers take jobs, *)
(* calls that are not wedged return, and time passes.  Signals and wedging   *)
(* are the environment's choice.                                             *)
Fairness ==
  /\ \A t \in Loops : WF_vars(LoopStep(t))
  /\ \A w \in Workers : WF_vars(FinishJob(w) \/ FinishOrphan(w))
  /\ WF_vars(\E w \in Workers : StartJob(w))
  /\ WF_vars(Tick)
  /\ WF_vars(Control)

FairSpec == Spec /\ Fairness
-------------------------------------------------------------------------------
(* The shape of the state, with the bounds of the counters.                  *)
TypeOK ==
  /\ pc \in [Loops -> Locations]
  /\ lockq \in Seq(Loops)
  /\ timer \in [Loops -> Int]
  /\ queue \in Seq(Loops)
  /\ thread \in [Workers -> Threads]
  /\ booting \in BOOLEAN
  /\ tries \in 0..(MaxAttempts - 1)
  /\ reports \in 0..MaxReports
  /\ commitAge \in Int
  /\ watchdog \in {"polling", "done"}
  /\ shutdown \in {"no", "grace", "late"}
  /\ process \in {"up", "joining", "killed", "forced", "exited"}

(* Nobody waits for what will not come, and nothing runs that somebody still *)
(* thinks is his: a loop is in the lock's line exactly while it is in a      *)
(* chain call, only the first in line has a wait_for running, and a loop has *)
(* exactly one job (queued or on a thread) while it awaits one and none      *)
(* otherwise -- whatever timed out, wedged or was cancelled before.          *)
Occurrences(s, t) == Cardinality({i \in DOMAIN s : s[i] = t})
Awaiting(t)       == pc[t] \in DbCalls \/ timer[t] # Unarmed
JobsOf(t)         == Occurrences(queue, t) + Cardinality({w \in Workers : thread[w].for = t})

CallsAccounted ==
  \A t \in Loops :
    /\ Occurrences(lockq, t) = (IF pc[t] \in ChainCalls THEN 1 ELSE 0)
    /\ timer[t] # Unarmed => lockq # <<>> /\ Head(lockq) = t
    /\ JobsOf(t) = (IF Awaiting(t) THEN 1 ELSE 0)
    /\ \A w \in Workers : thread[w].for = t => thread[w].kind = Kind(pc[t])

(* _chain_op serialises the calls that are awaited: two threads are in an    *)
(* RPC at once only if at most one of them still has a task behind it.       *)
AwaitedCallsSerialized ==
  \A v, w \in Workers :
    (OnChain(v) /\ OnChain(w) /\ ~Orphan(v) /\ ~Orphan(w)) => v = w

(* _weight_commit_started_at is never older than one metagraph sync (the     *)
(* only call that can be ahead in the lock's line), the ground truth that    *)
(* local mode simulates before the next in line is served, one weight-setting*)
(* timeout, and the time verification held the event loop.                   *)
CommitAgeBounded == commitAge <= SyncTimeout + MaxTruth + CommitTimeout + MaxStall

(* The watchdog of a validator whose event loop is prompt never fires.       *)
WatchdogSilent == process # "killed"

(* As long as a thread is left that cannot wedge, every loop comes back to   *)
(* its sleep for ever: no timeout, orphan or wedged call stops a loop.       *)
LoopsKeepTurning ==
  \A t \in Loops : []<>(pc[t] \in {"sleep", "done"} \/ process # "up")

(* A shutdown request ends the process, unless a wedged thread is left for   *)
(* the interpreter to join.                                                  *)
ShutdownCompletes ==
  (shutdown # "no") ~> (process \in {"killed", "forced", "exited"} \/ \E w \in Workers : Wedged(w))

(* What the documentation of _chain_op says: it serialises access to the     *)
(* websocket, so that no two threads ever receive on it.                     *)
SingleReader == Cardinality({w \in Workers : OnChain(w)}) <= 1

(* What the documentation of _weight_commit_watchdog says: a set_weights     *)
(* call that wedges ends the process for its supervisor to restart.          *)
HungCommit == \E w \in Workers : Wedged(w) /\ thread[w].kind = "commit"
HungCommitIsKilled == HungCommit ~> process # "up"
===============================================================================
