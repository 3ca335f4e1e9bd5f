--------------------------------- MODULE Miner ---------------------------------
(***************************************************************************)
(* miner/main.py, network/axon_handler.py and calibration/.  Three kinds of   *)
(* threads: the main thread, whose event loop runs run(), the metagraph sync *)
(* (a blocking call) and the signal handler; the axon's thread (external:    *)
(* axon.start() returns and requests are served beside it), which passes one *)
(* request after the other through blacklist_fn and then runs forward(); and  *)
(* the threads of asyncio.to_thread, which calibrate.  blacklist_fn reads the *)
(* metagraph's lists one by one, while the sync replaces them one by one.     *)
(***************************************************************************)
EXTENDS Integers, Sequences, SequencesExt, FiniteSets

CONSTANTS Me,          \* the miner's hotkey
          Others,      \* hotkeys of validators and other miners
          Senders,     \* who sends each challenge, in the order they are numbered
          Threads,     \* size of the thread pool
          MaxChanges,  \* changes on the chain (bound)
          MaxFaults    \* syncs that raise (bound)

ASSUME MinerAssumption ==
  /\ Me \notin Others
  /\ Senders \in Seq(Others)
  /\ Threads \in Nat \ {0} /\ MaxChanges \in Nat /\ MaxFaults \in Nat

VARIABLES production, \* the network is one of PRODUCTION_NETWORKS
          chain,      \* hotkeys and permits (with stake) on the subnet, by UID
          stage,      \* how far the main thread is
          gate,       \* _metagraph, or None
          sync,       \* what _sync_metagraph_loop does
          incoming,   \* the metagraph it has fetched
          shutdown,   \* "no", "signalled" or "requested"
          at,         \* where each challenge is
          uid,        \* of the challenge that is in blacklist_fn
          changes,    \* history: changes on the chain so far
          faults,     \* history: syncs that raised
          known,      \* history: hotkeys that were ever registered
          steady      \* history: those that were registered with a permit all along

main    == <<stage, gate, sync, incoming, shutdown>>
subnet  == <<production, chain, changes, known, steady>>
vars    == <<production, chain, stage, gate, sync, incoming, shutdown, at, uid,
             changes, faults, known, steady>>

Hotkeys    == Others \cup {Me}
None       == [keys |-> <<>>, permits |-> <<>>]
Challenges == DOMAIN Senders
Has(graph, h)   == h \in Range(graph.keys)
UidOf(graph, h) == CHOOSE i \in DOMAIN graph.keys : graph.keys[i] = h
In(state)       == {c \in Challenges : at[c] = state}
Move(c, from, to) == at[c] = from /\ at' = [at EXCEPT ![c] = to]

-------------------------------------------------------------------------------
(* The chain: a hotkey takes a new UID or one that is taken away from another, *)
(* and permits come and go.                                                   *)
Change(graph) ==
  /\ changes < MaxChanges /\ changes' = changes + 1
  /\ chain' = graph
  /\ known' = known \cup Range(graph.keys)
  /\ steady' = {h \in steady : Has(graph, h) /\ graph.permits[UidOf(graph, h)]}
  /\ UNCHANGED <<production, main, at, uid, faults>>

Register ==
  \E h \in Hotkeys \ Range(chain.keys), i \in 1..Len(chain.keys) + 1 :
    Change(IF i > Len(chain.keys)
             THEN [keys |-> Append(chain.keys, h), permits |-> Append(chain.permits, FALSE)]
             ELSE [keys |-> [chain.keys EXCEPT ![i] = h],
                   permits |-> [chain.permits EXCEPT ![i] = FALSE]])

TogglePermit ==
  \E i \in {j \in DOMAIN chain.keys : chain.keys[j] # Me} : Change([chain EXCEPT !.permits[i] = ~@])

-------------------------------------------------------------------------------
(* The main thread.  A synchronous sync holds its event loop.                 *)
Free == sync = "sleep"

Connect ==
  /\ stage = "init" /\ stage' = "connected"
  /\ gate' = chain
  /\ UNCHANGED <<subnet, sync, incoming, shutdown, at, uid, faults>>

StartAxonEarly ==  \* faulty: the axon is up before the metagraph is there
  /\ \/ stage = "init" /\ stage' = "serving"
     \/ stage = "connected" /\ stage' = "serving"
  /\ UNCHANGED <<subnet, gate, sync, incoming, shutdown, at, uid, faults>>

\* The constructor raises if the miner is not registered.
StartAxon ==
  /\ stage = "connected"
  /\ stage' = IF Has(gate, Me) THEN "serving" ELSE "failed"
  /\ UNCHANGED <<subnet, gate, sync, incoming, shutdown, at, uid, faults>>

BeginSync ==
  /\ stage = "serving" /\ Free /\ shutdown # "requested"
  /\ sync' = "fetching"
  /\ incoming' = chain
  /\ UNCHANGED <<subnet, stage, gate, shutdown, at, uid, faults>>

SyncRaises ==
  /\ sync = "fetching" /\ sync' = "sleep"
  /\ incoming' = None
  /\ faults < MaxFaults /\ faults' = faults + 1
  /\ UNCHANGED <<subnet, stage, gate, shutdown, at, uid>>

SyncHangs ==
  /\ sync = "fetching" /\ sync' = "hung"
  /\ incoming' = None
  /\ UNCHANGED <<subnet, stage, gate, shutdown, at, uid, faults>>

\* The SDK replaces the lists one by one, in an order of its own (external).
ReplaceKeys ==
  /\ gate' = [gate EXCEPT !.keys = incoming.keys]
  /\ \/ /\ sync = "fetching" /\ sync' = "keysReplaced"
        /\ UNCHANGED incoming
     \/ /\ sync = "permitsReplaced" /\ sync' = "sleep"
        /\ incoming' = None
  /\ UNCHANGED <<subnet, stage, shutdown, at, uid, faults>>

ReplacePermitsElsewhere ==  \* faulty: the gate keeps the list it had
  /\ \/ sync = "fetching" /\ sync' = "permitsReplaced" /\ UNCHANGED incoming
     \/ sync = "keysReplaced" /\ sync' = "sleep" /\ incoming' = None
  /\ UNCHANGED <<subnet, stage, gate, shutdown, at, uid, faults>>

ReplacePermits ==
  /\ gate' = [gate EXCEPT !.permits = incoming.permits]
  /\ \/ /\ sync = "fetching" /\ sync' = "permitsReplaced"
        /\ UNCHANGED incoming
     \/ /\ sync = "keysReplaced" /\ sync' = "sleep"
        /\ incoming' = None
  /\ UNCHANGED <<subnet, stage, shutdown, at, uid, faults>>

Signal ==
  /\ stage = "serving" /\ shutdown = "no"
  /\ shutdown' = "signalled"
  /\ UNCHANGED <<subnet, stage, gate, sync, incoming, at, uid, faults>>

RequestShutdownLost ==  \* faulty: the task of the handler is dropped
  /\ shutdown = "signalled" /\ Free
  /\ shutdown' = "no"
  /\ UNCHANGED <<subnet, stage, gate, sync, incoming, at, uid, faults>>

RequestShutdown ==
  /\ shutdown = "signalled" /\ Free
  /\ shutdown' = "requested"
  /\ UNCHANGED <<subnet, stage, gate, sync, incoming, at, uid, faults>>

\* run() wakes from its sleep of a minute, cancels the sync and stops the axon.
Stop ==
  /\ stage = "serving" /\ shutdown = "requested" /\ Free
  /\ stage' = "stopped"
  /\ UNCHANGED <<subnet, gate, sync, incoming, shutdown, at, uid, faults>>

-------------------------------------------------------------------------------
(* The axon's thread: blacklist_fn, one challenge at a time.                  *)
Send(c) ==
  /\ stage = "serving"
  /\ Move(c, "unsent", "arrived")
  /\ UNCHANGED <<subnet, main, uid, faults>>

CheckMember(c) ==
  /\ stage = "serving"
  /\ In("member") \cup In("found") = {}
  /\ Move(c, "arrived", IF gate = None THEN "accepted"
                        ELSE IF Has(gate, Senders[c]) THEN "member" ELSE "refused")
  /\ UNCHANGED <<subnet, main, uid, faults>>

\* hotkeys.index raises if the hotkey went away since: the axon answers with an
\* error (external).
FindUid(c) ==
  /\ stage = "serving"
  /\ Move(c, "member", IF Has(gate, Senders[c]) THEN "found" ELSE "error")
  /\ uid' = IF Has(gate, Senders[c]) THEN UidOf(gate, Senders[c]) ELSE uid
  /\ UNCHANGED <<subnet, main, faults>>

JudgeNext(c) ==  \* faulty: UIDs are counted from zero, positions from one
  /\ stage = "serving"
  /\ Move(c, "found", IF production /\ ~(uid + 1 \in DOMAIN gate.permits /\ gate.permits[uid + 1])
                        THEN "refused" ELSE "accepted")
  /\ uid' = 0
  /\ UNCHANGED <<subnet, main, faults>>

Judge(c) ==
  /\ stage = "serving"
  /\ Move(c, "found", IF production /\ ~(uid \in DOMAIN gate.permits /\ gate.permits[uid])
                        THEN "refused" ELSE "accepted")
  /\ uid' = 0
  /\ UNCHANGED <<subnet, main, faults>>

(* forward and calibrate: a challenge with an unknown test case, unusable data *)
(* or bounds is answered with empty fields, another goes to the thread pool.   *)
(* The manifest version only makes a difference to the log.                   *)
Forward(c) ==
  /\ stage = "serving"
  /\ Move(c, "accepted", "queued") \/ Move(c, "accepted", "empty")
  /\ UNCHANGED <<subnet, main, uid, faults>>

BeginCalibrationOneMore(c) ==  \* faulty: one more than the pool has threads
  /\ Cardinality(In("running")) <= Threads
  /\ Move(c, "queued", "running")
  /\ UNCHANGED <<subnet, main, uid, faults>>

\* A calibration cannot be cancelled, nor does it notice that the validator has
\* given up or that the miner stops.
BeginCalibration(c) ==
  /\ Cardinality(In("running")) < Threads
  /\ Move(c, "queued", "running")
  /\ UNCHANGED <<subnet, main, uid, faults>>

EndCalibrationRetried(c) ==  \* faulty: a failed calibration starts over
  /\ Move(c, "running", "answered") \/ Move(c, "running", "queued")
  /\ UNCHANGED <<subnet, main, uid, faults>>

EndCalibration(c) ==
  /\ Move(c, "running", "answered") \/ Move(c, "running", "empty")
  /\ UNCHANGED <<subnet, main, uid, faults>>

-------------------------------------------------------------------------------
Init ==
  /\ production \in BOOLEAN
  /\ \E h \in Others : chain = [keys |-> <<Me, h>>, permits |-> <<FALSE, TRUE>>]
  /\ stage = "init" /\ gate = None /\ sync = "sleep" /\ incoming = None /\ shutdown = "no"
  /\ at = [c \in Challenges |-> "unsent"] /\ uid = 0
  /\ changes = 0 /\ faults = 0
  /\ known = Range(chain.keys)
  /\ steady = {chain.keys[2]}

Sync == ReplaceKeys \/ ReplacePermits
Gate(c) == CheckMember(c) \/ FindUid(c) \/ Judge(c) \/ Forward(c)
Pool == \E c \in Challenges : BeginCalibration(c) \/ EndCalibration(c)

Next ==
  \/ Register \/ TogglePermit
  \/ Connect \/ StartAxon \/ BeginSync \/ SyncRaises \/ SyncHangs \/ Sync
  \/ Signal \/ RequestShutdown \/ Stop
  \/ \E c \in Challenges : Send(c) \/ Gate(c)
  \/ Pool

(* Each thread goes on, a running calibration ends, and a sync that does not   *)
(* hang ends; no signal, no challenge and no hanging is obliged to come.  A    *)
(* signal is served between two syncs, which are ten minutes apart: syncs      *)
(* cannot keep it waiting for ever.                                           *)
Fairness ==
  /\ WF_vars(Connect \/ StartAxon) /\ WF_vars(BeginSync \/ Sync)
  /\ SF_vars(RequestShutdown) /\ WF_vars(Stop)
  /\ WF_vars(\E c \in Challenges : Gate(c)) /\ WF_vars(Pool)

Spec == Init /\ [][Next]_vars /\ Fairness
-------------------------------------------------------------------------------
Graphs == [keys : Seq(Hotkeys), permits : Seq(BOOLEAN)]

TypeOK ==
  /\ production \in BOOLEAN
  /\ chain \in Graphs /\ gate \in Graphs /\ incoming \in Graphs
  /\ Len(chain.keys) = Len(chain.permits)
  /\ stage \in {"init", "connected", "serving", "failed", "stopped"}
  /\ sync \in {"sleep", "fetching", "keysReplaced", "permitsReplaced", "hung"}
  /\ shutdown \in {"no", "signalled", "requested"}
  /\ at \in [Challenges -> {"unsent", "arrived", "member", "found", "refused", "error",
                            "accepted", "queued", "running", "answered", "empty"}]
  /\ Cardinality(In("running")) <= Threads
  /\ uid \in 0..2 + MaxChanges
  /\ changes \in 0..MaxChanges /\ faults \in 0..MaxFaults
  /\ known \subseteq Hotkeys /\ steady \subseteq known

(* A validator that keeps its registration and its permit is never turned      *)
(* away, whoever else comes and goes: not even when the sync replaces the      *)
(* metagraph's lists between two reads of blacklist_fn.                        *)
SteadyServed ==
  \A c \in In("refused") \cup In("error") : Senders[c] \notin steady

(* The way through for a missing metagraph is never taken: a hotkey that was   *)
(* never registered is not let in, at start or in the middle of a sync.        *)
StrangersRefused ==
  \A c \in Challenges :
    at[c] \in {"accepted", "queued", "running", "answered", "empty"} => Senders[c] \in known

(* Every challenge comes to an end, unless the miner stops: refused, or        *)
(* answered, if need be with empty fields, however few threads there are.      *)
ChallengesEnd ==
  \A c \in Challenges :
    at[c] = "arrived" ~>
      at[c] \in {"refused", "error", "answered", "empty"} \/ stage = "stopped"

(* A signal ends the miner, unless a sync hangs in the main thread: nothing    *)
(* then serves the signal.                                                     *)
ShutdownEnds == shutdown = "signalled" ~> stage = "stopped" \/ sync = "hung"

(* The gate ends up with the metagraph of the chain, a failed sync             *)
(* notwithstanding, while the miner serves and no sync hangs.                  *)
GateCatchesUp ==
  <>[](gate = chain) \/ <>(stage \in {"failed", "stopped"} \/ sync = "hung")
===============================================================================
