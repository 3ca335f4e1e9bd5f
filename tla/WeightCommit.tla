----------------------------- MODULE WeightCommit -----------------------------
(***************************************************************************)
(* The weight loop against the chain (validator/main.py:620-758,            *)
(* validator/weights/setter.py:101-299): the block gate, the weights of the *)
(* scoring window, their submission with a timeout, the fallback that       *)
(* submits a copy of the chain's weights, and the submissions that live on  *)
(* after the loop stopped waiting for them.  Time is counted in blocks.     *)
(***************************************************************************)
EXTENDS Integers, SequencesExt

CONSTANTS RateLimit,     \* weights_rate_limit of the subnet, in blocks
          CallBlocks,    \* WEIGHT_TIMEOUT_SECONDS, in blocks
          OrphanBlocks,  \* blocks an abandoned submission may stay in flight
          MaxFaults,     \* calls that fail, wedge or get lost (bound)
          MaxRestarts    \* restarts of the process (bound)

ASSUME CommitAssumption ==
  /\ RateLimit \in Nat \ {0} /\ CallBlocks \in Nat \ {0}
  /\ OrphanBlocks \in Nat /\ MaxFaults \in Nat /\ MaxRestarts \in Nat

VARIABLES pc,        \* where _weight_loop is
          scores,    \* what the window's average gives: "none" without rows,
                     \* "worthless" if every average is 0, or "scored"
          call,      \* the submission the loop awaits, or NoCall
          orphans,   \* blocks each abandoned submission has been in flight
          since,     \* blocks_since_last_update, capped at the rate limit
          landed,    \* a submission of ours was included since the gate opened
          faults,    \* faults so far
          restarts   \* restarts so far

vars == <<pc, scores, call, orphans, since, landed, faults, restarts>>

Stations == {"sleep", "window", "commit", "fallback", "recommit"}
NoCall   == [status |-> "none", age |-> 0]
Pending  == [status |-> "pending", age |-> 0]
Statuses == {"none", "pending", "wedged", "included", "refused", "failed"}

Submitting == pc \in {"commit", "recommit"}

-------------------------------------------------------------------------------
(* The loop.                                                                 *)
Init ==
  /\ pc = "sleep"
  /\ scores = "none"
  /\ call = NoCall
  /\ orphans = <<>>
  /\ since \in 0..RateLimit
  /\ landed = FALSE
  /\ faults = 0
  /\ restarts = 0

PollUngated ==  \* faulty: commits without asking how many blocks remain
  /\ pc = "sleep"
  /\ pc' = "window"
  /\ landed' = FALSE
  /\ UNCHANGED <<scores, call, orphans, since, faults, restarts>>

\* _blocks_until_weight_eligible is 0; otherwise, or if the reads fail, the
\* loop sleeps again and nothing changes.
Poll ==
  /\ pc = "sleep"
  /\ since >= RateLimit
  /\ pc' = "window"
  /\ landed' = FALSE
  /\ UNCHANGED <<scores, call, orphans, since, faults, restarts>>

\* _compute_and_commit_weights reads the window and averages it.
SkipWindow ==
  /\ pc = "window"
  /\ scores \in {"none", "worthless"}
  /\ pc' = "sleep"
  /\ UNCHANGED <<scores, call, orphans, since, landed, faults, restarts>>

CommitScores ==
  /\ pc = "window"
  /\ scores = "scored"
  /\ pc' = "commit"
  /\ call' = Pending
  /\ UNCHANGED <<scores, orphans, since, landed, faults, restarts>>

\* A commit that did not succeed is followed by the fallback; an alert ends a
\* pass whose fallback did not succeed either.
AfterCommit(succeeded) ==
  IF pc = "commit" /\ ~succeeded THEN "fallback" ELSE "sleep"

Return ==
  /\ Submitting
  /\ call.status \in {"included", "refused", "failed"}
  /\ pc' = AfterCommit(call.status = "included")
  /\ call' = NoCall
  /\ UNCHANGED <<scores, orphans, since, landed, faults, restarts>>

TimeOutRecommit ==  \* faulty: the first commit is awaited without a timeout
  /\ pc = "recommit"
  /\ call.age >= CallBlocks
  /\ orphans' = IF call.status = "pending" THEN Append(orphans, 0) ELSE orphans
  /\ pc' = AfterCommit(FALSE)
  /\ call' = NoCall
  /\ UNCHANGED <<scores, since, landed, faults, restarts>>

\* set_weights gives up after its timeout and reports failure, even of a
\* submission that is in a block or still on its way to one.
TimeOut ==
  /\ Submitting
  /\ call.age >= CallBlocks
  /\ orphans' = IF call.status = "pending" THEN Append(orphans, 0) ELSE orphans
  /\ pc' = AfterCommit(FALSE)
  /\ call' = NoCall
  /\ UNCHANGED <<scores, since, landed, faults, restarts>>

\* copy_weights_from_chain: there is something to copy, or there is not.
CopyFromChain ==
  /\ pc = "fallback"
  /\ pc' = "recommit"
  /\ call' = Pending
  /\ UNCHANGED <<scores, orphans, since, landed, faults, restarts>>

NothingToCopy ==
  /\ pc = "fallback"
  /\ pc' = "sleep"
  /\ UNCHANGED <<scores, call, orphans, since, landed, faults, restarts>>

\* The process ends and is restarted; what it had submitted is not withdrawn,
\* and the new process remembers nothing of it.
Restart ==
  /\ restarts < MaxRestarts
  /\ restarts' = restarts + 1
  /\ pc' = "sleep"
  /\ orphans' = IF call.status = "pending" THEN Append(orphans, 0) ELSE orphans
  /\ call' = NoCall
  /\ UNCHANGED <<scores, since, landed, faults>>

-------------------------------------------------------------------------------
(* The chain and the other loops.                                            *)
Include ==
  /\ call.status = "pending"
  /\ since >= RateLimit
  /\ call' = [call EXCEPT !.status = "included"]
  /\ since' = 0
  /\ landed' = TRUE
  /\ UNCHANGED <<pc, scores, orphans, faults, restarts>>

Refuse ==
  /\ call.status = "pending"
  /\ since < RateLimit
  /\ call' = [call EXCEPT !.status = "refused"]
  /\ UNCHANGED <<pc, scores, orphans, since, landed, faults, restarts>>

Fault ==
  /\ call.status = "pending"
  /\ faults < MaxFaults
  /\ faults' = faults + 1
  /\ \E status \in {"failed", "wedged"} : call' = [call EXCEPT !.status = status]
  /\ UNCHANGED <<pc, scores, orphans, since, landed, restarts>>

OrphanLands ==
  /\ since >= RateLimit
  /\ \E i \in DOMAIN orphans : orphans' = RemoveAt(orphans, i)
  /\ since' = 0
  /\ landed' = TRUE
  /\ UNCHANGED <<pc, scores, call, faults, restarts>>

OrphanRefused ==
  /\ since < RateLimit
  /\ \E i \in DOMAIN orphans : orphans' = RemoveAt(orphans, i)
  /\ UNCHANGED <<pc, scores, call, since, landed, faults, restarts>>

OrphanLost ==
  /\ faults < MaxFaults
  /\ faults' = faults + 1
  /\ \E i \in DOMAIN orphans : orphans' = RemoveAt(orphans, i)
  /\ UNCHANGED <<pc, scores, call, since, landed, restarts>>

Block ==
  /\ call # NoCall => call.age < CallBlocks
  /\ \A i \in DOMAIN orphans : orphans[i] < OrphanBlocks
  /\ since' = IF since < RateLimit THEN since + 1 ELSE since
  /\ call' = IF call = NoCall THEN NoCall ELSE [call EXCEPT !.age = @ + 1]
  /\ orphans' = [i \in DOMAIN orphans |-> orphans[i] + 1]
  /\ UNCHANGED <<pc, scores, landed, faults, restarts>>

\* Rounds are recorded, and fall out of the window.
WindowChanges ==
  /\ scores' \in {"none", "worthless", "scored"}
  /\ UNCHANGED <<pc, call, orphans, since, landed, faults, restarts>>

Loop  == Poll \/ SkipWindow \/ CommitScores \/ Return \/ TimeOut \/ CopyFromChain \/ NothingToCopy
Chain == Include \/ Refuse \/ OrphanLands \/ OrphanRefused

Next == Loop \/ Chain \/ Fault \/ OrphanLost \/ Block \/ WindowChanges \/ Restart

Spec == Init /\ [][Next]_vars

(* The event loop serves the weight loop, the chain deals with what it is    *)
(* sent, and blocks are produced.                                            *)
FairSpec == Spec /\ WF_vars(Loop) /\ WF_vars(Chain) /\ WF_vars(Block)
-------------------------------------------------------------------------------
TypeOK ==
  /\ pc \in Stations
  /\ scores \in {"none", "worthless", "scored"}
  /\ call \in [status : Statuses, age : 0..CallBlocks]
  /\ Submitting <=> call.status # "none"
  /\ orphans \in Seq(0..OrphanBlocks)
  /\ since \in 0..RateLimit
  /\ faults \in 0..MaxFaults /\ restarts \in 0..MaxRestarts

(* The chain refuses a submission of the loop as too early only if another   *)
(* one of ours, given up or left by an earlier process, was included after   *)
(* the gate was read: the gate's answer is never wrong for another reason.   *)
RefusalHasCause == call.status = "refused" => landed

(* A pass that began ends, whatever fails, wedges or lands late.             *)
PassEnds == pc # "sleep" ~> pc = "sleep"

(* If from some time on the window holds scores, our weights on the chain    *)
(* are renewed again and again.                                              *)
WeightsKeepFlowing == <>[](scores = "scored") => []<>(since = 0)
===============================================================================
