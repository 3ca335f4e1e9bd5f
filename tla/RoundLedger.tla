------------------------------ MODULE RoundLedger ------------------------------
(***************************************************************************)
(* What ScoringDB promises the validator, whatever fails or collides: a     *)
(* persistent ledger of calibration rounds.  A round is begun at most once, *)
(* in increasing order; its scores appear all at once, while it is the      *)
(* latest round and with stamps no older than any on record; and scores     *)
(* leave oldest first, one by one, and only past their retention.           *)
(***************************************************************************)
EXTENDS Integers

CONSTANTS Miners,    \* UIDs a round may score
          Rounds,    \* round numbers, one more than can be begun (bound)
          Retention  \* the age a score is kept up to

VARIABLES next,      \* the persisted round counter
          begun,     \* rounds that were begun
          entries,   \* scores on record: <<round, miner, stamp>>
          now        \* the clock

ledger == <<next, begun, entries, now>>

EntriesOf(n) == {e \in entries : e[1] = n}

LInit == next = 0 /\ begun = {} /\ entries = {} /\ now = 0

Begin(n) ==
  /\ n >= next
  /\ n \notin begun
  /\ next' = n + 1
  /\ begun' = begun \cup {n}
  /\ UNCHANGED <<entries, now>>

Publish(n, S) ==
  /\ n + 1 = next
  /\ n \in begun
  /\ EntriesOf(n) = {}
  /\ S # {}
  /\ UNCHANGED <<next, begun, now>>
  /\ \E stamp \in [Miners -> 0..now] :
       /\ \A m \in S, e \in entries : e[3] <= stamp[m]
       /\ entries' = entries \cup {<<n, m, stamp[m]>> : m \in S}

Retire(t) ==
  /\ t + Retention <= now
  /\ UNCHANGED <<next, begun, now>>
  /\ entries' = {e \in entries : e[3] >= t}

Pass ==
  /\ now' = now + 1
  /\ UNCHANGED <<next, begun, entries>>

(* The numbering may have gaps: a round whose number could not be persisted  *)
(* does not run.                                                             *)
LNext ==
  \/ \E n \in Rounds : Begin(n)
  \/ \E n \in Rounds, S \in SUBSET Miners : Publish(n, S)
  \/ \E t \in 0..now : Retire(t)
  \/ Pass

LSpec == LInit /\ [][LNext]_ledger
=============================================================================
