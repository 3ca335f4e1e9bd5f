-------------------------- MODULE WeightCommitProofs --------------------------
(***************************************************************************)
(* The block gate of WeightCommit, proved for every rate limit, timeout,    *)
(* number of faults and of restarts.                                        *)
(*                                                                          *)
(* RefusalHasCause is not inductive: a refusal comes long after the gate    *)
(* was read.  Open says what the gate leaves behind it: while a pass runs,  *)
(* the rate limit is still met, or one of our submissions was included      *)
(* since.  Awaited says that only a pass that submits awaits a submission.  *)
(* The types need two facts more: a submission that is awaited no longer    *)
(* has age 0, and dropping an orphan leaves a sequence of ages.             *)
(***************************************************************************)
EXTENDS WeightCommit, SequenceTheorems, TLAPS

Awaited == Submitting <=> call.status # "none"
Open    == pc # "sleep" => since >= RateLimit \/ landed

IInv ==
  /\ since \in 0..RateLimit
  /\ call = NoCall \/ Submitting
  /\ Awaited
  /\ Open
  /\ RefusalHasCause

(* A process that starts, with any history on the chain, is outside a pass.  *)
LEMMA InitIInv == Init => IInv
  BY DEF Init, IInv, Awaited, Open, RefusalHasCause, Submitting, NoCall

(* The steps of the loop keep the gate's promise: only Poll begins a pass.   *)
LEMMA LoopIInv == IInv /\ (Loop \/ Restart) => IInv'
<1> SUFFICES ASSUME IInv, Loop \/ Restart PROVE IInv'
  OBVIOUS
<1> USE CommitAssumption DEF IInv, Awaited, Open, RefusalHasCause, Submitting, NoCall
<1>1. CASE Poll
  BY <1>1 DEF Poll
<1>2. CASE SkipWindow
  BY <1>2 DEF SkipWindow
<1>3. CASE CommitScores
  BY <1>3 DEF CommitScores, Pending
<1>4. CASE Return
  BY <1>4 DEF Return, AfterCommit
<1>5. CASE TimeOut
  BY <1>5 DEF TimeOut, AfterCommit
<1>6. CASE CopyFromChain
  BY <1>6 DEF CopyFromChain, Pending
<1>7. CASE NothingToCopy
  BY <1>7 DEF NothingToCopy
<1>8. CASE Restart
  BY <1>8 DEF Restart
<1>9. QED
  BY <1>1, <1>2, <1>3, <1>4, <1>5, <1>6, <1>7, <1>8 DEF Loop

(* The chain refuses as too early only below the rate limit, and only an     *)
(* inclusion takes a pass there.                                             *)
LEMMA ChainIInv == IInv /\ (Chain \/ Fault \/ OrphanLost) => IInv'
<1> SUFFICES ASSUME IInv, Chain \/ Fault \/ OrphanLost PROVE IInv'
  OBVIOUS
<1> USE CommitAssumption DEF IInv, Awaited, Open, RefusalHasCause, Submitting, NoCall
<1>1. CASE Include
  BY <1>1 DEF Include
<1>2. CASE Refuse
  BY <1>2 DEF Refuse
<1>3. CASE OrphanLands
  BY <1>3 DEF OrphanLands
<1>4. CASE OrphanRefused
  BY <1>4 DEF OrphanRefused
<1>5. CASE Fault
  BY <1>5 DEF Fault
<1>6. CASE OrphanLost
  BY <1>6 DEF OrphanLost
<1>7. QED
  BY <1>1, <1>2, <1>3, <1>4, <1>5, <1>6 DEF Chain

(* A block brings a pass no further from its rate limit.                     *)
LEMMA BlockIInv == IInv /\ (Block \/ WindowChanges \/ UNCHANGED vars) => IInv'
<1> SUFFICES ASSUME IInv, Block \/ WindowChanges \/ UNCHANGED vars PROVE IInv'
  OBVIOUS
<1> USE CommitAssumption DEF IInv, Awaited, Open, RefusalHasCause, Submitting, NoCall
<1>1. CASE Block
  BY <1>1 DEF Block
<1>2. CASE WindowChanges
  BY <1>2 DEF WindowChanges
<1>3. CASE UNCHANGED vars
  BY <1>3 DEF vars
<1>4. QED
  BY <1>1, <1>2, <1>3

(* The weight loop's gate (validator/main.py:620-651, 733-753): a commit is  *)
(* refused as too early only when another submission of ours was included    *)
(* after the gate was read, for every rate limit and every timeout.          *)
THEOREM GateRefusal == Spec => []RefusalHasCause
<1>1. IInv /\ [Next]_vars => IInv'
  BY LoopIInv, ChainIInv, BlockIInv DEF Next
<1>2. IInv => RefusalHasCause
  BY DEF IInv
<1>3. QED
  BY InitIInv, <1>1, <1>2, PTL DEF Spec

Typed == TypeOK /\ (call.status = "none" => call = NoCall)

(* One abandoned submission more, or one less.                               *)
LEMMA Abandoned ==
  ASSUME TypeOK
  PROVE  Append(orphans, 0) \in Seq(0..OrphanBlocks)
  BY CommitAssumption DEF TypeOK

LEMMA Settled ==
  ASSUME TypeOK, NEW i \in DOMAIN orphans
  PROVE  RemoveAt(orphans, i) \in Seq(0..OrphanBlocks)
<1>1. i \in 1..Len(orphans) /\ orphans \in Seq(0..OrphanBlocks)
  BY DEF TypeOK
<1>2. /\ SubSeq(orphans, 1, i - 1) \in Seq(0..OrphanBlocks)
      /\ SubSeq(orphans, i + 1, Len(orphans)) \in Seq(0..OrphanBlocks)
  <2>1. \A j \in 1..Len(orphans) : orphans[j] \in 0..OrphanBlocks
    BY <1>1, ElementOfSeq
  <2>2. QED
    BY <1>1, <2>1, SubSeqProperties
<1>3. QED
  BY <1>2 DEF RemoveAt

(* The loop's own steps.                                                     *)
LEMMA LoopTypes == Typed /\ (Loop \/ Restart) => Typed'
<1> SUFFICES ASSUME Typed, Loop \/ Restart PROVE Typed'
  OBVIOUS
<1> USE CommitAssumption DEF Typed, TypeOK, Submitting, NoCall, Pending, Stations, Statuses
<1>1. CASE Poll
  BY <1>1 DEF Poll
<1>2. CASE SkipWindow
  BY <1>2 DEF SkipWindow
<1>3. CASE CommitScores
  BY <1>3 DEF CommitScores
<1>4. CASE Return
  BY <1>4 DEF Return, AfterCommit
<1>5. CASE TimeOut
  <2>1. orphans' \in Seq(0..OrphanBlocks)
    BY <1>5, Abandoned DEF TimeOut
  <2>2. QED
    BY <1>5, <2>1 DEF TimeOut, AfterCommit
<1>6. CASE CopyFromChain
  BY <1>6 DEF CopyFromChain
<1>7. CASE NothingToCopy
  BY <1>7 DEF NothingToCopy
<1>8. CASE Restart
  <2>1. orphans' \in Seq(0..OrphanBlocks)
    BY <1>8, Abandoned DEF Restart
  <2>2. QED
    BY <1>8, <2>1 DEF Restart
<1>9. QED
  BY <1>1, <1>2, <1>3, <1>4, <1>5, <1>6, <1>7, <1>8 DEF Loop

(* The chain, its faults, and the passing of blocks.                         *)
LEMMA ChainTypes == Typed /\ (Chain \/ Fault \/ OrphanLost) => Typed'
<1> SUFFICES ASSUME Typed, Chain \/ Fault \/ OrphanLost PROVE Typed'
  OBVIOUS
<1> USE CommitAssumption DEF Typed, TypeOK, Submitting, Stations, Statuses
<1>1. CASE Include
  BY <1>1 DEF Include
<1>2. CASE Refuse
  BY <1>2 DEF Refuse
<1>3. CASE OrphanLands
  BY <1>3, Settled DEF OrphanLands
<1>4. CASE OrphanRefused
  BY <1>4, Settled DEF OrphanRefused
<1>5. CASE Fault
  BY <1>5 DEF Fault
<1>6. CASE OrphanLost
  BY <1>6, Settled DEF OrphanLost
<1>7. QED
  BY <1>1, <1>2, <1>3, <1>4, <1>5, <1>6 DEF Chain

LEMMA BlockTypes == Typed /\ (Block \/ WindowChanges \/ UNCHANGED vars) => Typed'
<1> SUFFICES ASSUME Typed, Block \/ WindowChanges \/ UNCHANGED vars PROVE Typed'
  OBVIOUS
<1> USE CommitAssumption DEF Typed, TypeOK, Submitting, NoCall
<1>1. CASE Block
  <2>1. orphans' \in Seq(0..OrphanBlocks)
    <3>1. /\ orphans' = [i \in 1..Len(orphans) |-> orphans[i] + 1]
          /\ \A i \in 1..Len(orphans) : orphans[i] + 1 \in 0..OrphanBlocks
      BY <1>1 DEF Block
    <3>2. QED
      BY <3>1
  <2>2. /\ call' \in [status : Statuses, age : 0..CallBlocks]
        /\ call'.status = call.status /\ (call = NoCall => call' = NoCall)
    <3>1. CASE call = NoCall
      BY <1>1, <3>1 DEF Block
    <3>2. CASE call # NoCall
      <4>1. call' = [call EXCEPT !.age = call.age + 1] /\ call.age + 1 \in 0..CallBlocks
        BY <1>1, <3>2 DEF Block
      <4>2. QED
        BY <3>2, <4>1
    <3>3. QED
      BY <3>1, <3>2
  <2>3. since' \in 0..RateLimit
    BY <1>1 DEF Block
  <2>4. QED
    BY <1>1, <2>1, <2>2, <2>3 DEF Block
<1>2. CASE WindowChanges
  BY <1>2 DEF WindowChanges
<1>3. CASE UNCHANGED vars
  BY <1>3 DEF vars
<1>4. QED
  BY <1>1, <1>2, <1>3

(* The state of the weight loop keeps its shape: exactly a pass that submits  *)
(* awaits a submission (validator/weights/setter.py:181-213), and no call is  *)
(* awaited longer than its timeout, for every rate limit, timeout and number  *)
(* of faults.                                                                 *)
THEOREM CommitTypes == Spec => []TypeOK
<1>1. Init => Typed
  BY CommitAssumption DEF Init, Typed, TypeOK, Submitting, NoCall, Stations, Statuses
<1>2. Typed /\ [Next]_vars => Typed'
  BY LoopTypes, ChainTypes, BlockTypes DEF Next
<1>3. Typed => TypeOK
  BY DEF Typed
<1>4. QED
  BY <1>1, <1>2, <1>3, PTL DEF Spec
===============================================================================
