------------------------ MODULE ValidatorRuntimeProofs ------------------------
(***************************************************************************)
(* For every executor size and every choice of timeouts: the type           *)
(* invariant, the serialisation of awaited chain calls, the bound on the    *)
(* age of a weight commit, and what it means for the watchdog.              *)
(***************************************************************************)
EXTENDS ValidatorRuntime, SequenceTheorems, FiniteSetTheorems, TLAPS

Outcomes == {"ok", "retry", "error"}

-------------------------------------------------------------------------------
(* Lines: sequences of distinct loops, which the lock and the executor keep. *)

InLine(s, t) == \E i \in 1..Len(s) : s[i] = t
Once(s)      == \A i, j \in 1..Len(s) : s[i] = s[j] => i = j

(* The holder of _subtensor_lock is in its line. *)
LEMMA HeadInLine ==
  ASSUME NEW s \in Seq(Loops), s # <<>>
  PROVE  Head(s) \in Loops /\ InLine(s, Head(s))
  BY DEF InLine

(* A task that joins a line it is not in leaves everyone in it once. *)
LEMMA JoinLine ==
  ASSUME NEW s \in Seq(Loops), NEW t \in Loops, Once(s), ~InLine(s, t)
  PROVE  /\ Append(s, t) \in Seq(Loops)
         /\ Append(s, t) # <<>>
         /\ Once(Append(s, t))
         /\ \A u \in Loops : InLine(Append(s, t), u) <=> (InLine(s, u) \/ u = t)
         /\ Head(Append(s, t)) = IF s = <<>> THEN t ELSE Head(s)
<1> DEFINE a == Append(s, t)
<1>1. /\ a \in Seq(Loops) /\ a # <<>> /\ Len(a) = Len(s) + 1 /\ a[Len(s) + 1] = t
      /\ \A i \in 1..Len(s) : a[i] = s[i]
  OBVIOUS
<1>2. Once(a)
  BY <1>1 DEF Once, InLine
<1>3. ASSUME NEW u \in Loops
      PROVE  InLine(a, u) <=> (InLine(s, u) \/ u = t)
  <2>1. InLine(a, u) => (InLine(s, u) \/ u = t)
    BY <1>1 DEF InLine
  <2>2. InLine(s, u) => InLine(a, u)
    BY <1>1 DEF InLine
  <2>3. InLine(a, t)
    <3>1. Len(s) + 1 \in 1..Len(a) /\ a[Len(s) + 1] = t
      BY <1>1
    <3>2. QED
      BY <3>1 DEF InLine
  <2>4. QED
    BY <2>1, <2>2, <2>3
<1>4. Head(a) = IF s = <<>> THEN t ELSE Head(s)
  BY <1>1
<1>5. QED
  BY <1>1, <1>2, <1>3, <1>4

(* When the lock is released, its holder and nobody else leaves the line. *)
LEMMA LeaveLine ==
  ASSUME NEW s \in Seq(Loops), s # <<>>, Once(s)
  PROVE  /\ Tail(s) \in Seq(Loops)
         /\ Once(Tail(s))
         /\ \A u \in Loops : InLine(Tail(s), u) <=> (InLine(s, u) /\ u # Head(s))
<1> DEFINE r == Tail(s)
<1>1. /\ r \in Seq(Loops) /\ Len(s) > 0 /\ Len(r) = Len(s) - 1 /\ Head(s) = s[1]
      /\ \A i \in 1..Len(r) : r[i] = s[i + 1]
  OBVIOUS
<1>2. Once(r)
  BY <1>1 DEF Once
<1>3. ASSUME NEW u \in Loops
      PROVE  InLine(r, u) <=> (InLine(s, u) /\ u # Head(s))
  <2>1. InLine(r, u) => InLine(s, u)
    BY <1>1 DEF InLine
  <2>2. InLine(r, u) => u # Head(s)
    <3> SUFFICES ASSUME NEW i \in 1..Len(r), r[i] = s[1]
                 PROVE  FALSE
      BY <1>1 DEF InLine
    <3>1. s[i + 1] = s[1] /\ i + 1 \in 1..Len(s) /\ 1 \in 1..Len(s) /\ i + 1 # 1
      BY <1>1
    <3>2. QED
      BY <3>1 DEF Once
  <2>3. ASSUME NEW i \in 1..Len(s), s[i] = u, u # Head(s)
        PROVE  InLine(r, u)
    <3>1. i - 1 \in 1..Len(r) /\ r[i - 1] = u
      BY <1>1, <2>3
    <3>2. QED
      BY <3>1 DEF InLine
  <2>4. QED
    BY <2>1, <2>2, <2>3 DEF InLine
<1>4. QED
  BY <1>1, <1>2, <1>3

(* Cancelling the queued job of a task removes that job and no other. *)
LEMMA CancelLine ==
  ASSUME NEW s \in Seq(Loops), NEW t \in Loops, Once(s)
  PROVE  /\ Cancelled(s, t) \in Seq(Loops)
         /\ Once(Cancelled(s, t))
         /\ \A u \in Loops : InLine(Cancelled(s, t), u) <=> (InLine(s, u) /\ u # t)
<1>1. CASE ~InLine(s, t)
  BY <1>1 DEF Cancelled, Contains, InLine
<1>2. CASE InLine(s, t)
  <2> DEFINE k == CHOOSE i \in 1..Len(s) : s[i] = t
             l == SubSeq(s, 1, k - 1)
             m == SubSeq(s, k + 1, Len(s))
             r == Cancelled(s, t)
  <2>1. k \in 1..Len(s) /\ s[k] = t
    BY <1>2 DEF InLine
  <2>2. r = l \o m
    BY <1>2 DEF Cancelled, Contains, RemoveAt, InLine
  <2> HIDE DEF k
  <2>3. /\ l \in Seq(Loops) /\ Len(l) = k - 1
        /\ \A i \in 1..(k - 1) : l[i] = s[i]
    <3>1. \A i \in 1..(k - 1) : s[i] \in Loops
      BY <2>1
    <3>2. QED
      BY <2>1, <3>1, SubSeqProperties, SMTT(30)
  <2>4. /\ m \in Seq(Loops) /\ Len(m) = Len(s) - k
        /\ \A i \in 1..(Len(s) - k) : m[i] = s[k + i]
    <3>1. \A i \in (k + 1)..Len(s) : s[i] \in Loops
      BY <2>1
    <3>2. QED
      BY <2>1, <3>1, SubSeqProperties, SMTT(30)
  <2> HIDE DEF l, m, r
  <2>5. /\ r \in Seq(Loops) /\ Len(r) = Len(s) - 1
        /\ \A i \in 1..Len(r) : r[i] = IF i < k THEN s[i] ELSE s[i + 1]
    <3>1. /\ r \in Seq(Loops) /\ Len(r) = Len(l) + Len(m)
          /\ \A i \in 1..(Len(l) + Len(m)) : r[i] = IF i <= Len(l) THEN l[i] ELSE m[i - Len(l)]
      BY <2>2, <2>3, <2>4, ConcatProperties
    <3>2. Len(l) = k - 1 /\ Len(m) = Len(s) - k /\ Len(l) + Len(m) = Len(s) - 1
      BY <2>1, <2>3, <2>4
    <3>3. Len(r) = Len(s) - 1
      BY <3>1, <3>2
    <3>4. ASSUME NEW i \in 1..Len(r)
          PROVE  r[i] = IF i < k THEN s[i] ELSE s[i + 1]
      <4>1. CASE i < k
        BY <4>1, <3>1, <3>2, <3>3, <2>1, <2>3
      <4>2. CASE ~(i < k)
        <5>1. i - Len(l) \in 1..(Len(s) - k) /\ r[i] = m[i - Len(l)]
          <6>1. i \in 1..(Len(l) + Len(m))
            BY <3>2, <3>3
          <6>2. r[i] = IF i <= Len(l) THEN l[i] ELSE m[i - Len(l)]
            BY <6>1, <3>1
          <6>3. i \in Int /\ ~(i <= Len(l)) /\ i - Len(l) \in 1..(Len(s) - k)
            <7>1. i \in 1..(Len(s) - 1) /\ k \in Int /\ Len(s) \in Int
              BY <6>1, <3>2, <2>1
            <7>2. QED
              BY <7>1, <4>2, <3>2
          <6>4. QED
            BY <6>2, <6>3
        <5>2. m[i - Len(l)] = s[k + (i - Len(l))]
          BY <5>1, <2>4
        <5>3. k + (i - Len(l)) = i + 1
          BY <3>2, <2>1
        <5>4. QED
          BY <4>2, <5>1, <5>2, <5>3
      <4>3. QED
        BY <4>1, <4>2
    <3>5. QED
      BY <3>1, <3>3, <3>4
  <2>6. Once(r)
    BY <2>1, <2>5 DEF Once
  <2>7. ASSUME NEW u \in Loops, NEW i \in 1..Len(r), r[i] = u
        PROVE  InLine(s, u) /\ u # t
    <3> DEFINE j == IF i < k THEN i ELSE i + 1
    <3>1. j \in 1..Len(s) /\ s[j] = u /\ j # k
      BY <2>1, <2>5, <2>7
    <3>2. QED
      BY <3>1, <2>1 DEF InLine, Once
  <2>8. ASSUME NEW u \in Loops, u # t, NEW i \in 1..Len(s), s[i] = u
        PROVE  InLine(r, u)
    <3> DEFINE j == IF i < k THEN i ELSE i - 1
    <3>1. i # k /\ j \in 1..Len(r) /\ r[j] = u
      BY <2>1, <2>5, <2>8
    <3> HIDE DEF j
    <3>2. QED
      BY <3>1 DEF InLine
  <2>9. QED
    BY <2>5, <2>6, <2>7, <2>8 DEF InLine, r
<1>3. QED
  BY <1>1, <1>2

-------------------------------------------------------------------------------
(* The inductive invariant.                                                  *)

Stations(t) ==
  CASE t = "challenge" -> {"start", "sleep", "sync", "work", "verify", "insert", "report", "done"}
    [] t = "weight"    -> {"start", "sleep", "backoff", "done", "window", "fallback"} \cup ReadCalls \cup CommitCalls
    [] t = "cleanup"   -> {"start", "sleep", "purge", "done"}

\* Each loop stays in its own program.
Program ==
  /\ \A t \in Loops : pc[t] \in Stations(t)
  /\ pc["challenge"] = "report" => reports > 0

\* Who is in a chain call is in the lock's line, and only its head is timed.
LockLine ==
  /\ Once(lockq)
  /\ \A t \in Loops : InLine(lockq, t) <=> pc[t] \in ChainCalls
  /\ \A t \in Loops : timer[t] # Unarmed => lockq # <<>> /\ Head(lockq) = t

\* A job, queued or on a thread, is the only one of a task that awaits it.
Jobs ==
  /\ \A w \in Workers : thread[w].for # Nobody =>
       Awaiting(thread[w].for) /\ thread[w].kind = Kind(pc[thread[w].for])
  /\ \A v, w \in Workers : thread[v].for = thread[w].for /\ thread[v].for # Nobody => v = w
  /\ Once(queue)
  /\ \A t \in Loops : InLine(queue, t) => Awaiting(t) /\ \A w \in Workers : thread[w].for # t

\* A commit waits at most for the sync in front of it and the slice that ends
\* it, then for its own call.
Ages ==
  /\ \A t \in Loops : timer[t] >= Unarmed
  /\ timer["challenge"] <= SyncTimeout
  /\ pc["weight"] \in CommitCalls => timer["weight"] <= CommitTimeout + MaxStall
  /\ pc["weight"] \notin CommitCalls => commitAge = Unarmed
  /\ timer["weight"] # Unarmed => commitAge <= SyncTimeout + MaxTruth + timer["weight"]
  /\ timer["challenge"] # Unarmed => commitAge <= timer["challenge"]
  /\ lockq # <<>> /\ timer[Head(lockq)] = Unarmed =>
       commitAge <= IF Head(lockq) = "weight" THEN SyncTimeout + MaxTruth ELSE 0

IInv == TypeOK /\ Program /\ LockLine /\ Jobs /\ Ages

-------------------------------------------------------------------------------
(* Where a loop goes next.                                                   *)

(* The top of a loop is one of its own locations. *)
LEMMA LoopTopProgram ==
  ASSUME NEW t \in Loops, NEW p \in LoopTop(t)
  PROVE  p \in Stations(t) /\ p \notin {"report", "backoff"}
  BY DEF LoopTop, Stations, Loops, ReadCalls

(* A loop only ever goes to locations of its own code, and keeps its retry count. *)
LEMMA AfterProgram ==
  ASSUME TypeOK, Program, NEW t \in Loops, NEW o \in Outcomes,
         pc[t] # "done", NEW p \in After(t, pc[t], o)
  PROVE  /\ p \in Stations(t)
         /\ p = "backoff" => tries + 1 < MaxAttempts
         /\ p = "report" => \/ pc[t] = "insert" /\ MaxReports > 0
                            \/ pc[t] = "report" /\ reports > 1
<1>1. pc[t] \in Stations(t)
  BY DEF Program
<1>2. CASE t = "challenge"
  BY <1>1, <1>2, LoopTopProgram DEF Stations, After, ChallengeRound, CommitCalls, Outcomes
<1>3. CASE t = "cleanup"
  BY <1>1, <1>3, LoopTopProgram DEF Stations, After, CommitCalls
<1>4. CASE t = "weight"
  <2>1. CASE pc[t] \in {"start", "backoff", "sleep", "bootlog"}
    BY <1>4, <2>1, LoopTopProgram DEF Stations, After, ReadCalls, CommitCalls
  <2>2. CASE pc[t] \in {"rate", "since"}
    <3>1. p \in GateRead(pc[t], o)
      BY <2>2, <1>4 DEF After, CommitCalls
    <3>2. CASE o = "ok"
      BY <3>1, <3>2, <2>2, <1>4 DEF GateRead, Stations, ReadCalls
    <3>3. CASE o # "ok"
      <4>1. p \in GateFailed(o)
        BY <3>1, <3>3 DEF GateRead
      <4>2. CASE p = "backoff" /\ tries + 1 < MaxAttempts
        BY <4>2, <1>4 DEF Stations
      <4>3. CASE p \in GateGivenUp
        BY <4>3, <1>4, LoopTopProgram DEF GateGivenUp, Stations
      <4>4. QED
        BY <4>1, <4>2, <4>3 DEF GateFailed
    <3>4. QED
      BY <3>2, <3>3
  <2>3. CASE pc[t] \in CommitCalls \cup {"window", "fallback"}
    BY <1>4, <2>3 DEF Stations, After, CommitWeights, CommitCalls, ReadCalls
  <2>4. QED
    BY <1>1, <1>4, <2>1, <2>2, <2>3 DEF Stations, ReadCalls
<1>5. QED
  BY <1>2, <1>3, <1>4 DEF Loops

(* A task has one location, which decides the call it awaits. *)
LEMMA Locate ==
  /\ \A t \in Loops : Stations(t) \subseteq Locations
  /\ \A p \in Stations("challenge") : p \in ChainCalls => p = "sync"
  /\ \A p \in Stations("cleanup") : p \notin ChainCalls
  /\ \A t \in Loops : \A p \in Stations(t) : p \in {"insert", "report"} => t = "challenge"
  /\ \A p \in ChainCalls : p \notin DbCalls
  /\ \A p \in ChainCalls : Kind(p) \in {"read", "sync", "commit"}
  /\ \A p \in DbCalls : Kind(p) = "db"
  /\ CommitCalls \subseteq ChainCalls
  /\ \A t \in Loops : \A p \in Stations(t) : p \in CommitCalls => t = "weight"
  BY DEF Loops, Stations, Locations, ChainCalls, ReadCalls, SyncCalls, CommitCalls, DbCalls,
         Unblocked, Kind

-------------------------------------------------------------------------------
(* A loop that leaves its location in good order keeps the invariant.        *)

(* A loop that leaves its location, with no job left of its last call, keeps the invariant. *)
LEMMA GotoStep ==
  ASSUME IInv, NEW t \in Loops, NEW o \in Outcomes, pc[t] # "done",
         pc[t] \in ChainCalls => lockq # <<>> /\ Head(lockq) = t,
         NEW p \in After(t, pc[t], o),
         NEW q \in Seq(Loops), Once(q),
         \A u \in Loops : InLine(q, u) => InLine(queue, u) /\ u # t,
         thread' \in [Workers -> Threads],
         \A w \in Workers : \/ thread'[w].for = Nobody
                            \/ thread'[w] = thread[w] /\ thread[w].for # t,
         Goto(t, p, q)
  PROVE  IInv'
<1> DEFINE r == IF pc[t] \in ChainCalls THEN Tail(lockq) ELSE lockq
<1> USE RuntimeAssumption
<1>1. /\ p \in Stations(t)
      /\ p = "backoff" => tries + 1 < MaxAttempts
      /\ p = "report" => \/ pc[t] = "insert" /\ MaxReports > 0
                         \/ pc[t] = "report" /\ reports > 1
  BY AfterProgram DEF IInv
<1>2. /\ pc' = [pc EXCEPT ![t] = p]
      /\ lockq' = IF p \in ChainCalls THEN Append(r, t) ELSE r
      /\ timer' = [timer EXCEPT ![t] = Unarmed]
      /\ queue' = IF p \in DbCalls THEN Append(q, t) ELSE q
      /\ \E d \in SliceTime(t) :
           commitAge' = Later(CommitClock(t, p), d) /\ shutdown' = SignalAged(d)
      /\ booting' \in BOOLEAN
      /\ tries' = 0 \/ tries' = tries \/ (p = "backoff" /\ tries' = tries + 1)
      /\ IF pc[t] = "insert" /\ p = "report" THEN reports' \in 1..MaxReports
         ELSE reports' = IF pc[t] = "report" THEN reports - 1 ELSE reports
      /\ UNCHANGED <<watchdog, process>>
  BY DEF Goto, IInv, TypeOK
<1>3. /\ pc \in [Loops -> Locations] /\ timer \in [Loops -> Int]
      /\ lockq \in Seq(Loops) /\ Once(lockq)
      /\ commitAge \in Int
  BY DEF IInv, TypeOK, LockLine
<1>4. /\ pc'[t] = p /\ timer'[t] = Unarmed
      /\ \A u \in Loops : u # t => pc'[u] = pc[u] /\ timer'[u] = timer[u]
  BY <1>2, <1>3
<1>5. \A u \in Loops : pc[u] \in Stations(u) /\ pc'[u] \in Stations(u)
  BY <1>1, <1>4 DEF IInv, Program
<1>6. /\ r \in Seq(Loops) /\ Once(r)
      /\ \A u \in Loops : InLine(r, u) <=> (pc[u] \in ChainCalls /\ u # t)
  BY <1>3, LeaveLine DEF IInv, LockLine
<1> HIDE DEF r
<1>7. /\ lockq' \in Seq(Loops) /\ Once(lockq')
      /\ \A u \in Loops : InLine(lockq', u) <=> pc'[u] \in ChainCalls
      /\ p \in ChainCalls => lockq' # <<>> /\ Head(lockq') = IF r = <<>> THEN t ELSE Head(r)
      /\ p \notin ChainCalls => lockq' = r
  BY <1>2, <1>4, <1>6, JoinLine
<1>8. ASSUME NEW u \in Loops, timer'[u] # Unarmed
      PROVE  /\ u # t /\ pc[t] \notin ChainCalls /\ r = lockq
             /\ lockq # <<>> /\ Head(lockq) = u
             /\ lockq' # <<>> /\ Head(lockq') = u
  <2>1. u # t /\ timer[u] # Unarmed
    BY <1>4, <1>8
  <2>2. lockq # <<>> /\ Head(lockq) = u
    BY <2>1 DEF IInv, LockLine
  <2>3. pc[t] \notin ChainCalls /\ r = lockq
    BY <2>1, <2>2 DEF r
  <2>4. QED
    BY <1>7, <2>1, <2>2, <2>3
<1>d. PICK d \in Nat :
        /\ commitAge' = Later(CommitClock(t, p), d)
        /\ shutdown' = SignalAged(d)
        /\ d <= MaxTruth
        /\ d # 0 => t = "challenge" /\ pc[t] = "sync"
  BY <1>2 DEF SliceTime
<1>9. TypeOK'
  <2>1. pc' \in [Loops -> Locations] /\ timer' \in [Loops -> Int]
    BY <1>1, <1>2, <1>3, Locate DEF Unarmed
  <2>2. queue' \in Seq(Loops)
    BY <1>2
  <2>3. tries' \in 0..(MaxAttempts - 1)
    BY <1>1, <1>2 DEF IInv, TypeOK
  <2>4. reports' \in 0..MaxReports
    <3>1. pc[t] = "report" => reports > 0
      BY <1>5, Locate DEF IInv, Program
    <3>2. QED
      BY <1>2, <3>1 DEF IInv, TypeOK
  <2>5. commitAge' \in Int /\ shutdown' \in {"no", "grace", "late"}
    BY <1>d, <1>3 DEF CommitClock, Later, SignalAged, Unarmed, IInv, TypeOK
  <2>6. QED
    BY <1>2, <1>7, <2>1, <2>2, <2>3, <2>4, <2>5 DEF IInv, TypeOK
<1>10. Program'
  <2>1. ASSUME pc'["challenge"] = "report" PROVE reports' > 0
    <3>1. CASE t = "challenge"
      BY <3>1, <2>1, <1>1, <1>2, <1>4 DEF IInv, TypeOK
    <3>2. CASE t # "challenge"
      <4>1. pc["challenge"] = "report" /\ reports > 0
        BY <3>2, <2>1, <1>4 DEF IInv, Program, Loops
      <4>2. pc[t] \notin {"insert", "report"}
        BY <3>2, <1>5, Locate
      <4>3. QED
        BY <4>1, <4>2, <1>2
    <3>3. QED
      BY <3>1, <3>2
  <2>2. QED
    BY <1>5, <2>1 DEF Program, Stations
<1>11. LockLine'
  BY <1>7, <1>8 DEF LockLine, InLine, Once
<1>12. Jobs'
  <2>1. ASSUME NEW w \in Workers, thread'[w].for # Nobody
        PROVE  /\ thread'[w] = thread[w] /\ thread[w].for \in Loops \ {t}
               /\ pc'[thread[w].for] = pc[thread[w].for]
               /\ timer'[thread[w].for] = timer[thread[w].for]
    <3>1. thread'[w] = thread[w] /\ thread[w].for # t
      BY <2>1
    <3>2. thread[w].for \in Loops
      BY <2>1, <3>1 DEF IInv, TypeOK, Threads
    <3>3. QED
      BY <3>1, <3>2, <1>4
  <2>2. ASSUME NEW w \in Workers, thread'[w].for # Nobody
        PROVE  Awaiting(thread[w].for)' /\ thread'[w].kind = Kind(pc'[thread'[w].for])
    BY <2>1, <2>2 DEF IInv, Jobs, Awaiting
  <2>3. ASSUME NEW v \in Workers, NEW w \in Workers,
               thread'[v].for = thread'[w].for, thread'[v].for # Nobody
        PROVE  v = w
    BY <2>1, <2>3 DEF IInv, Jobs
  <2>4. /\ Once(queue')
        /\ \A u \in Loops : InLine(queue', u) => InLine(q, u) \/ (u = t /\ p \in DbCalls)
    BY <1>2, JoinLine
  <2>5. ASSUME NEW u \in Loops, InLine(queue', u)
        PROVE  Awaiting(u)' /\ \A w \in Workers : thread'[w].for # u
    <3>1. CASE u = t /\ p \in DbCalls
      BY <3>1, <1>4, <2>1 DEF Awaiting, Loops, Nobody
    <3>2. CASE InLine(q, u)
      <4>1. InLine(queue, u) /\ u # t
        BY <3>2
      <4>2. Awaiting(u) /\ \A w \in Workers : thread[w].for # u
        BY <4>1 DEF IInv, Jobs
      <4>3. QED
        BY <4>1, <4>2, <1>4, <2>1 DEF Awaiting, Loops, Nobody
    <3>3. QED
      BY <3>1, <3>2, <2>4, <2>5
  <2>6. QED
    BY <2>2, <2>3, <2>4, <2>5 DEF Jobs, Once, InLine
<1>13. Ages'
  <2>1. /\ \A u \in Loops : timer[u] >= Unarmed /\ timer'[u] >= Unarmed
        /\ timer'["challenge"] <= SyncTimeout
    BY <1>4 DEF IInv, Ages, Loops, Unarmed
  <2>2. CASE t = "weight"
    <3>1. commitAge' = IF p \in CommitCalls THEN 0 ELSE Unarmed
      BY <2>2, <1>d DEF CommitClock, Later, Unarmed
    <3>2. timer'["weight"] = Unarmed /\ pc'["weight"] = p
      BY <2>2, <1>4
    <3>3. timer' \in [Loops -> Int] /\ lockq' \in Seq(Loops)
      BY <1>9 DEF TypeOK
    <3>4. timer'["weight"] = -1 /\ timer'["challenge"] >= -1 /\ timer'["challenge"] \in Int
      BY <3>2, <3>3, <2>1 DEF Unarmed, Loops
    <3>5. QED
      BY <3>1, <3>2, <3>4, <2>1 DEF Ages, Unarmed
  <2>3. CASE t # "weight"
    <3>1. /\ p \notin CommitCalls
          /\ commitAge = Unarmed => commitAge' = Unarmed
          /\ commitAge' <= commitAge + d /\ commitAge' \in Int
      BY <2>3, <1>1, <1>3, <1>d, Locate DEF CommitClock, Later, Unarmed
    <3>d. ASSUME pc[t] \notin ChainCalls PROVE commitAge' <= commitAge
      <4>1. d = 0
        BY <3>d, <1>d DEF ChainCalls, SyncCalls
      <4>2. QED
        BY <3>1, <4>1, <1>3
    <3>2. pc'["weight"] = pc["weight"] /\ timer'["weight"] = timer["weight"]
      BY <2>3, <1>4 DEF Loops
    <3>3. timer'["challenge"] # Unarmed => commitAge' <= timer'["challenge"]
      BY <3>1, <3>d, <1>3, <1>4, <1>8 DEF IInv, Ages, Loops
    <3>w. timer'["weight"] # Unarmed => commitAge' <= SyncTimeout + MaxTruth + timer'["weight"]
      BY <3>1, <3>2, <3>d, <1>3, <1>8 DEF IInv, Ages, Loops
    <3>4. ASSUME lockq' # <<>>, timer'[Head(lockq')] = Unarmed
          PROVE  commitAge' <= IF Head(lockq') = "weight" THEN SyncTimeout + MaxTruth ELSE 0
      <4>1. CASE Head(lockq') = "weight"
        <5>1. pc["weight"] \in ChainCalls
          BY <4>1, <3>2, <3>4, <1>7, HeadInLine DEF Loops
        <5>2. CASE lockq # <<>> /\ Head(lockq) = "weight"
          <6>1. pc[t] \notin ChainCalls
            BY <5>2, <2>3
          <6>2. commitAge <= SyncTimeout + MaxTruth
            BY <5>2, <4>1, <3>2, <3>4 DEF IInv, Ages
          <6>3. QED
            BY <6>1, <6>2, <3>1, <3>d, <4>1, <1>3
        <5>3. CASE lockq # <<>> /\ Head(lockq) # "weight"
          <6>1. Head(lockq) = "challenge"
            <7>1. Head(lockq) \in Loops /\ pc[Head(lockq)] \in ChainCalls
              BY <5>3, <1>3, HeadInLine DEF IInv, LockLine
            <7>2. QED
              BY <7>1, <5>3, <1>5, Locate DEF Loops
          <6>2. commitAge <= SyncTimeout
            BY <6>1, <5>3, <1>3, <2>1 DEF IInv, Ages, Loops, Unarmed
          <6>3. QED
            BY <6>2, <3>1, <4>1, <1>3, <1>d
        <5>4. lockq # <<>>
          BY <5>1 DEF IInv, LockLine, InLine, Loops
        <5>5. QED
          BY <5>2, <5>3, <5>4
      <4>2. CASE Head(lockq') # "weight"
        <5>1. CASE pc["weight"] \in ChainCalls
          <6> DEFINE h == Head(r)
          <6>1. r # <<>>
            BY <5>1, <2>3, <1>6 DEF InLine, Loops
          <6>2. h \in Loops /\ pc[h] \in ChainCalls /\ h # t /\ h = Head(lockq')
            BY <6>1, <1>6, <1>7, HeadInLine
          <6>3. h = "challenge" /\ timer'[h] = timer[h]
            BY <6>2, <4>2, <1>4, <1>5, Locate DEF Loops
          <6>4. pc[t] \notin ChainCalls
            BY <6>2, <6>3, <2>3, <1>5, Locate DEF Loops
          <6>5. lockq # <<>> /\ timer[Head(lockq)] = Unarmed /\ Head(lockq) # "weight"
            BY <6>1, <6>2, <6>3, <6>4, <3>4 DEF r
          <6>6. commitAge <= 0
            BY <6>5 DEF IInv, Ages
          <6>7. QED
            BY <6>4, <6>6, <3>1, <3>d, <4>2, <1>3
        <5>2. CASE pc["weight"] \notin ChainCalls
          BY <5>2, <3>1, <4>2, Locate DEF IInv, Ages, Unarmed
        <5>3. QED
          BY <5>1, <5>2
      <4>3. QED
        BY <4>1, <4>2
    <3>5. QED
      BY <2>1, <3>1, <3>2, <3>3, <3>w, <3>4 DEF IInv, Ages
  <2>4. QED
    BY <2>2, <2>3
<1>14. QED
  BY <1>9, <1>10, <1>11, <1>12, <1>13 DEF IInv

-------------------------------------------------------------------------------
(* The invariant is inductive.                                               *)

(* The invariant holds when the process starts. *)
LEMMA InitIInv == Init => IInv
<1> SUFFICES ASSUME Init PROVE IInv
  OBVIOUS
<1> USE RuntimeAssumption DEF Init
<1>1. lockq = <<>> /\ queue = <<>> /\ Len(lockq) = 0 /\ Len(queue) = 0
  OBVIOUS
<1>2. TypeOK
  BY <1>1 DEF TypeOK, Locations, Unblocked, Threads, Idle, Unarmed
<1>3. Program
  BY DEF Program, Stations, Loops
<1>4. LockLine
  BY <1>1 DEF LockLine, Once, InLine, ChainCalls, ReadCalls, SyncCalls, CommitCalls
<1>5. Jobs
  BY <1>1 DEF Jobs, Once, InLine, Idle
<1>6. Ages
  BY <1>1 DEF Ages, Unarmed, Loops, CommitCalls
<1>7. QED
  BY <1>2, <1>3, <1>4, <1>5, <1>6 DEF IInv

(* Only the holder of the lock has a wait_for running. *)
LEMMA ArmedInCall ==
  ASSUME IInv, NEW t \in Loops, timer[t] # Unarmed
  PROVE  pc[t] \in ChainCalls /\ lockq # <<>> /\ Head(lockq) = t
<1>1. lockq # <<>> /\ Head(lockq) = t
  BY DEF IInv, LockLine
<1>2. QED
  BY <1>1, HeadInLine DEF IInv, TypeOK, LockLine

(* Each chain call has the timeout of its kind. *)
LEMMA TimeLimits ==
  ASSUME NEW p \in ChainCalls
  PROVE  /\ TimeLimit(p) \in Nat \ {0}
         /\ p = "sync" => TimeLimit(p) = SyncTimeout
         /\ p \in CommitCalls => TimeLimit(p) = CommitTimeout
<1> USE RuntimeAssumption
<1>1. CASE p \in ReadCalls
  <2>1. Kind(p) = "read"
    BY <1>1 DEF Kind, ReadCalls, SyncCalls, CommitCalls, DbCalls
  <2>2. QED
    BY <1>1, <2>1 DEF TimeLimit, ReadCalls, CommitCalls
<1>2. CASE p \in SyncCalls
  <2>1. Kind(p) = "sync"
    BY <1>2 DEF Kind, ReadCalls, SyncCalls, CommitCalls, DbCalls
  <2>2. QED
    BY <1>2, <2>1 DEF TimeLimit, SyncCalls, CommitCalls
<1>3. CASE p \in CommitCalls
  <2>1. Kind(p) = "commit"
    BY <1>3 DEF Kind, ReadCalls, SyncCalls, CommitCalls, DbCalls
  <2>2. QED
    BY <1>3, <2>1 DEF TimeLimit, CommitCalls
<1>4. QED
  BY <1>1, <1>2, <1>3 DEF ChainCalls

(* A loop that goes on from a sleep keeps the invariant. *)
LEMMA ProceedStep ==
  ASSUME IInv, NEW t \in Loops, Proceed(t)
  PROVE  IInv'
<1>1. PICK p \in After(t, pc[t], "ok") : Goto(t, p, queue)
  BY DEF Proceed
<1>2. pc[t] \in Unblocked /\ thread' = thread
  BY DEF Proceed
<1>3. pc[t] \notin ChainCalls /\ pc[t] # "done" /\ ~Awaiting(t)
  BY <1>2, ArmedInCall DEF Unblocked, ChainCalls, ReadCalls, SyncCalls, CommitCalls, DbCalls, Awaiting
<1>4. \A u \in Loops : InLine(queue, u) => u # t
  BY <1>3 DEF IInv, Jobs
<1>5. \A w \in Workers : thread[w].for = Nobody \/ thread[w].for # t
  BY <1>3 DEF IInv, Jobs
<1>6. queue \in Seq(Loops) /\ Once(queue) /\ thread' \in [Workers -> Threads]
  BY <1>2 DEF IInv, TypeOK, Jobs
<1>7. "ok" \in Outcomes
  BY DEF Outcomes
<1>8. QED
  BY <1>1, <1>2, <1>3, <1>4, <1>5, <1>6, <1>7, GotoStep

(* _chain_op arming wait_for and submitting its call keeps the invariant. *)
LEMMA SubmitStep ==
  ASSUME IInv, NEW t \in Loops, Submit(t)
  PROVE  IInv'
<1>1. /\ lockq # <<>> /\ Head(lockq) = t /\ timer[t] = Unarmed
      /\ timer' = [timer EXCEPT ![t] = 0] /\ queue' = Append(queue, t)
      /\ UNCHANGED <<pc, lockq, thread, booting, tries, reports, commitAge,
                     watchdog, shutdown, process>>
  BY DEF Submit, HasLock
<1>2. pc[t] \in ChainCalls /\ pc[t] \notin DbCalls
  BY <1>1, HeadInLine, Locate DEF IInv, TypeOK, LockLine
<1>3. ~Awaiting(t)
  BY <1>1, <1>2 DEF Awaiting
<1>4. /\ queue' \in Seq(Loops) /\ Once(queue')
      /\ \A u \in Loops : InLine(queue', u) <=> InLine(queue, u) \/ u = t
  BY <1>1, <1>3, JoinLine DEF IInv, TypeOK, Jobs
<1>5. TypeOK'
  BY <1>1, <1>4 DEF IInv, TypeOK
<1>6. Program'
  BY <1>1 DEF IInv, Program, Stations
<1>7. timer'[t] = 0 /\ \A u \in Loops : u # t => timer'[u] = timer[u]
  BY <1>1 DEF IInv, TypeOK
<1>8. LockLine'
  BY <1>1, <1>7 DEF IInv, LockLine, Once, InLine
<1>9. Jobs'
  <2>1. \A u \in Loops : Awaiting(u)' <=> Awaiting(u) \/ u = t
    BY <1>1, <1>7 DEF Awaiting, Unarmed
  <2>2. \A w \in Workers : thread[w].for # t
    BY <1>3 DEF IInv, Jobs, Loops, Nobody
  <2>3. \A w \in Workers : thread[w].for # Nobody => thread[w].for \in Loops
    BY DEF IInv, TypeOK, Threads
  <2>4. QED
    BY <1>1, <1>4, <2>1, <2>2, <2>3 DEF IInv, Jobs, Once, InLine
<1>10. Ages'
  <2>1. t \in {"challenge", "weight"}
    BY <1>2, Locate DEF IInv, Program, Loops
  <2>2. commitAge <= IF t = "weight" THEN SyncTimeout + MaxTruth ELSE 0
    BY <1>1 DEF IInv, Ages
  <2>3. timer[t] = Unarmed /\ lockq' = lockq /\ timer'[Head(lockq')] # Unarmed
    BY <1>1, <1>7 DEF Unarmed
  <2>4. /\ \A u \in Loops : timer'[u] >= Unarmed
        /\ timer'["challenge"] <= SyncTimeout
        /\ pc["weight"] \in CommitCalls => timer'["weight"] <= CommitTimeout + MaxStall
    BY <1>7, RuntimeAssumption DEF IInv, Ages, Unarmed, Loops
  <2>5. timer'["weight"] # Unarmed => commitAge <= SyncTimeout + MaxTruth + timer'["weight"]
    BY <1>7, <2>2, RuntimeAssumption DEF IInv, Ages, Loops
  <2>6. timer'["challenge"] # Unarmed => commitAge <= timer'["challenge"]
    BY <1>7, <2>2 DEF IInv, Ages, Loops
  <2>7. QED
    BY <1>1, <2>3, <2>4, <2>5, <2>6 DEF IInv, Ages
<1>11. QED
  BY <1>5, <1>6, <1>8, <1>9, <1>10 DEF IInv

(* A wait_for that expires keeps the invariant: it leaves an orphan, no job. *)
LEMMA TimeOutStep ==
  ASSUME IInv, NEW t \in Loops, TimeOut(t)
  PROVE  IInv'
<1>1. PICK p \in After(t, pc[t], "retry") : Goto(t, p, Cancelled(queue, t))
  BY DEF TimeOut
<1>2. pc[t] \in ChainCalls /\ lockq # <<>> /\ Head(lockq) = t /\ pc[t] # "done"
  <2>1. pc[t] \in ChainCalls /\ timer[t] >= TimeLimit(pc[t])
    BY DEF TimeOut, TimedOut
  <2>2. timer[t] # Unarmed
    BY <2>1, TimeLimits DEF Unarmed, IInv, TypeOK
  <2>3. QED
    BY <2>1, <2>2, ArmedInCall DEF ChainCalls, ReadCalls, SyncCalls, CommitCalls
<1>3. /\ Cancelled(queue, t) \in Seq(Loops) /\ Once(Cancelled(queue, t))
      /\ \A u \in Loops : InLine(Cancelled(queue, t), u) => InLine(queue, u) /\ u # t
  BY CancelLine DEF IInv, TypeOK, Jobs
<1>4. thread' = [w \in Workers |->
                  IF thread[w].for = t THEN [thread[w] EXCEPT !.for = Nobody] ELSE thread[w]]
  BY DEF TimeOut
<1>5. thread' \in [Workers -> Threads]
  BY <1>4 DEF IInv, TypeOK, Threads
<1>6. ASSUME NEW w \in Workers
      PROVE  \/ thread'[w].for = Nobody
             \/ thread'[w] = thread[w] /\ thread[w].for # t
  BY <1>4 DEF IInv, TypeOK, Threads
<1>7. "retry" \in Outcomes
  BY DEF Outcomes
<1>8. QED
  BY <1>1, <1>2, <1>3, <1>5, <1>6, <1>7, GotoStep

(* An idle thread taking the oldest job keeps the invariant. *)
LEMMA StartJobStep ==
  ASSUME IInv, NEW w \in Workers, StartJob(w)
  PROVE  IInv'
<1> DEFINE t == Head(queue)
<1>1. /\ thread[w] = Idle /\ queue # <<>> /\ queue' = Tail(queue)
      /\ thread' = [thread EXCEPT ![w] = [kind |-> Kind(pc[t]), for |-> t, wedged |-> FALSE]]
      /\ UNCHANGED <<pc, lockq, timer, booting, tries, reports, commitAge,
                     watchdog, shutdown, process>>
  BY DEF StartJob
<1>2. t \in Loops /\ Awaiting(t) /\ \A v \in Workers : thread[v].for # t
  BY <1>1, HeadInLine DEF IInv, TypeOK, Jobs
<1>3. /\ queue' \in Seq(Loops) /\ Once(queue')
      /\ \A u \in Loops : InLine(queue', u) => InLine(queue, u) /\ u # t
  BY <1>1, LeaveLine DEF IInv, TypeOK, Jobs
<1> HIDE DEF t
<1>4. Kind(pc[t]) \in {"none", "read", "sync", "commit", "db"}
  BY DEF Kind
<1>5. thread' \in [Workers -> Threads]
  BY <1>1, <1>2, <1>4 DEF IInv, TypeOK, Threads
<1>6. TypeOK' /\ Program' /\ LockLine' /\ Ages'
  <2>1. TypeOK'
    BY <1>1, <1>3, <1>5 DEF IInv, TypeOK
  <2>2. Program'
    BY <1>1 DEF IInv, Program, Stations
  <2>3. LockLine'
    BY <1>1 DEF IInv, LockLine, Once, InLine
  <2>4. Ages'
    BY <1>1 DEF IInv, Ages
  <2>5. QED
    BY <2>1, <2>2, <2>3, <2>4
<1>7. \A u \in Loops : Awaiting(u)' <=> Awaiting(u)
  BY <1>1 DEF Awaiting
<1>8. /\ thread'[w].for = t /\ thread'[w].kind = Kind(pc[t])
      /\ \A v \in Workers : v # w => thread'[v] = thread[v]
      /\ \A v \in Workers : thread[v].for \in Loops \cup {Nobody}
  BY <1>1 DEF IInv, TypeOK, Threads
<1>9. Jobs'
  <2>1. ASSUME NEW v \in Workers, thread'[v].for # Nobody
        PROVE  thread'[v].for \in Loops /\ Awaiting(thread'[v].for) /\ thread'[v].kind = Kind(pc[thread'[v].for])
    BY <1>2, <1>8, <2>1 DEF IInv, Jobs
  <2>2. ASSUME NEW u \in Workers, NEW v \in Workers,
               thread'[u].for = thread'[v].for, thread'[u].for # Nobody
        PROVE  u = v
    BY <1>2, <1>8, <2>2 DEF IInv, Jobs
  <2>3. ASSUME NEW u \in Loops, InLine(queue', u)
        PROVE  Awaiting(u) /\ \A v \in Workers : thread'[v].for # u
    BY <1>3, <1>8, <2>3 DEF IInv, Jobs
  <2>4. QED
    BY <1>1, <1>3, <1>7, <2>1, <2>2, <2>3 DEF Jobs, Once, InLine, Awaiting
<1>10. QED
  BY <1>6, <1>9 DEF IInv

(* A call that returns to its task keeps the invariant. *)
LEMMA FinishJobStep ==
  ASSUME IInv, NEW w \in Workers, FinishJob(w)
  PROVE  IInv'
<1> DEFINE t == thread[w].for
<1>1. PICK o \in Outcomes : \E p \in After(t, pc[t], o) : Goto(t, p, queue)
  BY DEF FinishJob, Outcomes
<1>2. t # Nobody /\ thread' = [thread EXCEPT ![w] = Idle]
  BY DEF FinishJob
<1>3. t \in Loops /\ Awaiting(t)
  BY <1>2 DEF IInv, TypeOK, Threads, Jobs
<1>4. /\ pc[t] # "done"
      /\ pc[t] \in ChainCalls => lockq # <<>> /\ Head(lockq) = t
  BY <1>3, ArmedInCall, Locate DEF Awaiting, DbCalls, ChainCalls, ReadCalls, SyncCalls, CommitCalls
<1>5. ASSUME NEW v \in Workers
      PROVE  thread'[v].for = Nobody \/ (thread'[v] = thread[v] /\ thread[v].for # t)
  BY <1>2 DEF IInv, TypeOK, Jobs, Idle
<1>6. queue \in Seq(Loops) /\ Once(queue) /\ thread' \in [Workers -> Threads]
  BY <1>2 DEF IInv, TypeOK, Jobs, Threads, Idle
<1>7. \A u \in Loops : InLine(queue, u) => u # t
  BY DEF IInv, Jobs
<1> HIDE DEF t
<1>8. QED
  BY <1>1, <1>3, <1>4, <1>5, <1>6, <1>7, GotoStep

(* A call that returns to nobody keeps the invariant. *)
LEMMA FinishOrphanStep ==
  ASSUME IInv, NEW w \in Workers, FinishOrphan(w)
  PROVE  IInv'
<1>1. /\ thread[w].for = Nobody /\ thread' = [thread EXCEPT ![w] = Idle]
      /\ UNCHANGED <<pc, lockq, timer, queue, booting, tries, reports, commitAge,
                     watchdog, shutdown, process>>
  BY DEF FinishOrphan, Orphan
<1>2. TypeOK'
  BY <1>1 DEF IInv, TypeOK, Threads, Idle
<1>3. Program'
  BY <1>1 DEF IInv, Program, Stations
<1>4. LockLine'
  BY <1>1 DEF IInv, LockLine, Once, InLine
<1>5. Jobs'
  <2>1. /\ thread'[w].for = Nobody
        /\ \A v \in Workers : v # w => thread'[v] = thread[v]
        /\ \A v \in Workers : thread[v].for \in Loops \cup {Nobody}
    BY <1>1 DEF IInv, TypeOK, Threads, Idle
  <2>2. \A u \in Loops : Awaiting(u)' <=> Awaiting(u)
    BY <1>1 DEF Awaiting
  <2>3. QED
    BY <1>1, <2>1, <2>2 DEF IInv, Jobs, Once, InLine, Loops, Nobody
<1>6. Ages'
  BY <1>1 DEF IInv, Ages
<1>7. QED
  BY <1>2, <1>3, <1>4, <1>5, <1>6 DEF IInv

(* A call that deadlocks keeps the invariant. *)
LEMMA WedgeStep ==
  ASSUME IInv, NEW w \in Workers, Wedge(w)
  PROVE  IInv'
<1>1. /\ thread' = [thread EXCEPT ![w].wedged = TRUE]
      /\ UNCHANGED <<pc, lockq, timer, queue, booting, tries, reports, commitAge,
                     watchdog, shutdown, process>>
  BY DEF Wedge
<1>2. TypeOK'
  BY <1>1 DEF IInv, TypeOK, Threads
<1>3. Program'
  BY <1>1 DEF IInv, Program, Stations
<1>4. LockLine'
  BY <1>1 DEF IInv, LockLine, Once, InLine
<1>5. Jobs'
  <2>1. /\ \A v \in Workers : thread'[v].for = thread[v].for /\ thread'[v].kind = thread[v].kind
        /\ \A v \in Workers : thread[v].for \in Loops \cup {Nobody}
    BY <1>1 DEF IInv, TypeOK, Threads
  <2>2. \A u \in Loops : Awaiting(u)' <=> Awaiting(u)
    BY <1>1 DEF Awaiting
  <2>3. QED
    BY <1>1, <2>1, <2>2 DEF IInv, Jobs, Once, InLine
<1>6. Ages'
  BY <1>1 DEF IInv, Ages
<1>7. QED
  BY <1>2, <1>3, <1>4, <1>5, <1>6 DEF IInv

(* The passing of time keeps the invariant: no wait_for outlives its timeout. *)
LEMMA TickStep ==
  ASSUME IInv, Tick
  PROVE  IInv'
<1> USE RuntimeAssumption
<1>1. /\ lockq # <<>> => timer[Head(lockq)] # Unarmed
      /\ \A t \in Loops : timer[t] # Unarmed =>
           timer[t] < TimeLimit(pc[t]) + (IF Verifying THEN MaxStall ELSE 0)
      /\ timer' = [t \in Loops |-> IF timer[t] = Unarmed THEN Unarmed ELSE timer[t] + 1]
      /\ commitAge' = IF commitAge = Unarmed THEN Unarmed ELSE commitAge + 1
      /\ shutdown' \in {"no", "grace", "late"}
      /\ UNCHANGED <<pc, lockq, queue, thread, booting, tries, reports, watchdog, process>>
  BY DEF Tick, Later, SignalAged, IInv, TypeOK
<1>2. /\ timer \in [Loops -> Int] /\ commitAge \in Int
      /\ \A t \in Loops : timer[t] >= Unarmed
  BY DEF IInv, TypeOK, Ages
<1>3. \A t \in Loops : timer'[t] = IF timer[t] = Unarmed THEN Unarmed ELSE timer[t] + 1
  BY <1>1
<1>4. \A t \in Loops : timer'[t] # Unarmed <=> timer[t] # Unarmed
  BY <1>2, <1>3 DEF Unarmed
<1>5. TypeOK'
  BY <1>1, <1>2 DEF IInv, TypeOK, Unarmed
<1>6. Program'
  BY <1>1 DEF IInv, Program, Stations
<1>7. LockLine'
  BY <1>1, <1>4 DEF IInv, LockLine, Once, InLine
<1>8. Jobs'
  <2>1. \A u \in Loops : Awaiting(u)' <=> Awaiting(u)
    BY <1>1, <1>4 DEF Awaiting
  <2>2. \A v \in Workers : thread[v].for \in Loops \cup {Nobody}
    BY DEF IInv, TypeOK, Threads
  <2>3. QED
    BY <1>1, <2>1, <2>2 DEF IInv, Jobs, Once, InLine
<1>9. timer'["challenge"] <= SyncTimeout
  <2>1. CASE timer["challenge"] = Unarmed
    BY <2>1, <1>3 DEF Unarmed, Loops
  <2>2. CASE timer["challenge"] # Unarmed
    <3>1. pc["challenge"] = "sync" /\ pc["challenge"] \in ChainCalls
      BY <2>2, ArmedInCall, Locate DEF IInv, Program, Loops
    <3>2. timer["challenge"] < SyncTimeout
      BY <2>2, <3>1, <1>1, TimeLimits DEF Loops, Verifying
    <3>3. QED
      BY <2>2, <3>2, <1>2, <1>3 DEF Loops
  <2>3. QED
    BY <2>1, <2>2
<1>10. pc["weight"] \in CommitCalls => timer'["weight"] <= CommitTimeout + MaxStall
  <2>1. CASE timer["weight"] = Unarmed
    BY <2>1, <1>3 DEF Unarmed, Loops
  <2>2. CASE timer["weight"] # Unarmed /\ pc["weight"] \in CommitCalls
    <3>1. TimeLimit(pc["weight"]) = CommitTimeout
      BY <2>2, TimeLimits DEF ChainCalls
    <3>2. timer["weight"] < CommitTimeout + MaxStall
      BY <2>2, <3>1, <1>1, <1>2 DEF Loops
    <3>3. QED
      BY <2>2, <3>2, <1>2, <1>3 DEF Loops
  <2>3. QED
    BY <2>1, <2>2
<1>11. Ages'
  <2>1. /\ timer'["weight"] # Unarmed => commitAge' <= SyncTimeout + MaxTruth + timer'["weight"]
        /\ timer'["challenge"] # Unarmed => commitAge' <= timer'["challenge"]
    BY <1>1, <1>2, <1>3 DEF IInv, Ages, Unarmed, Loops
  <2>2. \A t \in Loops : timer'[t] >= Unarmed
    BY <1>2, <1>3 DEF Unarmed
  <2>3. lockq' # <<>> => timer'[Head(lockq')] # Unarmed
    BY <1>1, <1>4, HeadInLine DEF IInv, TypeOK
  <2>4. pc'["weight"] \notin CommitCalls => commitAge' = Unarmed
    BY <1>1 DEF IInv, Ages
  <2>5. QED
    BY <1>1, <1>9, <1>10, <2>1, <2>2, <2>3, <2>4 DEF Ages
<1>12. QED
  BY <1>5, <1>6, <1>7, <1>8, <1>11 DEF IInv

(* The watchdog, the signals and the end of the process keep the invariant. *)
LEMMA OtherSteps ==
  ASSUME IInv, Control \/ FirstSignal \/ ForcingSignal \/ Ended \/ UNCHANGED vars
  PROVE  IInv'
<1>1. /\ UNCHANGED <<pc, lockq, timer, queue, thread, booting, tries, reports, commitAge>>
      /\ watchdog' \in {"polling", "done"} /\ shutdown' \in {"no", "grace", "late"}
      /\ process' \in {"up", "joining", "killed", "forced", "exited"}
  BY DEF Control, WatchdogKill, WatchdogExit, RunReturns, ThreadsJoined,
         FirstSignal, ForcingSignal, Ended, vars, IInv, TypeOK
<1>2. TypeOK'
  BY <1>1 DEF IInv, TypeOK
<1>3. Program'
  BY <1>1 DEF IInv, Program, Stations
<1>4. LockLine' /\ Jobs'
  BY <1>1 DEF IInv, LockLine, Jobs, Once, InLine, Awaiting
<1>5. Ages'
  BY <1>1 DEF IInv, Ages
<1>6. QED
  BY <1>2, <1>3, <1>4, <1>5 DEF IInv

(* The invariant is inductive. *)
LEMMA NextIInv == IInv /\ [Next]_vars => IInv'
<1> SUFFICES ASSUME IInv, [Next]_vars PROVE IInv'
  OBVIOUS
<1>1. CASE \E t \in Loops : LoopStep(t)
  BY <1>1, ProceedStep, SubmitStep, TimeOutStep DEF LoopStep
<1>2. CASE \E w \in Workers : WorkerStep(w)
  BY <1>2, StartJobStep, FinishJobStep, FinishOrphanStep, WedgeStep DEF WorkerStep
<1>3. CASE Tick
  BY <1>3, TickStep
<1>4. CASE Control \/ FirstSignal \/ ForcingSignal \/ Ended \/ UNCHANGED vars
  BY <1>4, OtherSteps
<1>5. QED
  BY <1>1, <1>2, <1>3, <1>4 DEF Next

-------------------------------------------------------------------------------
(* What follows from the invariant.                                          *)

(* The invariant holds in every reachable state. *)
LEMMA Invariance == Spec => []IInv
  BY InitIInv, NextIInv, PTL DEF Spec

(* The shape of the state of validator/main.py's runtime, for every executor *)
(* and every choice of timeouts: no counter leaves its range.                *)
THEOREM TypeCorrect == Spec => []TypeOK
<1>1. IInv => TypeOK
  BY DEF IInv
<1>2. QED
  BY <1>1, Invariance, PTL

(* The invariant serialises the calls that are awaited. *)
LEMMA SerializedHere == IInv => AwaitedCallsSerialized
<1> SUFFICES ASSUME IInv, NEW v \in Workers, NEW w \in Workers,
                    OnChain(v), OnChain(w), ~Orphan(v), ~Orphan(w)
             PROVE  v = w
  BY DEF AwaitedCallsSerialized
<1>1. ASSUME NEW x \in Workers, OnChain(x), ~Orphan(x)
      PROVE  thread[x].for # Nobody /\ thread[x].for = Head(lockq)
  <2> DEFINE t == thread[x].for
  <2>1. t # Nobody /\ t \in Loops
    BY <1>1 DEF OnChain, Orphan, IInv, TypeOK, Threads
  <2>2. Awaiting(t) /\ Kind(pc[t]) \in {"read", "sync", "commit"}
    BY <1>1, <2>1 DEF OnChain, IInv, Jobs
  <2> HIDE DEF t
  <2>3. timer[t] # Unarmed
    BY <2>2, Locate DEF Awaiting
  <2>4. t = Head(lockq)
    BY <2>1, <2>3, ArmedInCall
  <2>5. QED
    BY <2>1, <2>4 DEF t
<1>2. QED
  BY <1>1 DEF IInv, Jobs

(* Nobody waits for what will not come: the second half of the accounts of   *)
(* the executor, and the one a lost or doubly cancelled job would break.     *)
Served ==
  \A t \in Loops : Awaiting(t) => InLine(queue, t) \/ \E w \in Workers : thread[w].for = t

(* A loop that leaves its location takes nobody else's job along, and submits *)
(* the one it will await.                                                     *)
LEMMA GotoServed ==
  ASSUME IInv, Served, NEW t \in Loops, NEW p, NEW q \in Seq(Loops), Goto(t, p, q),
         \A u \in Loops : InLine(queue, u) /\ u # t => InLine(q, u),
         \A w \in Workers : thread[w].for \in Loops /\ thread[w].for # t =>
                             thread'[w].for = thread[w].for
  PROVE  Served'
<1>1. /\ pc' = [pc EXCEPT ![t] = p] /\ timer' = [timer EXCEPT ![t] = Unarmed]
      /\ queue' = IF p \in DbCalls THEN Append(q, t) ELSE q
  BY DEF Goto
<1>2. \A u \in Loops : u # t => (Awaiting(u)' <=> Awaiting(u))
  BY <1>1 DEF Awaiting, IInv, TypeOK
<1>3. Awaiting(t)' => p \in DbCalls
  BY <1>1 DEF Awaiting, IInv, TypeOK
<1>4. /\ \A u \in Loops : InLine(q, u) => InLine(queue', u)
      /\ p \in DbCalls => InLine(queue', t)
  <2> DEFINE a == Append(q, t)
  <2>1. /\ Len(a) = Len(q) + 1 /\ Len(q) \in Nat /\ a[Len(q) + 1] = t
        /\ \A i \in 1..Len(q) : a[i] = q[i]
    OBVIOUS
  <2>2. Len(q) + 1 \in 1..Len(a) /\ 1..Len(q) \subseteq 1..Len(a)
    BY <2>1
  <2>3. InLine(a, t) /\ \A u \in Loops : InLine(q, u) => InLine(a, u)
    BY <2>1, <2>2 DEF InLine
  <2> HIDE DEF a
  <2>4. queue' = a \/ (queue' = q /\ p \notin DbCalls)
    BY <1>1 DEF a
  <2>5. QED
    BY <2>3, <2>4
<1>5. SUFFICES ASSUME NEW u \in Loops, Awaiting(u)'
               PROVE  InLine(queue', u) \/ \E w \in Workers : thread'[w].for = u
  BY DEF Served, InLine
<1>6. CASE u = t
  BY <1>3, <1>4, <1>5, <1>6
<1>7. CASE u # t /\ InLine(queue, u)
  BY <1>4, <1>7
<1>8. CASE u # t /\ ~InLine(queue, u)
  <2>1. PICK w \in Workers : thread[w].for = u
    BY <1>2, <1>5, <1>8 DEF Served
  <2>2. thread'[w].for = u
    BY <1>8, <2>1
  <2>3. QED
    BY <2>2
<1>9. QED
  BY <1>6, <1>7, <1>8

(* What leaves every queue, call and location alone leaves every job to do. *)
LEMMA IdleServed ==
  ASSUME Served, UNCHANGED <<pc, queue>>,
         \A t \in Loops : timer'[t] # Unarmed => timer[t] # Unarmed,
         \A w \in Workers : thread[w].for \in Loops => thread'[w].for = thread[w].for
  PROVE  Served'
  BY DEF Served, Awaiting, InLine

(* Every step leaves a job to every loop that awaits one. *)
LEMMA NextServed ==
  ASSUME IInv, Served, [Next]_vars
  PROVE  Served'
<1>1. /\ queue \in Seq(Loops) /\ timer \in [Loops -> Int]
      /\ thread \in [Workers -> Threads]
      /\ Nobody \notin Loops
  BY DEF IInv, TypeOK, Loops, Nobody
<1>2. ASSUME NEW t \in Loops, Proceed(t) PROVE Served'
  <2>1. PICK p : Goto(t, p, queue) /\ thread' = thread
    BY <1>2 DEF Proceed
  <2>2. QED
    BY <1>1, <2>1, GotoServed
<1>3. ASSUME NEW t \in Loops, Submit(t) PROVE Served'
  <2>1. /\ timer' = [timer EXCEPT ![t] = 0] /\ queue' = Append(queue, t)
        /\ UNCHANGED <<pc, thread>> /\ timer[t] = Unarmed
        /\ lockq # <<>> /\ Head(lockq) = t
    BY <1>3 DEF Submit, HasLock
  <2>2. ~InLine(queue, t) /\ Once(queue)
    <3>1. pc[t] \in ChainCalls /\ pc[t] \notin DbCalls
      BY <2>1, HeadInLine, Locate DEF IInv, TypeOK, LockLine
    <3>2. QED
      BY <2>1, <3>1 DEF IInv, Jobs, Awaiting
  <2>3. \A u \in Loops : InLine(queue', u) <=> (InLine(queue, u) \/ u = t)
    BY <1>1, <2>1, <2>2, JoinLine
  <2>4. \A u \in Loops : u # t => (Awaiting(u)' <=> Awaiting(u))
    BY <1>1, <2>1 DEF Awaiting
  <2>5. QED
    BY <2>1, <2>3, <2>4 DEF Served, InLine
<1>4. ASSUME NEW t \in Loops, TimeOut(t) PROVE Served'
  <2>1. PICK p : Goto(t, p, Cancelled(queue, t))
    BY <1>4 DEF TimeOut
  <2>2. \A w \in Workers : thread[w].for # t => thread'[w] = thread[w]
    BY <1>4 DEF TimeOut
  <2>3. /\ Cancelled(queue, t) \in Seq(Loops)
        /\ \A u \in Loops : InLine(queue, u) /\ u # t => InLine(Cancelled(queue, t), u)
    BY <1>1, CancelLine DEF IInv, Jobs
  <2>4. QED
    BY <2>1, <2>2, <2>3, GotoServed
<1>5. ASSUME NEW w \in Workers, StartJob(w) PROVE Served'
  <2>1. /\ thread[w] = Idle /\ queue # <<>> /\ queue' = Tail(queue)
        /\ thread' = [thread EXCEPT ![w] = [kind |-> Kind(pc[Head(queue)]),
                                            for |-> Head(queue), wedged |-> FALSE]]
        /\ UNCHANGED <<pc, timer>>
    BY <1>5 DEF StartJob
  <2>2. /\ thread'[w].for = Head(queue) /\ thread[w].for = Nobody
        /\ \A v \in Workers : v # w => thread'[v] = thread[v]
    BY <1>1, <2>1 DEF Idle
  <2>3. \A u \in Loops : InLine(queue', u) <=> (InLine(queue, u) /\ u # Head(queue))
    BY <1>1, <2>1, LeaveLine DEF IInv, Jobs
  <2>4. ASSUME NEW u \in Loops, Awaiting(u)
        PROVE  InLine(queue', u) \/ \E v \in Workers : thread'[v].for = u
    BY <1>1, <2>2, <2>3, <2>4 DEF Served
  <2>5. QED
    BY <2>1, <2>4 DEF Served, Awaiting, InLine
<1>6. ASSUME NEW w \in Workers, FinishJob(w) PROVE Served'
  <2>1. thread[w].for \in Loops /\ thread' = [thread EXCEPT ![w] = Idle]
    BY <1>1, <1>6 DEF FinishJob, Threads
  <2>2. PICK p : Goto(thread[w].for, p, queue)
    BY <1>6 DEF FinishJob
  <2>3. \A v \in Workers : thread[v].for # thread[w].for => thread'[v] = thread[v]
    BY <1>1, <2>1
  <2>4. QED
    BY <1>1, <2>1, <2>2, <2>3, GotoServed
<1>7. ASSUME NEW w \in Workers, FinishOrphan(w) \/ Wedge(w) PROVE Served'
  <2>1. \A v \in Workers : thread[v].for \in Loops => thread'[v].for = thread[v].for
    BY <1>1, <1>7 DEF FinishOrphan, Wedge, Orphan, Threads
  <2>2. UNCHANGED <<pc, queue, timer>>
    BY <1>7 DEF FinishOrphan, Wedge
  <2>3. QED
    BY <2>1, <2>2, IdleServed
<1>8. CASE Tick
  <2>1. UNCHANGED <<pc, queue, thread>> /\ \A t \in Loops : timer'[t] # Unarmed => timer[t] # Unarmed
    BY <1>8 DEF Tick, Later
  <2>2. QED
    BY <2>1, IdleServed
<1>9. CASE Control \/ FirstSignal \/ ForcingSignal \/ Ended \/ UNCHANGED vars
  <2>1. UNCHANGED <<pc, queue, timer, thread>>
    BY <1>9 DEF Control, WatchdogKill, WatchdogExit, RunReturns, ThreadsJoined,
                FirstSignal, ForcingSignal, Ended, vars
  <2>2. QED
    BY <2>1, IdleServed
<1>10. QED
  BY <1>2, <1>3, <1>4, <1>5, <1>6, <1>7, <1>8, <1>9 DEF Next, LoopStep, WorkerStep

(* A task occurs once in a line it is in, and not at all in another. *)
LEMMA CountInLine ==
  ASSUME NEW s \in Seq(Loops), Once(s), NEW t \in Loops
  PROVE  Occurrences(s, t) = IF InLine(s, t) THEN 1 ELSE 0
<1> DEFINE places == {i \in DOMAIN s : s[i] = t}
<1>1. DOMAIN s = 1..Len(s)
  OBVIOUS
<1>2. CASE InLine(s, t)
  <2>1. PICK i \in 1..Len(s) : s[i] = t
    BY <1>2 DEF InLine
  <2>2. places = {i}
    BY <1>1, <2>1 DEF Once
  <2>3. QED
    BY <1>2, <2>2, FS_Singleton DEF Occurrences
<1>3. CASE ~InLine(s, t)
  <2>1. places = {}
    BY <1>1, <1>3 DEF InLine
  <2>2. QED
    BY <1>3, <2>1, FS_EmptySet DEF Occurrences
<1>4. QED
  BY <1>2, <1>3

(* The invariant, with a job for all who await one, balances the accounts. *)
LEMMA AccountsHere ==
  ASSUME IInv, Served
  PROVE  CallsAccounted
<1> SUFFICES ASSUME NEW t \in Loops
             PROVE  /\ Occurrences(lockq, t) = (IF pc[t] \in ChainCalls THEN 1 ELSE 0)
                    /\ timer[t] # Unarmed => lockq # <<>> /\ Head(lockq) = t
                    /\ JobsOf(t) = (IF Awaiting(t) THEN 1 ELSE 0)
                    /\ \A w \in Workers : thread[w].for = t => thread[w].kind = Kind(pc[t])
  BY DEF CallsAccounted
<1> DEFINE mine == {w \in Workers : thread[w].for = t}
<1>1. lockq \in Seq(Loops) /\ queue \in Seq(Loops) /\ t # Nobody
  BY DEF IInv, TypeOK, Loops, Nobody
<1>2. Occurrences(lockq, t) = (IF pc[t] \in ChainCalls THEN 1 ELSE 0)
  BY <1>1, CountInLine DEF IInv, LockLine
<1>3. Occurrences(queue, t) = IF InLine(queue, t) THEN 1 ELSE 0
  BY <1>1, CountInLine DEF IInv, Jobs
<1>4. CASE mine = {}
  <2>1. Cardinality(mine) = 0
    BY <1>4, FS_EmptySet
  <2>2. InLine(queue, t) <=> Awaiting(t)
    BY <1>4 DEF Served, IInv, Jobs
  <2>3. JobsOf(t) = IF Awaiting(t) THEN 1 ELSE 0
    BY <1>3, <2>1, <2>2 DEF JobsOf
  <2>4. QED
    BY <1>2, <1>4, <2>3 DEF IInv, LockLine
<1>5. CASE mine # {}
  <2>1. PICK w \in Workers : thread[w].for = t
    BY <1>5
  <2>2. mine = {w}
    BY <1>1, <2>1 DEF IInv, Jobs
  <2>3. Cardinality(mine) = 1
    BY <2>2, FS_Singleton
  <2>4. ~InLine(queue, t) /\ Awaiting(t) /\ thread[w].kind = Kind(pc[t])
    BY <1>1, <2>1 DEF IInv, Jobs
  <2>5. JobsOf(t) = IF Awaiting(t) THEN 1 ELSE 0
    BY <1>3, <2>3, <2>4 DEF JobsOf
  <2>6. QED
    BY <1>2, <2>2, <2>4, <2>5 DEF IInv, LockLine
<1>6. QED
  BY <1>4, <1>5

(* The accounts of the event loop and the executor (_chain_op and            *)
(* asyncio.to_thread, validator/main.py:574-618): after any timeouts, wedged  *)
(* calls and cancellations, a loop in a call has one job, and no other has.   *)
THEOREM AccountsBalance == Spec => []CallsAccounted
<1>1. Init => Served
  BY DEF Init, Served, Awaiting, DbCalls
<1>2. IInv /\ Served /\ [Next]_vars => Served'
  BY NextServed
<1>3. IInv /\ Served => CallsAccounted
  BY AccountsHere
<1>4. QED
  BY <1>1, <1>2, <1>3, Invariance, PTL DEF Spec

(* _chain_op (validator/main.py:574-618): among the threads in a chain call, *)
(* at most one still has a task that waits for it, whatever timed out before.*)
THEOREM AwaitedSerialized == Spec => []AwaitedCallsSerialized
  BY SerializedHere, Invariance, PTL

(* The invariant bounds the age of a weight commit. *)
LEMMA CommitAgeHere == IInv => CommitAgeBounded
<1> SUFFICES ASSUME IInv PROVE CommitAgeBounded
  OBVIOUS
<1> USE RuntimeAssumption
<1>1. /\ commitAge \in Int /\ timer["challenge"] \in Int /\ timer["weight"] \in Int
      /\ timer["challenge"] <= SyncTimeout
  BY DEF IInv, TypeOK, Ages, Loops
<1>2. CASE pc["weight"] \notin CommitCalls
  BY <1>2 DEF IInv, Ages, CommitAgeBounded, Unarmed
<1>3. CASE pc["weight"] \in CommitCalls /\ timer["weight"] # Unarmed
  BY <1>1, <1>3 DEF IInv, Ages, CommitAgeBounded
<1>4. CASE pc["weight"] \in CommitCalls /\ timer["weight"] = Unarmed
  <2> DEFINE h == Head(lockq)
  <2>1. lockq # <<>> /\ h \in Loops /\ pc[h] \in ChainCalls
    <3>1. InLine(lockq, "weight")
      BY <1>4, Locate DEF IInv, LockLine, Loops
    <3>2. lockq # <<>>
      BY <3>1 DEF InLine, IInv, TypeOK
    <3>3. QED
      BY <3>2, HeadInLine DEF IInv, TypeOK, LockLine
  <2>2. h = "challenge" \/ h = "weight"
    BY <2>1, Locate DEF IInv, Program, Loops
  <2>3. commitAge <= SyncTimeout + MaxTruth
    <3>1. CASE timer[h] = Unarmed
      BY <1>1, <1>4, <2>1, <2>2, <3>1 DEF IInv, Ages
    <3>2. CASE h = "challenge" /\ timer[h] # Unarmed
      BY <1>1, <3>2 DEF IInv, Ages
    <3>3. QED
      BY <1>4, <2>2, <3>1, <3>2
  <2>4. QED
    BY <1>1, <2>3 DEF CommitAgeBounded
<1>5. QED
  BY <1>2, <1>3, <1>4

(* _weight_commit_started_at (validator/main.py:680-703) is never older than *)
(* the one metagraph sync that can be ahead in the lock's line, the ground   *)
(* truth that local mode simulates when that sync is over, the timeout of    *)
(* the weight call and the time a verification holds the event loop.         *)
THEOREM CommitAge == Spec => []CommitAgeBounded
  BY CommitAgeHere, Invariance, PTL

(* _weight_commit_watchdog (validator/main.py:776-814) never ends a process  *)
(* whose timeouts leave it room.  With 60 s, 120 s and 180 s there is none to *)
(* spare: a wedged call alone never fires it; an event loop held up by a      *)
(* verification, or in local mode by a ground truth simulated between the     *)
(* sync and the commit behind it, can.                                        *)
THEOREM WatchdogNeverFires ==
  ASSUME SyncTimeout + MaxTruth + CommitTimeout + MaxStall <= WatchdogLimit
  PROVE  Spec => []WatchdogSilent
<1>1. Init => WatchdogSilent
  BY DEF Init, WatchdogSilent
<1>2. IInv /\ WatchdogSilent /\ [Next]_vars => WatchdogSilent'
  <2> SUFFICES ASSUME IInv, WatchdogSilent, [Next]_vars
               PROVE  process' # "killed"
    BY DEF WatchdogSilent
  <2>1. CASE WatchdogKill
    <3>1. commitAge > WatchdogLimit
      BY <2>1 DEF WatchdogKill
    <3>2. commitAge \in Int /\ commitAge <= SyncTimeout + MaxTruth + CommitTimeout + MaxStall
      BY CommitAgeHere DEF CommitAgeBounded, IInv, TypeOK
    <3>3. QED
      BY <3>1, <3>2, RuntimeAssumption
  <2>2. CASE ~WatchdogKill
    BY <2>2 DEF WatchdogSilent, Next, LoopStep, Proceed, Submit, TimeOut, Goto,
         WorkerStep, StartJob, FinishJob, FinishOrphan, Wedge, Tick, Control,
         WatchdogExit, RunReturns, ThreadsJoined, FirstSignal, ForcingSignal, Ended, vars
  <2>3. QED
    BY <2>1, <2>2
<1>3. QED
  BY <1>1, <1>2, Invariance, PTL DEF Spec
===============================================================================
