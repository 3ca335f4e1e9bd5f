------------------------------ MODULE MinerProofs ------------------------------
(***************************************************************************)
(* The miner's gate, proved for any number of validators and challenges, any *)
(* number of changes on the chain and any interleaving with the sync.        *)
(*                                                                          *)
(* Both promises of the gate depend on what the lists of the metagraph hold  *)
(* while the sync replaces them one by one.  Fits says it of one metagraph:  *)
(* it names nobody who was never registered, and whoever kept registration   *)
(* and permit all along is in both lists, at the place it always had.        *)
(* Because each list is so by itself, a mixture of two metagraphs is, too.   *)
(* Judging says what that makes of the challenges the gate has looked at.    *)
(***************************************************************************)
EXTENDS Miner, FiniteSetTheorems, SequenceTheorems, TLAPS

Place == 2   \* of the only hotkey that has a permit at first

Keys(keys, n, K, S) ==
  /\ keys \in Seq(Hotkeys) /\ keys # <<>> /\ Len(keys) <= 2 + n /\ Range(keys) \subseteq K
  /\ \A h \in S : Place \in DOMAIN keys /\ \A i \in DOMAIN keys : keys[i] = h <=> i = Place

Permits(permits, S) ==
  permits \in Seq(BOOLEAN) /\ (S # {} => Place \in DOMAIN permits /\ permits[Place] = TRUE)

Fits(g, n, K, S) == g \in Graphs /\ Keys(g.keys, n, K, S) /\ Permits(g.permits, S)

Syncing == sync \in {"fetching", "keysReplaced", "permitsReplaced"}

Views ==
  /\ Fits(chain, changes, known, steady) /\ Len(chain.keys) >= Place
  /\ IF stage = "init" THEN gate = None ELSE Fits(gate, changes, known, steady)
  /\ Syncing => Fits(incoming, changes, known, steady)
  /\ sync # "sleep" => stage # "init"

InGate(c)   == at[c] \in {"member", "found"}
LetIn(c)    == at[c] \in {"accepted", "queued", "running", "answered", "empty"}
SentAway(c) == at[c] \in {"refused", "error"}

Judging ==
  /\ \A c \in Challenges : InGate(c) \/ LetIn(c) => Senders[c] \in known
  /\ \A c \in Challenges : SentAway(c) => Senders[c] \notin steady
  /\ \A c, d \in Challenges : InGate(c) /\ InGate(d) => c = d
  /\ \A c \in Challenges : at[c] = "found" /\ Senders[c] \in steady => uid = Place

IInv == TypeOK /\ Views /\ Judging

States == {"unsent", "arrived", "member", "found", "refused", "error",
           "accepted", "queued", "running", "answered", "empty"}

-------------------------------------------------------------------------------
(* Facts about the metagraphs.                                               *)
LEMMA FitsStill ==
  ASSUME NEW g, NEW n \in Nat, NEW K, NEW S, NEW m \in Nat, NEW L, NEW T,
         Fits(g, n, K, S), n <= m, K \subseteq L, T \subseteq S
  PROVE  Fits(g, m, L, T)
<1>1. g \in Graphs /\ g.keys \in Seq(Hotkeys) /\ Len(g.keys) \in Nat
  BY DEF Fits, Keys
<1>2. Keys(g.keys, m, L, T)
  BY <1>1 DEF Fits, Keys
<1>3. QED
  BY <1>1, <1>2 DEF Fits, Permits

(* Half a replacement: the lists come from two metagraphs.                   *)
LEMMA Mixture ==
  ASSUME NEW g, NEW i, NEW n, NEW K, NEW S, Fits(g, n, K, S), Fits(i, n, K, S)
  PROVE  /\ Fits([g EXCEPT !.keys = i.keys], n, K, S)
         /\ Fits([g EXCEPT !.permits = i.permits], n, K, S)
<1>1. g \in Graphs /\ i \in Graphs
  BY DEF Fits
<1>2. /\ [g EXCEPT !.keys = i.keys] \in Graphs /\ [g EXCEPT !.keys = i.keys].keys = i.keys
      /\ [g EXCEPT !.keys = i.keys].permits = g.permits
  BY <1>1 DEF Graphs
<1>3. /\ [g EXCEPT !.permits = i.permits] \in Graphs /\ [g EXCEPT !.permits = i.permits].keys = g.keys
      /\ [g EXCEPT !.permits = i.permits].permits = i.permits
  BY <1>1 DEF Graphs
<1>4. QED
  BY <1>2, <1>3 DEF Fits

(* The UID of a hotkey that was steady is its place.                         *)
LEMMA SteadyUid ==
  ASSUME NEW g, NEW n, NEW K, NEW S, Fits(g, n, K, S), NEW h \in S
  PROVE  Has(g, h) /\ UidOf(g, h) = Place /\ Place \in DOMAIN g.permits /\ g.permits[Place] = TRUE
<1>1. Place \in DOMAIN g.keys /\ \A i \in DOMAIN g.keys : g.keys[i] = h <=> i = Place
  BY DEF Fits, Keys
<1>2. Has(g, h)
  BY <1>1 DEF Has, Range
<1>3. UidOf(g, h) = Place
  BY <1>1 DEF UidOf
<1>4. QED
  BY <1>2, <1>3 DEF Fits, Permits

LEMMA AnyUid ==
  ASSUME NEW g, NEW n \in Nat, NEW K, NEW S, Fits(g, n, K, S), NEW h, Has(g, h)
  PROVE  UidOf(g, h) \in 1..2 + n
<1>1. \E i \in DOMAIN g.keys : g.keys[i] = h
  BY DEF Has, Range
<1>2. UidOf(g, h) \in DOMAIN g.keys
  BY <1>1 DEF UidOf
<1>3. g.keys \in Seq(Hotkeys) /\ Len(g.keys) <= 2 + n
  BY DEF Fits, Keys
<1>4. QED
  BY <1>2, <1>3

-------------------------------------------------------------------------------
LEMMA InitIInv == Init => IInv
<1> SUFFICES ASSUME Init PROVE IInv
  OBVIOUS
<1> USE MinerAssumption
<1>1. PICK h \in Others : chain = [keys |-> <<Me, h>>, permits |-> <<FALSE, TRUE>>]
  BY DEF Init
<1>2. /\ chain.keys = <<Me, h>> /\ chain.permits = <<FALSE, TRUE>> /\ h # Me
      /\ stage = "init" /\ gate = None /\ sync = "sleep" /\ incoming = None /\ shutdown = "no"
      /\ at = [c \in Challenges |-> "unsent"] /\ uid = 0 /\ changes = 0 /\ faults = 0
      /\ known = Range(chain.keys) /\ steady = {h} /\ production \in BOOLEAN
  BY <1>1 DEF Init
<1>3. <<Me, h>> \in Seq(Hotkeys) /\ <<FALSE, TRUE>> \in Seq(BOOLEAN)
  BY DEF Hotkeys
<1>4. known = {Me, h}
  BY <1>2 DEF Range
<1>5. chain \in Graphs /\ None \in Graphs
  BY <1>1, <1>3 DEF Graphs, None
<1>6. In("running") = {}
  BY <1>2 DEF In
<1>7. TypeOK
  <2>1. Len(chain.keys) = Len(chain.permits)
    BY <1>2, <1>3
  <2>2. Cardinality(In("running")) <= Threads /\ uid \in 0..2 + MaxChanges
    <3>1. Cardinality(In("running")) = 0
      BY <1>6, FS_EmptySet
    <3>2. QED
      BY <1>2, <3>1
  <2>3. at \in [Challenges -> {"unsent", "arrived", "member", "found", "refused", "error",
                               "accepted", "queued", "running", "answered", "empty"}]
    BY <1>2
  <2>4. known \subseteq Hotkeys /\ steady \subseteq known
    BY <1>2, <1>4 DEF Hotkeys
  <2>5. QED
    BY <1>2, <1>5, <2>1, <2>2, <2>3, <2>4 DEF TypeOK
<1>8. Fits(chain, changes, known, steady)
  BY <1>2, <1>3, <1>4, <1>5 DEF Fits, Keys, Permits, Place
<1>9. Views
  BY <1>2, <1>8 DEF Views, Syncing, Place
<1>10. Judging
  BY <1>2 DEF Judging, InGate, LetIn, SentAway
<1>11. QED
  BY <1>7, <1>9, <1>10 DEF IInv

(* The chain changes, and who was steady still fits what is left of it.      *)
LEMMA ChangeIInv ==
  ASSUME IInv, NEW g, Change(g), g \in Graphs, Len(g.keys) = Len(g.permits), Len(g.keys) >= Place,
         Fits(g, changes + 1, known \cup Range(g.keys),
              {h \in steady : Has(g, h) /\ g.permits[UidOf(g, h)]})
  PROVE  IInv'
<1>1. /\ chain' = g /\ changes' = changes + 1 /\ changes < MaxChanges
      /\ known' = known \cup Range(g.keys)
      /\ steady' = {h \in steady : Has(g, h) /\ g.permits[UidOf(g, h)]}
      /\ UNCHANGED <<production, stage, gate, sync, incoming, shutdown, at, uid, faults>>
  BY DEF Change, main
<1>2. known \subseteq known' /\ steady' \subseteq steady /\ changes \in Nat
        /\ changes + 1 \in 0..MaxChanges
  BY <1>1, MinerAssumption DEF IInv, TypeOK
<1>3. Range(g.keys) \subseteq Hotkeys
  BY DEF Graphs, Range
<1>4. TypeOK'
  <2>1. In("running")' = In("running")
    BY <1>1 DEF In
  <2>2. uid \in 0..2 + MaxChanges
    BY DEF IInv, TypeOK
  <2>3. QED
    BY <1>1, <1>2, <1>3, <2>1, <2>2 DEF IInv, TypeOK
<1>5. Views'
  <2>1. \A v : Fits(v, changes, known, steady) => Fits(v, changes', known', steady')
    BY <1>1, <1>2, FitsStill
  <2>2. Fits(chain', changes', known', steady')
    BY <1>1
  <2>3. QED
    BY <1>1, <2>1, <2>2 DEF IInv, Views, Syncing
<1>6. Judging'
  BY <1>1, <1>2 DEF IInv, Judging, InGate, LetIn, SentAway
<1>7. QED
  BY <1>4, <1>5, <1>6 DEF IInv

LEMMA RegisterIInv == IInv /\ Register => IInv'
<1> SUFFICES ASSUME IInv, Register PROVE IInv'
  OBVIOUS
<1>1. PICK k \in Hotkeys \ Range(chain.keys), i \in 1..Len(chain.keys) + 1 :
        Change(IF i > Len(chain.keys)
                 THEN [keys |-> Append(chain.keys, k), permits |-> Append(chain.permits, FALSE)]
                 ELSE [keys |-> [chain.keys EXCEPT ![i] = k],
                       permits |-> [chain.permits EXCEPT ![i] = FALSE]])
  BY DEF Register
<1> DEFINE g == IF i > Len(chain.keys)
                  THEN [keys |-> Append(chain.keys, k), permits |-> Append(chain.permits, FALSE)]
                  ELSE [keys |-> [chain.keys EXCEPT ![i] = k],
                        permits |-> [chain.permits EXCEPT ![i] = FALSE]]
           S == {h \in steady : Has(g, h) /\ g.permits[UidOf(g, h)]}
<1>2. /\ chain.keys \in Seq(Hotkeys) /\ chain.permits \in Seq(BOOLEAN)
      /\ Len(chain.keys) = Len(chain.permits) /\ Len(chain.keys) >= Place /\ Len(chain.keys) \in Nat
      /\ Len(chain.keys) <= 2 + changes /\ changes \in Nat
      /\ \A h \in steady : \A j \in 1..Len(chain.keys) : chain.keys[j] = h <=> j = Place
      /\ steady # {} => chain.permits[Place] = TRUE
  BY DEF IInv, TypeOK, Graphs, Views, Fits, Keys, Permits
<1>3. /\ g \in Graphs /\ Len(g.keys) = Len(g.permits) /\ Len(g.keys) >= Place
      /\ Len(g.keys) <= 2 + changes + 1 /\ Len(g.keys) \in {Len(chain.keys), i}
      /\ \A j \in 1..Len(g.keys) : g.keys[j] = (IF j = i THEN k ELSE chain.keys[j])
      /\ \A j \in 1..Len(g.keys) : j # i => g.permits[j] = chain.permits[j]
  <2>1. CASE i > Len(chain.keys)
    <3>1. i = Len(chain.keys) + 1
      BY <1>2, <2>1
    <3>2. /\ Append(chain.keys, k) \in Seq(Hotkeys) /\ Len(Append(chain.keys, k)) = Len(chain.keys) + 1
          /\ \A j \in 1..Len(chain.keys) + 1 :
               Append(chain.keys, k)[j] = (IF j = i THEN k ELSE chain.keys[j])
      BY <1>2, <3>1, AppendProperties
    <3>3. /\ Append(chain.permits, FALSE) \in Seq(BOOLEAN)
          /\ Len(Append(chain.permits, FALSE)) = Len(chain.keys) + 1
          /\ \A j \in 1..Len(chain.keys) : Append(chain.permits, FALSE)[j] = chain.permits[j]
      <4>1. \A p \in Seq(BOOLEAN), e \in BOOLEAN :
              /\ Append(p, e) \in Seq(BOOLEAN) /\ Len(Append(p, e)) = Len(p) + 1
              /\ \A j \in 1..Len(p) : Append(p, e)[j] = p[j]
        BY AppendProperties
      <4>2. QED
        BY <1>2, <4>1
    <3>4. g = [keys |-> Append(chain.keys, k), permits |-> Append(chain.permits, FALSE)]
      BY <2>1
    <3> HIDE DEF g
    <3>5. g \in Graphs /\ g.keys = Append(chain.keys, k) /\ g.permits = Append(chain.permits, FALSE)
      BY <3>2, <3>4, <3>3 DEF Graphs
    <3>6. \A j \in 1..Len(chain.keys) + 1 : j # i => j \in 1..Len(chain.keys)
      BY <1>2, <3>1
    <3>7. \A j \in 1..Len(g.keys) : j # i => g.permits[j] = chain.permits[j]
      BY <3>2, <3>3, <3>5, <3>6
    <3>8. Len(g.keys) = Len(g.permits) /\ Len(g.keys) >= Place /\ Len(g.keys) = i
            /\ Len(g.keys) <= 2 + changes + 1
      BY <1>2, <3>1, <3>2, <3>3, <3>5 DEF Place
    <3>9. QED
      BY <3>2, <3>5, <3>7, <3>8
  <2>2. CASE ~(i > Len(chain.keys))
    <3>1. i \in 1..Len(chain.keys)
      BY <1>2, <2>2
    <3>2. /\ [chain.keys EXCEPT ![i] = k] \in Seq(Hotkeys)
          /\ Len([chain.keys EXCEPT ![i] = k]) = Len(chain.keys)
          /\ \A j \in 1..Len(chain.keys) : [chain.keys EXCEPT ![i] = k][j] = (IF j = i THEN k ELSE chain.keys[j])
      BY <1>2, <3>1, ExceptSeq
    <3>3. /\ [chain.permits EXCEPT ![i] = FALSE] \in Seq(BOOLEAN)
          /\ Len([chain.permits EXCEPT ![i] = FALSE]) = Len(chain.keys)
          /\ \A j \in 1..Len(chain.keys) : j # i => [chain.permits EXCEPT ![i] = FALSE][j] = chain.permits[j]
      <4>1. \A p \in Seq(BOOLEAN), e \in BOOLEAN : \A n \in 1..Len(p) :
              /\ [p EXCEPT ![n] = e] \in Seq(BOOLEAN) /\ Len([p EXCEPT ![n] = e]) = Len(p)
              /\ \A j \in 1..Len(p) : j # n => [p EXCEPT ![n] = e][j] = p[j]
        BY ExceptSeq
      <4>2. QED
        BY <1>2, <3>1, <4>1
    <3>4. g = [keys |-> [chain.keys EXCEPT ![i] = k], permits |-> [chain.permits EXCEPT ![i] = FALSE]]
      BY <2>2
    <3> HIDE DEF g
    <3>5. /\ g \in Graphs /\ g.keys = [chain.keys EXCEPT ![i] = k]
          /\ g.permits = [chain.permits EXCEPT ![i] = FALSE]
      BY <3>2, <3>3, <3>4 DEF Graphs
    <3>6. QED
      BY <1>2, <3>1, <3>2, <3>3, <3>5
  <2>3. QED
    BY <2>1, <2>2
<1> HIDE DEF g
<1>4. g.keys \in Seq(Hotkeys) /\ g.permits \in Seq(BOOLEAN) /\ DOMAIN g.keys = 1..Len(g.keys)
  BY <1>3 DEF Graphs
<1>5. k \notin steady
  <2>1. \A h \in steady : Place \in DOMAIN chain.keys /\ chain.keys[Place] = h
    BY <1>2 DEF Place
  <2>2. QED
    BY <2>1 DEF Range
<1>6. ASSUME NEW h \in S PROVE i # Place /\ \A j \in 1..Len(g.keys) : g.keys[j] = h <=> j = Place
  <2>1. \E j \in 1..Len(g.keys) : g.keys[j] = h
    BY <1>4 DEF Has, Range
  <2>2. h \in steady /\ h # k
    BY <1>5
  <2>3. \A j \in 1..Len(g.keys) : g.keys[j] = h => j # i /\ chain.keys[j] = h
    BY <1>3, <2>2
  <2>4. \A j \in 1..Len(g.keys) : j # i => j \in 1..Len(chain.keys)
    BY <1>2, <1>3
  <2>5. QED
    BY <1>2, <1>3, <2>1, <2>2, <2>3, <2>4
<1>7. Keys(g.keys, changes + 1, known \cup Range(g.keys), S)
  <2>1. g.keys # <<>> /\ Place \in DOMAIN g.keys
    BY <1>2, <1>3, <1>4 DEF Place
  <2>2. QED
    BY <1>2, <1>3, <1>4, <1>6, <2>1 DEF Keys
<1>8. Permits(g.permits, S)
  <2>1. SUFFICES ASSUME S # {} PROVE Place \in DOMAIN g.permits /\ g.permits[Place] = TRUE
    BY <1>4 DEF Permits
  <2>2. i # Place /\ chain.permits[Place] = TRUE
    BY <1>2, <1>6, <2>1
  <2>3. Place \in 1..Len(g.keys) /\ DOMAIN g.permits = 1..Len(g.keys)
    BY <1>2, <1>3, <1>4 DEF Place
  <2>4. QED
    BY <1>3, <2>2, <2>3
<1>9. Fits(g, changes + 1, known \cup Range(g.keys), S)
  BY <1>3, <1>7, <1>8 DEF Fits
<1>10. Change(g)
  BY <1>1 DEF g
<1>11. QED
  BY <1>3, <1>9, <1>10, ChangeIInv

LEMMA TogglePermitIInv == IInv /\ TogglePermit => IInv'
<1> SUFFICES ASSUME IInv, TogglePermit PROVE IInv'
  OBVIOUS
<1>1. PICK i \in DOMAIN chain.keys : Change([chain EXCEPT !.permits[i] = ~@])
  BY DEF TogglePermit
<1> DEFINE g == [chain EXCEPT !.permits[i] = ~@]
           S == {h \in steady : Has(g, h) /\ g.permits[UidOf(g, h)]}
<1>2. /\ chain \in Graphs /\ chain.keys \in Seq(Hotkeys) /\ chain.permits \in Seq(BOOLEAN)
      /\ Len(chain.keys) = Len(chain.permits) /\ Len(chain.keys) >= Place /\ Len(chain.keys) \in Nat
      /\ changes \in Nat /\ Keys(chain.keys, changes, known, steady) /\ Permits(chain.permits, steady)
  BY DEF IInv, TypeOK, Graphs, Views, Fits
<1>3. i \in 1..Len(chain.permits) /\ (~chain.permits[i]) \in BOOLEAN
  BY <1>1, <1>2
<1>4. /\ [chain.permits EXCEPT ![i] = ~chain.permits[i]] \in Seq(BOOLEAN)
      /\ Len([chain.permits EXCEPT ![i] = ~chain.permits[i]]) = Len(chain.permits)
      /\ \A j \in 1..Len(chain.permits) :
           [chain.permits EXCEPT ![i] = ~chain.permits[i]][j] = (IF j = i THEN ~chain.permits[i] ELSE chain.permits[j])
  BY <1>2, <1>3, ExceptSeq
<1>5. g.keys = chain.keys /\ g.permits = [chain.permits EXCEPT ![i] = ~chain.permits[i]] /\ g \in Graphs
  BY <1>2, <1>4 DEF Graphs
<1> HIDE DEF g
<1>6. Keys(g.keys, changes + 1, known \cup Range(g.keys), S)
  BY <1>2, <1>5 DEF Keys
<1>7. Permits(g.permits, S)
  <2>1. SUFFICES ASSUME NEW h \in S PROVE Place \in DOMAIN g.permits /\ g.permits[Place] = TRUE
    BY <1>4, <1>5 DEF Permits
  <2>2. Place \in 1..Len(chain.permits) /\ DOMAIN g.permits = 1..Len(chain.permits)
    BY <1>2, <1>4, <1>5 DEF Place
  <2>3. UidOf(g, h) = Place
    <3>1. \A j \in DOMAIN g.keys : g.keys[j] = h <=> j = Place
      BY <1>6 DEF Keys
    <3>2. Place \in DOMAIN g.keys
      BY <1>6 DEF Keys
    <3>3. QED
      BY <3>1, <3>2 DEF UidOf
  <2>4. g.permits[Place] \in BOOLEAN
    <3>1. g.permits \in Seq(BOOLEAN) /\ Len(g.permits) = Len(chain.permits)
      BY <1>4, <1>5
    <3>2. QED
      BY <2>2, <3>1, ElementOfSeq
  <2>5. QED
    BY <2>2, <2>3, <2>4
<1>8. Fits(g, changes + 1, known \cup Range(g.keys), S)
  BY <1>5, <1>6, <1>7 DEF Fits
<1>9. Change(g) /\ Len(g.keys) = Len(g.permits) /\ Len(g.keys) >= Place
  BY <1>1, <1>2, <1>4, <1>5 DEF g
<1>10. QED
  BY <1>5, <1>8, <1>9, ChangeIInv

-------------------------------------------------------------------------------
(* The main thread and the sync: the challenges stay where they are.         *)
LEMMA MainIInv ==
  ASSUME IInv, UNCHANGED <<subnet, at, uid>>, TypeOK', Views'
  PROVE  IInv'
  BY DEF IInv, Judging, InGate, LetIn, SentAway, subnet

LEMMA StartIInv == IInv /\ (Connect \/ StartAxon \/ BeginSync) => IInv'
<1> SUFFICES ASSUME IInv, Connect \/ StartAxon \/ BeginSync PROVE IInv'
  OBVIOUS
<1>1. UNCHANGED <<subnet, at, uid>>
        /\ UNCHANGED <<production, chain, changes, known, steady, shutdown, faults>>
  BY DEF Connect, StartAxon, BeginSync, subnet
<1>2. In("running")' = In("running")
  BY <1>1 DEF In
<1>3. TypeOK'
  BY <1>1, <1>2 DEF IInv, TypeOK, Connect, StartAxon, BeginSync
<1>4. Views'
  BY <1>1 DEF IInv, Views, Syncing, Connect, StartAxon, BeginSync, Free
<1>5. QED
  BY <1>1, <1>3, <1>4, MainIInv

LEMMA SyncIInv == IInv /\ (SyncRaises \/ SyncHangs \/ Sync) => IInv'
<1> SUFFICES ASSUME IInv, SyncRaises \/ SyncHangs \/ Sync PROVE IInv'
  OBVIOUS
<1>1. UNCHANGED <<subnet, at, uid>>
        /\ UNCHANGED <<production, chain, changes, known, steady, stage, shutdown>>
  BY DEF SyncRaises, SyncHangs, Sync, ReplaceKeys, ReplacePermits, subnet
<1>2. In("running")' = In("running")
  BY <1>1 DEF In
<1>3. stage # "init" /\ Fits(gate, changes, known, steady)
  BY DEF IInv, Views, SyncRaises, SyncHangs, Sync, ReplaceKeys, ReplacePermits
<1>4. None \in Graphs
  BY DEF None, Graphs
<1>5. CASE SyncRaises \/ SyncHangs
  <2>1. gate' = gate /\ incoming' = None /\ ~Syncing' /\ sync' \in {"sleep", "hung"}
    BY <1>5 DEF SyncRaises, SyncHangs, Syncing
  <2>2. faults' \in 0..MaxFaults
    BY <1>5, MinerAssumption DEF SyncRaises, SyncHangs, IInv, TypeOK
  <2>3. TypeOK'
    BY <1>1, <1>2, <1>4, <2>1, <2>2 DEF IInv, TypeOK
  <2>4. Views'
    BY <1>1, <1>3, <2>1 DEF IInv, Views
  <2>5. QED
    BY <1>1, <2>3, <2>4, MainIInv
<1>6. CASE Sync
  <2>1. Fits(incoming, changes, known, steady) /\ faults' = faults
    BY <1>6 DEF IInv, Views, Syncing, Sync, ReplaceKeys, ReplacePermits
  <2>2. gate' = [gate EXCEPT !.keys = incoming.keys] \/ gate' = [gate EXCEPT !.permits = incoming.permits]
    BY <1>6 DEF Sync, ReplaceKeys, ReplacePermits
  <2>3. Fits(gate', changes', known', steady')
    <3>1. /\ Fits([gate EXCEPT !.keys = incoming.keys], changes, known, steady)
          /\ Fits([gate EXCEPT !.permits = incoming.permits], changes, known, steady)
      BY <1>3, <2>1, Mixture
    <3>2. Fits(gate', changes, known, steady)
      BY <2>2, <3>1
    <3>3. QED
      BY <1>1, <3>2
  <2>4. /\ sync' \in {"sleep", "keysReplaced", "permitsReplaced"} /\ incoming' \in {incoming, None}
        /\ Syncing' => incoming' = incoming
    BY <1>6 DEF Sync, ReplaceKeys, ReplacePermits, Syncing
  <2>5. TypeOK'
    BY <1>1, <1>2, <1>4, <2>1, <2>3, <2>4 DEF IInv, TypeOK, Fits
  <2>6. Views'
    BY <1>1, <1>3, <2>1, <2>3, <2>4 DEF IInv, Views
  <2>7. QED
    BY <1>1, <2>5, <2>6, MainIInv
<1>7. QED
  BY <1>5, <1>6

LEMMA StopIInv == IInv /\ (Signal \/ RequestShutdown \/ Stop \/ UNCHANGED vars) => IInv'
<1> SUFFICES ASSUME IInv, Signal \/ RequestShutdown \/ Stop \/ UNCHANGED vars PROVE IInv'
  OBVIOUS
<1>1. /\ UNCHANGED <<subnet, at, uid>> /\ UNCHANGED <<production, chain, changes, known, steady, faults>>
      /\ UNCHANGED <<gate, sync, incoming>> /\ shutdown' \in {"no", "signalled", "requested"}
      /\ stage' = stage \/ (stage = "serving" /\ stage' = "stopped")
  BY DEF IInv, TypeOK, Signal, RequestShutdown, Stop, vars, subnet
<1>2. In("running")' = In("running")
  BY <1>1 DEF In
<1>3. TypeOK'
  BY <1>1, <1>2 DEF IInv, TypeOK
<1>4. Views'
  BY <1>1 DEF IInv, Views, Syncing
<1>5. QED
  BY <1>1, <1>3, <1>4, MainIInv

-------------------------------------------------------------------------------
(* A step of a challenge that does not begin a calibration leaves no more of  *)
(* them running than there were; one that does finds a free thread.          *)
LEMMA ChallengeTypes ==
  ASSUME IInv, UNCHANGED <<subnet, main, faults>>, NEW c \in Challenges, NEW s \in States,
         at' = [at EXCEPT ![c] = s], uid' \in 0..2 + MaxChanges,
         s = "running" => Cardinality(In("running")) < Threads
  PROVE  TypeOK'
<1>1. at \in [Challenges -> States]
  BY DEF IInv, TypeOK, States
<1>2. at' \in [Challenges -> States] /\ \A d \in Challenges : at'[d] = IF d = c THEN s ELSE at[d]
  BY <1>1
<1>3. IsFiniteSet(In("running")) /\ Cardinality(In("running")) \in Nat
  <2>1. Challenges = 1..Len(Senders) /\ Len(Senders) \in Nat
    BY MinerAssumption DEF Challenges
  <2>2. IsFiniteSet(Challenges)
    BY <2>1, FS_Interval
  <2>3. In("running") \subseteq Challenges
    BY DEF In
  <2>4. QED
    BY <2>2, <2>3, FS_Subset, FS_CardinalityType
<1>4. Cardinality(In("running")') <= Threads
  <2>1. CASE s = "running"
    <3>1. In("running")' = In("running") \cup {c}
      BY <1>2, <2>1 DEF In
    <3>2. Cardinality(In("running")') \in {Cardinality(In("running")), Cardinality(In("running")) + 1}
      BY <1>3, <3>1, FS_AddElement
    <3>3. QED
      BY <1>3, <2>1, <3>2, MinerAssumption
  <2>2. CASE s # "running"
    <3>1. In("running")' \in SUBSET In("running")
      BY <1>2, <2>2 DEF In
    <3>2. Cardinality(In("running")') <= Cardinality(In("running"))
      BY <1>3, <3>1, FS_Subset
    <3>3. Cardinality(In("running")') \in Nat
      BY <1>3, <3>1, FS_Subset, FS_CardinalityType
    <3>4. QED
      BY <1>3, <3>2, <3>3, MinerAssumption DEF IInv, TypeOK
  <2>3. QED
    BY <2>1, <2>2
<1>5. QED
  BY <1>2, <1>4 DEF IInv, TypeOK, States, subnet, main

LEMMA ChallengeViews == IInv /\ UNCHANGED <<subnet, main>> => Views'
  BY DEF IInv, Views, Syncing, subnet, main

(* The gate reads the metagraph three times, and the sync may come between.  *)
LEMMA GateIInv ==
  ASSUME IInv, NEW c \in Challenges, CheckMember(c) \/ FindUid(c) \/ Judge(c)
  PROVE  IInv'
<1> USE DEF Move
<1>1. /\ UNCHANGED <<subnet, main, faults>> /\ UNCHANGED <<known, steady>> /\ stage = "serving"
      /\ at \in [Challenges -> States] /\ uid \in 0..2 + MaxChanges
  BY DEF IInv, TypeOK, States, CheckMember, FindUid, Judge, subnet
<1>2. Fits(gate, changes, known, steady) /\ changes \in 0..MaxChanges
  BY <1>1 DEF IInv, Views, TypeOK
<1>3. gate # None /\ Range(gate.keys) \subseteq known
  BY <1>2 DEF Fits, Keys, None
<1>4. Has(gate, Senders[c]) => Senders[c] \in known
  BY <1>3 DEF Has
<1>5. CASE CheckMember(c)
  <2> DEFINE s == IF Has(gate, Senders[c]) THEN "member" ELSE "refused"
  <2>1. /\ at[c] = "arrived" /\ at' = [at EXCEPT ![c] = s] /\ uid' = uid
        /\ \A d \in Challenges : ~InGate(d)
    BY <1>3, <1>5 DEF CheckMember, In, InGate
  <2>2. ~Has(gate, Senders[c]) => Senders[c] \notin steady
    BY <1>2, SteadyUid
  <2>3. s \in States /\ s # "running"
    BY DEF States
  <2>4. TypeOK'
    BY <1>1, <2>1, <2>3, ChallengeTypes
  <2>5. Judging'
    BY <1>1, <1>4, <2>1, <2>2 DEF IInv, Judging, InGate, LetIn, SentAway
  <2>6. QED
    BY <1>1, <2>4, <2>5, ChallengeViews DEF IInv
<1>6. CASE FindUid(c)
  <2> DEFINE s == IF Has(gate, Senders[c]) THEN "found" ELSE "error"
  <2>1. /\ at[c] = "member" /\ at' = [at EXCEPT ![c] = s]
        /\ uid' = IF Has(gate, Senders[c]) THEN UidOf(gate, Senders[c]) ELSE uid
    BY <1>6 DEF FindUid
  <2>2. Senders[c] \in steady => Has(gate, Senders[c]) /\ UidOf(gate, Senders[c]) = Place
    BY <1>2, SteadyUid
  <2>3. uid' \in 0..2 + MaxChanges
    <3>1. Has(gate, Senders[c]) => UidOf(gate, Senders[c]) \in 1..2 + changes
      BY <1>2, AnyUid
    <3>2. QED
      BY <1>1, <1>2, <2>1, <3>1, MinerAssumption
  <2>4. s \in States /\ s # "running"
    BY DEF States
  <2>5. TypeOK'
    BY <1>1, <2>1, <2>3, <2>4, ChallengeTypes
  <2>6. Judging'
    <3>1. \A d \in Challenges : InGate(d) => d = c
      BY <2>1 DEF IInv, Judging, InGate
    <3>2. QED
      BY <1>1, <2>1, <2>2, <3>1 DEF IInv, Judging, InGate, LetIn, SentAway
  <2>7. QED
    BY <1>1, <2>5, <2>6, ChallengeViews DEF IInv
<1>7. CASE Judge(c)
  <2> DEFINE s == IF production /\ ~(uid \in DOMAIN gate.permits /\ gate.permits[uid])
                    THEN "refused" ELSE "accepted"
  <2>1. at[c] = "found" /\ at' = [at EXCEPT ![c] = s] /\ uid' = 0
    BY <1>7 DEF Judge
  <2>2. Senders[c] \in steady => uid = Place /\ Place \in DOMAIN gate.permits
          /\ gate.permits[Place] = TRUE
    BY <1>2, <2>1, SteadyUid DEF IInv, Judging
  <2>3. s \in States /\ s # "running" /\ (s = "refused" => Senders[c] \notin steady)
          /\ s \in {"refused", "accepted"}
    BY <2>2 DEF States
  <2>4. 0 \in 0..2 + MaxChanges
    BY MinerAssumption
  <2> HIDE DEF s
  <2>5. TypeOK'
    BY <1>1, <2>1, <2>3, <2>4, ChallengeTypes
  <2>6. Judging'
    <3>1. \A d \in Challenges : InGate(d) => d = c
      BY <2>1 DEF IInv, Judging, InGate
    <3>2. QED
      BY <1>1, <2>1, <2>3, <3>1 DEF IInv, Judging, InGate, LetIn, SentAway
  <2>7. QED
    BY <1>1, <2>5, <2>6, ChallengeViews DEF IInv
<1>8. QED
  BY <1>5, <1>6, <1>7

(* Before the gate and after it.                                             *)
LEMMA ServeIInv ==
  ASSUME IInv, NEW c \in Challenges, Send(c) \/ Forward(c) \/ BeginCalibration(c) \/ EndCalibration(c)
  PROVE  IInv'
<1>1. /\ UNCHANGED <<subnet, main, faults>> /\ UNCHANGED <<known, steady, uid>>
      /\ at \in [Challenges -> States] /\ uid \in 0..2 + MaxChanges
  BY DEF IInv, TypeOK, States, Send, Forward, BeginCalibration, EndCalibration, subnet
<1>2. PICK s \in States :
        /\ at' = [at EXCEPT ![c] = s]
        /\ \/ at[c] = "unsent" /\ s = "arrived"
           \/ LetIn(c) /\ s \in {"empty", "queued", "running", "answered"}
        /\ s = "running" => Cardinality(In("running")) < Threads
  <2> USE DEF Move, LetIn
  <2>0. {"arrived", "empty", "queued", "running", "answered"} \subseteq States
    BY DEF States
  <2>1. CASE Send(c)
    BY <2>0, <2>1 DEF Send
  <2>2. CASE Forward(c)
    BY <2>0, <2>2 DEF Forward
  <2>3. CASE BeginCalibration(c)
    BY <2>0, <2>3 DEF BeginCalibration
  <2>4. CASE EndCalibration(c)
    BY <2>0, <2>4 DEF EndCalibration
  <2>5. QED
    BY <2>1, <2>2, <2>3, <2>4
<1>3. TypeOK'
  BY <1>1, <1>2, ChallengeTypes
<1>4. Judging'
  BY <1>1, <1>2 DEF IInv, Judging, InGate, LetIn, SentAway
<1>5. QED
  BY <1>1, <1>3, <1>4, ChallengeViews DEF IInv

LEMMA MinerInvariant == Spec => []IInv
<1>1. IInv /\ [Next]_vars => IInv'
  BY RegisterIInv, TogglePermitIInv, StartIInv, SyncIInv, StopIInv, GateIInv, ServeIInv
     DEF Next, Gate, Pool
<1>2. QED
  BY InitIInv, <1>1, PTL DEF Spec

(* The state of the miner keeps its shape, and no more calibrations run than  *)
(* there are threads (miner/calibration/bayesian.py:104-115).                 *)
THEOREM MinerTypes == Spec => []TypeOK
  BY MinerInvariant, PTL DEF IInv

(* blacklist_fn (miner/main.py:48-93) never turns away a validator that keeps *)
(* its registration and its permit, for any number of changes on the chain    *)
(* and wherever the sync meets it between two reads.                          *)
THEOREM SteadyAreServed == Spec => []SteadyServed
<1>1. IInv => SteadyServed
  BY DEF IInv, Judging, SentAway, SteadyServed, In
<1>2. QED
  BY MinerInvariant, <1>1, PTL

(* Nobody who was never registered gets past blacklist_fn: the metagraph is   *)
(* there before the axon serves (miner/main.py:48-93, 108-219).               *)
THEOREM StrangersStayOut == Spec => []StrangersRefused
<1>1. IInv => StrangersRefused
  BY DEF IInv, Judging, LetIn, StrangersRefused
<1>2. QED
  BY MinerInvariant, <1>1, PTL
===============================================================================
