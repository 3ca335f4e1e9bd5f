---------------------------- MODULE ScoreWindowProofs ----------------------------
(***************************************************************************)
(* From submissions to averages, for any miners, submissions, ceiling,      *)
(* number of paid ranks and pruning threshold: a submission that is better   *)
(* in every metric never earns less, a rejected one has no part in what the  *)
(* others earn, and the moving average is the discounted sum it stands for.  *)
(*                                                                          *)
(* The invariants say little: the newest round maps some miners to results   *)
(* (Scorable), the rounds of the window map some to scores (Scored).  The    *)
(* proofs are about the operators of scoring/engine.py and window_ema.py,    *)
(* which sum, take a maximum, halve along a ranking and fold over rounds.    *)
(* The first part gives these their laws: folds and recursive functions are  *)
(* defined by CHOOSE, so that each law starts from the existence of what is  *)
(* chosen.                                                                   *)
(***************************************************************************)
EXTENDS ScoreWindow, WellFoundedInduction, FiniteSetTheorems, TLAPS

-------------------------------------------------------------------------------
(* Sums over finite sets.                                                    *)

(* A set of numbers has a least one. *)
LEMMA NatMin ==
  ASSUME NEW T \in SUBSET Nat, T # {}
  PROVE  \E x \in T : \A y \in T : x <= y
<1>1. IsWellFoundedOn(OpToRel(<, Nat), Nat)
  BY NatLessThanWellFounded
<1>2. PICK x \in T : \A y \in T : ~(<<y, x>> \in OpToRel(<, Nat))
  BY <1>1, WFMin
<1>3. \A y \in T : ~(y < x)
  BY <1>2 DEF OpToRel
<1>4. QED
  BY <1>3

(* Induction over a finite set, for a family of its subsets. *)
LEMMA Grow ==
  ASSUME NEW S, IsFiniteSet(S), NEW F \in SUBSET SUBSET S, {} \in F,
         \A T \in F : \A x \in S \ T : T \cup {x} \in F
  PROVE  S \in F
<1> DEFINE left == {Cardinality(S \ T) : T \in F}
<1>1. \A T \in F : IsFiniteSet(S \ T) /\ Cardinality(S \ T) \in Nat
  BY FS_Subset, FS_CardinalityType
<1>2. PICK n \in left : \A m \in left : n <= m
  <2>1. left \in SUBSET Nat /\ left # {}
    BY <1>1
  <2>2. QED
    BY <2>1, NatMin
<1>3. PICK T \in F : n = Cardinality(S \ T)
  OBVIOUS
<1>4. ASSUME NEW x \in S \ T PROVE FALSE
  <2>1. T \cup {x} \in F /\ S \ (T \cup {x}) = (S \ T) \ {x}
    BY <1>4
  <2>2. Cardinality((S \ T) \ {x}) = n - 1
    BY <1>1, <1>3, <1>4, FS_RemoveElement
  <2>3. n - 1 \in left
    BY <2>1, <2>2
  <2> HIDE DEF left
  <2>4. n \in Nat /\ n <= n - 1
    BY <1>1, <1>2, <1>3, <2>3
  <2>5. QED
    BY <2>4
<1>5. QED
  BY <1>4

\* g gives every part of S its sum of f, whichever element is taken first.
Sums(g, f, S) ==
  /\ g \in [SUBSET S -> Int]
  /\ g[{}] = 0
  /\ \A s \in SUBSET S : \A x \in s : g[s] = f[x] + g[s \ {x}]

Whole(f, S) == \A x \in S : f[x] \in Int

(* A finite set of integers has one. *)
LEMMA SumsExist ==
  ASSUME NEW f, NEW S, IsFiniteSet(S), Whole(f, S)
  PROVE  \E g : Sums(g, f, S)
<1> DEFINE F == {T \in SUBSET S : \E g : Sums(g, f, T)}
<1>1. {} \in F
  <2>1. Sums([s \in SUBSET {} |-> 0], f, {})
    BY DEF Sums
  <2>2. QED
    BY <2>1
<1>2. ASSUME NEW T \in F, NEW y \in S \ T
      PROVE  T \cup {y} \in F
  <2>1. PICK g : Sums(g, f, T)
    OBVIOUS
  <2> DEFINE U == T \cup {y}
             h == [s \in SUBSET U |-> IF y \in s THEN f[y] + g[s \ {y}] ELSE g[s]]
  <2>2. \A s \in SUBSET U : s \ {y} \in SUBSET T /\ (y \notin s => s \in SUBSET T)
    OBVIOUS
  <2>3. f[y] \in Int /\ \A t \in SUBSET T : g[t] \in Int
    BY <2>1 DEF Sums, Whole
  <2>4. h \in [SUBSET U -> Int] /\ h[{}] = 0
    <3>1. \A s \in SUBSET U : (IF y \in s THEN f[y] + g[s \ {y}] ELSE g[s]) \in Int
      BY <2>2, <2>3
    <3>2. {} \in SUBSET U /\ g[{}] = 0
      BY <2>1 DEF Sums
    <3>3. QED
      BY <3>1, <3>2
  <2>5. ASSUME NEW s \in SUBSET U, NEW x \in s
        PROVE  h[s] = f[x] + h[s \ {x}]
    <3>1. /\ s \ {x} \in SUBSET U
          /\ \A t \in SUBSET U : h[t] = IF y \in t THEN f[y] + g[t \ {y}] ELSE g[t]
      OBVIOUS
    <3> HIDE DEF h
    <3>2. CASE x = y
      <4>1. y \in s /\ y \notin s \ {y}
        BY <3>2
      <4>2. QED
        BY <3>1, <3>2, <4>1
    <3>3. CASE x # y /\ y \notin s
      BY <2>1, <2>2, <3>1, <3>3 DEF Sums
    <3>4. CASE x # y /\ y \in s
      <4>1. h[s] = f[y] + g[s \ {y}] /\ h[s \ {x}] = f[y] + g[(s \ {x}) \ {y}]
        BY <3>1, <3>4
      <4>2. s \ {y} \in SUBSET T /\ x \in s \ {y} /\ (s \ {x}) \ {y} = (s \ {y}) \ {x}
        BY <2>2, <3>4
      <4>3. g[s \ {y}] = f[x] + g[(s \ {y}) \ {x}]
        BY <2>1, <4>2 DEF Sums
      <4>4. f[x] \in Int /\ g[(s \ {y}) \ {x}] \in Int
        BY <2>3, <4>2 DEF Whole
      <4>5. h[s \ {x}] = f[y] + g[(s \ {y}) \ {x}]
        BY <4>1, <4>2, Zenon
      <4>6. QED
        BY <2>3, <4>1, <4>3, <4>4, <4>5
    <3>5. QED
      BY <3>2, <3>3, <3>4
  <2> HIDE DEF h
  <2>6. Sums(h, f, U)
    BY <2>4, <2>5 DEF Sums
  <2>7. QED
    BY <2>6
<1> HIDE DEF F
<1>3. F \in SUBSET SUBSET S
  BY DEF F
<1>4. S \in F
  BY <1>1, <1>2, <1>3, Grow
<1>5. QED
  BY <1>4 DEF F

(* The fold, which always takes the element that CHOOSE picks, computes it. *)
LEMMA SumsIs ==
  ASSUME NEW f, NEW S, IsFiniteSet(S), NEW g, Sums(g, f, S)
  PROVE  SumFunctionOnSet(f, S) = g[S]
<1> DEFINE Fold(h) == [s \in SUBSET S |-> IF s = {} THEN 0
                         ELSE LET x == CHOOSE y \in s : TRUE IN f[x] + h[s \ {x}]]
           h0 == CHOOSE h : h = Fold(h)
<1>1. SumFunctionOnSet(f, S) = h0[S]
  BY DEF SumFunctionOnSet, FoldFunctionOnSet, MapThenFoldSet
<1>2. g = Fold(g)
  <2>1. ASSUME NEW s \in SUBSET S PROVE g[s] = Fold(g)[s]
    BY DEF Sums
  <2>2. g = [s \in SUBSET S |-> g[s]]
    BY DEF Sums
  <2>3. QED
    BY <2>1, <2>2
<1>3. h0 = Fold(h0)
  BY <1>2
<1> HIDE DEF h0
<1>4. \A s \in SUBSET S : h0[s] = IF s = {} THEN 0
                         ELSE LET x == CHOOSE y \in s : TRUE IN f[x] + h0[s \ {x}]
  BY <1>3
<1>5. \A s \in SUBSET S : h0[s] = g[s]
  <2> DEFINE wrong == {s \in SUBSET S : h0[s] # g[s]}
             sizes == {Cardinality(s) : s \in wrong}
  <2>1. SUFFICES ASSUME wrong # {} PROVE FALSE
    OBVIOUS
  <2>2. \A s \in SUBSET S : IsFiniteSet(s) /\ Cardinality(s) \in Nat
    BY FS_Subset, FS_CardinalityType
  <2>3. PICK n \in sizes : \A m \in sizes : n <= m
    <3>1. sizes \in SUBSET Nat /\ sizes # {}
      BY <2>1, <2>2
    <3>2. QED
      BY <3>1, NatMin
  <2>4. PICK s \in wrong : n = Cardinality(s)
    OBVIOUS
  <2>5. s # {}
    BY <1>4, <2>4 DEF Sums
  <2>6. PICK x \in s : h0[s] = f[x] + h0[s \ {x}]
    <3>1. (CHOOSE y \in s : TRUE) \in s
      BY <2>5
    <3>2. QED
      BY <1>4, <2>5, <3>1
  <2>7. s \ {x} \in SUBSET S /\ Cardinality(s \ {x}) = n - 1
    BY <2>2, <2>4, FS_RemoveElement
  <2>8. s \ {x} \notin wrong
    BY <2>2, <2>3, <2>4, <2>7
  <2>9. QED
    BY <2>4, <2>6, <2>7, <2>8 DEF Sums
<1>6. QED
  BY <1>1, <1>5

(* A sum may be taken one element at a time, in any order. *)
LEMMA SumRemove ==
  ASSUME NEW f, NEW S, IsFiniteSet(S), Whole(f, S)
  PROVE  /\ SumFunctionOnSet(f, {}) = 0
         /\ SumFunctionOnSet(f, S) \in Int
         /\ \A x \in S : SumFunctionOnSet(f, S) = f[x] + SumFunctionOnSet(f, S \ {x})
<1>1. PICK g : Sums(g, f, S)
  BY SumsExist
<1>2. ASSUME NEW T \in SUBSET S
      PROVE  SumFunctionOnSet(f, T) = g[T]
  <2>1. Sums([s \in SUBSET T |-> g[s]], f, T)
    BY <1>1 DEF Sums
  <2>2. IsFiniteSet(T)
    BY FS_Subset
  <2>3. SumFunctionOnSet(f, T) = [s \in SUBSET T |-> g[s]][T]
    BY <2>1, <2>2, SumsIs
  <2>4. QED
    BY <2>3
<1>3. QED
  BY <1>1, <1>2 DEF Sums

(* Only the values on the set count. *)
LEMMA SumAgree ==
  ASSUME NEW f, NEW h, NEW S, IsFiniteSet(S), Whole(f, S), \A x \in S : h[x] = f[x]
  PROVE  SumFunctionOnSet(h, S) = SumFunctionOnSet(f, S)
<1>1. PICK g : Sums(g, f, S)
  BY SumsExist
<1>2. Sums(g, h, S)
  BY <1>1 DEF Sums
<1>3. QED
  BY <1>1, <1>2, SumsIs

(* Natural numbers sum up to one. *)
LEMMA SumNat ==
  ASSUME NEW f, NEW S, IsFiniteSet(S), \A x \in S : f[x] \in Nat
  PROVE  SumFunctionOnSet(f, S) \in Nat
<1> DEFINE F == {T \in SUBSET S : SumFunctionOnSet(f, T) \in Nat}
<1>1. {} \in F
  BY SumRemove, FS_EmptySet DEF Whole
<1>2. ASSUME NEW T \in F, NEW x \in S \ T PROVE T \cup {x} \in F
  <2>1. IsFiniteSet(T \cup {x}) /\ Whole(f, T \cup {x}) /\ (T \cup {x}) \ {x} = T
    BY FS_Subset DEF Whole
  <2>2. SumFunctionOnSet(f, T \cup {x}) = f[x] + SumFunctionOnSet(f, T)
    BY <2>1, SumRemove
  <2>3. QED
    BY <2>2
<1> HIDE DEF F
<1>3. F \in SUBSET SUBSET S
  BY DEF F
<1>4. S \in F
  BY <1>1, <1>2, <1>3, Grow
<1>5. QED
  BY <1>4 DEF F

-------------------------------------------------------------------------------
(* The largest of finitely many numbers, and powers of two.                  *)

(* A function on finitely many miners has a largest value. *)
LEMMA Largest ==
  ASSUME NEW D, IsFiniteSet(D), D # {}, NEW c \in [D -> Int]
  PROVE  \E x \in D : (\A y \in D : c[x] >= c[y]) /\ Max(Range(c)) = c[x]
<1> DEFINE F == {T \in SUBSET D : T # {} => \E x \in T : \A y \in T : c[x] >= c[y]}
<1>1. {} \in F
  OBVIOUS
<1>2. ASSUME NEW T \in F, NEW z \in D \ T PROVE T \cup {z} \in F
  <2>1. c[z] \in Int /\ \A y \in T : c[y] \in Int
    OBVIOUS
  <2>2. CASE T = {}
    BY <2>1, <2>2
  <2>3. CASE T # {}
    <3>1. PICK x \in T : \A y \in T : c[x] >= c[y]
      BY <2>3
    <3>2. CASE c[x] >= c[z]
      BY <3>1, <3>2
    <3>3. CASE ~(c[x] >= c[z])
      <4>1. \A y \in T \cup {z} : c[z] >= c[y]
        BY <2>1, <3>1, <3>3
      <4>2. QED
        BY <4>1
    <3>4. QED
      BY <3>2, <3>3
  <2>4. QED
    BY <2>2, <2>3
<1> HIDE DEF F
<1>3. F \in SUBSET SUBSET D
  BY DEF F
<1>4. D \in F
  BY <1>1, <1>2, <1>3, Grow
<1>5. PICK x \in D : \A y \in D : c[x] >= c[y]
  BY <1>4 DEF F
<1>6. Max(Range(c)) = c[x]
  <2> DEFINE m == Max(Range(c))
  <2>1. c[x] \in Range(c) /\ \A v \in Range(c) : c[x] >= v
    BY <1>5 DEF Range
  <2>2. m \in Range(c) /\ \A v \in Range(c) : m >= v
    BY <2>1 DEF Max
  <2>3. m \in Int /\ c[x] \in Int
    BY <2>2 DEF Range
  <2> HIDE DEF m
  <2>4. QED
    BY <2>1, <2>2, <2>3 DEF m
<1>7. QED
  BY <1>5, <1>6

(* A family of numbers with the first, and the next of each, has all. *)
LEMMA Count ==
  ASSUME NEW N \in SUBSET Nat, 0 \in N, \A n \in N : n + 1 \in N
  PROVE  N = Nat
<1>1. SUFFICES ASSUME N # Nat PROVE FALSE
  OBVIOUS
<1> DEFINE out == Nat \ N
<1>2. PICK n \in out : \A m \in out : n <= m
  <2>1. out \in SUBSET Nat /\ out # {}
    BY <1>1
  <2>2. QED
    BY <2>1, NatMin
<1>3. n # 0 /\ n - 1 \in Nat /\ n - 1 \notin out
  BY <1>2
<1>4. (n - 1) + 1 \in N
  BY <1>3
<1>5. QED
  BY <1>2, <1>3, <1>4

\* The powers of b up to n.
Powering(b, p, n) == p \in [0..n -> Nat] /\ p[0] = 1 /\ \A i \in 1..n : p[i] = b * p[i - 1]

(* A recursive power is a positive number, and multiplies with each step. *)
LEMMA PowersOf ==
  ASSUME NEW b \in Nat \ {0}, NEW f,
         f = CHOOSE h : h = [n \in Nat |-> IF n = 0 THEN 1 ELSE b * h[n - 1]]
  PROVE  /\ f[0] = 1
         /\ \A n \in Nat : f[n] \in Nat \ {0} /\ f[n + 1] = b * f[n]
<1> DEFINE F == {n \in Nat : \E p : Powering(b, p, n)}
<1>1. \A n \in Nat : \E p : Powering(b, p, n)
  <2>1. 0 \in F
    <3>1. Powering(b, [i \in 0..0 |-> 1], 0)
      BY DEF Powering
    <3>2. QED
      BY <3>1
  <2>2. ASSUME NEW n \in F PROVE n + 1 \in F
    <3>1. PICK p : Powering(b, p, n)
      OBVIOUS
    <3> DEFINE q == [i \in 0..(n + 1) |-> IF i = n + 1 THEN b * p[n] ELSE p[i]]
    <3>2. n \in Nat /\ p[n] \in Nat /\ \A i \in 0..n : p[i] \in Nat
      BY <3>1 DEF Powering
    <3>3. q \in [0..(n + 1) -> Nat] /\ q[0] = 1
      BY <3>1, <3>2 DEF Powering
    <3>4. ASSUME NEW i \in 1..(n + 1) PROVE q[i] = b * q[i - 1]
      <4>1. CASE i = n + 1
        <5>1. q[i] = b * p[n] /\ i - 1 = n /\ n \in 0..(n + 1) /\ n # n + 1
          BY <3>2, <4>1
        <5>2. q[n] = p[n]
          BY <5>1
        <5>3. QED
          BY <5>1, <5>2
      <4>2. CASE i # n + 1
        <5>1. i \in 1..n /\ i - 1 \in 0..(n + 1) /\ i - 1 # n + 1
          BY <3>2, <4>2
        <5>2. q[i] = p[i] /\ q[i - 1] = p[i - 1] /\ p[i] = b * p[i - 1]
          BY <3>1, <4>2, <5>1 DEF Powering
        <5>3. QED
          BY <5>2
      <4>3. QED
        BY <4>1, <4>2
    <3> HIDE DEF q
    <3>5. Powering(b, q, n + 1)
      BY <3>3, <3>4 DEF Powering
    <3>6. QED
      BY <3>2, <3>5
  <2> HIDE DEF F
  <2>3. F \in SUBSET Nat
    BY DEF F
  <2>4. F = Nat
    BY <2>1, <2>2, <2>3, Count
  <2>5. QED
    BY <2>4 DEF F
<1> HIDE DEF F
<1> DEFINE P(n) == CHOOSE p : Powering(b, p, n)
<1>2. \A n \in Nat : Powering(b, P(n), n)
  BY <1>1
<1> HIDE DEF P
<1>3. ASSUME NEW n \in Nat PROVE P(n)[n] = P(n + 1)[n]
  <2> DEFINE same == {i \in Nat : i <= n => P(n)[i] = P(n + 1)[i]}
  <2>1. Powering(b, P(n), n) /\ Powering(b, P(n + 1), n + 1)
    BY <1>2
  <2>2. 0 \in same
    BY <2>1 DEF Powering
  <2>3. ASSUME NEW i \in same PROVE i + 1 \in same
    <3>1. SUFFICES ASSUME i + 1 <= n PROVE P(n)[i + 1] = P(n + 1)[i + 1]
      OBVIOUS
    <3>2. i \in Nat /\ i <= n /\ i + 1 \in 1..n /\ i + 1 \in 1..(n + 1) /\ (i + 1) - 1 = i
      BY <3>1
    <3>3. P(n)[i + 1] = b * P(n)[i] /\ P(n + 1)[i + 1] = b * P(n + 1)[i]
      BY <2>1, <3>2 DEF Powering
    <3>4. QED
      BY <3>2, <3>3
  <2> HIDE DEF same
  <2>4. same \in SUBSET Nat
    BY DEF same
  <2>5. same = Nat
    BY <2>2, <2>3, <2>4, Count
  <2>6. QED
    BY <2>5 DEF same
<1> DEFINE g       == [n \in Nat |-> P(n)[n]]
           Step(h) == [n \in Nat |-> IF n = 0 THEN 1 ELSE b * h[n - 1]]
<1>4. g = Step(g)
  <2>1. ASSUME NEW n \in Nat PROVE g[n] = Step(g)[n]
    <3>1. CASE n = 0
      BY <1>2, <3>1 DEF Powering
    <3>2. CASE n # 0
      <4>1. n - 1 \in Nat /\ (n - 1) + 1 = n /\ n \in 1..n
        BY <3>2
      <4>2. P(n)[n] = b * P(n)[n - 1]
        BY <1>2, <4>1 DEF Powering
      <4>3. P(n - 1)[n - 1] = P(n)[n - 1]
        BY <1>3, <4>1
      <4>4. QED
        BY <3>2, <4>1, <4>2, <4>3
    <3>3. QED
      BY <3>1, <3>2
  <2>2. QED
    BY <2>1
<1> HIDE DEF g
<1>5. f = Step(f)
  <2>1. f = CHOOSE h : h = Step(h)
    OBVIOUS
  <2>2. QED
    BY <1>4, <2>1
<1>6. f[0] = 1 /\ \A n \in Nat : f[n + 1] = b * f[n]
  <2>1. \A n \in Nat : f[n] = IF n = 0 THEN 1 ELSE b * f[n - 1]
    BY <1>5
  <2>2. QED
    BY <2>1
<1>7. \A n \in Nat : f[n] \in Nat \ {0}
  <2> DEFINE good == {n \in Nat : f[n] \in Nat \ {0}}
  <2>1. 0 \in good /\ \A n \in good : n + 1 \in good
    BY <1>6
  <2> HIDE DEF good
  <2>2. good \in SUBSET Nat
    BY DEF good
  <2>3. good = Nat
    BY <2>1, <2>2, Count
  <2>4. QED
    BY <2>3 DEF good
<1>8. QED
  BY <1>6, <1>7

(* CVRMSE_DECAY_BASE ** r, turned around: a power of two is a positive number, *)
(* and doubles with each step.                                                 *)
LEMMA Powers ==
  /\ Pow2[0] = 1
  /\ \A n \in Nat : Pow2[n] \in Nat \ {0} /\ Pow2[n + 1] = 2 * Pow2[n]
<1>1. Pow2 = CHOOSE h : h = [n \in Nat |-> IF n = 0 THEN 1 ELSE 2 * h[n - 1]]
  BY DEF Pow2
<1>2. QED
  BY <1>1, PowersOf

(* A higher power is never smaller. *)
LEMMA PowersGrow ==
  ASSUME NEW m \in Nat, NEW n \in Nat, m <= n
  PROVE  Pow2[m] <= Pow2[n]
<1> DEFINE good == {k \in Nat : Pow2[m] <= Pow2[m + k]}
<1>1. 0 \in good
  BY Powers
<1>2. ASSUME NEW k \in good PROVE k + 1 \in good
  <2>1. m + k \in Nat /\ m + (k + 1) = (m + k) + 1
    OBVIOUS
  <2>2. Pow2[m + (k + 1)] = 2 * Pow2[m + k] /\ Pow2[m + k] \in Nat /\ Pow2[m] \in Nat
    BY <2>1, Powers
  <2>3. QED
    BY <2>2
<1> HIDE DEF good
<1>3. good \in SUBSET Nat
  BY DEF good
<1>4. good = Nat
  BY <1>1, <1>2, <1>3, Count
<1>5. n - m \in good /\ m + (n - m) = n
  BY <1>4
<1>6. QED
  BY <1>5 DEF good

-------------------------------------------------------------------------------
(* The operators of scoring/engine.py on the submissions of a round.         *)

Scorable(v) ==
  /\ IsFiniteSet(DOMAIN v) /\ DOMAIN v \subseteq Nat
  /\ v \in [DOMAIN v -> Submissions]

\* Who is ranked in front of u.
Ahead(v, u) == {w \in Eligible(v) :
                  \/ v[w].cvrmse < v[u].cvrmse
                  \/ v[w].cvrmse = v[u].cvrmse /\ w < u}

(* Ranks and the number of paid ranks are numbers. *)
LEMMA Ranks ==
  ASSUME NEW v, Scorable(v)
  PROVE  /\ IsFiniteSet(Eligible(v)) /\ PaidRanks(v) \in Nat
         /\ Eligible(v) # {} => PaidRanks(v) > 0
         /\ \A u \in DOMAIN v : IsFiniteSet(Ahead(v, u))
                               /\ Rank(v, u) = Cardinality(Ahead(v, u)) /\ Rank(v, u) \in Nat
<1>1. IsFiniteSet(Eligible(v)) /\ Cardinality(Eligible(v)) \in Nat
  <2>1. Eligible(v) \subseteq DOMAIN v
    BY DEF Eligible
  <2>2. QED
    BY <2>1, FS_Subset, FS_CardinalityType DEF Scorable
<1>2. Eligible(v) # {} => Cardinality(Eligible(v)) > 0
  BY <1>1, FS_EmptySet
<1>3. ASSUME NEW u \in DOMAIN v
      PROVE  IsFiniteSet(Ahead(v, u)) /\ Rank(v, u) = Cardinality(Ahead(v, u)) /\ Rank(v, u) \in Nat
  <2>1. Ahead(v, u) \subseteq Eligible(v)
    BY DEF Ahead
  <2>2. IsFiniteSet(Ahead(v, u)) /\ Cardinality(Ahead(v, u)) \in Nat
    BY <1>1, <2>1, FS_Subset, FS_CardinalityType
  <2>3. QED
    BY <2>2 DEF Ahead, Rank
<1>4. QED
  BY <1>1, <1>2, <1>3, EngineAssumption DEF PaidRanks

(* The score of a rank is a number; only an eligible submission has one. *)
LEMMA RankScores ==
  ASSUME NEW v, Scorable(v), NEW u \in DOMAIN v
  PROVE  RankScore(v, u) \in Nat
<1>1. PaidRanks(v) \in Nat /\ Rank(v, u) \in Nat
  BY Ranks
<1>2. Rank(v, u) < PaidRanks(v) => PaidRanks(v) - 1 - Rank(v, u) \in Nat
  BY <1>1
<1>3. QED
  BY <1>2, Powers DEF RankScore

(* What a clean submission gets for anything but its rank, in units of the   *)
(* last paid rank's score.                                                   *)
Others(s) == 25 * Clamp(10 - s.nmbe) + 15 * Clamp(s.r2) + 10 * Clamp(10 - s.sims)

LEMMA OthersNat == \A s \in Submissions : Others(s) \in Nat
  BY DEF Others, Clamp, Submissions

(* The composite of a submission is a number, 0 for a rejected one. *)
LEMMA Composites ==
  ASSUME NEW v, Scorable(v), NEW u \in DOMAIN v
  PROVE  /\ Composite(v, u) \in Nat
         /\ v[u].rejected => Composite(v, u) = 0
         /\ ~v[u].rejected =>
              Composite(v, u) = 500 * RankScore(v, u) + Others(v[u]) * (Pow2[PaidRanks(v)] - 1)
<1>1. v[u] \in Submissions
  BY DEF Scorable
<1>2. ~v[u].rejected =>
        Composite(v, u) = 500 * RankScore(v, u) + Others(v[u]) * (Pow2[PaidRanks(v)] - 1)
  BY DEF Composite, Others
<1>3. v[u].rejected => Composite(v, u) = 0
  BY DEF Composite
<1>4. RankScore(v, u) \in Nat
  BY RankScores
<1>5. Pow2[PaidRanks(v)] - 1 \in Nat
  BY Ranks, Powers
<1>6. Others(v[u]) \in Nat
  BY <1>1, OthersNat
<1>7. \A a, b, c \in Nat : 500 * a + b * c \in Nat
  OBVIOUS
<1>8. v[u].rejected \in BOOLEAN
  BY <1>1 DEF Submissions
<1>9. QED
  BY <1>2, <1>3, <1>4, <1>5, <1>6, <1>7

\* The composites of a round, and the threshold of the score floor.
Scores(v) == [u \in DOMAIN v |-> Composite(v, u)]
Top(v)    == Max(Range(Scores(v)))

(* The powered scores are numbers, and follow the order of the composites. *)
LEMMA PoweredScores ==
  ASSUME NEW v, Scorable(v), DOMAIN v # {}
  PROVE  /\ DOMAIN Powered(v) = DOMAIN v
         /\ Top(v) \in Nat
         /\ \A u \in DOMAIN v :
              /\ Powered(v)[u] = IF 20 * Composite(v, u) >= Top(v)
                                 THEN Composite(v, u) * Composite(v, u) ELSE 0
              /\ Powered(v)[u] \in Nat
         /\ \A a, b \in DOMAIN v :
              Composite(v, b) <= Composite(v, a) => Powered(v)[b] <= Powered(v)[a]
<1>1. Scores(v) \in [DOMAIN v -> Nat] /\ \A u \in DOMAIN v : Scores(v)[u] = Composite(v, u)
  BY Composites DEF Scores
<1>2. Scores(v) \in [DOMAIN v -> Int]
  BY <1>1
<1>3. Top(v) \in Nat
  BY <1>1, <1>2, Largest DEF Top, Scorable
<1>4. /\ DOMAIN Powered(v) = DOMAIN v
      /\ \A u \in DOMAIN v : Powered(v)[u] = IF 20 * Composite(v, u) >= Top(v)
                                THEN Composite(v, u) * Composite(v, u) ELSE 0
  BY DEF Powered, Top, Scores
<1>5. \A x \in Nat : x * x \in Nat
  OBVIOUS
<1>6. \A u \in DOMAIN v : Powered(v)[u] \in Nat
  BY <1>4, <1>5, Composites
<1>7. ASSUME NEW a \in DOMAIN v, NEW b \in DOMAIN v, Composite(v, b) <= Composite(v, a)
      PROVE  Powered(v)[b] <= Powered(v)[a]
  <2>1. Composite(v, a) \in Nat /\ Composite(v, b) \in Nat
    BY Composites
  <2>2. \A x, y \in Nat : x <= y => x * x <= y * y
    OBVIOUS
  <2>3. CASE 20 * Composite(v, b) >= Top(v)
    <3>1. 20 * Composite(v, a) >= Top(v)
      BY <1>3, <1>7, <2>1, <2>3
    <3>2. QED
      BY <1>4, <1>7, <2>1, <2>2, <2>3, <3>1
  <2>4. CASE ~(20 * Composite(v, b) >= Top(v))
    BY <1>4, <1>6, <2>4
  <2>5. QED
    BY <2>3, <2>4
<1>8. QED
  BY <1>3, <1>4, <1>6, <1>7

(* The weights are the powered scores' share of their sum, which is a number. *)
LEMMA Weights ==
  ASSUME NEW v, Scorable(v), Eligible(v) # {}
  PROVE  LET total == SumFunctionOnSet(Powered(v), DOMAIN v)
         IN  /\ total \in Nat
             /\ Compute(v) = [u \in DOMAIN v |-> IF total > 0 THEN (100 * Powered(v)[u]) \div total ELSE 0]
<1>1. DOMAIN v # {}
  BY DEF Eligible
<1>2. DOMAIN Powered(v) = DOMAIN v /\ \A u \in DOMAIN v : Powered(v)[u] \in Nat
  BY <1>1, PoweredScores
<1>3. SumFunctionOnSet(Powered(v), DOMAIN v) \in Nat
  BY <1>2, SumNat DEF Scorable
<1>4. SumFunction(Powered(v)) = SumFunctionOnSet(Powered(v), DOMAIN v)
  BY <1>2 DEF SumFunction
<1>5. QED
  BY <1>3, <1>4 DEF Compute

-------------------------------------------------------------------------------
(* The better submission.                                                    *)

(* Who is better is ranked no later, and its composite is no smaller. *)
LEMMA BetterComposite ==
  ASSUME NEW v, Scorable(v), NEW a \in DOMAIN v, NEW b \in DOMAIN v, Better(v[a], v[b])
  PROVE  Composite(v, b) <= Composite(v, a)
<1>1. /\ v[a] \in Submissions /\ v[b] \in Submissions
      /\ ~v[a].rejected /\ ~v[b].rejected /\ v[a].cvrmse < v[b].cvrmse
      /\ v[a].nmbe <= v[b].nmbe /\ v[a].r2 >= v[b].r2 /\ v[a].sims <= v[b].sims
  BY DEF Scorable, Better
<1>2. Rank(v, a) <= Rank(v, b)
  <2>1. \A w \in Eligible(v) : v[w].cvrmse \in Int
    BY DEF Eligible, Scorable, Submissions
  <2>2. v[a].cvrmse \in Int /\ v[b].cvrmse \in Int
    BY <1>1 DEF Submissions
  <2>3. Ahead(v, a) \subseteq Ahead(v, b)
    BY <1>1, <2>1, <2>2 DEF Ahead
  <2>4. QED
    BY <2>3, Ranks, FS_Subset
<1>3. RankScore(v, b) <= RankScore(v, a)
  <2>1. PaidRanks(v) \in Nat /\ Rank(v, a) \in Nat /\ Rank(v, b) \in Nat
    BY Ranks
  <2>2. RankScore(v, a) \in Nat /\ RankScore(v, b) \in Nat
    BY RankScores
  <2>3. CASE b \in Eligible(v) /\ Rank(v, b) < PaidRanks(v)
    <3>1. a \in Eligible(v) /\ Rank(v, a) < PaidRanks(v)
      <4>1. v[a].cvrmse <= Ceiling
        BY <1>1, <2>3, EngineAssumption DEF Eligible, Submissions
      <4>2. QED
        BY <1>1, <1>2, <2>1, <2>3, <4>1 DEF Eligible
    <3> DEFINE m == PaidRanks(v) - 1 - Rank(v, b)
               n == PaidRanks(v) - 1 - Rank(v, a)
    <3>2. m \in Nat /\ n \in Nat /\ m <= n
      BY <1>2, <2>1, <2>3, <3>1
    <3>3. RankScore(v, b) = Pow2[m] /\ RankScore(v, a) = Pow2[n]
      BY <2>3, <3>1 DEF RankScore
    <3> HIDE DEF m, n
    <3>4. QED
      BY <3>2, <3>3, PowersGrow
  <2>4. CASE ~(b \in Eligible(v) /\ Rank(v, b) < PaidRanks(v))
    BY <2>2, <2>4 DEF RankScore
  <2>5. QED
    BY <2>3, <2>4
<1>4. Others(v[b]) <= Others(v[a]) /\ Others(v[a]) \in Nat /\ Others(v[b]) \in Nat
  <2>1. Others(v[b]) <= Others(v[a])
    BY <1>1 DEF Others, Clamp, Submissions
  <2>2. QED
    BY <1>1, <2>1, OthersNat
<1>5. Pow2[PaidRanks(v)] - 1 \in Nat
  BY Ranks, Powers
<1>6. RankScore(v, a) \in Nat /\ RankScore(v, b) \in Nat
  BY RankScores
<1>7. \A x, y, z \in Nat : x <= y => x * z <= y * z
  OBVIOUS
<1>8. Others(v[b]) * (Pow2[PaidRanks(v)] - 1) <= Others(v[a]) * (Pow2[PaidRanks(v)] - 1)
  BY <1>4, <1>5, <1>7
<1>9. \A x, y, z \in Nat : x * z \in Nat /\ y * z \in Nat
  OBVIOUS
<1> DEFINE pa == Others(v[a]) * (Pow2[PaidRanks(v)] - 1)
           pb == Others(v[b]) * (Pow2[PaidRanks(v)] - 1)
<1>10. pa \in Nat /\ pb \in Nat /\ pb <= pa
  BY <1>4, <1>5, <1>8, <1>9
<1>11. Composite(v, a) = 500 * RankScore(v, a) + pa /\ Composite(v, b) = 500 * RankScore(v, b) + pb
  BY <1>1, Composites
<1> HIDE DEF pa, pb
<1>12. QED
  BY <1>3, <1>6, <1>10, <1>11

(* Of two submissions of any round the better one does not earn less. *)
LEMMA BetterWeight ==
  ASSUME NEW v, Scorable(v), NEW a \in DOMAIN v, NEW b \in DOMAIN v, Better(v[a], v[b])
  PROVE  Compute(v)[a] >= Compute(v)[b]
<1>1. CASE Eligible(v) = {}
  BY <1>1 DEF Compute
<1>2. CASE Eligible(v) # {}
  <2> DEFINE total == SumFunctionOnSet(Powered(v), DOMAIN v)
  <2>1. /\ total \in Nat
        /\ Compute(v) = [u \in DOMAIN v |-> IF total > 0 THEN (100 * Powered(v)[u]) \div total ELSE 0]
    BY <1>2, Weights
  <2>2. Powered(v)[a] \in Nat /\ Powered(v)[b] \in Nat /\ Powered(v)[b] <= Powered(v)[a]
    BY PoweredScores, BetterComposite
  <2> HIDE DEF total
  <2>3. \A x, y, t \in Nat : x <= y /\ t > 0 => (100 * x) \div t <= (100 * y) \div t
    OBVIOUS
  <2>4. CASE total > 0
    BY <2>1, <2>2, <2>3, <2>4
  <2>5. CASE ~(total > 0)
    BY <2>1, <2>5
  <2>6. QED
    BY <2>4, <2>5
<1>3. QED
  BY <1>1, <1>2

-------------------------------------------------------------------------------
(* The rejected submission.                                                  *)

(* Without a rejected submission the same miners are eligible, ranked and paid *)
(* alike.                                                                      *)
LEMMA SameComposites ==
  ASSUME NEW v, Scorable(v), NEW u \in DOMAIN v, v[u].rejected
  PROVE  LET r == Restrict(v, DOMAIN v \ {u})
         IN  /\ Scorable(r) /\ DOMAIN r = DOMAIN v \ {u}
             /\ Eligible(r) = Eligible(v) /\ u \notin Eligible(v)
             /\ \A w \in DOMAIN r : Composite(r, w) = Composite(v, w)
<1> DEFINE r == Restrict(v, DOMAIN v \ {u})
<1>1. DOMAIN r = DOMAIN v \ {u} /\ \A w \in DOMAIN r : r[w] = v[w]
  BY DEF Restrict
<1>2. Scorable(r)
  <2>1. IsFiniteSet(DOMAIN r) /\ DOMAIN r \subseteq Nat
    BY <1>1, FS_Subset DEF Scorable
  <2>2. r \in [DOMAIN r -> Submissions]
    BY <1>1 DEF Scorable, Restrict
  <2>3. QED
    BY <2>1, <2>2 DEF Scorable
<1> HIDE DEF r
<1>3. Eligible(r) = Eligible(v) /\ u \notin Eligible(v)
  BY <1>1 DEF Eligible
<1>4. \A w \in Eligible(v) : w \in DOMAIN r /\ r[w] = v[w]
  BY <1>1, <1>3 DEF Eligible
<1>5. PaidRanks(r) = PaidRanks(v)
  BY <1>3 DEF PaidRanks
<1>6. ASSUME NEW w \in DOMAIN r PROVE Rank(r, w) = Rank(v, w)
  <2>1. r[w] = v[w]
    BY <1>1
  <2>2. Ahead(r, w) = Ahead(v, w)
    BY <1>3, <1>4, <2>1 DEF Ahead
  <2>3. QED
    BY <2>2, <1>1, <1>2, Ranks
<1>7. ASSUME NEW w \in DOMAIN r PROVE Composite(r, w) = Composite(v, w)
  <2>1. RankScore(r, w) = RankScore(v, w)
    BY <1>3, <1>5, <1>6 DEF RankScore
  <2>2. QED
    BY <1>1, <1>5, <2>1 DEF Composite
<1>8. QED
  BY <1>1, <1>2, <1>3, <1>7 DEF r

(* Leaving out a rejected submission leaves the others' weights as they are. *)
LEMMA WithoutRejected ==
  ASSUME NEW v, Scorable(v), NEW u \in DOMAIN v, v[u].rejected
  PROVE  Restrict(Compute(v), DOMAIN v \ {u}) = Compute(Restrict(v, DOMAIN v \ {u}))
<1> DEFINE D == DOMAIN v \ {u}
           r == Restrict(v, D)
<1>1. /\ Scorable(r) /\ DOMAIN r = D /\ Eligible(r) = Eligible(v) /\ u \notin Eligible(v)
      /\ \A w \in D : Composite(r, w) = Composite(v, w)
  BY SameComposites
<1> HIDE DEF r
<1>2. CASE Eligible(v) = {}
  <2>1. Compute(v) = [w \in DOMAIN v |-> 0] /\ Compute(r) = [w \in D |-> 0]
    BY <1>1, <1>2 DEF Compute
  <2>2. QED
    BY <2>1 DEF Restrict, r
<1>3. CASE Eligible(v) # {}
  <2>1. D # {} /\ DOMAIN v # {} /\ D \subseteq DOMAIN v
    BY <1>1, <1>3 DEF Eligible
  <2>2. Top(r) = Top(v)
    <3>1. Scores(v) \in [DOMAIN v -> Int] /\ Scores(r) \in [D -> Int]
      BY <1>1, Composites DEF Scores
    <3>2. \A w \in DOMAIN v : Scores(v)[w] = Composite(v, w) /\ Composite(v, w) \in Nat
      BY Composites DEF Scores
    <3>3. \A w \in D : Scores(r)[w] = Composite(v, w)
      BY <1>1 DEF Scores
    <3>4. Composite(v, u) = 0
      BY Composites
    <3>5. PICK x \in DOMAIN v : (\A y \in DOMAIN v : Scores(v)[x] >= Scores(v)[y]) /\ Top(v) = Scores(v)[x]
      BY <2>1, <3>1, Largest DEF Top, Scorable
    <3>6. PICK z \in D : (\A y \in D : Scores(r)[z] >= Scores(r)[y]) /\ Top(r) = Scores(r)[z]
      BY <1>1, <2>1, <3>1, Largest DEF Top, Scorable
    <3>7. Top(v) >= Top(r)
      BY <2>1, <3>2, <3>3, <3>5, <3>6
    <3>8. Top(r) >= Top(v)
      BY <2>1, <3>2, <3>3, <3>4, <3>5, <3>6
    <3>9. Top(r) \in Nat /\ Top(v) \in Nat
      BY <1>1, <2>1, PoweredScores
    <3>10. QED
      BY <3>7, <3>8, <3>9
  <2>3. \A w \in D : Powered(r)[w] = Powered(v)[w] /\ Powered(v)[w] \in Int
    BY <1>1, <2>1, <2>2, PoweredScores
  <2>4. Powered(v)[u] = 0
    BY <2>1, PoweredScores, Composites
  <2> DEFINE sv == SumFunctionOnSet(Powered(v), DOMAIN v)
             sr == SumFunctionOnSet(Powered(r), D)
  <2>5. sv = sr
    <3>1. IsFiniteSet(DOMAIN v) /\ IsFiniteSet(D)
      BY <1>1 DEF Scorable
    <3>2. Whole(Powered(v), DOMAIN v) /\ Whole(Powered(v), D)
      BY <2>1, PoweredScores DEF Whole
    <3>3. sv = Powered(v)[u] + SumFunctionOnSet(Powered(v), D)
      BY <3>1, <3>2, SumRemove
    <3>4. SumFunctionOnSet(Powered(v), D) \in Int
      BY <3>1, <3>2, SumRemove
    <3>5. sr = SumFunctionOnSet(Powered(v), D)
      BY <2>3, <3>1, <3>2, SumAgree
    <3>6. QED
      BY <2>4, <3>3, <3>4, <3>5
  <2>6. Compute(v) = [w \in DOMAIN v |-> IF sv > 0 THEN (100 * Powered(v)[w]) \div sv ELSE 0]
    BY <1>3, Weights
  <2>7. Compute(r) = [w \in D |-> IF sr > 0 THEN (100 * Powered(r)[w]) \div sr ELSE 0]
    BY <1>1, <1>3, Weights
  <2> HIDE DEF sv, sr
  <2>8. Restrict(Compute(v), D) = [w \in D |-> IF sv > 0 THEN (100 * Powered(v)[w]) \div sv ELSE 0]
    BY <2>1, <2>6 DEF Restrict
  <2>9. QED
    BY <2>3, <2>5, <2>7, <2>8 DEF r
<1>4. QED
  BY <1>2, <1>3

-------------------------------------------------------------------------------
(* The moving averages of validator/scoring/window_ema.py.                   *)

(* What is k times as much in every place is so in all. *)
LEMMA SumTimes ==
  ASSUME NEW f, NEW g, NEW S, IsFiniteSet(S), Whole(g, S), NEW k \in Nat, \A x \in S : f[x] = k * g[x]
  PROVE  SumFunctionOnSet(f, S) = k * SumFunctionOnSet(g, S)
<1> DEFINE F == {T \in SUBSET S : SumFunctionOnSet(f, T) = k * SumFunctionOnSet(g, T)}
<1>1. Whole(f, S)
  BY DEF Whole
<1>2. {} \in F
  <2>1. SumFunctionOnSet(f, {}) = 0 /\ SumFunctionOnSet(g, {}) = 0
    BY <1>1, SumRemove
  <2>2. QED
    BY <2>1
<1>3. ASSUME NEW T \in F, NEW x \in S \ T PROVE T \cup {x} \in F
  <2>1. IsFiniteSet(T \cup {x}) /\ (T \cup {x}) \ {x} = T /\ x \in T \cup {x} /\ IsFiniteSet(T)
    BY FS_Subset
  <2>2. Whole(f, T \cup {x}) /\ Whole(g, T \cup {x}) /\ Whole(g, T)
    BY <1>1 DEF Whole
  <2>3. /\ SumFunctionOnSet(f, T \cup {x}) = f[x] + SumFunctionOnSet(f, T)
        /\ SumFunctionOnSet(g, T \cup {x}) = g[x] + SumFunctionOnSet(g, T)
    BY <2>1, <2>2, SumRemove
  <2>4. SumFunctionOnSet(g, T) \in Int /\ g[x] \in Int /\ f[x] = k * g[x]
        /\ SumFunctionOnSet(f, T) = k * SumFunctionOnSet(g, T)
    BY <2>1, <2>2, SumRemove DEF Whole
  <2>5. \A a, b \in Int : k * a + k * b = k * (a + b)
    OBVIOUS
  <2>6. SumFunctionOnSet(f, T \cup {x}) = k * SumFunctionOnSet(g, T \cup {x})
    BY <2>3, <2>4, <2>5
  <2>7. QED
    BY <2>6
<1> HIDE DEF F
<1>4. F \in SUBSET SUBSET S
  BY DEF F
<1>5. S \in F
  BY <1>2, <1>3, <1>4, Grow
<1>6. QED
  BY <1>5 DEF F

(* The discounts of an average and its units. *)
LEMMA Discounts ==
  /\ SevenTo[0] = 1 /\ TenTo[0] = 1
  /\ \A n \in Nat : /\ SevenTo[n] \in Nat \ {0} /\ SevenTo[n + 1] = 7 * SevenTo[n]
                    /\ TenTo[n] \in Nat \ {0} /\ TenTo[n + 1] = 10 * TenTo[n]
<1>1. SevenTo = CHOOSE h : h = [n \in Nat |-> IF n = 0 THEN 1 ELSE 7 * h[n - 1]]
  BY DEF SevenTo
<1>2. TenTo = CHOOSE h : h = [n \in Nat |-> IF n = 0 THEN 1 ELSE 10 * h[n - 1]]
  BY DEF TenTo
<1>3. SevenTo[0] = 1 /\ \A n \in Nat : SevenTo[n] \in Nat \ {0} /\ SevenTo[n + 1] = 7 * SevenTo[n]
  BY <1>1, PowersOf
<1>4. TenTo[0] = 1 /\ \A n \in Nat : TenTo[n] \in Nat \ {0} /\ TenTo[n + 1] = 10 * TenTo[n]
  BY <1>2, PowersOf
<1>5. QED
  BY <1>3, <1>4

(* Units multiply. *)
LEMMA Units == \A a, b \in Nat : TenTo[a + b] = TenTo[a] * TenTo[b]
<1> SUFFICES ASSUME NEW a \in Nat PROVE \A b \in Nat : TenTo[a + b] = TenTo[a] * TenTo[b]
  OBVIOUS
<1> DEFINE good == {b \in Nat : TenTo[a + b] = TenTo[a] * TenTo[b]}
<1>1. 0 \in good
  <2>1. a + 0 = a /\ TenTo[a] \in Nat /\ TenTo[0] = 1
    BY Discounts
  <2>2. QED
    BY <2>1
<1>2. ASSUME NEW b \in good PROVE b + 1 \in good
  <2>1. a + b \in Nat /\ a + (b + 1) = (a + b) + 1 /\ b \in Nat
    OBVIOUS
  <2>2. /\ TenTo[a + (b + 1)] = 10 * TenTo[a + b] /\ TenTo[b + 1] = 10 * TenTo[b]
        /\ TenTo[a] \in Nat /\ TenTo[b] \in Nat /\ TenTo[a + b] = TenTo[a] * TenTo[b]
    BY <2>1, Discounts
  <2>3. \A x, y \in Nat : 10 * (x * y) = x * (10 * y)
    OBVIOUS
  <2>4. TenTo[a + (b + 1)] = TenTo[a] * TenTo[b + 1]
    BY <2>2, <2>3
  <2>5. QED
    BY <2>4
<1> HIDE DEF good
<1>3. good \in SUBSET Nat
  BY DEF good
<1>4. good = Nat
  BY <1>1, <1>2, <1>3, Count
<1>5. QED
  BY <1>4 DEF good

\* g gives every part of the first n rounds its fold.
Folding(g, w, n) ==
  g = [s \in SUBSET (1..n) |->
         IF s = {} THEN NoAverages ELSE Blend(g[s \ {Max(s)}], w[Max(s)])]

(* The last of a set of rounds is its largest number. *)
LEMMA LastRound ==
  ASSUME NEW k \in Nat, NEW s \in SUBSET (1..k), k \in s
  PROVE  Max(s) = k
<1>1. \A x \in s : (\A y \in s : x >= y) <=> x = k
  OBVIOUS
<1>2. QED
  BY <1>1 DEF Max

(* Any number of rounds has a fold. *)
LEMMA FoldingExists == \A w : \A n \in Nat : \E g : Folding(g, w, n)
<1> SUFFICES ASSUME NEW w PROVE \A n \in Nat : \E g : Folding(g, w, n)
  OBVIOUS
<1> DEFINE good == {n \in Nat : \E g : Folding(g, w, n)}
<1>1. 0 \in good
  <2> DEFINE g == [s \in SUBSET (1..0) |-> NoAverages]
  <2>1. \A s \in SUBSET (1..0) : s = {}
    OBVIOUS
  <2>2. Folding(g, w, 0)
    BY <2>1 DEF Folding
  <2>3. QED
    BY <2>2
<1>2. ASSUME NEW n \in good PROVE n + 1 \in good
  <2>1. n \in Nat
    OBVIOUS
  <2>2. PICK g : Folding(g, w, n)
    OBVIOUS
  <2> DEFINE h    == [s \in SUBSET (1..(n + 1)) |->
                        IF n + 1 \in s THEN Blend(g[s \ {n + 1}], w[n + 1]) ELSE g[s]]
             is(s) == IF s = {} THEN NoAverages ELSE Blend(h[s \ {Max(s)}], w[Max(s)])
  <2>3. ASSUME NEW s \in SUBSET (1..(n + 1)) PROVE h[s] = is(s)
    <3>1. CASE n + 1 \in s
      <4>1. Max(s) = n + 1 /\ s # {}
        BY <2>1, <3>1, LastRound
      <4>2. s \ {n + 1} \in SUBSET (1..(n + 1)) /\ n + 1 \notin s \ {n + 1}
        OBVIOUS
      <4>3. h[s \ {n + 1}] = g[s \ {n + 1}] /\ h[s] = Blend(g[s \ {n + 1}], w[n + 1])
        BY <3>1, <4>2
      <4> HIDE DEF h
      <4>4. QED
        BY <4>1, <4>3
    <3>2. CASE n + 1 \notin s
      <4>1. s \in SUBSET (1..n)
        BY <2>1, <3>2
      <4>2. s \ {Max(s)} \in SUBSET (1..(n + 1)) /\ n + 1 \notin s \ {Max(s)}
        BY <3>2
      <4>3. h[s] = g[s] /\ h[s \ {Max(s)}] = g[s \ {Max(s)}]
        BY <3>2, <4>2
      <4>4. g[s] = IF s = {} THEN NoAverages ELSE Blend(g[s \ {Max(s)}], w[Max(s)])
        BY <2>2, <4>1 DEF Folding
      <4> HIDE DEF h
      <4>5. QED
        BY <4>3, <4>4
    <3>3. QED
      BY <3>1, <3>2
  <2>4. h = [s \in SUBSET (1..(n + 1)) |-> h[s]]
    OBVIOUS
  <2> HIDE DEF h
  <2>5. Folding(h, w, n + 1)
    BY <2>3, <2>4 DEF Folding
  <2>6. QED
    BY <2>1, <2>5
<1> HIDE DEF good
<1>3. good \in SUBSET Nat
  BY DEF good
<1>4. good = Nat
  BY <1>1, <1>2, <1>3, Count
<1>5. QED
  BY <1>4 DEF good

(* compute_window_ema blends one round after the other. *)
LEMMA AveragesBlend ==
  ASSUME NEW w, NEW n \in Nat, DOMAIN w = 1..n
  PROVE  \E A : /\ A[0] = NoAverages
                /\ \A k \in 1..n : A[k] = Blend(A[k - 1], w[k])
                /\ Averages(w) = A[n]
<1> DEFINE Step(h) == [s \in SUBSET (1..n) |->
                         IF s = {} THEN NoAverages ELSE Blend(h[s \ {Max(s)}], w[Max(s)])]
           g == CHOOSE h : h = Step(h)
           A == [k \in 0..n |-> g[1..k]]
<1>1. g = Step(g)
  <2>1. \E h : h = Step(h)
    BY FoldingExists DEF Folding
  <2>2. QED
    BY <2>1
<1>2. Averages(w) = g[1..n]
  BY DEF Averages, FoldLeft, MapThenFoldSet
<1> HIDE DEF g
<1>3. A[0] = NoAverages
  <2>1. 1..0 = {} /\ {} \in SUBSET (1..n) /\ 0 \in 0..n
    OBVIOUS
  <2>2. g[{}] = NoAverages
    BY <1>1, <2>1
  <2>3. QED
    BY <2>1, <2>2
<1>4. ASSUME NEW k \in 1..n PROVE A[k] = Blend(A[k - 1], w[k])
  <2>1. /\ k \in Nat /\ k \in 0..n /\ k - 1 \in 0..n /\ 1..k \in SUBSET (1..n)
        /\ k \in 1..k /\ (1..k) \ {k} = 1..(k - 1) /\ 1..k # {}
    <3>1. k \in Nat /\ k >= 1 /\ k <= n
      OBVIOUS
    <3>2. k \in 0..n /\ k - 1 \in 0..n /\ k \in 1..k
      BY <3>1
    <3>3. 1..k \in SUBSET (1..n)
      BY <3>1
    <3>4. (1..k) \ {k} = 1..(k - 1)
      BY <3>1
    <3>5. QED
      BY <3>1, <3>2, <3>3, <3>4
  <2>2. Max(1..k) = k
    BY <2>1, LastRound
  <2>3. g[1..k] = Blend(g[(1..k) \ {Max(1..k)}], w[Max(1..k)])
    BY <1>1, <2>1
  <2>4. g[1..k] = Blend(g[1..(k - 1)], w[k])
    BY <2>1, <2>2, <2>3
  <2>5. QED
    BY <2>1, <2>4
<1>5. A[n] = g[1..n]
  OBVIOUS
<1> HIDE DEF A
<1>6. QED
  BY <1>2, <1>3, <1>4, <1>5

\* The rounds of the window give some miners a score each.
Scored == window \in Seq(UNION {[S -> Nat] : S \in SUBSET Uids})

(* So a miner has a score in each of them, if only zero. *)
LEMMA RoundScores ==
  ASSUME Scored, NEW i \in 1..Len(window)
  PROVE  /\ DOMAIN window[i] \subseteq Uids
         /\ \A u \in DOMAIN window[i] : window[i][u] \in Nat
         /\ \A u : ScoreIn(i, u) \in Nat
<1>1. window[i] \in UNION {[S -> Nat] : S \in SUBSET Uids}
  BY DEF Scored
<1>2. PICK S \in SUBSET Uids : window[i] \in [S -> Nat]
  BY <1>1
<1>3. QED
  BY <1>2 DEF ScoreIn

(* An average begins with the miner's score, and every later round discounts it *)
(* by seven tenths and adds three tenths of its own score.                      *)
LEMMA AverageSteps ==
  ASSUME Scored, NEW u, NEW first \in 1..Len(window)
  PROVE  /\ DefinedAverage(u, first, first) = 10 * ScoreIn(first, u)
         /\ \A last \in first..Len(window) : DefinedAverage(u, first, last) \in Nat
         /\ \A last \in first..(Len(window) - 1) :
              DefinedAverage(u, first, last + 1)
                = 7 * DefinedAverage(u, first, last) + 3 * TenTo[last + 1 - first] * ScoreIn(last + 1, u)
<1> DEFINE n == Len(window)
           term(i, last) == 3 * SevenTo[last - i] * TenTo[i - first] * ScoreIn(i, u)
           terms(last) == [i \in (first + 1)..last |-> term(i, last)]
           rest(last) == SumFunctionOnSet(terms(last), (first + 1)..last)
<1>1. n \in Nat /\ first \in Nat /\ first >= 1 /\ first <= n /\ \A i \in 1..n : ScoreIn(i, u) \in Nat
  BY RoundScores DEF Scored
<1>2. ASSUME NEW last \in first..n
      PROVE  /\ DefinedAverage(u, first, last) = 10 * SevenTo[last - first] * ScoreIn(first, u) + rest(last)
             /\ rest(last) \in Nat /\ IsFiniteSet((first + 1)..last)
             /\ \A i \in (first + 1)..last : terms(last)[i] = term(i, last) /\ term(i, last) \in Nat
  <2>1. DefinedAverage(u, first, last) = 10 * SevenTo[last - first] * ScoreIn(first, u) + rest(last)
    BY DEF DefinedAverage, SumFunction
  <2>2. ASSUME NEW i \in (first + 1)..last PROVE term(i, last) \in Nat
    <3>1. last - i \in Nat /\ i - first \in Nat /\ i \in 1..n
      BY <1>1
    <3>2. SevenTo[last - i] \in Nat /\ TenTo[i - first] \in Nat /\ ScoreIn(i, u) \in Nat
      BY <1>1, <3>1, Discounts
    <3>3. \A a, b, c \in Nat : 3 * a * b * c \in Nat
      OBVIOUS
    <3>4. QED
      BY <3>2, <3>3
  <2>3. IsFiniteSet((first + 1)..last)
    <3>1. first + 1 \in Int /\ last \in Int
      BY <1>1
    <3>2. QED
      BY <3>1, FS_Interval
  <2>4. \A i \in (first + 1)..last : terms(last)[i] = term(i, last)
    OBVIOUS
  <2> HIDE DEF term, terms
  <2>5. rest(last) \in Nat
    BY <2>2, <2>3, <2>4, SumNat
  <2>6. QED
    BY <2>1, <2>2, <2>3, <2>4, <2>5
<1>3. DefinedAverage(u, first, first) = 10 * ScoreIn(first, u)
  <2>1. (first + 1)..first = {} /\ first - first = 0 /\ first \in first..n /\ first \in 1..n
    BY <1>1
  <2>2. rest(first) = 0
    <3>1. IsFiniteSet({}) /\ Whole(terms(first), {})
      BY FS_EmptySet DEF Whole
    <3>2. SumFunctionOnSet(terms(first), {}) = 0
      BY <3>1, SumRemove
    <3>3. QED
      BY <2>1, <3>2
  <2> HIDE DEF rest
  <2>3. DefinedAverage(u, first, first) = 10 * SevenTo[0] * ScoreIn(first, u) + rest(first)
    BY <1>2, <2>1
  <2>4. ScoreIn(first, u) \in Nat
    BY <1>1
  <2>5. QED
    BY <2>2, <2>3, <2>4, Discounts
<1>4. ASSUME NEW last \in first..n PROVE DefinedAverage(u, first, last) \in Nat
  <2> HIDE DEF rest
  <2>1. last - first \in Nat /\ first \in 1..n
    BY <1>1
  <2>2. SevenTo[last - first] \in Nat /\ ScoreIn(first, u) \in Nat
    BY <1>1, <2>1, Discounts
  <2>3. \A a, b, c \in Nat : 10 * a * b + c \in Nat
    OBVIOUS
  <2>4. QED
    BY <1>2, <2>2, <2>3
<1>5. ASSUME NEW last \in first..(n - 1)
      PROVE  DefinedAverage(u, first, last + 1)
               = 7 * DefinedAverage(u, first, last) + 3 * TenTo[last + 1 - first] * ScoreIn(last + 1, u)
  <2> DEFINE more == last + 1
             D == (first + 1)..last
             H == (first + 1)..more
             g == terms(last)
             h == terms(more)
  <2>1. /\ last \in first..n /\ more \in first..n /\ more \in H /\ H \ {more} = D /\ more \in Nat /\ last \in Nat
    <3>1. last \in Nat /\ last >= first /\ last <= n - 1
      BY <1>1
    <3>2. last \in first..n /\ more \in first..n /\ more \in H /\ more \in Nat
      BY <1>1, <3>1
    <3>3. H \ {more} = D
      BY <1>1, <3>1
    <3>4. QED
      BY <3>1, <3>2, <3>3
  <2>2. h[more] = 3 * TenTo[more - first] * ScoreIn(more, u)
    <3>1. h[more] = term(more, more)
      BY <2>1
    <3>2. more - more = 0 /\ SevenTo[0] = 1
      BY <2>1, Discounts
    <3>3. QED
      BY <3>1, <3>2
  <2>3. ASSUME NEW i \in D PROVE h[i] = 7 * g[i]
    <3>1. /\ h[i] = term(i, more) /\ g[i] = term(i, last)
          /\ more - i = (last - i) + 1 /\ last - i \in Nat /\ i - first \in Nat /\ i \in 1..n
      BY <1>1, <2>1
    <3>2. SevenTo[more - i] = 7 * SevenTo[last - i]
      BY <3>1, Discounts
    <3>3. SevenTo[last - i] \in Nat /\ TenTo[i - first] \in Nat /\ ScoreIn(i, u) \in Nat
      BY <1>1, <3>1, Discounts
    <3>4. \A a, b, c \in Nat : 3 * (7 * a) * b * c = 7 * (3 * a * b * c)
      OBVIOUS
    <3> HIDE DEF h, g
    <3>5. QED
      BY <3>1, <3>2, <3>3, <3>4
  <2>4. IsFiniteSet(D) /\ Whole(g, D) /\ IsFiniteSet(H) /\ Whole(h, H)
    <3>1. IsFiniteSet(D) /\ \A i \in D : g[i] \in Nat
      BY <1>2, <2>1
    <3>2. IsFiniteSet(H) /\ \A i \in H : h[i] \in Nat
      BY <1>2, <2>1
    <3>3. QED
      BY <3>1, <3>2 DEF Whole
  <2>5. rest(last) = SumFunctionOnSet(g, D) /\ rest(more) = SumFunctionOnSet(h, H)
    OBVIOUS
  <2>6. /\ DefinedAverage(u, first, last) = 10 * SevenTo[last - first] * ScoreIn(first, u) + rest(last)
        /\ DefinedAverage(u, first, more) = 10 * SevenTo[more - first] * ScoreIn(first, u) + rest(more)
        /\ rest(last) \in Nat /\ rest(more) \in Nat
    BY <1>2, <2>1
  <2> HIDE DEF g, h, D, H, rest
  <2>7. SumFunctionOnSet(h, H) = h[more] + SumFunctionOnSet(h, D)
    BY <2>1, <2>4, SumRemove
  <2>8. SumFunctionOnSet(h, D) = 7 * SumFunctionOnSet(g, D)
    BY <2>3, <2>4, SumTimes
  <2>9. SevenTo[more - first] = 7 * SevenTo[last - first]
    <3>1. last - first \in Nat /\ more - first = (last - first) + 1
      BY <1>1, <2>1
    <3>2. QED
      BY <3>1, Discounts
  <2>10. QED
    <3> DEFINE a == SevenTo[last - first]
               b == ScoreIn(first, u)
               r == rest(last)
               x == 3 * TenTo[more - first] * ScoreIn(more, u)
    <3>1. last - first \in Nat /\ more - first \in Nat /\ first \in 1..n /\ more \in 1..n
      BY <1>1, <2>1
    <3>2. a \in Nat /\ b \in Nat /\ r \in Nat /\ TenTo[more - first] \in Nat /\ ScoreIn(more, u) \in Nat
      BY <1>1, <2>6, <3>1, Discounts
    <3>3. \A y, z \in Nat : 3 * y * z \in Nat /\ 10 * (7 * y) * z = 7 * (10 * y * z) /\ 10 * y * z \in Nat
      OBVIOUS
    <3>4. x \in Nat
      BY <3>2, <3>3
    <3>5. DefinedAverage(u, first, more) = 10 * (7 * a) * b + (x + 7 * r)
      BY <2>2, <2>5, <2>6, <2>7, <2>8, <2>9
    <3>6. DefinedAverage(u, first, last) = 10 * a * b + r
      BY <2>6
    <3> HIDE DEF a, b, r, x
    <3>7. DefinedAverage(u, first, more) = 7 * DefinedAverage(u, first, last) + x
      BY <3>2, <3>3, <3>4, <3>5, <3>6
    <3>8. QED
      BY <3>7 DEF x, more
<1>6. QED
  BY <1>3, <1>4, <1>5

\* Where the average of a miner starts, given where it started before round k.
Restarted(u, s, k) ==
  IF s = 0 THEN IF u \in DOMAIN window[k] THEN k ELSE 0
  ELSE IF ForgottenAt(u, s, k) THEN 0 ELSE s

Starting(start, u, n) ==
  start = [i \in 0..n |-> IF i = 0 THEN 0 ELSE Restarted(u, start[i - 1], i)]

(* Every miner has a history of starts. *)
LEMMA StartingExists == \A u : \A n \in Nat : \E start : Starting(start, u, n)
<1> SUFFICES ASSUME NEW u PROVE \A n \in Nat : \E start : Starting(start, u, n)
  OBVIOUS
<1> DEFINE good == {n \in Nat : \E start : Starting(start, u, n)}
<1>1. 0 \in good
  <2> DEFINE start == [i \in 0..0 |-> 0]
  <2>1. \A i \in 0..0 : i = 0
    OBVIOUS
  <2>2. Starting(start, u, 0)
    BY <2>1 DEF Starting
  <2>3. QED
    BY <2>2
<1>2. ASSUME NEW n \in good PROVE n + 1 \in good
  <2>1. n \in Nat
    OBVIOUS
  <2>2. PICK g : Starting(g, u, n)
    OBVIOUS
  <2> DEFINE h == [i \in 0..(n + 1) |-> IF i = n + 1 THEN Restarted(u, g[n], n + 1) ELSE g[i]]
             is(i) == IF i = 0 THEN 0 ELSE Restarted(u, h[i - 1], i)
  <2>3. ASSUME NEW i \in 0..(n + 1) PROVE h[i] = is(i)
    <3>1. CASE i = n + 1
      <4>1. i # 0 /\ i - 1 = n /\ n \in 0..(n + 1) /\ n # n + 1
        BY <2>1, <3>1
      <4>2. h[i] = Restarted(u, g[n], n + 1) /\ h[n] = g[n]
        BY <3>1, <4>1
      <4> HIDE DEF h
      <4>3. QED
        BY <3>1, <4>1, <4>2
    <3>2. CASE i = 0
      <4>1. 0 \in 0..n /\ 0 # n + 1
        BY <2>1
      <4>2. h[i] = g[0] /\ g[0] = 0
        BY <2>2, <3>2, <4>1 DEF Starting
      <4> HIDE DEF h
      <4>3. QED
        BY <3>2, <4>2
    <3>3. CASE i # 0 /\ i # n + 1
      <4>1. i \in 0..n /\ i - 1 \in 0..(n + 1) /\ i - 1 # n + 1
        BY <2>1, <3>3
      <4>2. h[i] = g[i] /\ h[i - 1] = g[i - 1]
        BY <3>3, <4>1
      <4>3. g[i] = IF i = 0 THEN 0 ELSE Restarted(u, g[i - 1], i)
        BY <2>2, <4>1 DEF Starting
      <4> HIDE DEF h
      <4>4. QED
        BY <4>2, <4>3
    <3>4. QED
      BY <3>1, <3>2, <3>3
  <2>4. h = [i \in 0..(n + 1) |-> h[i]]
    OBVIOUS
  <2> HIDE DEF h
  <2>5. Starting(h, u, n + 1)
    BY <2>3, <2>4 DEF Starting
  <2>6. QED
    BY <2>1, <2>5
<1> HIDE DEF good
<1>3. good \in SUBSET Nat
  BY DEF good
<1>4. good = Nat
  BY <1>1, <1>2, <1>3, Count
<1>5. QED
  BY <1>4 DEF good

(* StartOf is the last entry of that history. *)
LEMMA Starts ==
  ASSUME Len(window) \in Nat, NEW u
  PROVE  \E start : /\ start[0] = 0
                    /\ \A k \in 1..Len(window) : start[k] = Restarted(u, start[k - 1], k)
                    /\ StartOf(u) = start[Len(window)]
<1> DEFINE n == Len(window)
           start == CHOOSE h : Starting(h, u, n)
<1>1. Starting(start, u, n)
  BY StartingExists
<1>2. StartOf(u) = start[n]
  BY DEF StartOf, Starting, Restarted
<1> HIDE DEF start
<1>3. start[0] = 0
  BY <1>1 DEF Starting
<1>4. ASSUME NEW k \in 1..n PROVE start[k] = Restarted(u, start[k - 1], k)
  <2>1. k \in 0..n /\ k # 0
    OBVIOUS
  <2>2. QED
    BY <1>1, <2>1 DEF Starting
<1>5. QED
  BY <1>2, <1>3, <1>4

\* After k rounds the averages acc say of a miner, whose average started at
\* round s if at all, what the definition says.
Tells(acc, u, s, k) ==
  /\ acc.unit = TenTo[k]
  /\ s \in 0..k
  /\ u \in DOMAIN acc.of <=> s # 0
  /\ s # 0 => acc.of[u] = DefinedAverage(u, s, k) * TenTo[s - 1]

\* The average of one miner when a round is blended into acc.
Blended(acc, scores, u) ==
  IF u \notin DOMAIN acc.of THEN scores[u] * (10 * acc.unit)
  ELSE 7 * acc.of[u] + (IF u \in DOMAIN scores THEN 3 * scores[u] * acc.unit ELSE 0)

(* Blend gives a miner that average unless it is pruned. *)
LEMMA BlendOne ==
  ASSUME NEW acc, NEW scores, NEW u
  PROVE  /\ Blend(acc, scores).unit = 10 * acc.unit
         /\ u \in DOMAIN Blend(acc, scores).of
              <=> \/ u \in DOMAIN scores
                  \/ u \in DOMAIN acc.of /\ Blended(acc, scores, u) >= PruneBelow * (10 * acc.unit)
         /\ u \in DOMAIN Blend(acc, scores).of => Blend(acc, scores).of[u] = Blended(acc, scores, u)
<1> DEFINE unit  == 10 * acc.unit
           D     == DOMAIN acc.of \cup DOMAIN scores
           is(x) == Blended(acc, scores, x)
           value == [x \in D |-> is(x)]
           kept  == {x \in DOMAIN value : x \in DOMAIN scores \/ value[x] >= PruneBelow * unit}
<1>1. Blend(acc, scores) = [unit |-> unit, of |-> [x \in kept |-> value[x]]]
  BY DEF Blend, Blended
<1>2. \A x \in D : value[x] = is(x)
  OBVIOUS
<1>3. DOMAIN value = D
  OBVIOUS
<1> HIDE DEF value, is, unit
<1>4. /\ Blend(acc, scores).unit = unit
      /\ DOMAIN Blend(acc, scores).of = kept
      /\ \A x \in kept : Blend(acc, scores).of[x] = value[x]
  BY <1>1
<1>5. u \in kept <=> \/ u \in DOMAIN scores
                     \/ u \in DOMAIN acc.of /\ is(u) >= PruneBelow * unit
  BY <1>2, <1>3
<1>6. u \in kept => value[u] = is(u)
  BY <1>2, <1>3
<1> HIDE DEF kept
<1>7. QED
  BY <1>4, <1>5, <1>6 DEF is, unit

(* Blending round k in keeps the averages what the definition says. *)
LEMMA BlendTells ==
  ASSUME Scored, NEW u, NEW k \in 1..Len(window), NEW acc, NEW s, Tells(acc, u, s, k - 1)
  PROVE  Tells(Blend(acc, window[k]), u, Restarted(u, s, k), k)
<1> DEFINE n    == Len(window)
           unit == 10 * acc.unit
           new  == Blend(acc, window[k])
           value == Blended(acc, window[k], u)
<1>1. n \in Nat /\ k \in Nat /\ k >= 1 /\ k <= n /\ k - 1 \in Nat /\ (k - 1) + 1 = k
  BY DEF Scored
<1>2. /\ acc.unit = TenTo[k - 1] /\ s \in 0..(k - 1)
      /\ u \in DOMAIN acc.of <=> s # 0
      /\ s # 0 => acc.of[u] = DefinedAverage(u, s, k - 1) * TenTo[s - 1]
  BY DEF Tells
<1>3. unit = TenTo[k] /\ TenTo[k - 1] \in Nat \ {0} /\ TenTo[k] \in Nat \ {0}
  BY <1>1, <1>2, Discounts
<1>4. ScoreIn(k, u) \in Nat
  BY RoundScores
<1>5. /\ new.unit = unit
      /\ u \in DOMAIN new.of <=> u \in DOMAIN window[k] \/ (u \in DOMAIN acc.of /\ value >= PruneBelow * unit)
      /\ u \in DOMAIN new.of => new.of[u] = value
  BY BlendOne
<1> HIDE DEF new
<1>6. CASE s = 0 /\ u \notin DOMAIN window[k]
  <2>1. Restarted(u, s, k) = 0 /\ u \notin DOMAIN new.of /\ 0 \in 0..k
    BY <1>1, <1>2, <1>5, <1>6 DEF Restarted
  <2>2. QED
    BY <1>3, <1>5, <2>1 DEF Tells, new
<1>7. CASE s = 0 /\ u \in DOMAIN window[k]
  <2>1. Restarted(u, s, k) = k /\ u \in DOMAIN new.of /\ k \in 0..k /\ k # 0
    BY <1>1, <1>5, <1>7 DEF Restarted
  <2>2. new.of[u] = ScoreIn(k, u) * (10 * TenTo[k - 1])
    BY <1>2, <1>5, <1>7, <2>1 DEF ScoreIn, Blended
  <2>3. DefinedAverage(u, k, k) = 10 * ScoreIn(k, u)
    BY AverageSteps
  <2>4. \A x, y \in Nat : x * (10 * y) = (10 * x) * y
    OBVIOUS
  <2>5. new.of[u] = DefinedAverage(u, k, k) * TenTo[k - 1]
    BY <1>3, <1>4, <2>2, <2>3, <2>4
  <2>6. QED
    BY <1>3, <1>5, <2>1, <2>5 DEF Tells, new
<1>8. CASE s # 0
  <2> DEFINE was == DefinedAverage(u, s, k - 1)
             is  == DefinedAverage(u, s, k)
             sc  == ScoreIn(k, u)
  <2>1. /\ s \in 1..n /\ k - 1 \in s..n /\ k - 1 \in s..(n - 1) /\ k \in s..n
        /\ k - s \in Nat /\ s - 1 \in Nat /\ (k - s) + (s - 1) = k - 1
        /\ k - s + 1 \in Nat /\ (k - s + 1) + (s - 1) = k
    BY <1>1, <1>2, <1>8
  <2>2. was \in Nat /\ is \in Nat
    BY <2>1, AverageSteps
  <2>3. is = 7 * was + 3 * TenTo[k - s] * sc
    <3>1. DefinedAverage(u, s, (k - 1) + 1)
            = 7 * DefinedAverage(u, s, k - 1) + 3 * TenTo[(k - 1) + 1 - s] * ScoreIn((k - 1) + 1, u)
      BY <2>1, AverageSteps
    <3>2. (k - 1) + 1 = k /\ (k - 1) + 1 - s = k - s
      BY <1>1, <2>1
    <3>3. QED
      BY <3>1, <3>2, Zenon
  <2>4. /\ TenTo[k - 1] = TenTo[k - s] * TenTo[s - 1] /\ TenTo[k] = TenTo[k - s + 1] * TenTo[s - 1]
        /\ TenTo[k - s] \in Nat /\ TenTo[s - 1] \in Nat \ {0} /\ TenTo[k - s + 1] \in Nat
    <3>1. TenTo[(k - s) + (s - 1)] = TenTo[k - s] * TenTo[s - 1]
      BY <2>1, Units
    <3>2. TenTo[(k - s + 1) + (s - 1)] = TenTo[k - s + 1] * TenTo[s - 1]
      BY <2>1, Units
    <3>3. QED
      BY <2>1, <3>1, <3>2, Discounts
  <2>5. value = 7 * (was * TenTo[s - 1]) + 3 * sc * TenTo[k - 1]
    <3>1. CASE u \in DOMAIN window[k]
      BY <1>2, <1>8, <3>1 DEF ScoreIn, Blended
    <3>2. CASE u \notin DOMAIN window[k]
      <4>1. value = 7 * (was * TenTo[s - 1]) + 0 /\ sc = 0
        BY <1>2, <1>8, <3>2 DEF ScoreIn, Blended
      <4>2. 3 * 0 * TenTo[k - 1] = 0
        BY <1>3
      <4> HIDE DEF value, sc, was
      <4>3. QED
        BY <4>1, <4>2
    <3>3. QED
      BY <3>1, <3>2
  <2> HIDE DEF value, was, is, sc
  <2>6. value = is * TenTo[s - 1]
    <3> DEFINE x == TenTo[s - 1]
               z == TenTo[k - s]
    <3>1. x \in Nat /\ z \in Nat
      BY <2>4
    <3>2. sc \in Nat
      BY <1>4 DEF sc
    <3>3. value = 7 * (was * TenTo[s - 1]) + 3 * sc * (TenTo[k - s] * TenTo[s - 1])
      BY <2>4, <2>5, Zenon
    <3>4. 7 * (was * TenTo[s - 1]) + 3 * sc * (TenTo[k - s] * TenTo[s - 1])
            = (7 * was + 3 * TenTo[k - s] * sc) * TenTo[s - 1]
      <4> HIDE DEF x, z
      <4>1. 7 * (was * x) + 3 * sc * (z * x) = (7 * was + 3 * z * sc) * x
        BY <2>2, <3>1, <3>2
      <4>2. QED
        BY <4>1 DEF x, z
    <3>5. QED
      BY <2>3, <3>3, <3>4, Zenon
  <2>7. value < PruneBelow * unit <=> is < PruneBelow * TenTo[k - s + 1]
    <3>1. \A x, y, p, q \in Nat : y > 0 => (x * y < p * (q * y) <=> x < p * q)
      <4>1. \A a, b, y \in Nat : y > 0 => (a * y < b * y <=> a < b)
        OBVIOUS
      <4>2. \A p, q, y \in Nat : p * (q * y) = (p * q) * y /\ p * q \in Nat
        OBVIOUS
      <4>3. QED
        BY <4>1, <4>2
    <3>2. PruneBelow \in Nat
      BY EmaAssumption
    <3>3. /\ TenTo[s - 1] > 0
          /\ is * TenTo[s - 1] < PruneBelow * (TenTo[k - s + 1] * TenTo[s - 1])
               <=> is < PruneBelow * TenTo[k - s + 1]
      BY <2>2, <2>4, <3>1, <3>2
    <3>4. unit = TenTo[k - s + 1] * TenTo[s - 1]
      BY <1>3, <2>4, Zenon
    <3>5. QED
      BY <2>6, <3>3, <3>4, Zenon
  <2>8. value \in Nat /\ PruneBelow * unit \in Nat
    <3>1. \A x, y \in Nat : x * y \in Nat
      OBVIOUS
    <3>2. QED
      BY <1>3, <2>2, <2>4, <2>6, <3>1, EmaAssumption
  <2>9. u \in DOMAIN new.of <=> ~ForgottenAt(u, s, k)
    <3>1. ForgottenAt(u, s, k) <=> u \notin DOMAIN window[k] /\ is < PruneBelow * TenTo[k - s + 1]
      BY DEF ForgottenAt, is
    <3>2. value >= PruneBelow * unit <=> ~(value < PruneBelow * unit)
      BY <2>8
    <3>3. QED
      BY <1>2, <1>5, <1>8, <2>7, <3>1, <3>2
  <2>10. CASE ForgottenAt(u, s, k)
    <3>1. Restarted(u, s, k) = 0 /\ u \notin DOMAIN new.of /\ 0 \in 0..k
      BY <1>1, <1>8, <2>9, <2>10 DEF Restarted
    <3>2. QED
      BY <1>3, <1>5, <3>1 DEF Tells, new
  <2>11. CASE ~ForgottenAt(u, s, k)
    <3>1. Restarted(u, s, k) = s /\ u \in DOMAIN new.of /\ s \in 0..k
      BY <1>1, <1>2, <1>8, <2>9, <2>11 DEF Restarted
    <3>2. new.of[u] = DefinedAverage(u, s, k) * TenTo[s - 1]
      BY <1>5, <2>6, <3>1 DEF is
    <3>3. QED
      BY <1>3, <1>5, <1>8, <3>1, <3>2 DEF Tells, new
  <2>12. QED
    BY <2>10, <2>11
<1>9. QED
  BY <1>6, <1>7, <1>8

(* The averages of a window are what their definition says. *)
LEMMA ScoredAverages == ASSUME Scored PROVE EmaIsWeightedMean
<1> DEFINE n == Len(window)
           last == Averages(window).of
<1>1. n \in Nat /\ DOMAIN window = 1..n
  BY DEF Scored
<1>2. PICK A : /\ A[0] = NoAverages
               /\ \A k \in 1..n : A[k] = Blend(A[k - 1], window[k])
               /\ Averages(window) = A[n]
  BY <1>1, AveragesBlend
<1>3. A[0].unit = 1 /\ A[0].of = <<>>
  BY <1>2 DEF NoAverages
<1>4. /\ DOMAIN last \subseteq Uids
      /\ last = [u \in DOMAIN last |-> last[u]]
  <2> DEFINE good == {k \in Nat : k <= n => /\ DOMAIN A[k].of \subseteq Uids
                                            /\ A[k].of = [u \in DOMAIN A[k].of |-> A[k].of[u]]}
  <2>1. 0 \in good
    <3>1. DOMAIN <<>> = {} /\ <<>> = [u \in {} |-> <<>>[u]]
      OBVIOUS
    <3>2. QED
      BY <1>3, <3>1
  <2>2. ASSUME NEW k \in good PROVE k + 1 \in good
    <3> SUFFICES ASSUME k + 1 <= n
                 PROVE  /\ DOMAIN A[k + 1].of \subseteq Uids
                        /\ A[k + 1].of = [u \in DOMAIN A[k + 1].of |-> A[k + 1].of[u]]
      OBVIOUS
    <3>1. k \in Nat /\ k <= n /\ k + 1 \in 1..n /\ (k + 1) - 1 = k
      BY <1>1
    <3>2. A[k + 1] = Blend(A[k], window[k + 1]) /\ DOMAIN A[k].of \subseteq Uids
      BY <1>2, <3>1
    <3>3. DOMAIN window[k + 1] \subseteq Uids
      BY <3>1, RoundScores
    <3>4. \A u : u \in DOMAIN A[k + 1].of => u \in DOMAIN window[k + 1] \/ u \in DOMAIN A[k].of
      BY <3>2, BlendOne
    <3>5. A[k + 1].of = [u \in DOMAIN A[k + 1].of |-> A[k + 1].of[u]]
      BY <3>2 DEF Blend
    <3>6. QED
      BY <3>2, <3>3, <3>4, <3>5
  <2> HIDE DEF good
  <2>3. good \in SUBSET Nat
    BY DEF good
  <2>4. good = Nat
    BY <2>1, <2>2, <2>3, Count
  <2>5. QED
    BY <1>1, <1>2, <2>4 DEF good
<1>5. ASSUME NEW u PROVE Tells(A[n], u, StartOf(u), n)
  <2>1. PICK start : /\ start[0] = 0
                     /\ \A k \in 1..n : start[k] = Restarted(u, start[k - 1], k)
                     /\ StartOf(u) = start[n]
    BY <1>1, Starts
  <2> DEFINE good == {k \in Nat : k <= n => Tells(A[k], u, start[k], k)}
  <2>2. 0 \in good
    <3>1. DOMAIN <<>> = {} /\ 0 \in 0..0
      OBVIOUS
    <3>2. Tells(A[0], u, start[0], 0)
      BY <1>3, <2>1, <3>1, Discounts DEF Tells
    <3>3. QED
      BY <3>2
  <2>3. ASSUME NEW k \in good PROVE k + 1 \in good
    <3> SUFFICES ASSUME k + 1 <= n PROVE Tells(A[k + 1], u, start[k + 1], k + 1)
      OBVIOUS
    <3>1. k \in Nat /\ k <= n /\ k + 1 \in 1..n /\ (k + 1) - 1 = k
      BY <1>1
    <3>2. Tells(A[k], u, start[k], (k + 1) - 1)
      BY <3>1
    <3>3. Tells(Blend(A[k], window[k + 1]), u, Restarted(u, start[k], k + 1), k + 1)
      BY <3>1, <3>2, BlendTells
    <3>4. A[k + 1] = Blend(A[k], window[k + 1]) /\ start[k + 1] = Restarted(u, start[k], k + 1)
      BY <1>2, <2>1, <3>1
    <3>5. QED
      BY <3>3, <3>4
  <2> HIDE DEF good
  <2>4. good \in SUBSET Nat
    BY DEF good
  <2>5. good = Nat
    BY <2>2, <2>3, <2>4, Count
  <2>6. QED
    BY <1>1, <2>1, <2>5 DEF good
<1> DEFINE started == {u \in Uids : StartOf(u) # 0}
<1>6. DOMAIN last = started
  BY <1>2, <1>4, <1>5 DEF Tells
<1>7. \A u \in started : last[u] = DefinedAverage(u, StartOf(u), n) * TenTo[StartOf(u) - 1]
  BY <1>2, <1>5 DEF Tells
<1> HIDE DEF last
<1>8. last = [u \in started |-> DefinedAverage(u, StartOf(u), n) * TenTo[StartOf(u) - 1]]
  BY <1>4, <1>6, <1>7
<1>9. QED
  BY <1>8 DEF EmaIsWeightedMean, last

-------------------------------------------------------------------------------
(* Every round of the validator is one of these.                             *)

(* The newest round is always one that the engine can score. *)
LEMMA AlwaysScorable == Spec => []Scorable(verified)
<1>1. Init => Scorable(verified)
  <2> SUFFICES ASSUME Init PROVE Scorable(verified)
    OBVIOUS
  <2>1. DOMAIN verified = {}
    BY DEF Init
  <2>2. verified \in [{} -> Submissions]
    BY DEF Init
  <2>3. QED
    BY <2>1, <2>2, FS_EmptySet DEF Scorable
<1>2. Scorable(verified) /\ [Next]_vars => Scorable(verified)'
  <2> SUFFICES ASSUME Scorable(verified), [Next]_vars PROVE Scorable(verified')
    OBVIOUS
  <2>1. CASE verified' = verified
    BY <2>1
  <2>2. CASE RunRound
    <3>1. PICK S \in SUBSET Uids : verified' \in [S -> Submissions]
      BY <2>2, WindowAssumption DEF RunRound
    <3>2. DOMAIN verified' = S /\ IsFiniteSet(S) /\ S \subseteq Nat
      BY <3>1, FS_Subset, WindowAssumption
    <3>3. verified' \in [S -> Submissions]
      BY <3>1
    <3>4. QED
      BY <3>2, <3>3 DEF Scorable
  <2>3. QED
    BY <2>1, <2>2 DEF Next, AgeOut, vars
<1>3. QED
  BY <1>1, <1>2, PTL DEF Spec

(* compute() of scoring/engine.py (rank cap, ceiling, floor and power law): a *)
(* clean submission that is better than another in every metric never gets    *)
(* the smaller weight, whoever else takes part in the round.                  *)
THEOREM BetterEarnsNoLess == Spec => []BetterNeverEarnsLess
<1>1. Scorable(verified) => BetterNeverEarnsLess
  BY BetterWeight DEF BetterNeverEarnsLess
<1>2. QED
  BY <1>1, AlwaysScorable, PTL

(* compute() of scoring/engine.py: a rejected submission moves no rank, no    *)
(* threshold and no total, so the others earn what they would without it.     *)
THEOREM RejectedChangeNothing == Spec => []RejectedDoNotCount
<1>1. Scorable(verified) => RejectedDoNotCount
  BY WithoutRejected DEF RejectedDoNotCount
<1>2. QED
  BY <1>1, AlwaysScorable, PTL

(* The engine gives every miner of the round a score, if only zero. *)
LEMMA ScoreEveryone ==
  ASSUME NEW v, Scorable(v)
  PROVE  Compute(v) \in [DOMAIN v -> Nat]
<1>1. CASE Eligible(v) = {}
  BY <1>1 DEF Compute
<1>2. CASE Eligible(v) # {}
  <2> DEFINE total == SumFunctionOnSet(Powered(v), DOMAIN v)
             share(u) == IF total > 0 THEN (100 * Powered(v)[u]) \div total ELSE 0
  <2>1. total \in Nat /\ Compute(v) = [u \in DOMAIN v |-> share(u)]
    BY <1>2, Weights
  <2>2. \A u \in DOMAIN v : Powered(v)[u] \in Nat
    BY PoweredScores
  <2> HIDE DEF total
  <2>3. \A x, t \in Nat : t > 0 => (100 * x) \div t \in Nat
    OBVIOUS
  <2>4. \A u \in DOMAIN v : share(u) \in Nat
    BY <2>1, <2>2, <2>3
  <2> HIDE DEF share
  <2>5. QED
    BY <2>1, <2>4
<1>3. QED
  BY <1>1, <1>2

(* So every round in the window does. *)
LEMMA AlwaysScored == Spec => []Scored
<1> DEFINE Rounds == UNION {[S -> Nat] : S \in SUBSET Uids}
<1>1. Init => Scored
  BY DEF Init, Scored
<1>2. Scorable(verified) /\ Scorable(verified)' /\ Scored /\ [Next]_vars => Scored'
  <2> SUFFICES ASSUME Scorable(verified'), window \in Seq(Rounds), [Next]_vars PROVE window' \in Seq(Rounds)
    BY DEF Scored, Scorable
  <2>1. CASE RunRound
    <3>1. window' = Append(window, Compute(verified'))
      BY <2>1 DEF RunRound
    <3>2. PICK S \in SUBSET Uids : verified' \in [S -> Submissions]
      BY <2>1, WindowAssumption DEF RunRound
    <3>3. Compute(verified') \in [S -> Nat]
      BY <3>2, ScoreEveryone
    <3>4. Compute(verified') \in Rounds
      BY <3>3
    <3> HIDE DEF Rounds
    <3>5. QED
      BY <3>1, <3>4
  <2> HIDE DEF Rounds
  <2>2. CASE AgeOut
    <3>1. PICK left \in SUBSET DOMAIN window[1] :
            window' = IF left = {} THEN Tail(window) ELSE [window EXCEPT ![1] = Restrict(@, left)]
      BY <2>2 DEF AgeOut
    <3>2. window # <<>> /\ window[1] \in Rounds /\ Tail(window) \in Seq(Rounds)
      BY <2>2 DEF AgeOut
    <3>3. Restrict(window[1], left) \in Rounds
      <4>1. PICK S \in SUBSET Uids : window[1] \in [S -> Nat]
        BY <3>2 DEF Rounds
      <4>2. Restrict(window[1], left) \in [left -> Nat] /\ left \in SUBSET Uids
        BY <3>1, <4>1 DEF Restrict
      <4>3. QED
        BY <4>2 DEF Rounds
    <3>4. [window EXCEPT ![1] = Restrict(@, left)] \in Seq(Rounds)
      BY <3>2, <3>3
    <3>5. QED
      BY <3>1, <3>2, <3>4
  <2>3. CASE UNCHANGED vars
    BY <2>3 DEF vars
  <2>4. QED
    BY <2>1, <2>2, <2>3 DEF Next
<1>3. QED
  BY <1>1, <1>2, AlwaysScorable, PTL DEF Spec

(* compute_window_ema of scoring/window_ema.py: whichever rounds the window    *)
(* holds, the average of a miner is the discounted sum of its scores since it *)
(* last started, and the miners with an average are those that have started   *)
(* and were not pruned since.                                                 *)
THEOREM AveragesAreWeighted == Spec => []EmaIsWeightedMean
<1>1. Scored => EmaIsWeightedMean
  BY ScoredAverages
<1>2. QED
  BY <1>1, AlwaysScored, PTL
===============================================================================
