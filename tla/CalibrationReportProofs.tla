------------------------- MODULE CalibrationReportProofs -------------------------
(***************************************************************************)
(* From samples to the report, proved for any outputs, recordings, periods  *)
(* and predictions: resampling loses no more than the samples left over,    *)
(* no metric divides by zero, a passed report is earned, the table of the   *)
(* outputs explains the totals, and months agree with hours.                *)
(*                                                                          *)
(* The invariant says where each piece of the state comes from: Timed and   *)
(* Recorded the truth, Judged the result, Built the report, Stored the row. *)
(* The rest are laws of what these are made of: sums (folds are defined by  *)
(* CHOOSE, so that each law starts from the existence of what is chosen),   *)
(* quotients and roots rounded up, averages, chunks and months.             *)
(***************************************************************************)
EXTENDS CalibrationReport, WellFoundedInduction, FiniteSetTheorems, TLAPS

-------------------------------------------------------------------------------
(* Sums.                                                                     *)

(* A set of numbers has a least one. *)
LEMMA NatMin ==
  ASSUME NEW T \in SUBSET Nat, T # {}
  PROVE  \E x \in T : \A y \in T : x <= y
<1>1. IsWellFoundedOn(OpToRel(<, Nat), Nat)
  BY NatLessThanWellFounded
<1>2. PICK x \in T : \A y \in T : ~(<<y, x>> \in OpToRel(<, Nat))
  BY <1>1, WFMin
<1>3. \A y \in T : ~(y < x)
  BY <1>2 DEF OpToRel
<1>4. QED
  BY <1>3

(* Induction over a finite set, for a family of its subsets. *)
LEMMA Grow ==
  ASSUME NEW S, IsFiniteSet(S), NEW F \in SUBSET SUBSET S, {} \in F,
         \A T \in F : \A x \in S \ T : T \cup {x} \in F
  PROVE  S \in F
<1> DEFINE left == {Cardinality(S \ T) : T \in F}
<1>1. \A T \in F : IsFiniteSet(S \ T) /\ Cardinality(S \ T) \in Nat
  BY FS_Subset, FS_CardinalityType
<1>2. PICK n \in left : \A m \in left : n <= m
  <2>1. left \in SUBSET Nat /\ left # {}
    BY <1>1
  <2>2. QED
    BY <2>1, NatMin
<1>3. PICK T \in F : n = Cardinality(S \ T)
  OBVIOUS
<1>4. ASSUME NEW x \in S \ T PROVE FALSE
  <2>1. T \cup {x} \in F /\ S \ (T \cup {x}) = (S \ T) \ {x}
    BY <1>4
  <2>2. Cardinality((S \ T) \ {x}) = n - 1
    BY <1>1, <1>3, <1>4, FS_RemoveElement
  <2>3. n - 1 \in left
    BY <2>1, <2>2
  <2> HIDE DEF left
  <2>4. n \in Nat /\ n <= n - 1
    BY <1>1, <1>2, <1>3, <2>3
  <2>5. QED
    BY <2>4
<1>5. QED
  BY <1>4

\* g gives every part of S its sum of f, whichever element is taken first.
Sums(g, f, S) ==
  /\ g \in [SUBSET S -> Int]
  /\ g[{}] = 0
  /\ \A s \in SUBSET S : \A x \in s : g[s] = f[x] + g[s \ {x}]

Whole(f, S) == \A x \in S : f[x] \in Int

(* A finite set of integers has one. *)
LEMMA SumsExist ==
  ASSUME NEW f, NEW S, IsFiniteSet(S), Whole(f, S)
  PROVE  \E g : Sums(g, f, S)
<1> DEFINE F == {T \in SUBSET S : \E g : Sums(g, f, T)}
<1>1. {} \in F
  <2>1. Sums([s \in SUBSET {} |-> 0], f, {})
    BY DEF Sums
  <2>2. QED
    BY <2>1
<1>2. ASSUME NEW T \in F, NEW y \in S \ T
      PROVE  T \cup {y} \in F
  <2>1. PICK g : Sums(g, f, T)
    OBVIOUS
  <2> DEFINE U == T \cup {y}
             h == [s \in SUBSET U |-> IF y \in s THEN f[y] + g[s \ {y}] ELSE g[s]]
  <2>2. \A s \in SUBSET U : s \ {y} \in SUBSET T /\ (y \notin s => s \in SUBSET T)
    OBVIOUS
  <2>3. f[y] \in Int /\ \A t \in SUBSET T : g[t] \in Int
    BY <2>1 DEF Sums, Whole
  <2>4. h \in [SUBSET U -> Int] /\ h[{}] = 0
    <3>1. \A s \in SUBSET U : (IF y \in s THEN f[y] + g[s \ {y}] ELSE g[s]) \in Int
      BY <2>2, <2>3
    <3>2. {} \in SUBSET U /\ g[{}] = 0
      BY <2>1 DEF Sums
    <3>3. QED
      BY <3>1, <3>2
  <2>5. ASSUME NEW s \in SUBSET U, NEW x \in s
        PROVE  h[s] = f[x] + h[s \ {x}]
    <3>1. /\ s \ {x} \in SUBSET U
          /\ \A t \in SUBSET U : h[t] = IF y \in t THEN f[y] + g[t \ {y}] ELSE g[t]
      OBVIOUS
    <3> HIDE DEF h
    <3>2. CASE x = y
      <4>1. y \in s /\ y \notin s \ {y}
        BY <3>2
      <4>2. QED
        BY <3>1, <3>2, <4>1
    <3>3. CASE x # y /\ y \notin s
      BY <2>1, <2>2, <3>1, <3>3 DEF Sums
    <3>4. CASE x # y /\ y \in s
      <4>1. h[s] = f[y] + g[s \ {y}] /\ h[s \ {x}] = f[y] + g[(s \ {x}) \ {y}]
        BY <3>1, <3>4
      <4>2. s \ {y} \in SUBSET T /\ x \in s \ {y} /\ (s \ {x}) \ {y} = (s \ {y}) \ {x}
        BY <2>2, <3>4
      <4>3. g[s \ {y}] = f[x] + g[(s \ {y}) \ {x}]
        BY <2>1, <4>2 DEF Sums
      <4>4. f[x] \in Int /\ g[(s \ {y}) \ {x}] \in Int
        BY <2>3, <4>2 DEF Whole
      <4>5. h[s \ {x}] = f[y] + g[(s \ {y}) \ {x}]
        BY <4>1, <4>2, Zenon
      <4>6. QED
        BY <2>3, <4>1, <4>3, <4>4, <4>5
    <3>5. QED
      BY <3>2, <3>3, <3>4
  <2> HIDE DEF h
  <2>6. Sums(h, f, U)
    BY <2>4, <2>5 DEF Sums
  <2>7. QED
    BY <2>6
<1> HIDE DEF F
<1>3. F \in SUBSET SUBSET S
  BY DEF F
<1>4. S \in F
  BY <1>1, <1>2, <1>3, Grow
<1>5. QED
  BY <1>4 DEF F

(* The fold, which always takes the element that CHOOSE picks, computes it. *)
LEMMA SumsIs ==
  ASSUME NEW f, NEW S, IsFiniteSet(S), NEW g, Sums(g, f, S)
  PROVE  SumFunctionOnSet(f, S) = g[S]
<1> DEFINE Fold(h) == [s \in SUBSET S |-> IF s = {} THEN 0
                         ELSE LET x == CHOOSE y \in s : TRUE IN f[x] + h[s \ {x}]]
           h0 == CHOOSE h : h = Fold(h)
<1>1. SumFunctionOnSet(f, S) = h0[S]
  BY DEF SumFunctionOnSet, FoldFunctionOnSet, MapThenFoldSet
<1>2. g = Fold(g)
  <2>1. ASSUME NEW s \in SUBSET S PROVE g[s] = Fold(g)[s]
    BY DEF Sums
  <2>2. g = [s \in SUBSET S |-> g[s]]
    BY DEF Sums
  <2>3. QED
    BY <2>1, <2>2
<1>3. h0 = Fold(h0)
  BY <1>2
<1> HIDE DEF h0
<1>4. \A s \in SUBSET S : h0[s] = IF s = {} THEN 0
                         ELSE LET x == CHOOSE y \in s : TRUE IN f[x] + h0[s \ {x}]
  BY <1>3
<1>5. \A s \in SUBSET S : h0[s] = g[s]
  <2> DEFINE wrong == {s \in SUBSET S : h0[s] # g[s]}
             sizes == {Cardinality(s) : s \in wrong}
  <2>1. SUFFICES ASSUME wrong # {} PROVE FALSE
    OBVIOUS
  <2>2. \A s \in SUBSET S : IsFiniteSet(s) /\ Cardinality(s) \in Nat
    BY FS_Subset, FS_CardinalityType
  <2>3. PICK n \in sizes : \A m \in sizes : n <= m
    <3>1. sizes \in SUBSET Nat /\ sizes # {}
      BY <2>1, <2>2
    <3>2. QED
      BY <3>1, NatMin
  <2>4. PICK s \in wrong : n = Cardinality(s)
    OBVIOUS
  <2>5. s # {}
    BY <1>4, <2>4 DEF Sums
  <2>6. PICK x \in s : h0[s] = f[x] + h0[s \ {x}]
    <3>1. (CHOOSE y \in s : TRUE) \in s
      BY <2>5
    <3>2. QED
      BY <1>4, <2>5, <3>1
  <2>7. s \ {x} \in SUBSET S /\ Cardinality(s \ {x}) = n - 1
    BY <2>2, <2>4, FS_RemoveElement
  <2>8. s \ {x} \notin wrong
    BY <2>2, <2>3, <2>4, <2>7
  <2>9. QED
    BY <2>4, <2>6, <2>7, <2>8 DEF Sums
<1>6. QED
  BY <1>1, <1>5

(* A sum may be taken one element at a time, in any order. *)
LEMMA SumRemove ==
  ASSUME NEW f, NEW S, IsFiniteSet(S), Whole(f, S)
  PROVE  /\ SumFunctionOnSet(f, {}) = 0
         /\ SumFunctionOnSet(f, S) \in Int
         /\ \A x \in S : SumFunctionOnSet(f, S) = f[x] + SumFunctionOnSet(f, S \ {x})
<1>1. PICK g : Sums(g, f, S)
  BY SumsExist
<1>2. ASSUME NEW T \in SUBSET S
      PROVE  SumFunctionOnSet(f, T) = g[T]
  <2>1. Sums([s \in SUBSET T |-> g[s]], f, T)
    BY <1>1 DEF Sums
  <2>2. IsFiniteSet(T)
    BY FS_Subset
  <2>3. SumFunctionOnSet(f, T) = [s \in SUBSET T |-> g[s]][T]
    BY <2>1, <2>2, SumsIs
  <2>4. QED
    BY <2>3
<1>3. QED
  BY <1>1, <1>2 DEF Sums

(* Only the values on the set count. *)
LEMMA SumAgree ==
  ASSUME NEW f, NEW h, NEW S, IsFiniteSet(S), Whole(f, S), \A x \in S : h[x] = f[x]
  PROVE  SumFunctionOnSet(h, S) = SumFunctionOnSet(f, S)
<1>1. PICK g : Sums(g, f, S)
  BY SumsExist
<1>2. Sums(g, h, S)
  BY <1>1 DEF Sums
<1>3. QED
  BY <1>1, <1>2, SumsIs

(* Natural numbers sum up to one. *)
LEMMA SumNat ==
  ASSUME NEW f, NEW S, IsFiniteSet(S), \A x \in S : f[x] \in Nat
  PROVE  SumFunctionOnSet(f, S) \in Nat
<1> DEFINE F == {T \in SUBSET S : SumFunctionOnSet(f, T) \in Nat}
<1>1. {} \in F
  BY SumRemove, FS_EmptySet DEF Whole
<1>2. ASSUME NEW T \in F, NEW x \in S \ T PROVE T \cup {x} \in F
  <2>1. IsFiniteSet(T \cup {x}) /\ Whole(f, T \cup {x}) /\ (T \cup {x}) \ {x} = T
    BY FS_Subset DEF Whole
  <2>2. SumFunctionOnSet(f, T \cup {x}) = f[x] + SumFunctionOnSet(f, T)
    BY <2>1, SumRemove
  <2>3. QED
    BY <2>2
<1> HIDE DEF F
<1>3. F \in SUBSET SUBSET S
  BY DEF F
<1>4. S \in F
  BY <1>1, <1>2, <1>3, Grow
<1>5. QED
  BY <1>4 DEF F

(* A family of numbers with the first, and the next of each, has all. *)
LEMMA Count ==
  ASSUME NEW N \in SUBSET Nat, 0 \in N, \A n \in N : n + 1 \in N
  PROVE  N = Nat
<1>1. SUFFICES ASSUME N # Nat PROVE FALSE
  OBVIOUS
<1> DEFINE out == Nat \ N
<1>2. PICK n \in out : \A m \in out : n <= m
  <2>1. out \in SUBSET Nat /\ out # {}
    BY <1>1
  <2>2. QED
    BY <2>1, NatMin
<1>3. n # 0 /\ n - 1 \in Nat /\ n - 1 \notin out
  BY <1>2
<1>4. (n - 1) + 1 \in N
  BY <1>3
<1>5. QED
  BY <1>2, <1>3, <1>4
(* A sum is zero when every value is, and of natural numbers only then. *)
LEMMA SumZero ==
  ASSUME NEW f, NEW S, IsFiniteSet(S), \A x \in S : f[x] \in Nat
  PROVE  SumFunctionOnSet(f, S) = 0 <=> \A x \in S : f[x] = 0
<1>1. Whole(f, S)
  BY DEF Whole
<1>2. ASSUME SumFunctionOnSet(f, S) = 0, NEW x \in S PROVE f[x] = 0
  <2>1. 0 = f[x] + SumFunctionOnSet(f, S \ {x})
    BY <1>1, <1>2, SumRemove
  <2>2. SumFunctionOnSet(f, S \ {x}) \in Nat
    <3>1. IsFiniteSet(S \ {x})
      BY FS_Subset
    <3>2. QED
      BY <3>1, SumNat
  <2>3. QED
    BY <2>1, <2>2
<1>3. ASSUME \A x \in S : f[x] = 0 PROVE SumFunctionOnSet(f, S) = 0
  <2>1. Sums([s \in SUBSET S |-> 0], f, S)
    BY <1>3 DEF Sums
  <2>2. QED
    BY <2>1, SumsIs
<1>4. QED
  BY <1>2, <1>3

(* Values within a limit sum up to no more than as many limits. *)
LEMMA SumWithin ==
  ASSUME NEW f, NEW S, IsFiniteSet(S), NEW L \in Nat,
         \A x \in S : f[x] \in Int /\ -L <= f[x] /\ f[x] <= L
  PROVE  /\ -(L * Cardinality(S)) <= SumFunctionOnSet(f, S)
         /\ SumFunctionOnSet(f, S) <= L * Cardinality(S)
<1> DEFINE Bound(T) == /\ -(L * Cardinality(T)) <= SumFunctionOnSet(f, T)
                       /\ SumFunctionOnSet(f, T) <= L * Cardinality(T)
           F == {T \in SUBSET S : Bound(T)}
<1>1. {} \in F
  BY SumRemove, FS_EmptySet DEF Whole
<1>2. ASSUME NEW T \in F, NEW x \in S \ T PROVE T \cup {x} \in F
  <2>1. IsFiniteSet(T) /\ Whole(f, T) /\ IsFiniteSet(T \cup {x}) /\ Whole(f, T \cup {x}) /\ (T \cup {x}) \ {x} = T
    BY FS_Subset DEF Whole
  <2>2. SumFunctionOnSet(f, T \cup {x}) = f[x] + SumFunctionOnSet(f, T) /\ SumFunctionOnSet(f, T) \in Int
    BY <2>1, SumRemove
  <2>3. Cardinality(T \cup {x}) = Cardinality(T) + 1 /\ Cardinality(T) \in Nat
    BY <2>1, FS_AddElement, FS_CardinalityType
  <2>4. \A l, n \in Nat : l * (n + 1) = l * n + l /\ l * n \in Nat
    OBVIOUS
  <2>5. QED
    BY <2>2, <2>3, <2>4
<1> HIDE DEF F
<1>3. F \in SUBSET SUBSET S
  BY DEF F
<1>4. S \in F
  BY <1>1, <1>2, <1>3, Grow
<1>5. QED
  BY <1>4 DEF F

(* The mean of the squares is no less than the square of the mean, and more as *)
(* soon as two values differ: SS_tot is positive for a series that is not flat. *)
LEMMA SquaresExceed ==
  ASSUME NEW f, NEW q, NEW S, IsFiniteSet(S),
         \A x \in S : f[x] \in Int /\ q[x] = f[x] * f[x]
  PROVE  LET spread == Cardinality(S) * SumFunctionOnSet(q, S)
                         - SumFunctionOnSet(f, S) * SumFunctionOnSet(f, S)
         IN  spread >= 0 /\ \A i, j \in S : f[i] # f[j] => spread > 0
<1> DEFINE n(T) == Cardinality(T)
           s(T) == SumFunctionOnSet(f, T)
           r(T) == SumFunctionOnSet(q, T)
           Apart(x, T)  == n(T) * (f[x] * f[x]) + r(T) - 2 * (f[x] * s(T))
           Spread(T) == n(T) * r(T) - s(T) * s(T)
           F == {T \in SUBSET S : Spread(T) >= 0 /\ \A x \in S : Apart(x, T) >= 0}
<1>1. \A T \in SUBSET S : n(T) \in Nat /\ s(T) \in Int /\ r(T) \in Int
  <2>1. \A T \in SUBSET S : IsFiniteSet(T) /\ Whole(f, T) /\ Whole(q, T)
    BY FS_Subset DEF Whole
  <2>2. QED
    BY <2>1, SumRemove, FS_CardinalityType
<1>2. ASSUME NEW T \in SUBSET S, NEW y \in S \ T
      PROVE  /\ n(T \cup {y}) = n(T) + 1
             /\ s(T \cup {y}) = f[y] + s(T)
             /\ r(T \cup {y}) = f[y] * f[y] + r(T)
  <2>1. IsFiniteSet(T) /\ IsFiniteSet(T \cup {y}) /\ Whole(f, T \cup {y}) /\ Whole(q, T \cup {y})
        /\ (T \cup {y}) \ {y} = T /\ y \in T \cup {y}
    BY FS_Subset DEF Whole
  <2>2. n(T \cup {y}) = n(T) + 1
    BY <2>1, FS_AddElement
  <2>3. s(T \cup {y}) = f[y] + s(T)
    BY <2>1, SumRemove
  <2>4. r(T \cup {y}) = q[y] + r(T)
    BY <2>1, SumRemove
  <2>5. QED
    BY <2>2, <2>3, <2>4
<1>3. \A u, v \in Int : (u - v) * (u - v) >= 0 /\ (u # v => (u - v) * (u - v) > 0)
  OBVIOUS
<1>4. ASSUME NEW T \in SUBSET S, NEW y \in S \ T, NEW x \in S
      PROVE  /\ Apart(x, T \cup {y}) = Apart(x, T) + (f[x] - f[y]) * (f[x] - f[y])
             /\ Spread(T \cup {y}) = Spread(T) + Apart(y, T)
             /\ Apart(x, T) \in Int /\ Spread(T) \in Int /\ Apart(y, T) \in Int
  <2> DEFINE k == n(T)  a == s(T)  b == r(T)  u == f[x]  v == f[y]
             apart == (u - v) * (u - v)
  <2>1. k \in Nat /\ a \in Int /\ b \in Int /\ u \in Int /\ v \in Int
    BY <1>1
  <2>2. n(T \cup {y}) = k + 1 /\ s(T \cup {y}) = v + a /\ r(T \cup {y}) = v * v + b
    BY <1>2
  <2>3. /\ Apart(x, T \cup {y}) = (k + 1) * (u * u) + (v * v + b) - 2 * (u * (v + a))
        /\ Spread(T \cup {y}) = (k + 1) * (v * v + b) - (v + a) * (v + a)
    BY <2>2, Zenon
  <2>4. /\ Apart(x, T) = k * (u * u) + b - 2 * (u * a)
        /\ Apart(y, T) = k * (v * v) + b - 2 * (v * a)
        /\ Spread(T) = k * b - a * a
    OBVIOUS
  <2> HIDE DEF k, a, b, u, v, Apart, Spread
  <2>5. Apart(x, T \cup {y}) = Apart(x, T) + apart
    BY <2>1, <2>3, <2>4
  <2>6. Spread(T \cup {y}) = Spread(T) + Apart(y, T)
    BY <2>1, <2>3, <2>4
  <2>7. Apart(x, T) \in Int /\ Spread(T) \in Int /\ Apart(y, T) \in Int
    BY <2>1, <2>4
  <2>8. QED
    BY <2>5, <2>6, <2>7 DEF u, v
<1> HIDE DEF Apart, Spread
<1>5. {} \in F
  <2>1. n({}) = 0 /\ s({}) = 0 /\ r({}) = 0
    BY SumRemove, FS_EmptySet DEF Whole
  <2> HIDE DEF n, s, r
  <2>2. QED
    BY <2>1 DEF Apart, Spread
<1>6. ASSUME NEW T \in F, NEW y \in S \ T PROVE T \cup {y} \in F
  <2>1. T \in SUBSET S /\ Spread(T) >= 0 /\ Apart(y, T) >= 0 /\ \A x \in S : Apart(x, T) >= 0
    OBVIOUS
  <2>2. Spread(T \cup {y}) >= 0
    BY <1>4, <2>1
  <2>3. ASSUME NEW x \in S PROVE Apart(x, T \cup {y}) >= 0
    <3>1. f[x] \in Int /\ f[y] \in Int
      OBVIOUS
    <3> DEFINE d == (f[x] - f[y]) * (f[x] - f[y])
    <3>2. d >= 0 /\ d \in Int
      BY <1>3, <3>1
    <3>3. Apart(x, T \cup {y}) = Apart(x, T) + d /\ Apart(x, T) \in Int /\ Apart(x, T) >= 0
      BY <1>4, <2>1
    <3> HIDE DEF d
    <3>4. QED
      BY <3>2, <3>3
  <2>4. QED
    BY <2>1, <2>2, <2>3
<1> HIDE DEF F
<1>7. ASSUME NEW T \in SUBSET S PROVE T \in F
  <2> DEFINE G == {U \in SUBSET T : U \in F}
  <2>1. {} \in G /\ IsFiniteSet(T) /\ \A U \in G : \A x \in T \ U : U \cup {x} \in G
    BY <1>5, <1>6, FS_Subset
  <2>2. G \in SUBSET SUBSET T
    OBVIOUS
  <2> HIDE DEF G
  <2>3. T \in G
    BY <2>1, <2>2, Grow
  <2>4. QED
    BY <2>3 DEF G
<1>8. ASSUME NEW i \in S, NEW j \in S, f[i] # f[j] PROVE Spread(S) > 0
  <2> DEFINE U == (S \ {i}) \ {j}
  <2>1. U \in F /\ S \ {i} \in F
    BY <1>7
  <2>2. /\ S \ {i} = U \cup {j} /\ S = (S \ {i}) \cup {i} /\ U \in SUBSET S /\ S \ {i} \in SUBSET S
        /\ j \in S \ U /\ i \in S \ (S \ {i})
    BY <1>8
  <2>3. Apart(i, S \ {i}) > 0
    <3> DEFINE d == (f[i] - f[j]) * (f[i] - f[j])
    <3>1. d > 0 /\ d \in Int
      BY <1>3, <1>8
    <3> HIDE DEF U
    <3>2. Apart(i, U \cup {j}) = Apart(i, U) + d /\ Apart(i, U) \in Int
      <4>1. U \in SUBSET S /\ j \in S \ U /\ i \in S
        BY <2>2
      <4>2. QED
        BY <1>4, <4>1, Zenon
    <3>3. Apart(i, U) >= 0
      BY <2>1 DEF F
    <3> HIDE DEF d
    <3>4. Apart(i, U \cup {j}) > 0
      BY <3>1, <3>2, <3>3
    <3>5. QED
      BY <2>2, <3>4
  <2>4. /\ Spread(S) = Spread(S \ {i}) + Apart(i, S \ {i})
        /\ Spread(S \ {i}) \in Int /\ Apart(i, S \ {i}) \in Int
    BY <1>4, <2>2
  <2>5. Spread(S \ {i}) >= 0
    BY <2>1 DEF F
  <2>6. QED
    BY <2>3, <2>4, <2>5
<1>9. Spread(S) >= 0
  BY <1>7 DEF F
<1>10. QED
  BY <1>8, <1>9 DEF Spread

-------------------------------------------------------------------------------
(* The metrics of one output.                                                *)

Lengths == Nat \ {0}
SeriesOf(n) == [1..n -> Nat]

(* A quotient rounded up is a natural number, and zero only of zero. *)
LEMMA RoundedUp ==
  \A a \in Nat, b \in Nat \ {0} : CeilDiv(a, b) \in Nat /\ (a = 0 => CeilDiv(a, b) = 0)
<1>1. ASSUME NEW a \in Nat, NEW b \in Nat \ {0}
      PROVE  CeilDiv(a, b) \in Nat /\ (a = 0 => CeilDiv(a, b) = 0)
  <2>1. a + b - 1 \in Nat /\ (a = 0 => a + b - 1 = b - 1 /\ b - 1 < b)
    OBVIOUS
  <2>2. \A x \in Nat, y \in Nat \ {0} : x \div y \in Nat /\ (x < y => x \div y = 0)
    OBVIOUS
  <2>3. QED
    BY <2>1, <2>2 DEF CeilDiv
<1>2. QED
  BY <1>1

(* There is a least number whose square reaches a given one. *)
LEMMA RootExists ==
  \A x \in Nat \ {0} : \E r \in 1..x : (r - 1) * (r - 1) < x /\ x <= r * r
<1>1. ASSUME NEW x \in Nat \ {0} PROVE \E r \in 1..x : (r - 1) * (r - 1) < x /\ x <= r * r
  <2> DEFINE big == {r \in 1..x : x <= r * r}
  <2>1. big \in SUBSET Nat /\ big # {}
    <3>1. x <= x * x /\ x \in 1..x
      OBVIOUS
    <3>2. x \in big
      BY <3>1
    <3>3. big \in SUBSET Nat
      OBVIOUS
    <3> HIDE DEF big
    <3>4. QED
      BY <3>2, <3>3
  <2>2. PICK r \in big : \A y \in big : r <= y
    BY <2>1, NatMin
  <2>3. r \in 1..x /\ x <= r * r
    BY <2>2
  <2>4. (r - 1) * (r - 1) < x
    <3>1. CASE r = 1
      BY <2>3, <3>1
    <3>2. CASE r # 1
      <4>1. r - 1 \in 1..x /\ ~(r <= r - 1)
        BY <2>3, <3>2
      <4>2. ~(x <= (r - 1) * (r - 1))
        BY <2>2, <4>1
      <4>3. (r - 1) * (r - 1) \in Int
        BY <2>3
      <4>4. QED
        BY <4>2, <4>3
    <3>3. QED
      BY <3>1, <3>2
  <2>5. QED
    BY <2>3, <2>4
<1>2. QED
  BY <1>1

(* Every natural number has a root rounded up. *)
LEMMA Rooted == CeilSqrt(0) = 0 /\ \A x \in Nat : CeilSqrt(x) \in Nat
<1>1. ASSUME NEW x \in Nat \ {0} PROVE CeilSqrt(x) \in Nat
  <2>1. \E r \in 1..x : (r - 1) * (r - 1) < x /\ x <= r * r
    BY RootExists
  <2>2. (CHOOSE r \in 1..x : (r - 1) * (r - 1) < x /\ x <= r * r) \in 1..x
    BY <2>1
  <2>3. QED
    BY <2>2 DEF CeilSqrt
<1>2. CeilSqrt(0) = 0
  BY DEF CeilSqrt
<1>3. QED
  BY <1>1, <1>2

(* What is summed over two series of the same length. *)
LEMMA SeriesSums ==
  ASSUME NEW n \in Lengths, NEW p \in SeriesOf(n), NEW m \in SeriesOf(n)
  PROVE  /\ Len(m) = n /\ DOMAIN m = 1..n /\ IsFiniteSet(1..n)
         /\ SumFunction(m) \in Nat
         /\ SumFunction(Differences(p, m)) \in Int
         /\ SquaredError(p, m) \in Nat
         /\ p = m => SumFunction(Differences(p, m)) = 0 /\ SquaredError(p, m) = 0
<1> DEFINE d == Differences(p, m)
           e == Squares(d)
<1>1. Len(m) = n /\ DOMAIN m = 1..n
  BY DEF SeriesOf, Lengths
<1>2. IsFiniteSet(1..n)
  BY FS_Interval DEF Lengths
<1>3. DOMAIN d = 1..n /\ DOMAIN e = 1..n
  BY <1>1 DEF Differences, Squares
<1>4. ASSUME NEW i \in 1..n
      PROVE  d[i] \in Int /\ e[i] \in Nat /\ (p = m => d[i] = 0 /\ e[i] = 0)
  <2>1. p[i] \in Nat /\ m[i] \in Nat /\ d[i] = p[i] - m[i] /\ e[i] = d[i] * d[i]
    BY <1>1, <1>3 DEF SeriesOf, Differences, Squares
  <2>2. \A x \in Int : x * x \in Nat
    OBVIOUS
  <2> HIDE DEF d, e
  <2>3. QED
    BY <2>1, <2>2
<1> HIDE DEF d, e
<1>5. SumFunctionOnSet(m, 1..n) \in Nat
  BY <1>2, SumNat DEF SeriesOf
<1>6. SumFunctionOnSet(d, 1..n) \in Int
  BY <1>2, <1>4, SumRemove DEF Whole
<1>7. SumFunctionOnSet(e, 1..n) \in Nat
  BY <1>2, <1>4, SumNat
<1>8. p = m => SumFunctionOnSet(d, 1..n) = 0 /\ SumFunctionOnSet(e, 1..n) = 0
  <2>1. ASSUME p = m PROVE \A i \in 1..n : d[i] \in Nat /\ d[i] = 0 /\ e[i] \in Nat /\ e[i] = 0
    BY <1>4, <2>1
  <2>2. QED
    BY <1>2, <2>1, SumZero
<1>9. QED
  BY <1>1, <1>2, <1>3, <1>5, <1>6, <1>7, <1>8 DEF SumFunction, SquaredError, d, e

(* A silent series has nothing to explain. *)
LEMMA SilentIsFlat ==
  ASSUME NEW n \in Lengths, NEW m \in SeriesOf(n)
  PROVE  /\ Silent(m) <=> \A i \in 1..n : m[i] = 0
         /\ Silent(m) => Flat(m)
<1>1. DOMAIN m = 1..n /\ IsFiniteSet(1..n)
  BY SeriesSums
<1>2. Silent(m) <=> \A i \in 1..n : m[i] = 0
  BY <1>1, SumZero DEF SeriesOf, Silent, SumFunction
<1>3. QED
  BY <1>1, <1>2 DEF Flat

(* The metrics are numbers: nothing is divided by zero, or by less.  Who        *)
(* predicts what was measured makes no error.                                   *)
LEMMA MetricsDefined ==
  ASSUME NEW n \in Lengths, NEW p \in SeriesOf(n), NEW m \in SeriesOf(n)
  PROVE  /\ ~Silent(m) => Cvrmse(p, m) \in Nat /\ Nmbe(p, m) \in Int
         /\ ~Silent(m) /\ p = m => Cvrmse(p, m) = 0 /\ Nmbe(p, m) = 0
         /\ ~Flat(m) => RSquared(p, m) \in Int
<1> DEFINE total == SumFunction(m)
           error == SquaredError(p, m)
           bias == SumFunction(Differences(p, m))
<1>1. /\ Len(m) = n /\ DOMAIN m = 1..n /\ IsFiniteSet(1..n)
      /\ total \in Nat /\ error \in Nat /\ bias \in Int
      /\ p = m => bias = 0 /\ error = 0
  BY SeriesSums
<1>2. n \in Nat /\ n > 0
  BY DEF Lengths
<1>3. CASE ~Silent(m)
  <2>1. total \in Nat \ {0}
    BY <1>1, <1>3 DEF Silent
  <2> DEFINE a == 10000 * Len(m) * error
             b == total * total
  <2> HIDE DEF total, error, bias
  <2>2. a \in Nat /\ b \in Nat \ {0} /\ (error = 0 => a = 0)
    <3>1. \A t \in Nat \ {0} : t * t \in Nat \ {0}
      OBVIOUS
    <3>2. QED
      BY <1>1, <1>2, <2>1, <3>1
  <2>3. Cvrmse(p, m) = CeilSqrt(CeilDiv(a, b))
    BY DEF Cvrmse, total, error
  <2>4. Cvrmse(p, m) \in Nat /\ (p = m => Cvrmse(p, m) = 0)
    <3> HIDE DEF a, b
    <3>1. CeilDiv(a, b) \in Nat /\ (a = 0 => CeilDiv(a, b) = 0)
      BY <2>2, RoundedUp
    <3>2. QED
      BY <1>1, <2>2, <2>3, <3>1, Rooted
  <2>5. Nmbe(p, m) \in Int /\ (p = m => Nmbe(p, m) = 0)
    <3> DEFINE c == 100 * Abs(bias)
               size == CeilDiv(c, total)
    <3>1. c \in Nat /\ (bias = 0 => c = 0)
      BY <1>1 DEF Abs
    <3>2. Nmbe(p, m) = IF bias < 0 THEN -size ELSE size
      BY DEF Nmbe, bias, total
    <3> HIDE DEF c
    <3>3. size \in Nat /\ (c = 0 => size = 0)
      BY <2>1, <3>1, RoundedUp
    <3> HIDE DEF size
    <3>4. QED
      BY <1>1, <3>1, <3>2, <3>3
  <2>6. ~Flat(m) => RSquared(p, m) \in Int
    <3>1. SUFFICES ASSUME ~Flat(m) PROVE RSquared(p, m) \in Int
      OBVIOUS
    <3> DEFINE q == Squares(m)
               s == SumFunction(q)
               t == Len(m) * s - total * total
               c == 100 * Len(m) * error
    <3>2. PICK i \in 1..n, j \in 1..n : m[i] # m[j]
      BY <1>1, <3>1 DEF Flat
    <3>3. DOMAIN q = 1..n /\ \A x \in 1..n : m[x] \in Int /\ q[x] = m[x] * m[x]
      BY <1>1 DEF Squares, SeriesOf
    <3>4. Cardinality(1..n) = n
      BY <1>2, FS_Interval
    <3>5. s \in Int
      <4>1. \A x \in 1..n : q[x] \in Int
        <5>1. \A x \in Int : x * x \in Int
          OBVIOUS
        <5>2. QED
          BY <3>3, <5>1
      <4> HIDE DEF q
      <4>2. SumFunctionOnSet(q, 1..n) \in Int
        BY <1>1, <4>1, SumRemove DEF Whole
      <4>3. QED
        BY <3>3, <4>2 DEF SumFunction
    <3>6. t > 0
      <4> HIDE DEF q
      <4>1. Cardinality(1..n) * SumFunctionOnSet(q, 1..n)
              - SumFunctionOnSet(m, 1..n) * SumFunctionOnSet(m, 1..n) > 0
        BY <1>1, <3>2, <3>3, SquaresExceed
      <4>2. total = SumFunctionOnSet(m, 1..n) /\ s = SumFunctionOnSet(q, 1..n)
        BY <1>1, <3>3 DEF SumFunction, total
      <4>3. QED
        BY <1>1, <3>4, <4>1, <4>2
    <3>7. RSquared(p, m) = 100 - CeilDiv(c, t)
      BY DEF RSquared, total, error
    <3> HIDE DEF q, s
    <3>8. t \in Nat \ {0} /\ c \in Nat
      <4>1. Len(m) * s \in Int /\ total * total \in Int
        BY <1>1, <1>2, <3>5
      <4>2. c \in Nat
        BY <1>1, <1>2
      <4>3. QED
        BY <3>6, <4>1, <4>2
    <3> HIDE DEF t, c
    <3>9. CeilDiv(c, t) \in Nat
      BY <3>8, RoundedUp
    <3>10. QED
      BY <3>7, <3>9
  <2>7. QED
    BY <2>4, <2>5, <2>6
<1>4. CASE Silent(m)
  BY <1>4, SilentIsFlat
<1>5. QED
  BY <1>3, <1>4

-------------------------------------------------------------------------------
(* The metrics over outputs.                                                 *)

(* An average is a number; that of a single output is its own. *)
LEMMA Averages ==
  ASSUME NEW D, IsFiniteSet(D), NEW f \in [D -> Int], NEW default \in Int
  PROVE  /\ Average(f, default) \in Metric
         /\ D = {} => Average(f, default) = [sum |-> default, of |-> 1]
         /\ D # {} => Average(f, default) = [sum |-> SumFunctionOnSet(f, D), of |-> Cardinality(D)]
         /\ \A o : D = {o} => Average(f, default) = [sum |-> f[o], of |-> 1]
<1>1. DOMAIN f = D /\ Whole(f, D)
  BY DEF Whole
<1>2. D = {} => Average(f, default) = [sum |-> default, of |-> 1]
  BY <1>1 DEF Average
<1>3. D # {} => Average(f, default) = [sum |-> SumFunctionOnSet(f, D), of |-> Cardinality(D)]
  BY <1>1 DEF Average, SumFunction
<1>4. Average(f, default) \in Metric
  <2>1. CASE D = {}
    BY <1>2, <2>1 DEF Metric
  <2>2. CASE D # {}
    <3>1. SumFunctionOnSet(f, D) \in Int
      BY <1>1, SumRemove
    <3>2. Cardinality(D) \in Nat \ {0}
      BY <2>2, FS_CardinalityType, FS_EmptySet
    <3>3. QED
      BY <1>3, <2>2, <3>1, <3>2 DEF Metric
  <2>3. QED
    BY <2>1, <2>2
<1>5. ASSUME NEW o, D = {o} PROVE Average(f, default) = [sum |-> f[o], of |-> 1]
  <2>1. SumFunctionOnSet(f, D) = f[o] + SumFunctionOnSet(f, D \ {o}) /\ SumFunctionOnSet(f, {}) = 0
    BY <1>1, <1>5, SumRemove
  <2>2. D \ {o} = {} /\ f[o] \in Int /\ D # {}
    BY <1>5
  <2>3. SumFunctionOnSet(f, D) = f[o]
    BY <2>1, <2>2
  <2>4. Cardinality(D) = 1
    BY <1>5, FS_Singleton
  <2>5. QED
    BY <1>3, <2>2, <2>3, <2>4
<1>6. QED
  BY <1>2, <1>3, <1>4, <1>5

(* If each output is within a limit, so is their average. *)
LEMMA AverageWithin ==
  ASSUME NEW D, IsFiniteSet(D), D # {}, NEW f \in [D -> Int], NEW default \in Int, NEW limit \in Nat,
         \A o \in D : Within([sum |-> f[o], of |-> 1], limit)
  PROVE  Within(Average(f, default), limit)
<1>1. ASSUME NEW o \in D PROVE f[o] \in Int /\ -limit <= f[o] /\ f[o] <= limit
  BY DEF Within, Abs
<1>2. /\ -(limit * Cardinality(D)) <= SumFunctionOnSet(f, D)
      /\ SumFunctionOnSet(f, D) <= limit * Cardinality(D)
  BY <1>1, SumWithin
<1>3. Average(f, default) = [sum |-> SumFunctionOnSet(f, D), of |-> Cardinality(D)]
  BY Averages
<1>4. Average(f, default) \in Metric
  BY Averages
<1>5. Average(f, default) # NaN
  BY <1>4, ReportAssumption
<1>6. SumFunctionOnSet(f, D) \in Int /\ limit * Cardinality(D) \in Int
  BY FS_CardinalityType, SumRemove DEF Whole
<1>7. QED
  BY <1>2, <1>3, <1>5, <1>6 DEF Within, Abs

\* Each measured series has a prediction of the same length.
Comparable(p, m, n) ==
  /\ n \in Lengths /\ IsFiniteSet(DOMAIN m)
  /\ \A o \in DOMAIN m : m[o] \in SeriesOf(n) /\ p[o] \in SeriesOf(n)

Cvrmses(p, m)   == [o \in Counted(m) |-> Cvrmse(p[o], m[o])]
Nmbes(p, m)     == [o \in Counted(m) |-> Nmbe(p[o], m[o])]
RSquareds(p, m) == [o \in Explained(m) |-> RSquared(p[o], m[o])]

(* What is averaged are numbers. *)
LEMMA Numbers ==
  ASSUME NEW p, NEW m, NEW n, Comparable(p, m, n)
  PROVE  /\ IsFiniteSet(Counted(m)) /\ IsFiniteSet(Explained(m))
         /\ Cvrmses(p, m) \in [Counted(m) -> Nat]
         /\ Nmbes(p, m) \in [Counted(m) -> Int]
         /\ RSquareds(p, m) \in [Explained(m) -> Int]
<1>1. IsFiniteSet(Counted(m)) /\ IsFiniteSet(Explained(m))
  <2>1. Counted(m) \in SUBSET DOMAIN m /\ Explained(m) \in SUBSET DOMAIN m
    BY DEF Counted, Explained
  <2>2. QED
    BY <2>1, FS_Subset DEF Comparable
<1>2. ASSUME NEW o \in DOMAIN m
      PROVE  /\ ~Silent(m[o]) => Cvrmse(p[o], m[o]) \in Nat /\ Nmbe(p[o], m[o]) \in Int
             /\ ~Flat(m[o]) => RSquared(p[o], m[o]) \in Int
  BY MetricsDefined DEF Comparable
<1>3. \A o \in Counted(m) : Cvrmse(p[o], m[o]) \in Nat /\ Nmbe(p[o], m[o]) \in Int
  BY <1>2 DEF Counted
<1>4. \A o \in Explained(m) : RSquared(p[o], m[o]) \in Int
  BY <1>2 DEF Explained
<1>5. QED
  BY <1>1, <1>3, <1>4 DEF Cvrmses, Nmbes, RSquareds

(* So the metrics of a submission are, and with nothing counted they are the     *)
(* worst.                                                                       *)
LEMMA Totals ==
  ASSUME NEW p, NEW m, NEW n, Comparable(p, m, n)
  PROVE  /\ HourlyCvrmse(p, m) \in Metric /\ HourlyNmbe(p, m) \in Metric /\ HourlyRSquared(p, m) \in Metric
         /\ Counted(m) = {} => /\ HourlyCvrmse(p, m) = [sum |-> 100, of |-> 1]
                               /\ HourlyNmbe(p, m) = [sum |-> 100, of |-> 1]
         /\ Explained(m) = {} => HourlyRSquared(p, m) = [sum |-> 0, of |-> 1]
<1>1. HourlyCvrmse(p, m) = Average(Cvrmses(p, m), 100)
  BY DEF HourlyCvrmse, Cvrmses
<1>2. HourlyNmbe(p, m) = Average(Nmbes(p, m), 100)
  BY DEF HourlyNmbe, Nmbes
<1>3. HourlyRSquared(p, m) = Average(RSquareds(p, m), 0)
  BY DEF HourlyRSquared, RSquareds
<1>4. Cvrmses(p, m) \in [Counted(m) -> Int]
  BY Numbers
<1>5. QED
  BY <1>1, <1>2, <1>3, <1>4, Numbers, Averages

(* Who predicts exactly what was measured is within every band. *)
LEMMA Exact ==
  ASSUME NEW p, NEW m, NEW n, Comparable(p, m, n), Counted(m) # {},
         \A o \in DOMAIN m : p[o] = m[o], NEW limit \in Nat
  PROVE  Within(HourlyCvrmse(p, m), limit) /\ Within(HourlyNmbe(p, m), limit)
<1>1. ASSUME NEW o \in Counted(m) PROVE Cvrmse(p[o], m[o]) = 0 /\ Nmbe(p[o], m[o]) = 0
  BY MetricsDefined DEF Comparable, Counted
<1>2. ASSUME NEW o \in Counted(m)
      PROVE  /\ Within([sum |-> Cvrmses(p, m)[o], of |-> 1], limit)
             /\ Within([sum |-> Nmbes(p, m)[o], of |-> 1], limit)
  <2>1. [sum |-> 0, of |-> 1] # NaN
    BY ReportAssumption DEF Metric
  <2>2. Cvrmses(p, m)[o] = 0 /\ Nmbes(p, m)[o] = 0
    BY <1>1 DEF Cvrmses, Nmbes
  <2>3. QED
    BY <2>1, <2>2 DEF Within, Abs
<1>3. Cvrmses(p, m) \in [Counted(m) -> Int] /\ Nmbes(p, m) \in [Counted(m) -> Int]
      /\ IsFiniteSet(Counted(m))
  BY Numbers
<1>4. Within(Average(Cvrmses(p, m), 100), limit)
  <2> DEFINE f == Cvrmses(p, m)
             D == Counted(m)
  <2>1. D # {} /\ IsFiniteSet(D) /\ f \in [D -> Int]
        /\ \A o \in D : Within([sum |-> f[o], of |-> 1], limit)
    BY <1>2, <1>3
  <2> HIDE DEF f, D
  <2>2. Within(Average(f, 100), limit)
    BY <2>1, AverageWithin
  <2>3. QED
    BY <2>2 DEF f
<1>5. Within(Average(Nmbes(p, m), 100), limit)
  <2> DEFINE f == Nmbes(p, m)
             D == Counted(m)
  <2>1. D # {} /\ IsFiniteSet(D) /\ f \in [D -> Int]
        /\ \A o \in D : Within([sum |-> f[o], of |-> 1], limit)
    BY <1>2, <1>3
  <2> HIDE DEF f, D
  <2>2. Within(Average(f, 100), limit)
    BY <2>1, AverageWithin
  <2>3. QED
    BY <2>2 DEF f
<1>6. QED
  BY <1>4, <1>5 DEF HourlyCvrmse, HourlyNmbe, Cvrmses, Nmbes

-------------------------------------------------------------------------------
(* Months.                                                                   *)

(* Division with remainder. *)
LEMMA Division ==
  \A a \in Nat, b \in Nat \ {0} :
    /\ a \div b \in Nat
    /\ b * (a \div b) <= a /\ a < b * (a \div b) + b
    /\ \A q \in Nat : b * q <= a /\ a < b * q + b => a \div b = q
<1>1. ASSUME NEW a \in Nat, NEW b \in Nat \ {0}
      PROVE  a \div b \in Nat /\ b * (a \div b) <= a /\ a < b * (a \div b) + b
  OBVIOUS
<1>2. ASSUME NEW a \in Nat, NEW b \in Nat \ {0}, NEW q \in Nat, b * q <= a, a < b * q + b
      PROVE  a \div b = q
  <2> DEFINE r == a \div b
  <2>1. r \in Nat /\ b * r <= a /\ a < b * r + b
    BY <1>1
  <2> HIDE DEF r
  <2>2. CASE r < q
    <3>1. r + 1 <= q
      BY <2>1, <2>2
    <3>2. b * (r + 1) <= b * q
      BY <2>1, <3>1
    <3>3. b * (r + 1) = b * r + b
      BY <2>1
    <3>4. QED
      BY <1>2, <2>1, <3>2, <3>3
  <2>3. CASE q < r
    <3>1. q + 1 <= r
      BY <2>1, <2>3
    <3>2. b * (q + 1) <= b * r
      BY <2>1, <3>1
    <3>3. b * (q + 1) = b * q + b
      OBVIOUS
    <3>4. QED
      BY <1>2, <2>1, <3>2, <3>3
  <2>4. QED
    BY <2>1, <2>2, <2>3 DEF r
<1>3. QED
  BY <1>1, <1>2

(* A month has an hour, and no more than hours_per_month. *)
LEMMA MonthHours ==
  ASSUME NEW n \in Lengths, NEW s \in SeriesOf(n)
  PROVE  /\ Month(n) \in Lengths /\ Months(s) = 1..Month(n)
         /\ \A i \in 1..n : Month(i) \in 1..Month(n) /\ i \in HoursOf(Month(i), s)
         /\ \A j \in 1..Month(n) :
              /\ HoursOf(j, s) \subseteq 1..n /\ IsFiniteSet(HoursOf(j, s))
              /\ Cardinality(HoursOf(j, s)) \in 1..HoursPerMonth
<1> DEFINE H == HoursPerMonth
<1>1. H \in Nat \ {0}
  BY MonthAssumption
<1>2. Len(s) = n /\ DOMAIN s = 1..n /\ IsFiniteSet(1..n)
  BY SeriesSums
<1>3. n \in Nat /\ n >= 1
  BY DEF Lengths
<1>4. ASSUME NEW i \in 1..n
      PROVE  Month(i) \in Nat /\ Month(i) >= 1
             /\ H * (Month(i) - 1) <= i - 1 /\ i - 1 < H * (Month(i) - 1) + H
  <2>1. i - 1 \in Nat
    BY <1>3
  <2> DEFINE q == (i - 1) \div H
  <2>2. q \in Nat /\ H * q <= i - 1 /\ i - 1 < H * q + H
    BY <1>1, <2>1, Division
  <2>3. Month(i) = q + 1
    BY DEF Month
  <2> HIDE DEF q, H
  <2>4. Month(i) - 1 = q
    BY <2>2, <2>3
  <2>5. QED
    BY <2>2, <2>3, <2>4
<1>5. ASSUME NEW i \in 1..n PROVE Month(i) <= Month(n)
  <2> DEFINE u == Month(i) - 1
             v == Month(n) - 1
  <2>1. /\ u \in Nat /\ H * u <= i - 1
        /\ v \in Nat /\ n - 1 < H * v + H
    BY <1>3, <1>4
  <2>2. u <= v => Month(i) <= Month(n)
    BY <1>3, <1>4
  <2> HIDE DEF u, v, H
  <2>3. ASSUME v < u PROVE FALSE
    <3>1. v + 1 <= u
      BY <2>1, <2>3
    <3>2. H * (v + 1) <= H * u
      BY <1>1, <2>1, <3>1
    <3>3. H * (v + 1) = H * v + H
      BY <1>1, <2>1
    <3>4. H * v \in Nat /\ H * u \in Nat
      BY <1>1, <2>1
    <3>5. QED
      BY <1>1, <1>3, <2>1, <3>2, <3>3, <3>4
  <2>4. QED
    BY <2>1, <2>2, <2>3
<1>6. Month(n) \in Lengths /\ Months(s) = 1..Month(n)
  <2>1. Month(n) \in Nat /\ Month(n) >= 1
    BY <1>3, <1>4
  <2>2. QED
    BY <1>2, <2>1 DEF Lengths, Months
<1>7. ASSUME NEW i \in 1..n PROVE Month(i) \in 1..Month(n) /\ i \in HoursOf(Month(i), s)
  <2>1. Month(n) \in Nat
    BY <1>6 DEF Lengths
  <2>2. QED
    BY <1>2, <1>4, <1>5, <2>1 DEF HoursOf
<1>8. ASSUME NEW j \in 1..Month(n)
      PROVE  /\ HoursOf(j, s) \subseteq 1..n /\ IsFiniteSet(HoursOf(j, s))
             /\ Cardinality(HoursOf(j, s)) \in 1..HoursPerMonth
  <2>1. j \in Nat /\ j >= 1 /\ j <= Month(n) /\ Month(n) \in Nat
    BY <1>6 DEF Lengths
  <2> DEFINE k == j - 1
             lo == H * k
  <2>2. k \in Nat /\ lo \in Nat
    BY <1>1, <2>1
  <2>3. HoursOf(j, s) \subseteq 1..n /\ IsFiniteSet(HoursOf(j, s))
    <3>1. HoursOf(j, s) \in SUBSET (1..n)
      BY <1>2 DEF HoursOf
    <3>2. QED
      BY <1>2, <3>1, FS_Subset
  <2>4. HoursOf(j, s) \subseteq (lo + 1)..(lo + H)
    <3>1. SUFFICES ASSUME NEW i \in HoursOf(j, s) PROVE i \in (lo + 1)..(lo + H)
      OBVIOUS
    <3>2. i \in 1..n /\ Month(i) = j
      BY <1>2 DEF HoursOf
    <3>3. lo <= i - 1 /\ i - 1 < lo + H
      BY <1>4, <3>2
    <3> HIDE DEF lo
    <3>4. QED
      BY <1>1, <1>3, <2>2, <3>2, <3>3
  <2>5. Cardinality(HoursOf(j, s)) <= H
    <3> HIDE DEF lo
    <3>1. IsFiniteSet((lo + 1)..(lo + H)) /\ Cardinality((lo + 1)..(lo + H)) = H
      BY <1>1, <2>2, FS_Interval
    <3>2. QED
      BY <2>4, <3>1, FS_Subset
  <2>6. lo + 1 \in HoursOf(j, s)
    <3>1. lo + 1 <= n
      <4>1. H * (Month(n) - 1) <= n - 1
        BY <1>3, <1>4
      <4>2. k <= Month(n) - 1 /\ Month(n) - 1 \in Nat
        BY <2>1
      <4>3. lo <= H * (Month(n) - 1)
        <5>1. \A a, b, c \in Nat : b <= c => a * b <= a * c
          OBVIOUS
        <5>2. QED
          BY <1>1, <2>2, <4>2, <5>1
      <4> HIDE DEF lo
      <4>4. H * (Month(n) - 1) \in Nat
        BY <1>1, <4>2
      <4>5. QED
        BY <1>3, <2>2, <4>1, <4>3, <4>4
    <3>2. lo \div H = k
      BY <1>1, <2>2, Division
    <3>3. (lo + 1) - 1 = lo
      BY <2>2
    <3>4. Month(lo + 1) = k + 1 /\ k + 1 = j
      BY <2>1, <3>2, <3>3 DEF Month
    <3>5. lo + 1 \in 1..n
      BY <1>3, <2>2, <3>1
    <3>6. QED
      BY <1>2, <3>4, <3>5 DEF HoursOf
  <2>7. Cardinality(HoursOf(j, s)) \in Nat \ {0}
    BY <2>3, <2>6, FS_CardinalityType, FS_EmptySet
  <2>8. QED
    BY <1>1, <2>3, <2>5, <2>7
<1>9. QED
  BY <1>6, <1>7, <1>8

(* A series by the month is one, and says something if the hours do. *)
LEMMA Monthlies ==
  ASSUME NEW n \in Lengths, NEW s \in SeriesOf(n), NEW method \in {"mean", "sum"}
  PROVE  /\ ByMonth(s, method) \in SeriesOf(Month(n))
         /\ ~Silent(s) => ~Silent(ByMonth(s, method))
<1> DEFINE H == HoursPerMonth
           sum(j) == SumFunctionOnSet(s, HoursOf(j, s))
           size(j) == Cardinality(HoursOf(j, s))
           unit == H * LastMonth(s)
           by == ByMonth(s, method)
<1>1. H \in Nat \ {0} /\ Month(n) \in Lengths
  BY MonthAssumption, MonthHours
<1>2. unit \in Nat /\ H <= unit
  <2>1. LastMonth(s) \in 1..H
    BY <1>1, SeriesSums, MonthHours DEF LastMonth, Lengths
  <2>2. \A a, b \in Nat \ {0} : a <= a * b /\ a * b \in Nat
    OBVIOUS
  <2>3. QED
    BY <1>1, <2>1, <2>2
<1>3. /\ by = [j \in 1..Month(n) |-> by[j]]
      /\ \A j \in 1..Month(n) :
           by[j] = IF method = "sum" THEN sum(j) ELSE (unit * sum(j)) \div size(j)
  BY MonthHours DEF ByMonth
<1> HIDE DEF by
<1>4. ASSUME NEW j \in 1..Month(n)
      PROVE  /\ sum(j) \in Nat /\ size(j) \in 1..H /\ by[j] \in Nat
             /\ sum(j) # 0 => by[j] # 0
  <2>1. HoursOf(j, s) \subseteq 1..n /\ IsFiniteSet(HoursOf(j, s)) /\ size(j) \in 1..H
    BY MonthHours
  <2>2. sum(j) \in Nat
    BY <2>1, SumNat DEF SeriesOf
  <2> HIDE DEF sum, size, unit
  <2>3. (unit * sum(j)) \div size(j) \in Nat
    <3>1. unit * sum(j) \in Nat /\ size(j) \in Nat \ {0}
      BY <1>1, <1>2, <2>1, <2>2
    <3>2. QED
      BY <3>1, Division
  <2>4. sum(j) # 0 => (unit * sum(j)) \div size(j) # 0
    <3>1. SUFFICES ASSUME sum(j) # 0 PROVE (unit * sum(j)) \div size(j) # 0
      OBVIOUS
    <3>2. \A a, b \in Nat \ {0} : a <= a * b /\ a * b \in Nat
      OBVIOUS
    <3>3. unit <= unit * sum(j) /\ unit * sum(j) \in Nat
      BY <1>1, <1>2, <2>2, <3>1, <3>2
    <3> DEFINE a == unit * sum(j)
               q == a \div size(j)
    <3> HIDE DEF a
    <3>4. a \in Nat /\ size(j) \in Nat \ {0} /\ size(j) <= a
      BY <1>1, <1>2, <2>1, <3>3 DEF a
    <3>5. q \in Nat /\ a < size(j) * q + size(j)
      BY <3>4, Division
    <3> HIDE DEF q
    <3>6. q # 0
      BY <3>4, <3>5
    <3>7. QED
      BY <3>6 DEF q, a
  <2>5. QED
    BY <1>3, <2>1, <2>2, <2>3, <2>4
<1>5. by \in SeriesOf(Month(n))
  BY <1>3, <1>4 DEF SeriesOf
<1>6. ASSUME ~Silent(s) PROVE ~Silent(by)
  <2>1. PICK i \in 1..n : s[i] # 0
    BY <1>6, SilentIsFlat
  <2> DEFINE j == Month(i)
  <2>2. j \in 1..Month(n) /\ i \in HoursOf(j, s)
        /\ HoursOf(j, s) \subseteq 1..n /\ IsFiniteSet(HoursOf(j, s))
    BY MonthHours
  <2>3. \A x \in HoursOf(j, s) : s[x] \in Nat
    BY <2>2 DEF SeriesOf
  <2>4. sum(j) # 0
    BY <2>1, <2>2, <2>3, SumZero
  <2>5. by[j] # 0
    BY <1>4, <2>2, <2>4
  <2>6. QED
    BY <1>1, <1>5, <2>2, <2>5, SilentIsFlat
<1>7. QED
  BY <1>5, <1>6 DEF by

-------------------------------------------------------------------------------
(* The inductive invariant.                                                  *)

\* The truth of an output is an hourly series of the period.
Timed ==
  /\ hours \in Periods
  /\ DOMAIN truth \subseteq Outputs
  /\ \A o \in DOMAIN truth : truth[o] \in SeriesOf(hours)

\* It was made from what was recorded.
Recorded ==
  /\ DOMAIN recorded = DOMAIN truth
  /\ \A o \in DOMAIN truth :
       recorded[o] # Missing => recorded[o] \in Recordings[o] /\ truth[o] = Hourly(o, recorded[o])

Refused(r) == r \in {[reason |-> x] : x \in Refusals}

Measurement(p, exceeded, scored) ==
  [reason |-> "", predicted |-> p, cvrmse |-> HourlyCvrmse(p, truth), nmbe |-> HourlyNmbe(p, truth),
   r_squared |-> HourlyRSquared(p, truth), exceeded |-> exceeded, scored |-> scored]

Measured(r) ==
  \E p \in [Outputs -> SeriesOf(hours)], exceeded, scored \in BOOLEAN :
    /\ r = Measurement(p, exceeded, scored)
    /\ scored => exceeded = Exceeds(HourlyCvrmse(p, truth), Ceiling)

\* A result is a refusal, or says how far the prediction was from all of the truth.
Judged == result # None => DOMAIN truth = Outputs /\ (Refused(result) \/ Measured(result))

Rejection(r) ==
  [reason |-> r.reason, metrics |-> [m \in MetricNames |-> NaN], perOutput |-> <<>>,
   passes |-> [b \in Bands \cup {"overall"} |-> FALSE]]

MetricsOf(r) ==
  [hourly_cvrmse    |-> r.cvrmse,
   hourly_nmbe      |-> r.nmbe,
   hourly_r_squared |-> r.r_squared,
   monthly_cvrmse   |-> MonthlyCvrmse(r.predicted, truth),
   monthly_nmbe     |-> MonthlyNmbe(r.predicted, truth)]

Acceptance(r) ==
  [reason    |-> IF r.exceeded THEN "CVRMSE_CEILING_EXCEEDED" ELSE Null,
   metrics   |-> MetricsOf(r),
   perOutput |-> PerOutput(r.predicted, truth),
   passes    |-> Passes(MetricsOf(r))]

\* A report is that of the result, and the result is final.
Built ==
  report # None =>
    /\ result # None
    /\ \/ result.reason # "" /\ report = Rejection(result)
       \/ result.reason = "" /\ result.scored /\ report = Acceptance(result)

\* What is stored is the report.
Stored == row # None => report # None /\ row = ToDict(report)

IInv == Timed /\ Recorded /\ Judged /\ Built /\ Stored

(* Samples in the unit of their output are not negative. *)
LEMMA InUnitTyped ==
  ASSUME NEW o \in Outputs, NEW samples \in Recordings[o], hours \in Periods
  PROVE  /\ samples \in Seq(Nat) /\ Len(samples) \in Nat
         /\ InUnit(o, samples) \in [1..Len(samples) -> Nat]
<1>1. samples \in Seq(Nat)
  BY ReportAssumption
<1>2. Len(samples) \in Nat /\ DOMAIN samples = 1..Len(samples) /\ hours \in Nat
  BY <1>1, ReportAssumption
<1>3. ASSUME NEW i \in 1..Len(samples)
      PROVE  (IF Method[o] = "mean" THEN samples[i] - Freezing
              ELSE (samples[i] * hours) \div Len(samples)) \in Nat
  <2>1. samples[i] \in Nat /\ Len(samples) \in Nat \ {0}
    BY <1>1, <1>2
  <2>2. CASE Method[o] = "mean"
    <3>1. Freezing \in Nat /\ samples[i] >= Freezing
      BY <1>2, <2>2, ReportAssumption
    <3>2. QED
      BY <2>1, <2>2, <3>1
  <2>3. CASE Method[o] # "mean"
    <3>1. samples[i] * hours \in Nat
      BY <1>2, <2>1
    <3>2. (samples[i] * hours) \div Len(samples) \in Nat
      BY <2>1, <3>1, Division
    <3>3. QED
      BY <2>3, <3>2
  <2>4. QED
    BY <2>2, <2>3
<1>4. QED
  BY <1>1, <1>2, <1>3 DEF InUnit

(* The hours of a period take their samples from the recording. *)
LEMMA Chunks ==
  ASSUME NEW n \in Nat, NEW h \in Nat \ {0}
  PROVE  /\ n \div h \in Nat /\ h * (n \div h) <= n
         /\ \A i \in 1..h :
              /\ (((i - 1) * (n \div h) + 1)..(i * (n \div h))) \in SUBSET (1..n)
              /\ IsFiniteSet(((i - 1) * (n \div h) + 1)..(i * (n \div h)))
<1> DEFINE size == n \div h
<1>1. size \in Nat /\ h * size <= n
  BY Division
<1> HIDE DEF size
<1>2. ASSUME NEW i \in 1..h
      PROVE  /\ (((i - 1) * size + 1)..(i * size)) \in SUBSET (1..n)
             /\ IsFiniteSet(((i - 1) * size + 1)..(i * size))
  <2>1. \A a, b, c \in Nat : b <= c => b * a <= c * a /\ b * a \in Nat /\ c * a \in Nat
    OBVIOUS
  <2>2. i * size \in Nat /\ i * size <= h * size /\ h * size \in Nat /\ (i - 1) * size \in Nat
    BY <1>1, <2>1
  <2>3. i * size <= n
    BY <1>1, <2>2
  <2> DEFINE lo == (i - 1) * size
             hi == i * size
  <2>4. lo \in Nat /\ hi \in Nat /\ hi <= n
    BY <2>2, <2>3
  <2> HIDE DEF lo, hi
  <2>5. ((lo + 1)..hi) \in SUBSET (1..n) /\ IsFiniteSet((lo + 1)..hi)
    BY <2>4, FS_Interval
  <2>6. QED
    BY <2>5 DEF lo, hi
<1>3. QED
  BY <1>1, <1>2 DEF size

(* So an hour's truth is not negative either. *)
LEMMA HourlyTyped ==
  ASSUME NEW o \in Outputs, NEW samples \in Recordings[o], hours \in Periods
  PROVE  Hourly(o, samples) \in SeriesOf(hours)
<1> DEFINE size == Len(samples) \div hours
           unit == InUnit(o, samples)
           total(i) == Chunk(unit, i, size)
<1>1. hours \in Nat \ {0}
  BY ReportAssumption
<1>2. Len(samples) \in Nat /\ unit \in [1..Len(samples) -> Nat]
  BY InUnitTyped
<1>3. size \in Nat
  BY <1>1, <1>2, Division
<1>4. ASSUME NEW i \in 1..hours PROVE total(i) \in Nat
  <2> DEFINE C == ((i - 1) * size + 1)..(i * size)
  <2>1. C \in SUBSET (1..Len(samples)) /\ IsFiniteSet(C)
    BY <1>1, <1>2, Chunks
  <2>2. \A k \in C : unit[k] \in Nat
    BY <1>2, <2>1
  <2> HIDE DEF C, unit
  <2>3. SumFunctionOnSet(unit, C) \in Nat
    BY <2>1, <2>2, SumNat
  <2>4. QED
    BY <2>3 DEF Chunk, C
<1>5. Hourly(o, samples) =
        [i \in 1..hours |->
           IF size = 0 THEN 0 ELSE IF Method[o] = "sum" THEN total(i) ELSE total(i) \div size]
  BY DEF Hourly
<1> HIDE DEF size, total
<1>6. ASSUME NEW i \in 1..hours, size # 0 PROVE total(i) \div size \in Nat
  BY <1>3, <1>4, <1>6, Division
<1>7. QED
  BY <1>4, <1>5, <1>6 DEF SeriesOf

(* It holds before anything is recorded, and every step keeps it. *)
LEMMA InitIInv == Init => IInv
<1> SUFFICES ASSUME Init PROVE IInv
  OBVIOUS
<1>1. DOMAIN truth = {} /\ DOMAIN recorded = {} /\ hours \in Periods
  BY DEF Init
<1>2. result = None /\ report = None /\ row = None
  BY DEF Init
<1>3. QED
  BY <1>1, <1>2 DEF IInv, Timed, Recorded, Judged, Built, Stored

LEMMA NextIInv == IInv /\ [Next]_vars => IInv'
<1> SUFFICES ASSUME IInv, [Next]_vars PROVE IInv'
  OBVIOUS
<1> USE DEF IInv
<1>1. ASSUME NEW o \in Outputs, Collect(o) PROVE IInv'
  <2>1. o \notin DOMAIN truth /\ hours' = hours /\ result' = result /\ report' = report /\ row' = row
    BY <1>1 DEF Collect
  <2>2. PICK samples \in Recordings[o] \cup {Missing} :
          /\ recorded' = With(recorded, o, samples)
          /\ truth' = With(truth, o, IF samples = Missing THEN [i \in 1..hours |-> 0]
                                     ELSE Hourly(o, samples))
    BY <1>1 DEF Collect
  <2> DEFINE series == IF samples = Missing THEN [i \in 1..hours |-> 0] ELSE Hourly(o, samples)
  <2>3. /\ DOMAIN truth' = DOMAIN truth \cup {o} /\ truth'[o] = series
        /\ \A x \in DOMAIN truth : truth'[x] = truth[x]
        /\ DOMAIN recorded' = DOMAIN recorded \cup {o} /\ recorded'[o] = samples
        /\ \A x \in DOMAIN truth : recorded'[x] = recorded[x]
    BY <2>1, <2>2 DEF With, Recorded
  <2>4. result = None
    BY <2>1 DEF Judged
  <2>5. report = None /\ row = None
    BY <2>4 DEF Built, Stored
  <2>6. series \in SeriesOf(hours)
    <3>1. CASE samples = Missing
      BY <3>1 DEF SeriesOf
    <3>2. CASE samples # Missing
      BY <3>2, HourlyTyped DEF Timed
    <3>3. QED
      BY <3>1, <3>2
  <2>7. Timed'
    BY <2>1, <2>3, <2>6 DEF Timed, SeriesOf
  <2>8. Recorded'
    <3>1. DOMAIN recorded' = DOMAIN truth'
      BY <2>3 DEF Recorded
    <3>2. ASSUME NEW x \in DOMAIN truth', recorded'[x] # Missing
          PROVE  (recorded[x] \in Recordings[x] /\ truth[x] = Hourly(x, recorded[x]))'
      <4>1. recorded'[x] \in Recordings[x] /\ truth'[x] = Hourly(x, recorded'[x]) =>
              (recorded[x] \in Recordings[x] /\ truth[x] = Hourly(x, recorded[x]))'
        BY <2>1 DEF Hourly, InUnit
      <4>2. CASE x = o
        BY <2>2, <2>3, <3>2, <4>1, <4>2
      <4>3. CASE x # o
        BY <2>3, <3>2, <4>1, <4>3 DEF Recorded
      <4>4. QED
        BY <4>2, <4>3
    <3>3. QED
      BY <3>1, <3>2 DEF Recorded
  <2>9. QED
    BY <2>1, <2>4, <2>5, <2>7, <2>8 DEF Judged, Built, Stored
<1>2. ASSUME UNCHANGED <<hours, recorded, truth>> PROVE (Timed /\ Recorded)'
  BY <1>2 DEF Timed, Recorded, SeriesOf, Hourly, InUnit
<1>3. ASSUME Ready /\ UNCHANGED <<hours, recorded, truth, report, row>>
      PROVE  /\ DOMAIN truth' = Outputs /\ hours' = hours /\ truth' = truth
             /\ Built' /\ Stored'
  BY <1>3 DEF Ready, Built, Stored
<1>4. CASE Refuse
  <2>1. PICK reason \in Refusals : result' = [reason |-> reason]
    BY <1>4 DEF Refuse
  <2>2. Ready /\ UNCHANGED <<hours, recorded, truth, report, row>>
    BY <1>4 DEF Refuse
  <2>3. Judged'
    BY <1>3, <2>1, <2>2 DEF Judged, Refused
  <2>4. QED
    BY <1>2, <1>3, <2>2, <2>3
<1>5. CASE Measure
  <2>1. PICK p \in [Outputs -> [1..hours -> Predictions]] :
          result' = [reason |-> "", predicted |-> p,
                     cvrmse |-> HourlyCvrmse(p, truth), nmbe |-> HourlyNmbe(p, truth),
                     r_squared |-> HourlyRSquared(p, truth), exceeded |-> FALSE, scored |-> FALSE]
    BY <1>5 DEF Measure
  <2>2. Ready /\ UNCHANGED <<hours, recorded, truth, report, row>>
    BY <1>5 DEF Measure
  <2>3. p \in [Outputs -> SeriesOf(hours)]
    BY ReportAssumption DEF SeriesOf
  <2>4. result' = Measurement(p, FALSE, FALSE)
    BY <2>1 DEF Measurement
  <2>5. Measured(result)'
    BY <1>3, <2>2, <2>3, <2>4 DEF Measured, Measurement
  <2>6. QED
    BY <1>2, <1>3, <2>2, <2>5 DEF Judged
<1>6. CASE Score
  <2>1. /\ result # None /\ result.reason = "" /\ ~result.scored
        /\ result' = [result EXCEPT !.exceeded = Exceeds(result.cvrmse, Ceiling), !.scored = TRUE]
        /\ UNCHANGED <<hours, recorded, truth, report, row>>
    BY <1>6 DEF Score
  <2>2. DOMAIN truth = Outputs /\ Measured(result)
    <3>1. "" \notin Refusals
      BY DEF Refusals
    <3>2. ASSUME Refused(result) PROVE FALSE
      <4>1. PICK x \in Refusals : result = [reason |-> x]
        BY <3>2 DEF Refused
      <4>2. QED
        BY <2>1, <3>1, <4>1
    <3>3. QED
      BY <2>1, <3>2 DEF Judged
  <2>3. report = None /\ row = None
    BY <2>1 DEF Built, Stored
  <2>4. PICK p \in [Outputs -> SeriesOf(hours)], e \in BOOLEAN, s \in BOOLEAN :
          result = Measurement(p, e, s)
    BY <2>2 DEF Measured
  <2> DEFINE x == Exceeds(HourlyCvrmse(p, truth), Ceiling)
  <2>5. result' = Measurement(p, x, TRUE) /\ x \in BOOLEAN
    <3>1. result.cvrmse = HourlyCvrmse(p, truth)
      BY <2>4 DEF Measurement
    <3>2. result' = [result EXCEPT !.exceeded = x, !.scored = TRUE]
      BY <2>1, <3>1, Zenon
    <3>3. x \in BOOLEAN
      BY DEF Exceeds
    <3> HIDE DEF x
    <3>4. result' = Measurement(p, x, TRUE)
      BY <2>4, <3>2 DEF Measurement
    <3>5. QED
      BY <3>3, <3>4
  <2>6. Measured(result)'
    BY <2>1, <2>5 DEF Measured, Measurement
  <2>7. QED
    BY <1>2, <2>1, <2>2, <2>3, <2>6 DEF Judged, Built, Stored
<1>7. ASSUME UNCHANGED <<hours, recorded, truth, result>>
      PROVE  Judged' /\ \A r : Acceptance(r)' = Acceptance(r)
  BY <1>7 DEF Judged, Measured, Measurement, Acceptance, MetricsOf
<1>8. CASE BuildRejected
  <2>1. /\ result # None /\ result.reason # "" /\ report = None
        /\ report' = Rejection(result)
        /\ UNCHANGED <<hours, recorded, truth, result, row>>
    BY <1>8 DEF BuildRejected, Rejection
  <2>2. Built' /\ Stored'
    BY <2>1 DEF Built, Stored, Rejection
  <2>3. QED
    BY <1>2, <1>7, <2>1, <2>2
<1>9. CASE Build
  <2>1. /\ result # None /\ result.reason = "" /\ result.scored /\ report = None
        /\ report' = Acceptance(result)
        /\ UNCHANGED <<hours, recorded, truth, result, row>>
    BY <1>9 DEF Build, Acceptance, MetricsOf
  <2>2. Built' /\ Stored'
    BY <1>7, <2>1 DEF Built, Stored, Acceptance, MetricsOf
  <2>3. QED
    BY <1>2, <1>7, <2>1, <2>2
<1>10. CASE Persist
  <2>1. /\ report # None /\ row' = ToDict(report)
        /\ UNCHANGED <<hours, recorded, truth, result, report>>
    BY <1>10 DEF Persist
  <2>2. Built' /\ Stored'
    BY <1>7, <2>1 DEF Built, Stored, Rejection, Acceptance, MetricsOf
  <2>3. QED
    BY <1>2, <1>7, <2>1, <2>2
<1>11. CASE NextSubmission
  BY <1>2, <1>11 DEF NextSubmission, Judged, Built, Stored
<1>12. CASE UNCHANGED vars
  <2>1. UNCHANGED <<hours, recorded, truth, result, report, row>>
    BY <1>12 DEF vars
  <2>2. Built' /\ Stored'
    BY <2>1 DEF Built, Stored, Rejection, Acceptance, MetricsOf
  <2>3. QED
    BY <1>2, <1>7, <2>1, <2>2
<1>13. QED
  BY <1>1, <1>4, <1>5, <1>6, <1>8, <1>9, <1>10, <1>11, <1>12 DEF Next

-------------------------------------------------------------------------------
(* Resampling.                                                               *)

(* The sum over two parts is the sum of theirs. *)
LEMMA SumSplit ==
  ASSUME NEW f, NEW A, NEW B, IsFiniteSet(A), IsFiniteSet(B), Whole(f, A), Whole(f, B), A \cap B = {}
  PROVE  SumFunctionOnSet(f, A \cup B) = SumFunctionOnSet(f, A) + SumFunctionOnSet(f, B)
<1> DEFINE F == {T \in SUBSET B : SumFunctionOnSet(f, A \cup T)
                                    = SumFunctionOnSet(f, A) + SumFunctionOnSet(f, T)}
<1>1. {} \in F
  <2>1. SumFunctionOnSet(f, {}) = 0 /\ SumFunctionOnSet(f, A) \in Int
    BY SumRemove
  <2>2. A \cup {} = A
    OBVIOUS
  <2>3. QED
    BY <2>1, <2>2
<1>2. ASSUME NEW T \in F, NEW x \in B \ T PROVE T \cup {x} \in F
  <2>1. T \in SUBSET B
    OBVIOUS
  <2>2. IsFiniteSet(T) /\ IsFiniteSet(T \cup {x}) /\ IsFiniteSet(A \cup (T \cup {x}))
    BY <2>1, FS_Subset, FS_AddElement, FS_Union
  <2>3. Whole(f, T \cup {x}) /\ Whole(f, A \cup (T \cup {x})) /\ Whole(f, T)
    BY <2>1 DEF Whole
  <2>4. (T \cup {x}) \ {x} = T /\ (A \cup (T \cup {x})) \ {x} = A \cup T
    BY <2>1
  <2>5. SumFunctionOnSet(f, T \cup {x}) = f[x] + SumFunctionOnSet(f, T)
    <3>1. x \in T \cup {x}
      OBVIOUS
    <3>2. QED
      BY <2>2, <2>3, <2>4, <3>1, SumRemove
  <2>6. SumFunctionOnSet(f, A \cup (T \cup {x})) = f[x] + SumFunctionOnSet(f, A \cup T)
    <3>1. x \in A \cup (T \cup {x})
      OBVIOUS
    <3>2. QED
      BY <2>2, <2>3, <2>4, <3>1, SumRemove
  <2>7. f[x] \in Int /\ SumFunctionOnSet(f, A) \in Int /\ SumFunctionOnSet(f, T) \in Int
    BY <2>2, <2>3, SumRemove DEF Whole
  <2>8. SumFunctionOnSet(f, A \cup T) = SumFunctionOnSet(f, A) + SumFunctionOnSet(f, T)
    OBVIOUS
  <2>9. SumFunctionOnSet(f, A \cup (T \cup {x})) = SumFunctionOnSet(f, A) + SumFunctionOnSet(f, T \cup {x})
    BY <2>5, <2>6, <2>7, <2>8
  <2>10. QED
    BY <2>1, <2>9
<1> HIDE DEF F
<1>3. F \in SUBSET SUBSET B
  BY DEF F
<1>4. B \in F
  BY <1>1, <1>2, <1>3, Grow
<1>5. QED
  BY <1>4 DEF F

(* Proportional values have proportional sums. *)
LEMMA SumScale ==
  ASSUME NEW f, NEW g, NEW S, IsFiniteSet(S), Whole(f, S), Whole(g, S), NEW a \in Int, NEW b \in Int,
         \A x \in S : a * f[x] = b * g[x]
  PROVE  a * SumFunctionOnSet(f, S) = b * SumFunctionOnSet(g, S)
<1> DEFINE F == {T \in SUBSET S : a * SumFunctionOnSet(f, T) = b * SumFunctionOnSet(g, T)}
<1>1. {} \in F
  <2>1. SumFunctionOnSet(f, {}) = 0 /\ SumFunctionOnSet(g, {}) = 0
    BY SumRemove
  <2>2. QED
    BY <2>1
<1>2. ASSUME NEW T \in F, NEW x \in S \ T PROVE T \cup {x} \in F
  <2>1. IsFiniteSet(T) /\ Whole(f, T) /\ Whole(g, T) /\ x \in T \cup {x}
        /\ IsFiniteSet(T \cup {x}) /\ Whole(f, T \cup {x}) /\ Whole(g, T \cup {x}) /\ (T \cup {x}) \ {x} = T
    BY FS_Subset DEF Whole
  <2> DEFINE u == SumFunctionOnSet(f, T)
             v == SumFunctionOnSet(g, T)
  <2>2. SumFunctionOnSet(f, T \cup {x}) = f[x] + u /\ SumFunctionOnSet(g, T \cup {x}) = g[x] + v
        /\ u \in Int /\ v \in Int
    BY <2>1, SumRemove
  <2>3. f[x] \in Int /\ g[x] \in Int /\ a * f[x] = b * g[x] /\ a * u = b * v
    BY DEF Whole
  <2> HIDE DEF u, v
  <2>4. a * (f[x] + u) = b * (g[x] + v)
    <3>1. \A p, q, r \in Int : p * (q + r) = p * q + p * r
      OBVIOUS
    <3>2. a * (f[x] + u) = a * f[x] + a * u
      BY <2>2, <2>3, <3>1, Zenon
    <3>3. b * (g[x] + v) = b * g[x] + b * v
      BY <2>2, <2>3, <3>1, Zenon
    <3>4. QED
      BY <2>3, <3>2, <3>3
  <2>5. QED
    BY <2>2, <2>4
<1> HIDE DEF F
<1>3. F \in SUBSET SUBSET S
  BY DEF F
<1>4. S \in F
  BY <1>1, <1>2, <1>3, Grow
<1>5. QED
  BY <1>4 DEF F

(* Dealt out in chunks of one size, what is in the chunks is all that comes     *)
(* before the end of the last one.                                             *)
LEMMA Dealt ==
  ASSUME NEW h \in Nat, NEW size \in Nat, NEW f, Whole(f, 1..(h * size)),
         NEW t, \A i \in 1..h : t[i] = Chunk(f, i, size)
  PROVE  SumFunctionOnSet(t, 1..h) = SumFunctionOnSet(f, 1..(h * size))
<1> DEFINE good == {k \in Nat : k <= h =>
                      SumFunctionOnSet(t, 1..k) = SumFunctionOnSet(f, 1..(k * size))}
<1>1. 0 \in good
  <2>1. 1..0 = {} /\ 1..(0 * size) = {}
    OBVIOUS
  <2>2. SumFunctionOnSet(t, {}) = 0 /\ SumFunctionOnSet(f, {}) = 0
    BY SumRemove, FS_EmptySet DEF Whole
  <2>3. QED
    BY <2>1, <2>2
<1>2. ASSUME NEW i \in 1..h
      PROVE  /\ i * size \in Nat /\ (i - 1) * size \in Nat /\ (i - 1) * size <= i * size
             /\ i * size <= h * size /\ h * size \in Nat
             /\ t[i] \in Int
  <2>1. \A a, b, c \in Nat : b <= c => b * a <= c * a /\ b * a \in Nat /\ c * a \in Nat
    OBVIOUS
  <2>2. i * size \in Nat /\ i * size <= h * size /\ h * size \in Nat
        /\ (i - 1) * size \in Nat /\ (i - 1) * size <= i * size
    BY <2>1
  <2> DEFINE lo == (i - 1) * size
             hi == i * size
             all == h * size
  <2>3. lo \in Nat /\ hi \in Nat /\ hi <= all /\ all \in Nat
    BY <2>2
  <2>4. t[i] = SumFunctionOnSet(f, (lo + 1)..hi) /\ Whole(f, 1..all)
    BY DEF Chunk
  <2> HIDE DEF lo, hi, all
  <2>5. IsFiniteSet((lo + 1)..hi) /\ Whole(f, (lo + 1)..hi)
    BY <2>3, <2>4, FS_Interval DEF Whole
  <2>6. t[i] \in Int
    BY <2>4, <2>5, SumRemove
  <2>7. QED
    BY <2>2, <2>6
<1>3. ASSUME NEW k \in good PROVE k + 1 \in good
  <2>1. SUFFICES ASSUME k + 1 <= h
                 PROVE  SumFunctionOnSet(t, 1..(k + 1)) = SumFunctionOnSet(f, 1..((k + 1) * size))
    OBVIOUS
  <2>2. k \in Nat /\ k + 1 \in 1..h
        /\ SumFunctionOnSet(t, 1..k) = SumFunctionOnSet(f, 1..(k * size))
    BY <2>1
  <2>3. SumFunctionOnSet(t, 1..(k + 1)) = t[k + 1] + SumFunctionOnSet(t, 1..k)
    <3>1. IsFiniteSet(1..(k + 1)) /\ k + 1 \in 1..(k + 1) /\ (1..(k + 1)) \ {k + 1} = 1..k
      BY <2>2, FS_Interval
    <3>2. Whole(t, 1..(k + 1))
      BY <1>2, <2>2 DEF Whole
    <3>3. QED
      BY <3>1, <3>2, SumRemove
  <2> DEFINE lo == k * size
             hi == (k + 1) * size
             all == h * size
  <2>4. lo \in Nat /\ hi \in Nat /\ lo <= hi /\ hi <= all /\ all \in Nat /\ (k + 1) - 1 = k
    BY <1>2, <2>2
  <2>5. t[k + 1] = SumFunctionOnSet(f, (lo + 1)..hi)
    BY <2>2, <2>4 DEF Chunk
  <2>6. Whole(f, 1..all)
    OBVIOUS
  <2>7. SumFunctionOnSet(t, 1..k) = SumFunctionOnSet(f, 1..lo)
    BY <2>2
  <2> HIDE DEF lo, hi, all
  <2>8. SumFunctionOnSet(f, 1..hi) = SumFunctionOnSet(f, 1..lo) + SumFunctionOnSet(f, (lo + 1)..hi)
    <3>1. IsFiniteSet(1..lo) /\ IsFiniteSet((lo + 1)..hi)
      BY <2>4, FS_Interval
    <3>2. Whole(f, 1..lo) /\ Whole(f, (lo + 1)..hi)
      BY <2>4, <2>6 DEF Whole
    <3>3. (1..lo) \cap ((lo + 1)..hi) = {} /\ (1..lo) \cup ((lo + 1)..hi) = 1..hi
      BY <2>4
    <3>4. SumFunctionOnSet(f, (1..lo) \cup ((lo + 1)..hi))
            = SumFunctionOnSet(f, 1..lo) + SumFunctionOnSet(f, (lo + 1)..hi)
      BY <3>1, <3>2, <3>3, SumSplit
    <3>5. QED
      BY <3>3, <3>4, Zenon
  <2>9. SumFunctionOnSet(f, 1..lo) \in Int /\ SumFunctionOnSet(f, (lo + 1)..hi) \in Int
    <3>1. IsFiniteSet(1..lo) /\ IsFiniteSet((lo + 1)..hi)
      BY <2>4, FS_Interval
    <3>2. Whole(f, 1..lo) /\ Whole(f, (lo + 1)..hi)
      BY <2>4, <2>6 DEF Whole
    <3>3. QED
      BY <3>1, <3>2, SumRemove
  <2>10. QED
    BY <2>3, <2>5, <2>7, <2>8, <2>9 DEF hi
<1> HIDE DEF good
<1>4. good \in SUBSET Nat
  BY DEF good
<1>5. good = Nat
  BY <1>1, <1>3, <1>4, Count
<1>6. QED
  BY <1>5 DEF good

(* No value of a sequence is above its largest. *)
LEMMA LargestSample ==
  ASSUME NEW n \in Nat \ {0}, NEW f \in [1..n -> Nat]
  PROVE  Max(Range(f)) \in Nat /\ \A i \in 1..n : f[i] <= Max(Range(f))
<1> DEFINE F == {T \in SUBSET (1..n) : T # {} => \E x \in T : \A y \in T : f[x] >= f[y]}
<1>1. {} \in F
  OBVIOUS
<1>2. ASSUME NEW T \in F, NEW z \in (1..n) \ T PROVE T \cup {z} \in F
  <2>1. T \in SUBSET (1..n) /\ f[z] \in Nat /\ \A y \in T : f[y] \in Nat
    OBVIOUS
  <2>2. \E x \in T \cup {z} : \A y \in T \cup {z} : f[x] >= f[y]
    <3>1. CASE T = {}
      BY <2>1, <3>1
    <3>2. CASE T # {}
      <4>1. PICK x \in T : \A y \in T : f[x] >= f[y]
        BY <3>2
      <4>2. CASE f[x] >= f[z]
        BY <4>1, <4>2
      <4>3. CASE ~(f[x] >= f[z])
        <5>1. \A y \in T \cup {z} : f[z] >= f[y]
          BY <2>1, <4>1, <4>3
        <5>2. QED
          BY <5>1
      <4>4. QED
        BY <4>2, <4>3
    <3>3. QED
      BY <3>1, <3>2
  <2>3. QED
    BY <2>1, <2>2
<1> HIDE DEF F
<1>3. F \in SUBSET SUBSET (1..n)
  BY DEF F
<1>4. 1..n \in F
  <2>1. IsFiniteSet(1..n)
    BY FS_Interval
  <2>2. QED
    BY <1>1, <1>2, <1>3, <2>1, Grow
<1>5. PICK x \in 1..n : \A y \in 1..n : f[x] >= f[y]
  <2>1. 1 \in 1..n
    OBVIOUS
  <2>2. QED
    BY <1>4, <2>1 DEF F
<1>6. \E v \in Range(f) : \A w \in Range(f) : v >= w
  BY <1>5 DEF Range
<1>7. Max(Range(f)) \in Range(f) /\ \A w \in Range(f) : Max(Range(f)) >= w
  BY <1>6 DEF Max
<1>8. QED
  BY <1>7 DEF Range

(* An hour's truth has the weight of its samples: their energy, or their mean   *)
(* as many times as they are.                                                  *)
LEMMA HourWeight ==
  ASSUME IInv, NEW o \in DOMAIN truth, recorded[o] # Missing, Len(recorded[o]) >= hours,
         NEW i \in 1..hours
  PROVE  LET n == Len(recorded[o])
             size == n \div hours
             weight == IF Method[o] = "sum" THEN n ELSE hours * size
         IN  weight * truth[o][i] = hours * Chunk(Native(o, recorded[o]), i, size)
<1> DEFINE samples == recorded[o]
           n == Len(samples)
           size == n \div hours
           native == Native(o, samples)
           unit == InUnit(o, samples)
           chunk == ((i - 1) * size + 1)..(i * size)
<1>1. /\ o \in Outputs /\ samples \in Recordings[o] /\ hours \in Periods
      /\ truth[o] = Hourly(o, samples)
  BY DEF IInv, Timed, Recorded
<1>2. hours \in Nat \ {0} /\ Method[o] \in {"mean", "sum"}
  BY <1>1, ReportAssumption
<1>3. /\ samples \in Seq(Nat) /\ n \in Nat /\ n >= hours
      /\ unit \in [1..n -> Nat]
  BY <1>1, InUnitTyped
<1>4. DOMAIN samples = 1..n /\ n # 0
  BY <1>2, <1>3
<1>5. size \in Nat /\ size # 0
  <2>1. size \in Nat /\ n < hours * size + hours
    BY <1>2, <1>3, Division
  <2> HIDE DEF size, n
  <2>2. size # 0
    BY <1>2, <1>3, <2>1
  <2>3. QED
    BY <2>1, <2>2
<1>6. truth[o][i] = IF Method[o] = "sum" THEN Chunk(unit, i, size) ELSE Chunk(unit, i, size) \div size
  BY <1>1, <1>5 DEF Hourly
<1>7. chunk \in SUBSET (1..n) /\ IsFiniteSet(chunk)
  BY <1>2, <1>3, Chunks
<1>8. \A a \in Nat, b \in Nat \ {0} : a % b = 0 => b * (a \div b) = a
  OBVIOUS
<1>9. ASSUME NEW k \in 1..n
      PROVE  native[k] \in Int /\ native[k] = IF Method[o] = "mean" THEN samples[k] - Freezing ELSE samples[k]
  <2>1. samples[k] \in Nat /\ Freezing \in Nat
    BY <1>3, <1>4, ReportAssumption
  <2>2. QED
    BY <1>4, <2>1 DEF Native
<1>10. CASE Method[o] = "sum"
  <2>1. ASSUME NEW k \in chunk PROVE n * unit[k] = hours * native[k]
    <3>1. k \in 1..n
      BY <1>7
    <3>2. samples[k] \in Nat /\ native[k] = samples[k] /\ unit[k] = (samples[k] * hours) \div n
      BY <1>3, <1>4, <1>9, <1>10, <3>1 DEF InUnit
    <3>3. (samples[k] * hours) % n = 0
      BY <1>1, <1>4, <1>10, <3>1, ExactDivisions
    <3> HIDE DEF n, unit, native, samples
    <3>4. samples[k] * hours \in Nat /\ n \in Nat \ {0}
      <4>1. \A a, b \in Nat : a * b \in Nat
        OBVIOUS
      <4>2. n \in Nat /\ n # 0 /\ hours \in Nat
        BY <1>2, <1>3, <1>4
      <4>3. QED
        BY <3>2, <4>1, <4>2
    <3>5. n * ((samples[k] * hours) \div n) = samples[k] * hours
      BY <1>8, <3>3, <3>4
    <3>6. samples[k] * hours = hours * samples[k]
      BY <1>2, <3>2
    <3>7. QED
      BY <3>2, <3>5, <3>6
  <2> HIDE DEF n, size, unit, native, chunk
  <2>2. Whole(unit, chunk) /\ Whole(native, chunk)
    <3>1. \A k \in 1..n : unit[k] \in Int
      BY <1>3
    <3>2. QED
      BY <1>7, <1>9, <3>1 DEF Whole
  <2>3. n * SumFunctionOnSet(unit, chunk) = hours * SumFunctionOnSet(native, chunk)
    <3>1. n \in Int /\ hours \in Int
      BY <1>2, <1>3
    <3>2. IsFiniteSet(chunk) /\ \A k \in chunk : n * unit[k] = hours * native[k]
      BY <1>7, <2>1
    <3>3. QED
      BY <2>2, <3>1, <3>2, SumScale, SMTT(60)
  <2>4. QED
    BY <1>6, <1>10, <2>3 DEF Chunk, chunk, n, size, unit, native
<1>11. CASE Method[o] = "mean"
  <2>1. unit = native
    BY <1>11 DEF InUnit, Native
  <2>2. Chunk(native, i, size) % size = 0
    BY <1>1, <1>2, <1>5, <1>11, ExactDivisions
  <2>3. Chunk(native, i, size) \in Nat
    <3>1. \A k \in chunk : native[k] \in Nat
      BY <1>3, <1>7, <2>1
    <3> HIDE DEF native, chunk
    <3>2. SumFunctionOnSet(native, chunk) \in Nat
      BY <1>7, <3>1, SumNat
    <3>3. QED
      BY <3>2 DEF Chunk, chunk
  <2> DEFINE c == Chunk(native, i, size)
             q == c \div size
  <2>4. truth[o][i] = q
    BY <1>6, <1>11, <2>1
  <2> HIDE DEF c, n, size
  <2>5. size * q = c /\ q \in Nat
    BY <1>5, <1>8, <2>2, <2>3, Division DEF c
  <2> HIDE DEF q
  <2>6. (hours * size) * q = hours * c
    <3>1. \A x, y, z \in Nat : (x * y) * z = x * (y * z)
      OBVIOUS
    <3>2. (hours * size) * q = hours * (size * q)
      BY <1>2, <1>5, <2>5, <3>1
    <3>3. QED
      BY <2>5, <3>2, Zenon
  <2>7. QED
    BY <1>11, <2>4, <2>6 DEF c, n, size
<1>12. QED
  BY <1>2, <1>10, <1>11

(* What the invariant says of resampling: ResamplingConserves. *)
LEMMA ResamplingHere == IInv => ResamplingConserves
<1> SUFFICES ASSUME IInv, NEW o \in DOMAIN truth, recorded[o] # Missing, Len(recorded[o]) >= hours
             PROVE  LET samples == Native(o, recorded[o])
                        weight  == IF Method[o] = "sum" THEN Len(samples) ELSE Len(samples) - Leftover(samples)
                        lost    == hours * SumFunction(samples) - weight * SumFunction(truth[o])
                    IN  lost >= 0 /\ lost <= hours * Leftover(samples) * Max(Range(samples))
  BY DEF ResamplingConserves
<1> DEFINE n == Len(recorded[o])
           h == hours
           size == n \div h
           f == Native(o, recorded[o])
           t == truth[o]
           weight == IF Method[o] = "sum" THEN n ELSE h * size
           dealt == h * size
           c == [i \in 1..h |-> Chunk(f, i, size)]
           top == Max(Range(f))
           rest == SumFunctionOnSet(f, (dealt + 1)..n)
<1>1. o \in Outputs /\ recorded[o] \in Recordings[o] /\ hours \in Periods /\ t \in SeriesOf(h)
  BY DEF IInv, Timed, Recorded
<1>2. h \in Nat \ {0}
  BY <1>1, ReportAssumption
<1>3. recorded[o] \in Seq(Nat) /\ n \in Nat /\ n >= h
  BY <1>1, InUnitTyped
<1>4. f \in [1..n -> Nat]
  <2>1. DOMAIN recorded[o] = 1..n /\ \A k \in 1..n : recorded[o][k] \in Nat
    BY <1>3
  <2>2. Freezing \in Nat /\ \A k \in 1..n : Method[o] = "mean" => recorded[o][k] >= Freezing
    BY <1>1, <2>1, ReportAssumption
  <2>3. QED
    BY <2>1, <2>2 DEF Native
<1>5. n # 0 /\ Len(f) = n /\ DOMAIN f = 1..n
  <2>1. n # 0
    BY <1>2, <1>3
  <2> HIDE DEF f, n
  <2>2. Len(f) = n /\ DOMAIN f = 1..n
    BY <1>3, <1>4
  <2>3. QED
    BY <2>1, <2>2
<1>6. size \in Nat /\ dealt \in Nat /\ dealt <= n /\ n % h = n - dealt
  <2>1. \A a \in Nat, b \in Nat \ {0} : a % b = a - b * (a \div b)
    OBVIOUS
  <2>2. size \in Nat /\ h * size <= n /\ n % h = n - h * size
    BY <1>2, <1>3, <2>1, Division
  <2> HIDE DEF size
  <2>3. h * size \in Nat
    BY <1>2, <2>2
  <2>4. QED
    BY <2>2, <2>3
<1>7. weight \in Nat /\ weight = IF Method[o] = "sum" THEN Len(f) ELSE Len(f) - Leftover(f)
  <2> HIDE DEF n, f, dealt, size
  <2>1. Leftover(f) = n - dealt /\ n - (n - dealt) = dealt
    BY <1>3, <1>5, <1>6 DEF Leftover
  <2>2. QED
    BY <1>3, <1>5, <1>6, <2>1 DEF dealt
<1>8. top \in Nat /\ \A i \in 1..n : f[i] <= top
  <2> HIDE DEF n, f
  <2>1. QED
    BY <1>3, <1>4, <1>5, LargestSample
<1>9. \A i \in 1..h : weight * t[i] = h * c[i]
  BY HourWeight
<1> HIDE DEF n, h, size, f, t, weight, c, dealt, top
<1>10. SumFunctionOnSet(c, 1..h) = SumFunctionOnSet(f, 1..dealt)
       /\ Whole(c, 1..h)
  <2>1. Whole(f, 1..(h * size))
    BY <1>3, <1>4, <1>6 DEF Whole, dealt
  <2>2. \A i \in 1..h : c[i] = Chunk(f, i, size)
    BY DEF c
  <2>3. SumFunctionOnSet(c, 1..h) = SumFunctionOnSet(f, 1..(h * size))
    BY <1>2, <1>6, <2>1, <2>2, Dealt
  <2>4. ASSUME NEW i \in 1..h PROVE c[i] \in Int
    <3> DEFINE C == ((i - 1) * size + 1)..(i * size)
    <3>1. C \in SUBSET (1..n) /\ IsFiniteSet(C)
      BY <1>2, <1>3, Chunks DEF size
    <3>2. Whole(f, C)
      BY <1>4, <3>1 DEF Whole
    <3> HIDE DEF C
    <3>3. SumFunctionOnSet(f, C) \in Int
      BY <3>1, <3>2, SumRemove
    <3>4. QED
      BY <2>2, <3>3 DEF Chunk, C
  <2>5. QED
    BY <2>3, <2>4 DEF Whole, dealt
<1>11. weight * SumFunction(t) = h * SumFunctionOnSet(f, 1..dealt)
  <2>1. DOMAIN t = 1..h /\ IsFiniteSet(1..h) /\ Whole(t, 1..h)
    BY <1>1, <1>2, FS_Interval DEF SeriesOf, Whole
  <2>2. weight * SumFunctionOnSet(t, 1..h) = h * SumFunctionOnSet(c, 1..h)
    <3>1. weight \in Int /\ h \in Int
      BY <1>2, <1>7
    <3>2. QED
      BY <1>9, <1>10, <2>1, <3>1, SumScale
  <2>3. QED
    BY <1>10, <2>1, <2>2 DEF SumFunction
<1>12. /\ SumFunction(f) = SumFunctionOnSet(f, 1..dealt) + rest
       /\ SumFunctionOnSet(f, 1..dealt) \in Int
       /\ rest \in Nat /\ rest <= top * (n - dealt)
  <2> DEFINE A == 1..dealt
             B == (dealt + 1)..n
  <2>1. IsFiniteSet(A) /\ IsFiniteSet(B) /\ Cardinality(B) = n - dealt
    <3>1. 1 \in Int /\ dealt \in Int /\ dealt + 1 \in Int /\ n \in Int /\ dealt <= n
      BY <1>3, <1>6
    <3>2. Cardinality(B) = IF dealt + 1 > n THEN 0 ELSE n - (dealt + 1) + 1
      BY <3>1, FS_Interval
    <3>3. IsFiniteSet(A) /\ IsFiniteSet(B)
      BY <3>1, FS_Interval
    <3> HIDE DEF A, B
    <3>4. QED
      BY <3>1, <3>2, <3>3
  <2>2. A \cap B = {} /\ A \cup B = 1..n /\ B \in SUBSET (1..n) /\ A \in SUBSET (1..n)
    BY <1>3, <1>6
  <2>3. Whole(f, A) /\ Whole(f, B) /\ \A i \in B : f[i] \in Nat /\ -top <= f[i] /\ f[i] <= top
    BY <1>4, <1>8, <2>2 DEF Whole
  <2> HIDE DEF A, B
  <2>4. SumFunctionOnSet(f, A \cup B) = SumFunctionOnSet(f, A) + SumFunctionOnSet(f, B)
    BY <2>1, <2>2, <2>3, SumSplit
  <2>5. SumFunctionOnSet(f, A) \in Int /\ SumFunctionOnSet(f, B) \in Nat
    BY <2>1, <2>3, SumRemove, SumNat
  <2>6. SumFunctionOnSet(f, B) <= top * Cardinality(B)
    <3>1. \A i \in B : f[i] \in Int /\ -top <= f[i] /\ f[i] <= top
      BY <2>3
    <3>2. QED
      BY <1>8, <2>1, <3>1, SumWithin
  <2>7. SumFunction(f) = SumFunctionOnSet(f, A \cup B)
    BY <1>5, <2>2 DEF SumFunction
  <2>8. QED
    BY <2>1, <2>4, <2>5, <2>6, <2>7 DEF A, B
<1> HIDE DEF rest
<1> DEFINE lost == h * SumFunction(f) - weight * SumFunction(t)
<1>13. lost = h * rest
  <2> DEFINE a == SumFunctionOnSet(f, 1..dealt)
  <2>1. lost = h * (a + rest) - h * a /\ a \in Int /\ rest \in Int /\ h \in Int
    BY <1>2, <1>11, <1>12
  <2> HIDE DEF a, lost
  <2>2. h * (a + rest) = h * a + h * rest
    BY <2>1
  <2>3. h * a \in Int /\ h * rest \in Int
    BY <2>1
  <2>4. QED
    BY <2>1, <2>2, <2>3
<1>14. lost >= 0 /\ lost <= h * Leftover(f) * top
  <2> HIDE DEF lost
  <2>1. Leftover(f) = n - dealt /\ n - dealt \in Nat
    BY <1>3, <1>5, <1>6 DEF Leftover, h
  <2>2. \A x, y, z, w \in Nat : w <= z * y => x * w >= 0 /\ x * w <= x * y * z
    <3>1. SUFFICES ASSUME NEW x \in Nat, NEW y \in Nat, NEW z \in Nat, NEW w \in Nat, w <= z * y
                   PROVE  x * w >= 0 /\ x * w <= x * y * z
      OBVIOUS
    <3>2. z * y \in Nat /\ x * (z * y) = x * y * z
      OBVIOUS
    <3>3. \A p, q, r \in Nat : q <= r => p * q >= 0 /\ p * q <= p * r
      OBVIOUS
    <3>4. QED
      BY <3>1, <3>2, <3>3
  <2>3. QED
    BY <1>2, <1>8, <1>12, <1>13, <2>1, <2>2
<1>15. QED
  BY <1>7, <1>14 DEF h, f, t, top

-------------------------------------------------------------------------------
(* The metrics by the month, when all months are of one size: the only month of *)
(* a short period, or whole ones.                                              *)

(* The difference of two sums is the sum of the differences. *)
LEMMA SumMinus ==
  ASSUME NEW f, NEW g, NEW d, NEW S, IsFiniteSet(S), Whole(f, S), Whole(g, S),
         \A x \in S : d[x] = f[x] - g[x]
  PROVE  /\ SumFunctionOnSet(d, S) = SumFunctionOnSet(f, S) - SumFunctionOnSet(g, S)
         /\ Whole(d, S)
<1> DEFINE F == {T \in SUBSET S : SumFunctionOnSet(d, T) = SumFunctionOnSet(f, T) - SumFunctionOnSet(g, T)}
<1>1. Whole(d, S)
  BY DEF Whole
<1>2. {} \in F
  BY <1>1, SumRemove
<1>3. ASSUME NEW T \in F, NEW x \in S \ T PROVE T \cup {x} \in F
  <2>1. IsFiniteSet(T) /\ Whole(f, T) /\ Whole(g, T) /\ Whole(d, T)
    BY <1>1, FS_Subset DEF Whole
  <2>2. IsFiniteSet(T \cup {x}) /\ Whole(f, T \cup {x}) /\ Whole(g, T \cup {x}) /\ Whole(d, T \cup {x})
        /\ (T \cup {x}) \ {x} = T /\ x \in T \cup {x}
    BY <1>1, FS_Subset DEF Whole
  <2>3. /\ SumFunctionOnSet(f, T \cup {x}) = f[x] + SumFunctionOnSet(f, T)
        /\ SumFunctionOnSet(g, T \cup {x}) = g[x] + SumFunctionOnSet(g, T)
        /\ SumFunctionOnSet(d, T \cup {x}) = d[x] + SumFunctionOnSet(d, T)
    BY <2>2, SumRemove
  <2>4. SumFunctionOnSet(f, T) \in Int /\ SumFunctionOnSet(g, T) \in Int
        /\ f[x] \in Int /\ g[x] \in Int /\ d[x] = f[x] - g[x]
    BY <2>1, SumRemove DEF Whole
  <2>5. QED
    BY <2>3, <2>4
<1> HIDE DEF F
<1>4. F \in SUBSET SUBSET S
  BY DEF F
<1>5. S \in F
  BY <1>2, <1>3, <1>4, Grow
<1>6. QED
  BY <1>1, <1>5 DEF F

(* Smaller values have a smaller sum. *)
LEMMA SumMonotone ==
  ASSUME NEW f, NEW g, NEW S, IsFiniteSet(S), Whole(f, S), Whole(g, S), \A x \in S : f[x] <= g[x]
  PROVE  SumFunctionOnSet(f, S) <= SumFunctionOnSet(g, S)
<1> DEFINE d == [x \in S |-> g[x] - f[x]]
<1>1. \A x \in S : d[x] = g[x] - f[x] /\ d[x] \in Nat
  BY DEF Whole
<1> HIDE DEF d
<1>2. SumFunctionOnSet(d, S) = SumFunctionOnSet(g, S) - SumFunctionOnSet(f, S)
  BY <1>1, SumMinus
<1>3. SumFunctionOnSet(d, S) \in Nat /\ SumFunctionOnSet(g, S) \in Int /\ SumFunctionOnSet(f, S) \in Int
  BY <1>1, SumNat, SumRemove
<1>4. QED
  BY <1>2, <1>3

(* A quotient rounded up is the least number of divisors that reach the dividend. *)
LEMMA RoundedUpLeast ==
  \A a, q \in Nat, b \in Nat \ {0} : CeilDiv(a, b) <= q <=> a <= q * b
<1>1. ASSUME NEW a \in Nat, NEW q \in Nat, NEW b \in Nat \ {0} PROVE CeilDiv(a, b) <= q <=> a <= q * b
  <2> DEFINE x == a + b - 1
             r == x \div b
  <2>1. x \in Nat
    OBVIOUS
  <2>2. r \in Nat /\ b * r <= x /\ x < b * r + b
    BY <2>1, Division
  <2>3. CeilDiv(a, b) = r
    BY DEF CeilDiv
  <2> HIDE DEF r
  <2>4. b * r \in Nat /\ q * b \in Nat
    BY <2>2
  <2>5. ASSUME r <= q PROVE a <= q * b
    <3>1. b * r <= q * b
      <4>1. \A u, v, w \in Nat : u <= v => w * u <= v * w
        OBVIOUS
      <4>2. QED
        BY <2>2, <2>5, <4>1
    <3>2. QED
      BY <2>2, <2>4, <3>1
  <2>6. ASSUME q < r PROVE q * b < a
    <3>1. q * b + b <= b * r
      <4>1. \A u, v, w \in Nat : u + 1 <= v => u * w + w <= w * v
        OBVIOUS
      <4>2. q + 1 <= r
        BY <2>2, <2>6
      <4>3. QED
        BY <2>2, <4>1, <4>2
    <3>2. QED
      BY <2>2, <2>4, <3>1
  <2>7. QED
    BY <2>2, <2>3, <2>4, <2>5, <2>6
<1>2. QED
  BY <1>1

(* So is a root. *)
LEMMA RootedLeast == \A x, q \in Nat : CeilSqrt(x) <= q <=> x <= q * q
<1>1. ASSUME NEW x \in Nat \ {0}, NEW q \in Nat PROVE CeilSqrt(x) <= q <=> x <= q * q
  <2> DEFINE Is(r) == r \in 1..x /\ (r - 1) * (r - 1) < x /\ x <= r * r
             root == CHOOSE r \in 1..x : (r - 1) * (r - 1) < x /\ x <= r * r
  <2>1. \E r \in 1..x : (r - 1) * (r - 1) < x /\ x <= r * r
    BY RootExists
  <2>2. Is(root)
    BY <2>1
  <2>3. CeilSqrt(x) = root
    BY DEF CeilSqrt
  <2> HIDE DEF root
  <2>4. root \in Nat /\ root >= 1 /\ root * root \in Nat /\ (root - 1) * (root - 1) \in Nat /\ q * q \in Nat
    BY <2>2
  <2>5. \A u, v \in Nat : u <= v => u * u <= v * v
    OBVIOUS
  <2>6. ASSUME root <= q PROVE x <= q * q
    BY <2>2, <2>4, <2>5, <2>6
  <2>7. ASSUME q < root PROVE q * q < x
    <3>1. q <= root - 1 /\ root - 1 \in Nat
      BY <2>4, <2>7
    <3>2. q * q <= (root - 1) * (root - 1)
      BY <2>5, <3>1
    <3>3. QED
      BY <2>2, <2>4, <3>2
  <2>8. QED
    BY <2>3, <2>4, <2>6, <2>7
<1>2. ASSUME NEW q \in Nat PROVE CeilSqrt(0) <= q <=> 0 <= q * q
  <2>1. q * q \in Nat
    OBVIOUS
  <2>2. QED
    BY <2>1, Rooted
<1>3. QED
  BY <1>1, <1>2

(* The root of a quotient of squares is the quotient of the roots. *)
LEMMA RootOfSquares ==
  \A a \in Nat, b \in Nat \ {0} : CeilSqrt(CeilDiv(a * a, b * b)) = CeilDiv(a, b)
<1>1. ASSUME NEW a \in Nat, NEW b \in Nat \ {0} PROVE CeilSqrt(CeilDiv(a * a, b * b)) = CeilDiv(a, b)
  <2> DEFINE u == CeilDiv(a * a, b * b)
             l == CeilSqrt(u)
             r == CeilDiv(a, b)
  <2>1. a * a \in Nat /\ b * b \in Nat \ {0}
    OBVIOUS
  <2>2. u \in Nat /\ r \in Nat
    BY <2>1, RoundedUp
  <2>3. l \in Nat
    BY <2>2, Rooted
  <2>4. ASSUME NEW q \in Nat PROVE l <= q <=> r <= q
    <3>1. q * q \in Nat
      OBVIOUS
    <3>2. l <= q <=> u <= q * q
      BY <2>2, RootedLeast
    <3>3. u <= q * q <=> a * a <= (q * q) * (b * b)
      BY <2>1, <3>1, RoundedUpLeast
    <3>4. r <= q <=> a <= q * b
      BY RoundedUpLeast
    <3>5. (q * q) * (b * b) = (q * b) * (q * b) /\ q * b \in Nat
      OBVIOUS
    <3>6. \A x, y \in Nat : x <= y <=> x * x <= y * y
      OBVIOUS
    <3>7. a <= q * b <=> a * a <= (q * b) * (q * b)
      BY <3>5, <3>6
    <3>8. QED
      BY <3>2, <3>3, <3>4, <3>5, <3>7, Zenon
  <2> HIDE DEF l, r
  <2>5. l <= r /\ r <= l
    BY <2>2, <2>3, <2>4
  <2>6. QED
    BY <2>2, <2>3, <2>5 DEF l, r
<1>2. QED
  BY <1>1

(* A quotient does not depend on the unit. *)
LEMMA RoundedUpScale ==
  \A a \in Nat, b, k \in Nat \ {0} : CeilDiv(k * a, k * b) = CeilDiv(a, b)
<1>1. ASSUME NEW a \in Nat, NEW b \in Nat \ {0}, NEW k \in Nat \ {0}
      PROVE  CeilDiv(k * a, k * b) = CeilDiv(a, b)
  <2> DEFINE l == CeilDiv(k * a, k * b)
             r == CeilDiv(a, b)
  <2>1. k * a \in Nat /\ k * b \in Nat \ {0}
    OBVIOUS
  <2>2. l \in Nat /\ r \in Nat
    BY <2>1, RoundedUp
  <2>3. ASSUME NEW q \in Nat PROVE l <= q <=> r <= q
    <3>1. l <= q <=> k * a <= q * (k * b)
      BY <2>1, RoundedUpLeast
    <3>2. r <= q <=> a <= q * b
      BY RoundedUpLeast
    <3>3. q * (k * b) = k * (q * b) /\ q * b \in Nat
      OBVIOUS
    <3>4. \A x, y \in Nat : x <= y <=> k * x <= k * y
      OBVIOUS
    <3>5. QED
      BY <3>1, <3>2, <3>3, <3>4
  <2> HIDE DEF l, r
  <2>4. l <= r /\ r <= l
    BY <2>2, <2>3
  <2>5. QED
    BY <2>2, <2>4 DEF l, r
<1>2. QED
  BY <1>1

Even(n)   == n <= HoursPerMonth \/ n % HoursPerMonth = 0
SizeOf(n) == IF n <= HoursPerMonth THEN n ELSE HoursPerMonth

(* Months of one size take the hours in chunks. *)
LEMMA EvenMonths ==
  ASSUME NEW n \in Lengths, Even(n), NEW s \in SeriesOf(n)
  PROVE  /\ SizeOf(n) \in Nat \ {0} /\ Month(n) \in Nat \ {0} /\ Month(n) * SizeOf(n) = n
         /\ n <= HoursPerMonth => Month(n) = 1 /\ SizeOf(n) = n
         /\ \A j \in 1..Month(n) : HoursOf(j, s) = ((j - 1) * SizeOf(n) + 1)..(j * SizeOf(n))
<1> DEFINE H == HoursPerMonth
<1>1. H \in Nat \ {0} /\ n \in Nat \ {0} /\ DOMAIN s = 1..n
  BY MonthAssumption, SeriesSums DEF Lengths
<1>2. CASE n <= H
  <2>1. ASSUME NEW i \in 1..n PROVE Month(i) = 1
    <3>1. i - 1 \in Nat /\ i - 1 < H
      BY <1>1, <1>2
    <3>2. H * 0 <= i - 1 /\ i - 1 < H * 0 + H
      BY <1>1, <3>1
    <3>3. (i - 1) \div H = 0
      BY <1>1, <3>1, <3>2, Division
    <3>4. QED
      BY <3>3 DEF Month
  <2>2. Month(n) = 1 /\ SizeOf(n) = n
    BY <1>1, <1>2, <2>1 DEF SizeOf
  <2>3. HoursOf(1, s) = 1..n
    BY <1>1, <2>1 DEF HoursOf
  <2>4. ((1 - 1) * n + 1)..(1 * n) = 1..n /\ 1 * n = n
    BY <1>1
  <2>5. \A j \in 1..1 : j = 1
    OBVIOUS
  <2>6. QED
    BY <1>1, <1>2, <2>2, <2>3, <2>4, <2>5
<1>3. CASE ~(n <= H)
  <2> DEFINE q == n \div H
  <2>1. q \in Nat /\ H * q = n
    <3>1. n % H = 0
      BY <1>3 DEF Even
    <3>2. \A a \in Nat, b \in Nat \ {0} : a % b = 0 => b * (a \div b) = a
      OBVIOUS
    <3>3. QED
      BY <1>1, <3>1, <3>2, Division
  <2> HIDE DEF q
  <2>2. q # 0 /\ q - 1 \in Nat
    BY <1>1, <2>1
  <2>3. H * (q - 1) + H = H * q /\ H * (q - 1) \in Nat
    BY <1>1, <2>1, <2>2
  <2>4. n - 1 \in Nat /\ H * (q - 1) <= n - 1 /\ n - 1 < H * (q - 1) + H
    BY <1>1, <2>1, <2>3
  <2>5. (n - 1) \div H = q - 1
    BY <1>1, <2>2, <2>4, Division
  <2>6. Month(n) = q
    BY <2>1, <2>5 DEF Month
  <2>7. SizeOf(n) = H /\ q * H = n
    BY <1>1, <1>3, <2>1 DEF SizeOf
  <2>8. ASSUME NEW j \in 1..q PROVE HoursOf(j, s) = ((j - 1) * H + 1)..(j * H)
    <3> DEFINE lo == (j - 1) * H
               hi == j * H
    <3>1. lo \in Nat /\ hi \in Nat /\ hi = lo + H /\ lo = H * (j - 1) /\ j - 1 \in Nat
      BY <1>1, <2>1
    <3>2. hi <= n
      <4>1. \A a, b, c \in Nat : a <= b => a * c <= b * c
        OBVIOUS
      <4>2. j \in Nat /\ j <= q
        BY <2>1
      <4>3. QED
        BY <1>1, <2>1, <2>7, <4>1, <4>2
    <3> HIDE DEF lo, hi
    <3>3. ASSUME NEW i \in 1..n PROVE Month(i) = j <=> i \in (lo + 1)..hi
      <4> DEFINE d == (i - 1) \div H
      <4>1. i - 1 \in Nat
        BY <1>1
      <4>2. d \in Nat /\ H * d <= i - 1 /\ i - 1 < H * d + H
        BY <1>1, <4>1, Division
      <4>3. lo <= i - 1 /\ i - 1 < lo + H => d = j - 1
        BY <1>1, <3>1, <4>1, Division
      <4>4. Month(i) = d + 1
        BY DEF Month
      <4> HIDE DEF d
      <4>5. d = j - 1 => lo <= i - 1 /\ i - 1 < lo + H
        BY <3>1, <4>2
      <4>6. Month(i) = j <=> d = j - 1
        BY <4>2, <4>4
      <4>7. i \in (lo + 1)..hi <=> lo <= i - 1 /\ i - 1 < lo + H
        BY <1>1, <3>1
      <4>8. QED
        BY <4>3, <4>5, <4>6, <4>7
    <3>4. (lo + 1)..hi \subseteq 1..n
      BY <1>1, <3>1, <3>2
    <3>5. HoursOf(j, s) = {i \in 1..n : Month(i) = j}
      BY <1>1 DEF HoursOf
    <3>6. HoursOf(j, s) = (lo + 1)..hi
      BY <3>3, <3>4, <3>5
    <3>7. QED
      BY <3>6 DEF lo, hi
  <2>9. QED
    BY <1>1, <1>3, <2>1, <2>2, <2>6, <2>7, <2>8
<1>4. QED
  BY <1>2, <1>3

(* A chunk has its size. *)
LEMMA ChunkSize ==
  ASSUME NEW i \in Nat \ {0}, NEW size \in Nat \ {0}
  PROVE  /\ IsFiniteSet(((i - 1) * size + 1)..(i * size))
         /\ Cardinality(((i - 1) * size + 1)..(i * size)) = size
<1> DEFINE lo == (i - 1) * size
           hi == i * size
<1>1. lo \in Nat /\ hi = lo + size
  OBVIOUS
<1> HIDE DEF lo, hi
<1>2. lo + 1 \in Int /\ hi \in Int /\ ~(lo + 1 > hi) /\ hi - (lo + 1) + 1 = size
  BY <1>1
<1>3. IsFiniteSet((lo + 1)..hi) /\ Cardinality((lo + 1)..hi) = hi - (lo + 1) + 1
  BY <1>2, FS_Interval
<1>4. QED
  BY <1>2, <1>3 DEF lo, hi

Factor(method) == IF method = "sum" THEN 1 ELSE HoursPerMonth

(* A month's value is its sum, in one unit for all months. *)
LEMMA EvenByMonth ==
  ASSUME NEW n \in Lengths, Even(n), NEW s \in SeriesOf(n), NEW method \in {"mean", "sum"},
         NEW j \in 1..Month(n)
  PROVE  /\ Chunk(s, j, SizeOf(n)) \in Nat
         /\ ByMonth(s, method)[j] = Factor(method) * Chunk(s, j, SizeOf(n))
<1> DEFINE H == HoursPerMonth
           c == SizeOf(n)
           total == Chunk(s, j, c)
<1>1. /\ H \in Nat \ {0} /\ c \in Nat \ {0} /\ Month(n) \in Nat \ {0} /\ n \in Nat /\ Len(s) = n
      /\ \A i \in 1..Month(n) : HoursOf(i, s) = ((i - 1) * c + 1)..(i * c)
  BY MonthAssumption, EvenMonths, SeriesSums DEF Lengths
<1>2. ASSUME NEW i \in 1..Month(n) PROVE Cardinality(HoursOf(i, s)) = c
  <2>1. HoursOf(i, s) = ((i - 1) * c + 1)..(i * c) /\ i \in Nat \ {0}
    BY <1>1
  <2>2. QED
    BY <1>1, <2>1, ChunkSize
<1>3. LastMonth(s) = c
  BY <1>1, <1>2 DEF LastMonth
<1>4. HoursOf(j, s) \subseteq 1..n /\ IsFiniteSet(HoursOf(j, s)) /\ Months(s) = 1..Month(n)
  BY MonthHours
<1>5. SumFunctionOnSet(s, HoursOf(j, s)) = total
  BY <1>1 DEF Chunk
<1>6. total \in Nat
  <2>1. \A i \in HoursOf(j, s) : s[i] \in Nat
    BY <1>4 DEF SeriesOf
  <2>2. SumFunctionOnSet(s, HoursOf(j, s)) \in Nat
    BY <1>4, <2>1, SumNat
  <2>3. QED
    BY <1>5, <2>2
<1>7. ByMonth(s, method)[j]
        = IF method = "sum" THEN SumFunctionOnSet(s, HoursOf(j, s))
          ELSE (H * LastMonth(s) * SumFunctionOnSet(s, HoursOf(j, s))) \div Cardinality(HoursOf(j, s))
  BY <1>4 DEF ByMonth
<1>8. ByMonth(s, method)[j] = IF method = "sum" THEN total ELSE (H * c * total) \div c
  BY <1>2, <1>3, <1>5, <1>7
<1> HIDE DEF c, total, H
<1>9. (H * c * total) \div c = H * total
  <2>1. H * c * total = c * (H * total) /\ H * total \in Nat
    BY <1>1, <1>6
  <2> DEFINE x == H * total
  <2> HIDE DEF x
  <2>2. x \in Nat /\ c * x \in Nat /\ c * x <= c * x /\ c * x < c * x + c
    BY <1>1, <2>1 DEF x
  <2>3. (c * x) \div c = x
    BY <1>1, <2>2, Division
  <2>4. QED
    BY <2>1, <2>3 DEF x
<1>10. QED
  BY <1>1, <1>6, <1>8, <1>9 DEF Factor, c, total, H
(* What is k times as much in every place is so in all. *)
LEMMA SumTimes ==
  ASSUME NEW f, NEW g, NEW S, IsFiniteSet(S), Whole(g, S), NEW k \in Int, \A x \in S : f[x] = k * g[x]
  PROVE  SumFunctionOnSet(f, S) = k * SumFunctionOnSet(g, S) /\ Whole(f, S)
<1>1. \A x \in S : f[x] \in Int /\ 1 * f[x] = k * g[x]
  BY DEF Whole
<1>2. Whole(f, S) /\ 1 \in Int
  BY <1>1 DEF Whole
<1>3. 1 * SumFunctionOnSet(f, S) = k * SumFunctionOnSet(g, S)
  <2>1. \A x \in S : 1 * f[x] = k * g[x]
    BY <1>1
  <2>2. QED
    BY <1>2, <2>1, SumScale
<1>4. SumFunctionOnSet(f, S) \in Int
  BY <1>2, SumRemove
<1>5. QED
  BY <1>2, <1>3, <1>4

(* What is summed by the month: the same totals, in the unit of the months, and *)
(* no more square error than the hours have, an hour in a month's worth.       *)
LEMMA MonthlySums ==
  ASSUME NEW n \in Lengths, Even(n), NEW p \in SeriesOf(n), NEW m \in SeriesOf(n),
         NEW method \in {"mean", "sum"}
  PROVE  LET P == ByMonth(p, method)
             M == ByMonth(m, method)
             k == Factor(method)
             bias == SumFunction(Differences(p, m))
         IN  /\ SumFunction(M) = k * SumFunction(m)
             /\ SumFunction(Differences(P, M)) = k * bias
             /\ Month(n) * SquaredError(P, M) <= (k * k) * (n * SquaredError(p, m))
             /\ n <= HoursPerMonth => SquaredError(P, M) = (k * bias) * (k * bias)
<1> DEFINE P == ByMonth(p, method)
           M == ByMonth(m, method)
           k == Factor(method)
           J == Month(n)
           c == SizeOf(n)
           d == Differences(p, m)
           e == Squares(d)
           D == Differences(P, M)
           E == Squares(D)
           chunk(j) == ((j - 1) * c + 1)..(j * c)
           of(f) == [j \in 1..J |-> Chunk(f, j, c)]
<1>1. k \in Nat \ {0}
  BY MonthAssumption DEF Factor
<1>2. c \in Nat \ {0} /\ J \in Nat \ {0} /\ J * c = n /\ (n <= HoursPerMonth => J = 1)
  BY EvenMonths
<1>3. /\ DOMAIN m = 1..n /\ IsFiniteSet(1..n) /\ n \in Nat /\ IsFiniteSet(1..J)
      /\ \A i \in 1..n : p[i] \in Nat /\ m[i] \in Nat
  <2>1. DOMAIN m = 1..n /\ IsFiniteSet(1..n) /\ n \in Nat
    BY SeriesSums DEF Lengths
  <2>2. IsFiniteSet(1..J)
    <3> HIDE DEF J
    <3>1. 1 \in Int /\ J \in Int
      BY <1>2
    <3>2. QED
      BY <3>1, FS_Interval
  <2>3. \A i \in 1..n : p[i] \in Nat /\ m[i] \in Nat
    BY DEF SeriesOf
  <2>4. QED
    BY <2>1, <2>2, <2>3
<1>4. P \in SeriesOf(J) /\ M \in SeriesOf(J) /\ DOMAIN M = 1..J
  <2>1. P \in SeriesOf(J) /\ M \in SeriesOf(J)
    BY Monthlies
  <2>2. QED
    BY <2>1 DEF SeriesOf
<1>5. DOMAIN d = 1..n /\ DOMAIN e = 1..n /\ \A i \in 1..n : d[i] = p[i] - m[i] /\ e[i] = d[i] * d[i]
  BY <1>3 DEF Differences, Squares
<1>6. DOMAIN D = 1..J /\ DOMAIN E = 1..J /\ \A j \in 1..J : D[j] = P[j] - M[j] /\ E[j] = D[j] * D[j]
  BY <1>4 DEF Differences, Squares
<1>7. \A j \in 1..J : P[j] = k * Chunk(p, j, c) /\ M[j] = k * Chunk(m, j, c)
                      /\ Chunk(p, j, c) \in Nat /\ Chunk(m, j, c) \in Nat
  BY EvenByMonth
<1> HIDE DEF P, M, k, J, c, d, e, D, E
<1>8. Whole(p, 1..n) /\ Whole(m, 1..n) /\ Whole(d, 1..n) /\ Whole(e, 1..n)
  <2>1. \A i \in 1..n : d[i] \in Int
    BY <1>3, <1>5
  <2>2. \A x \in Int : x * x \in Int
    OBVIOUS
  <2>3. QED
    BY <1>3, <1>5, <2>1, <2>2 DEF Whole
<1>9. ASSUME NEW j \in 1..J
      PROVE  chunk(j) \in SUBSET (1..n) /\ IsFiniteSet(chunk(j)) /\ Cardinality(chunk(j)) = c
  <2>1. j \in Nat \ {0}
    BY <1>2
  <2>2. IsFiniteSet(chunk(j)) /\ Cardinality(chunk(j)) = c
    BY <1>2, <2>1, ChunkSize
  <2>3. chunk(j) \in SUBSET (1..n)
    <3>1. HoursOf(j, p) \subseteq 1..n
      BY MonthHours DEF J
    <3>2. HoursOf(j, p) = chunk(j)
      BY EvenMonths DEF J, c
    <3>3. QED
      BY <3>1, <3>2
  <2>4. QED
    BY <2>2, <2>3
<1> HIDE DEF chunk
<1>10. ASSUME NEW f, Whole(f, 1..n)
       PROVE  /\ SumFunctionOnSet(of(f), 1..J) = SumFunctionOnSet(f, 1..n)
              /\ Whole(of(f), 1..J)
  <2>1. \A j \in 1..J : of(f)[j] = Chunk(f, j, c)
    OBVIOUS
  <2> DEFINE t == of(f)
  <2> HIDE DEF t
  <2>2. Whole(f, 1..(J * c)) /\ J \in Nat /\ c \in Nat
    BY <1>2, <1>10
  <2>3. SumFunctionOnSet(t, 1..J) = SumFunctionOnSet(f, 1..(J * c))
    BY <2>1, <2>2, Dealt DEF t
  <2>4. ASSUME NEW j \in 1..J PROVE t[j] \in Int
    <3>1. IsFiniteSet(chunk(j)) /\ Whole(f, chunk(j))
      BY <1>9, <1>10 DEF Whole
    <3>2. SumFunctionOnSet(f, chunk(j)) \in Int
      BY <3>1, SumRemove
    <3>3. QED
      BY <2>1, <3>2 DEF t, Chunk, chunk
  <2>5. QED
    BY <1>2, <2>3, <2>4 DEF Whole, t
<1>11. ASSUME NEW j \in 1..J
       PROVE  /\ D[j] = k * of(d)[j] /\ of(d)[j] \in Int
              /\ of(d)[j] * of(d)[j] <= c * of(e)[j] /\ of(e)[j] \in Int
  <2>1. /\ IsFiniteSet(chunk(j)) /\ Whole(p, chunk(j)) /\ Whole(m, chunk(j))
        /\ \A i \in chunk(j) : d[i] = p[i] - m[i]
    BY <1>5, <1>8, <1>9 DEF Whole
  <2>2. SumFunctionOnSet(d, chunk(j)) = SumFunctionOnSet(p, chunk(j)) - SumFunctionOnSet(m, chunk(j))
    BY <2>1, SumMinus
  <2>3. of(d)[j] = Chunk(p, j, c) - Chunk(m, j, c)
    BY <2>2 DEF Chunk, chunk
  <2>4. of(d)[j] \in Int /\ of(e)[j] \in Int
    BY <1>8, <1>10 DEF Whole
  <2>5. D[j] = k * of(d)[j]
    <3>1. \A x, y, z \in Int : x * y - x * z = x * (y - z)
      OBVIOUS
    <3>2. D[j] = k * Chunk(p, j, c) - k * Chunk(m, j, c)
      BY <1>6, <1>7
    <3>3. k \in Int /\ Chunk(p, j, c) \in Int /\ Chunk(m, j, c) \in Int
      BY <1>1, <1>7
    <3>4. QED
      BY <2>3, <3>1, <3>2, <3>3
  <2>6. \A i \in chunk(j) : d[i] \in Int /\ e[i] = d[i] * d[i]
    BY <1>5, <1>8, <1>9 DEF Whole
  <2>7. Cardinality(chunk(j)) * SumFunctionOnSet(e, chunk(j))
          - SumFunctionOnSet(d, chunk(j)) * SumFunctionOnSet(d, chunk(j)) >= 0
    BY <2>1, <2>6, SquaresExceed
  <2>8. of(d)[j] = SumFunctionOnSet(d, chunk(j)) /\ of(e)[j] = SumFunctionOnSet(e, chunk(j))
    BY DEF Chunk, chunk
  <2> DEFINE x == of(d)[j]
             y == of(e)[j]
  <2>9. c * y - x * x >= 0
    BY <1>9, <2>7, <2>8
  <2>10. x \in Int /\ y \in Int
    BY <2>4
  <2> HIDE DEF x, y
  <2>11. x * x <= c * y
    <3>1. c * y \in Int /\ x * x \in Int
      BY <1>2, <2>10
    <3>2. QED
      BY <2>9, <3>1
  <2>12. QED
    BY <2>4, <2>5, <2>11 DEF x, y
<1>12. SumFunction(M) = k * SumFunction(m)
  <2> DEFINE u == of(m)
  <2>1. \A j \in 1..J : M[j] = k * u[j]
    BY <1>7
  <2>2. Whole(u, 1..J) /\ SumFunctionOnSet(u, 1..J) = SumFunctionOnSet(m, 1..n)
    BY <1>8, <1>10
  <2> HIDE DEF u
  <2>3. SumFunctionOnSet(M, 1..J) = k * SumFunctionOnSet(u, 1..J) /\ Whole(M, 1..J)
    <3>1. k \in Int /\ IsFiniteSet(1..J)
      BY <1>1, <1>3
    <3>2. QED
      BY <2>1, <2>2, <3>1, SumTimes, Zenon
  <2>4. QED
    BY <1>3, <1>4, <2>2, <2>3 DEF SumFunction
<1>13. Whole(D, 1..J)
  <2>1. ASSUME NEW j \in 1..J PROVE D[j] \in Int
    <3>1. P[j] \in Nat /\ M[j] \in Nat
      BY <1>4 DEF SeriesOf
    <3>2. QED
      BY <1>6, <3>1
  <2>2. QED
    BY <2>1 DEF Whole
<1>14. SumFunction(D) = k * SumFunction(d)
  <2> DEFINE u == of(d)
  <2>1. \A j \in 1..J : D[j] = k * u[j]
    BY <1>11
  <2>2. Whole(u, 1..J) /\ SumFunctionOnSet(u, 1..J) = SumFunctionOnSet(d, 1..n)
    BY <1>8, <1>10
  <2> HIDE DEF u
  <2>3. SumFunctionOnSet(D, 1..J) = k * SumFunctionOnSet(u, 1..J) /\ Whole(D, 1..J)
    <3>1. k \in Int /\ IsFiniteSet(1..J)
      BY <1>1, <1>3
    <3>2. QED
      BY <2>1, <2>2, <3>1, SumTimes, Zenon
  <2>4. QED
    BY <1>5, <1>6, <2>2, <2>3 DEF SumFunction
<1>15. J * SumFunction(E) <= (k * k) * (n * SumFunction(e))
  <2> DEFINE a == (k * k) * c
             G == [j \in 1..J |-> a * of(e)[j]]
             s == SumFunctionOnSet(e, 1..n)
             z == SumFunctionOnSet(E, 1..J)
  <2>1. a \in Int /\ k * k \in Nat
    BY <1>1, <1>2
  <2>2. Whole(of(e), 1..J) /\ SumFunctionOnSet(of(e), 1..J) = s /\ s \in Int
    BY <1>3, <1>8, <1>10, SumRemove
  <2>3. ASSUME NEW j \in 1..J PROVE E[j] \in Int /\ E[j] <= G[j] /\ G[j] = a * of(e)[j] /\ G[j] \in Int
    <3> DEFINE x == of(d)[j]
               y == of(e)[j]
    <3>1. /\ D[j] = k * x /\ x \in Int /\ x * x <= c * y /\ y \in Int
          /\ E[j] = D[j] * D[j] /\ G[j] = a * y
      BY <1>6, <1>11
    <3> HIDE DEF x, y
    <3>2. E[j] = (k * k) * (x * x) /\ x * x \in Int
      <4>1. \A u, v \in Int : (u * v) * (u * v) = (u * u) * (v * v) /\ v * v \in Int
        OBVIOUS
      <4>2. k \in Int
        BY <1>1
      <4>3. QED
        BY <3>1, <4>1, <4>2
    <3>3. (k * k) * (x * x) <= (k * k) * (c * y)
      <4>1. \A u \in Nat, v, w \in Int : v <= w => u * v <= u * w
        OBVIOUS
      <4>2. c * y \in Int
        BY <1>2, <3>1
      <4>3. QED
        BY <2>1, <3>1, <3>2, <4>1, <4>2
    <3>4. (k * k) * (c * y) = a * y
      <4>1. \A u, v, w \in Int : u * (v * w) = (u * v) * w
        OBVIOUS
      <4>2. QED
        BY <1>2, <2>1, <3>1, <4>1
    <3> HIDE DEF a, G
    <3>5. a * y \in Int /\ (k * k) * (x * x) \in Int
      BY <2>1, <3>1, <3>2
    <3>6. QED
      BY <3>1, <3>2, <3>3, <3>4, <3>5 DEF y
  <2> HIDE DEF G
  <2>4. Whole(E, 1..J) /\ Whole(G, 1..J)
    BY <2>3 DEF Whole
  <2>5. z <= SumFunctionOnSet(G, 1..J)
    BY <1>3, <2>3, <2>4, SumMonotone
  <2>6. SumFunctionOnSet(G, 1..J) = a * s
    <3> DEFINE u == of(e)
    <3>1. \A j \in 1..J : G[j] = a * u[j]
      BY <2>3
    <3>2. Whole(u, 1..J) /\ SumFunctionOnSet(u, 1..J) = s
      BY <2>2
    <3> HIDE DEF u, a
    <3>3. SumFunctionOnSet(G, 1..J) = a * SumFunctionOnSet(u, 1..J) /\ Whole(G, 1..J)
      BY <1>3, <2>1, <3>1, <3>2, SumTimes, Zenon
    <3>4. QED
      BY <3>2, <3>3
  <2>7. SumFunctionOnSet(G, 1..J) \in Int /\ z \in Int
    BY <1>3, <2>4, SumRemove
  <2>8. z <= a * s
    BY <2>2, <2>5, <2>6, <2>7
  <2>9. J * z <= J * (a * s)
    <3>1. \A u \in Nat, v, w \in Int : v <= w => u * v <= u * w
      OBVIOUS
    <3>2. a * s \in Int /\ J \in Nat
      BY <1>2, <2>1, <2>2
    <3>3. QED
      BY <2>7, <2>8, <3>1, <3>2
  <2>10. J * (a * s) = (k * k) * (n * s)
    <3>1. \A u, v, w, x \in Int : u * ((v * w) * x) = v * ((u * w) * x)
      OBVIOUS
    <3>2. J \in Int /\ k * k \in Int /\ c \in Int
      BY <1>2, <2>1
    <3> HIDE DEF s
    <3>3. J * (((k * k) * c) * s) = (k * k) * ((J * c) * s)
      BY <2>2, <3>1, <3>2
    <3>4. QED
      BY <1>2, <3>3
  <2>11. QED
    BY <1>5, <1>6, <2>9, <2>10 DEF SumFunction
<1>16. n <= HoursPerMonth => SumFunction(E) = (k * SumFunction(d)) * (k * SumFunction(d))
  <2>1. SUFFICES ASSUME n <= HoursPerMonth
                 PROVE  SumFunction(E) = (k * SumFunction(d)) * (k * SumFunction(d))
    OBVIOUS
  <2>2. J = 1 /\ 1..1 = {1} /\ 1..J = {1}
    BY <1>2, <2>1
  <2>3. \A x \in Int : x * x \in Int
    OBVIOUS
  <2>4. Whole(D, {1}) /\ Whole(E, {1}) /\ E[1] = D[1] * D[1] /\ {1} \ {1} = {} /\ IsFiniteSet({1})
    BY <1>3, <1>6, <1>13, <2>2, <2>3 DEF Whole
  <2>5. SumFunctionOnSet(D, {1}) = D[1] + 0 /\ SumFunctionOnSet(E, {1}) = E[1] + 0
    BY <2>4, SumRemove
  <2>6. SumFunction(D) = D[1] /\ SumFunction(E) = E[1]
    BY <1>6, <2>2, <2>4, <2>5 DEF SumFunction, Whole
  <2>7. QED
    BY <1>14, <2>4, <2>6
<1>17. QED
  BY <1>12, <1>14, <1>15, <1>16 DEF SquaredError, P, M, k, J, d, e, D, E

(* By the month an output is as biased as by the hour, and its error is no      *)
(* larger; within one month it is the bias.                                    *)
LEMMA MonthlyMetrics ==
  ASSUME NEW n \in Lengths, Even(n), NEW p \in SeriesOf(n), NEW m \in SeriesOf(n),
         NEW method \in {"mean", "sum"}
  PROVE  LET P == ByMonth(p, method)
             M == ByMonth(m, method)
         IN  /\ Silent(M) <=> Silent(m)
             /\ ~Silent(m) => /\ Nmbe(P, M) = Nmbe(p, m)
                              /\ Cvrmse(P, M) <= Cvrmse(p, m)
                              /\ n <= HoursPerMonth => Cvrmse(P, M) = Abs(Nmbe(p, m))
<1> DEFINE P == ByMonth(p, method)
           M == ByMonth(m, method)
           k == Factor(method)
           J == Month(n)
           T == SumFunction(m)
           bias == SumFunction(Differences(p, m))
           s == SquaredError(p, m)
           S == SquaredError(P, M)
<1>1. k \in Nat \ {0} /\ J \in Nat \ {0} /\ n \in Nat /\ (n <= HoursPerMonth => J = 1)
  <2>1. k \in Nat \ {0}
    BY MonthAssumption DEF Factor
  <2>2. J \in Nat \ {0} /\ (n <= HoursPerMonth => J = 1)
    BY EvenMonths
  <2>3. QED
    BY <2>1, <2>2 DEF Lengths
<1>2. T \in Nat /\ bias \in Int /\ s \in Nat /\ Len(m) = n
  BY SeriesSums
<1>3. S \in Nat /\ Len(M) = J
  <2>1. P \in SeriesOf(J) /\ M \in SeriesOf(J) /\ J \in Lengths
    BY Monthlies, MonthHours
  <2>2. QED
    BY <2>1, SeriesSums
<1>4. /\ SumFunction(M) = k * T /\ SumFunction(Differences(P, M)) = k * bias
      /\ J * S <= (k * k) * (n * s)
      /\ n <= HoursPerMonth => S = (k * bias) * (k * bias)
  BY MonthlySums
<1> HIDE DEF P, M, k, J, T, bias, s, S
<1>5. Silent(M) <=> Silent(m)
  <2>1. \A x \in Nat \ {0}, y \in Nat : x * y = 0 <=> y = 0
    OBVIOUS
  <2>2. QED
    BY <1>1, <1>2, <1>4, <2>1 DEF Silent, T
<1>6. ASSUME ~Silent(m)
      PROVE  /\ Nmbe(P, M) = Nmbe(p, m)
             /\ Cvrmse(P, M) <= Cvrmse(p, m)
             /\ n <= HoursPerMonth => Cvrmse(P, M) = Abs(Nmbe(p, m))
  <2>1. T \in Nat \ {0}
    BY <1>2, <1>6 DEF Silent, T
  <2> DEFINE b100 == 100 * Abs(bias)
             size == CeilDiv(b100, T)
             large == CeilDiv(100 * Abs(k * bias), k * T)
  <2>2. b100 \in Nat /\ 100 * Abs(k * bias) = k * b100 /\ (k * bias < 0 <=> bias < 0)
        /\ (100 * Abs(bias)) * (100 * Abs(bias)) = 10000 * (bias * bias)
    <3>1. \A x \in Nat \ {0}, y \in Int : x * y < 0 <=> y < 0
      OBVIOUS
    <3>2. Abs(bias) \in Nat /\ (k * bias < 0 <=> bias < 0)
      BY <1>1, <1>2, <3>1 DEF Abs
    <3>3. Abs(k * bias) = k * Abs(bias)
      <4>1. \A x, y \in Int : -(x * y) = x * (-y)
        OBVIOUS
      <4>2. CASE bias < 0
        BY <1>1, <1>2, <3>2, <4>1, <4>2 DEF Abs
      <4>3. CASE ~(bias < 0)
        BY <3>2, <4>3 DEF Abs
      <4>4. QED
        BY <4>2, <4>3
    <3>4. \A x, y \in Nat : 100 * (x * y) = x * (100 * y)
      OBVIOUS
    <3>5. Abs(bias) * Abs(bias) = bias * bias
      BY <1>2 DEF Abs
    <3>6. \A x \in Nat : (100 * x) * (100 * x) = 10000 * (x * x)
      OBVIOUS
    <3>7. QED
      BY <1>1, <3>2, <3>3, <3>4, <3>5, <3>6
  <2>3. large = size /\ size \in Nat
    <3> HIDE DEF b100
    <3>1. large = CeilDiv(k * b100, k * T)
      BY <2>2
    <3>2. CeilDiv(k * b100, k * T) = CeilDiv(b100, T)
      BY <1>1, <2>1, <2>2, RoundedUpScale
    <3>3. size \in Nat
      BY <2>1, <2>2, RoundedUp
    <3>4. QED
      BY <3>1, <3>2, <3>3
  <2>4. Nmbe(p, m) = IF bias < 0 THEN -size ELSE size
    BY DEF Nmbe, bias, T
  <2>5. Nmbe(P, M) = IF k * bias < 0 THEN -large ELSE large
    BY <1>4 DEF Nmbe
  <2> HIDE DEF size, large
  <2>6. Nmbe(P, M) = Nmbe(p, m) /\ Abs(Nmbe(p, m)) = size
    BY <2>2, <2>3, <2>4, <2>5 DEF Abs
  <2> DEFINE a == 10000 * n * s
             b == T * T
             A == 10000 * J * S
             B == (k * T) * (k * T)
             x == CeilDiv(a, b)
             X == CeilDiv(A, B)
  <2>7. Cvrmse(p, m) = CeilSqrt(x) /\ Cvrmse(P, M) = CeilSqrt(X)
    BY <1>2, <1>3, <1>4 DEF Cvrmse, T, s, S
  <2>8. k * k \in Nat /\ a \in Nat /\ A \in Nat /\ b \in Nat \ {0} /\ B \in Nat \ {0} /\ B = (k * k) * b
    <3>1. \A u, v \in Nat \ {0} : u * v \in Nat \ {0}
      OBVIOUS
    <3>2. \A u, v, w \in Nat : u * v * w \in Nat /\ (u * v) * (u * v) = (u * u) * (v * v)
      OBVIOUS
    <3>3. k * T \in Nat \ {0} /\ b \in Nat \ {0} /\ k * k \in Nat \ {0}
      BY <1>1, <2>1, <3>1
    <3>4. B \in Nat \ {0} /\ B = (k * k) * b
      BY <1>1, <2>1, <3>1, <3>2, <3>3
    <3>5. a \in Nat /\ A \in Nat
      BY <1>1, <1>2, <1>3, <3>2
    <3>6. QED
      BY <3>3, <3>4, <3>5
  <2>9. A <= (k * k) * a
    <3>1. \A u, v, w \in Nat : u * (v * w) = u * v * w
      OBVIOUS
    <3> DEFINE JS == J * S
               ns == n * s
               K == k * k
    <3>2. A = 10000 * JS /\ a = 10000 * ns /\ JS \in Nat /\ ns \in Nat /\ K \in Nat /\ JS <= K * ns
      BY <1>1, <1>2, <1>3, <1>4, <2>8, <3>1
    <3> HIDE DEF JS, ns, K, A, a
    <3>3. \A u, v \in Nat : u * (10000 * v) = 10000 * (u * v) /\ u * v \in Nat
      OBVIOUS
    <3>4. A <= K * a
      BY <3>2, <3>3
    <3>5. QED
      BY <3>4 DEF K
  <2> HIDE DEF a, b, A, B
  <2>10. x \in Nat /\ X \in Nat
    BY <2>8, RoundedUp
  <2>11. X <= x
    <3> HIDE DEF x
    <3>1. a <= x * b
      BY <2>8, <2>10, RoundedUpLeast DEF x
    <3> DEFINE K == k * k
    <3>2. \A u, v, w, z \in Nat : v <= w * z => u * v <= w * (u * z)
      <4>1. \A u, v, w \in Nat : v <= w => u * v <= u * w
        OBVIOUS
      <4>2. \A u, w, z \in Nat : u * (w * z) = w * (u * z) /\ w * z \in Nat
        OBVIOUS
      <4>3. QED
        BY <4>1, <4>2
    <3>3. K * a \in Nat /\ x * B \in Nat
      BY <2>8, <2>10
    <3>4. K * a <= x * B
      <4> HIDE DEF K
      <4>1. K \in Nat /\ B = K * b
        BY <2>8 DEF K
      <4>2. K * a <= x * (K * b)
        BY <2>8, <2>10, <3>1, <3>2, <4>1
      <4>3. QED
        BY <4>1, <4>2
    <3>5. A <= x * B
      BY <2>8, <2>9, <3>3, <3>4
    <3>6. QED
      BY <2>8, <2>10, <3>5, RoundedUpLeast
  <2> HIDE DEF x, X
  <2>12. Cvrmse(P, M) <= Cvrmse(p, m)
    <3> DEFINE q == CeilSqrt(x)
    <3>1. q \in Nat
      BY <2>10, Rooted
    <3>2. q <= q
      BY <3>1
    <3>3. x <= q * q
      BY <2>10, <3>1, <3>2, RootedLeast
    <3>4. q * q \in Nat
      BY <3>1
    <3>5. X <= q * q
      BY <2>10, <2>11, <3>3, <3>4
    <3>6. CeilSqrt(X) <= q
      BY <2>10, <3>1, <3>5, RootedLeast
    <3>7. QED
      BY <2>7, <3>6
  <2>13. ASSUME n <= HoursPerMonth PROVE Cvrmse(P, M) = Abs(Nmbe(p, m))
    <3> DEFINE c == k * b100
               d == k * T
    <3>1. A = c * c
      <4>1. A = 10000 * S /\ S = (k * bias) * (k * bias)
        BY <1>1, <1>3, <1>4, <2>13 DEF A
      <4>2. b100 * b100 = 10000 * (bias * bias)
        BY <2>2
      <4>3. \A u, v \in Int : (u * v) * (u * v) = (u * u) * (v * v)
        OBVIOUS
      <4>4. \A u, v \in Int : 10000 * (u * v) = u * (10000 * v)
        OBVIOUS
      <4>5. k \in Int /\ b100 \in Int /\ bias \in Int /\ k * k \in Int /\ bias * bias \in Int
        BY <1>1, <1>2, <2>2
      <4> HIDE DEF b100
      <4>6. c * c = (k * k) * (b100 * b100)
        BY <4>3, <4>5
      <4>7. S = (k * k) * (bias * bias)
        BY <4>1, <4>3, <4>5
      <4>8. QED
        BY <4>1, <4>2, <4>4, <4>5, <4>6, <4>7
    <3>2. c \in Nat /\ d \in Nat \ {0} /\ B = d * d
      <4>1. \A u, v \in Nat \ {0} : u * v \in Nat \ {0}
        OBVIOUS
      <4>2. \A u, v \in Nat : u * v \in Nat
        OBVIOUS
      <4> HIDE DEF b100
      <4>3. QED
        BY <1>1, <2>1, <2>2, <4>1, <4>2 DEF B
    <3>3. CeilSqrt(X) = CeilDiv(c, d)
      <4> HIDE DEF c, d
      <4>1. CeilSqrt(CeilDiv(c * c, d * d)) = CeilDiv(c, d)
        BY <3>2, RootOfSquares
      <4>2. QED
        BY <3>1, <3>2, <4>1 DEF X
    <3>4. CeilDiv(c, d) = size
      BY <2>2, <2>3 DEF large
    <3>5. QED
      BY <2>6, <2>7, <3>3, <3>4
  <2>14. QED
    BY <2>6, <2>12, <2>13
<1>7. QED
  BY <1>5, <1>6 DEF P, M

(* The invariant holds of every report. *)
LEMMA Invariant == Spec => []IInv
<1>1. QED
  BY InitIInv, NextIInv, PTL DEF Spec

-------------------------------------------------------------------------------
(* What the invariant says of a report.                                      *)

(* A submission that was measured has a prediction of every output, over the    *)
(* hours of the truth.                                                         *)
LEMMA Submitted ==
  ASSUME IInv, Plain
  PROVE  \E p \in [Outputs -> SeriesOf(hours)], exceeded \in BOOLEAN :
           /\ result = Measurement(p, exceeded, TRUE)
           /\ exceeded = Exceeds(HourlyCvrmse(p, truth), Ceiling)
           /\ report = Acceptance(result)
           /\ DOMAIN truth = Outputs /\ Comparable(p, truth, hours)
<1>1. report # None /\ result # None /\ result.reason = "" /\ result.scored /\ report = Acceptance(result)
  BY DEF IInv, Plain, Built
<1>2. ASSUME Refused(result) PROVE FALSE
  <2>1. PICK x \in Refusals : result = [reason |-> x]
    BY <1>2 DEF Refused
  <2>2. x # ""
    BY DEF Refusals
  <2>3. QED
    BY <1>1, <2>1, <2>2
<1>3. DOMAIN truth = Outputs /\ Measured(result)
  BY <1>1, <1>2 DEF IInv, Judged
<1>4. PICK p \in [Outputs -> SeriesOf(hours)], e \in BOOLEAN, s \in BOOLEAN :
        /\ result = Measurement(p, e, s)
        /\ s => e = Exceeds(HourlyCvrmse(p, truth), Ceiling)
  BY <1>3 DEF Measured
<1>5. s = TRUE
  BY <1>1, <1>4 DEF Measurement
<1>6. Comparable(p, truth, hours)
  <2>1. hours \in Lengths
    BY ReportAssumption DEF IInv, Timed, Lengths
  <2>2. QED
    BY <1>3, <1>4, <2>1, ReportAssumption DEF IInv, Timed, Comparable
<1>7. QED
  BY <1>1, <1>3, <1>4, <1>5, <1>6

(* So have its months. *)
LEMMA MonthliesComparable ==
  ASSUME NEW p, NEW m, NEW n, Comparable(p, m, n), DOMAIN m = Outputs
  PROVE  /\ Comparable(Monthly(p), Monthly(m), Month(n))
         /\ DOMAIN Monthly(m) = Outputs
         /\ \A o \in Outputs : p[o] = m[o] => Monthly(p)[o] = Monthly(m)[o]
         /\ Counted(m) # {} => Counted(Monthly(m)) # {}
<1>1. Monthly(p) = [o \in Outputs |-> ByMonth(p[o], Method[o])]
      /\ Monthly(m) = [o \in Outputs |-> ByMonth(m[o], Method[o])]
  BY DEF Monthly
<1>2. ASSUME NEW o \in Outputs
      PROVE  /\ ByMonth(p[o], Method[o]) \in SeriesOf(Month(n))
             /\ ByMonth(m[o], Method[o]) \in SeriesOf(Month(n))
             /\ ~Silent(m[o]) => ~Silent(ByMonth(m[o], Method[o]))
             /\ Month(n) \in Lengths
  <2>1. n \in Lengths /\ p[o] \in SeriesOf(n) /\ m[o] \in SeriesOf(n)
    BY DEF Comparable
  <2>2. Method[o] \in {"mean", "sum"}
    BY ReportAssumption
  <2>3. QED
    BY <2>1, <2>2, Monthlies, MonthHours
<1>3. n \in Lengths => Month(n) \in Lengths
  <2>1. ASSUME n \in Lengths PROVE Month(n) \in Lengths
    <3>1. [i \in 1..n |-> 0] \in SeriesOf(n)
      BY DEF SeriesOf
    <3>2. QED
      BY <2>1, <3>1, MonthHours
  <2>2. QED
    BY <2>1
<1>4. Comparable(Monthly(p), Monthly(m), Month(n))
  BY <1>1, <1>2, <1>3 DEF Comparable
<1>5. Counted(m) # {} => Counted(Monthly(m)) # {}
  BY <1>1, <1>2 DEF Counted
<1>6. QED
  BY <1>1, <1>4, <1>5

(* So are the totals: the same outputs count.                                  *)
LEMMA MonthlyTotals ==
  ASSUME NEW n, Even(n), NEW p, NEW m, Comparable(p, m, n), DOMAIN m = Outputs
  PROVE  /\ MonthlyNmbe(p, m) = HourlyNmbe(p, m)
         /\ MonthlyCvrmse(p, m).sum <= HourlyCvrmse(p, m).sum
         /\ n <= HoursPerMonth =>
              MonthlyCvrmse(p, m) = Average([o \in Counted(m) |-> Abs(Nmbe(p[o], m[o]))], 100)
<1> DEFINE P == Monthly(p)
           M == Monthly(m)
           C == Counted(m)
           cs == Cvrmses(p, m)
           CS == Cvrmses(P, M)
           abs == [o \in C |-> Abs(Nmbe(p[o], m[o]))]
<1>1. DOMAIN M = Outputs
      /\ \A o \in Outputs : P[o] = ByMonth(p[o], Method[o]) /\ M[o] = ByMonth(m[o], Method[o])
  BY DEF Monthly
<1>2. Comparable(P, M, Month(n))
  BY MonthliesComparable
<1> HIDE DEF P, M
<1>3. ASSUME NEW o \in Outputs
      PROVE  /\ Silent(M[o]) <=> Silent(m[o])
             /\ ~Silent(m[o]) => /\ Nmbe(P[o], M[o]) = Nmbe(p[o], m[o])
                                 /\ Cvrmse(P[o], M[o]) <= Cvrmse(p[o], m[o])
                                 /\ n <= HoursPerMonth => Cvrmse(P[o], M[o]) = Abs(Nmbe(p[o], m[o]))
  <2>1. n \in Lengths /\ p[o] \in SeriesOf(n) /\ m[o] \in SeriesOf(n) /\ Method[o] \in {"mean", "sum"}
    BY ReportAssumption DEF Comparable
  <2>2. P[o] = ByMonth(p[o], Method[o]) /\ M[o] = ByMonth(m[o], Method[o])
    BY <1>1
  <2>3. QED
    BY <2>1, <2>2, MonthlyMetrics
<1>4. Counted(M) = C
  BY <1>1, <1>3 DEF Counted
<1>5. ASSUME NEW o \in C
      PROVE  /\ Nmbe(P[o], M[o]) = Nmbe(p[o], m[o])
             /\ Cvrmse(P[o], M[o]) <= Cvrmse(p[o], m[o])
             /\ n <= HoursPerMonth => Cvrmse(P[o], M[o]) = Abs(Nmbe(p[o], m[o]))
  BY <1>3 DEF Counted
<1>6. Nmbes(P, M) = Nmbes(p, m)
  BY <1>4, <1>5 DEF Nmbes
<1>7. MonthlyNmbe(p, m) = HourlyNmbe(p, m)
  <2>1. HourlyNmbe(P, M) = Average(Nmbes(P, M), 100) /\ HourlyNmbe(p, m) = Average(Nmbes(p, m), 100)
    BY DEF HourlyNmbe, Nmbes
  <2>2. QED
    BY <1>6, <2>1 DEF MonthlyNmbe, P, M
<1>8. /\ MonthlyCvrmse(p, m) = Average(CS, 100)
      /\ HourlyCvrmse(p, m) = Average(cs, 100)
  BY DEF MonthlyCvrmse, HourlyCvrmse, Cvrmses, P, M
<1>9. n <= HoursPerMonth => CS = abs
  BY <1>4, <1>5 DEF Cvrmses
<1>10. IsFiniteSet(C) /\ cs \in [C -> Int] /\ CS \in [C -> Int]
  <2>1. IsFiniteSet(Counted(m)) /\ cs \in [Counted(m) -> Nat]
    BY Numbers
  <2>2. CS \in [Counted(M) -> Nat]
    BY <1>2, Numbers
  <2>3. QED
    BY <1>4, <2>1, <2>2
<1>11. \A o \in C : CS[o] <= cs[o]
  BY <1>4, <1>5 DEF Cvrmses
<1> HIDE DEF C, cs, CS
<1>12. Average(CS, 100).sum <= Average(cs, 100).sum
  <2>1. CASE C = {}
    <3>1. ASSUME NEW f \in [C -> Int] PROVE Average(f, 100) = [sum |-> 100, of |-> 1]
      <4>1. DOMAIN f = {}
        BY <2>1
      <4>2. QED
        BY <4>1 DEF Average
    <3>2. Average(CS, 100) = Average(cs, 100) /\ Average(cs, 100).sum = 100
      BY <1>10, <3>1
    <3>3. QED
      BY <3>2
  <2>2. CASE C # {}
    <3>1. /\ Average(CS, 100) = [sum |-> SumFunctionOnSet(CS, C), of |-> Cardinality(C)]
          /\ Average(cs, 100) = [sum |-> SumFunctionOnSet(cs, C), of |-> Cardinality(C)]
      BY <1>10, <2>2, Averages
    <3>2. SumFunctionOnSet(CS, C) <= SumFunctionOnSet(cs, C)
      BY <1>10, <1>11, SumMonotone DEF Whole
    <3>3. QED
      BY <3>1, <3>2
  <2>3. QED
    BY <2>1, <2>2
<1>13. QED
  BY <1>7, <1>8, <1>9, <1>12 DEF C

(* The bands are judged one by one, and overall together. *)
LEMMA BandsJudged ==
  ASSUME NEW metrics
  PROVE  /\ Passes(metrics)["hourly_cvrmse"] = Within(metrics["hourly_cvrmse"], 30)
         /\ Passes(metrics)["hourly_nmbe"] = Within(metrics["hourly_nmbe"], 10)
         /\ Passes(metrics)["overall"] <=>
              /\ Within(metrics["hourly_cvrmse"], 30) /\ Within(metrics["hourly_nmbe"], 10)
              /\ Within(metrics["monthly_cvrmse"], 15) /\ Within(metrics["monthly_nmbe"], 5)
<1> DEFINE limit(b) == CASE b = "hourly_cvrmse"  -> 30
                         [] b = "hourly_nmbe"    -> 10
                         [] b = "monthly_cvrmse" -> 15
                         [] b = "monthly_nmbe"   -> 5
           band == [b \in Bands |-> Within(metrics[b], limit(b))]
<1>1. /\ limit("hourly_cvrmse") = 30 /\ limit("hourly_nmbe") = 10
      /\ limit("monthly_cvrmse") = 15 /\ limit("monthly_nmbe") = 5
  OBVIOUS
<1>2. Passes(metrics) =
        [b \in Bands \cup {"overall"} |-> IF b = "overall" THEN \A x \in Bands : band[x] ELSE band[b]]
  BY DEF Passes
<1> HIDE DEF limit
<1>3. \A b \in Bands : band[b] = Within(metrics[b], limit(b))
  OBVIOUS
<1> HIDE DEF band
<1>4. /\ Passes(metrics)["overall"] = (\A x \in Bands : band[x])
      /\ Passes(metrics)["hourly_cvrmse"] = band["hourly_cvrmse"]
      /\ Passes(metrics)["hourly_nmbe"] = band["hourly_nmbe"]
  BY <1>2 DEF Bands
<1>5. QED
  BY <1>1, <1>3, <1>4 DEF Bands

(* The metrics of a report are numbers. *)
LEMMA MetricsTyped ==
  ASSUME IInv, Plain
  PROVE  MetricsOf(result) \in [MetricNames -> Metric]
<1>1. PICK p \in [Outputs -> SeriesOf(hours)], e \in BOOLEAN :
        /\ result = Measurement(p, e, TRUE)
        /\ DOMAIN truth = Outputs /\ Comparable(p, truth, hours)
  BY Submitted
<1>2. /\ result.cvrmse = HourlyCvrmse(p, truth) /\ result.nmbe = HourlyNmbe(p, truth)
      /\ result.r_squared = HourlyRSquared(p, truth) /\ result.predicted = p
  BY <1>1 DEF Measurement
<1>3. result.cvrmse \in Metric /\ result.nmbe \in Metric /\ result.r_squared \in Metric
  BY <1>1, <1>2, Totals
<1>4. MonthlyCvrmse(p, truth) \in Metric /\ MonthlyNmbe(p, truth) \in Metric
  <2>1. Comparable(Monthly(p), Monthly(truth), Month(hours))
    BY <1>1, MonthliesComparable
  <2>2. QED
    BY <2>1, Totals DEF MonthlyCvrmse, MonthlyNmbe
<1>5. QED
  BY <1>2, <1>3, <1>4 DEF MetricsOf, MetricNames, Bands

(* Reading back what was stored restores a report whose metrics are numbers or  *)
(* all missing.                                                                *)
LEMMA RoundTrip ==
  ASSUME NEW a, NEW b, NEW c, NEW d, b = [m \in MetricNames |-> b[m]],
         \A m \in MetricNames : b[m] = NaN \/ b[m] # Null
  PROVE  LET r == [reason |-> a, metrics |-> b, perOutput |-> c, passes |-> d]
         IN  FromDict(ToDict(r)) = r
<1> DEFINE r    == [reason |-> a, metrics |-> b, perOutput |-> c, passes |-> d]
           json == [m \in MetricNames |-> IF b[m] = NaN THEN Null ELSE b[m]]
           back == [m \in MetricNames |-> IF json[m] = Null THEN NaN ELSE json[m]]
<1>1. back = b
  <2>1. \A m \in MetricNames : back[m] = b[m]
    OBVIOUS
  <2>2. back = [m \in MetricNames |-> back[m]]
    OBVIOUS
  <2> HIDE DEF back
  <2>3. QED
    BY <2>1, <2>2
<1>2. ToDict(r) = [reason |-> a, metrics |-> json, perOutput |-> c, passes |-> d]
  <2>1. r.metrics = b
    OBVIOUS
  <2>2. ToDict(r) = [r EXCEPT !.metrics = [m \in MetricNames |-> IF r.metrics[m] = NaN THEN Null ELSE r.metrics[m]]]
    BY DEF ToDict
  <2>3. ToDict(r) = [r EXCEPT !.metrics = json]
    BY <2>1, <2>2, Zenon
  <2> HIDE DEF json
  <2>4. QED
    BY <2>3
<1> DEFINE s == [reason |-> a, metrics |-> json, perOutput |-> c, passes |-> d]
<1>3. FromDict(s) = [reason |-> a, metrics |-> back, perOutput |-> c, passes |-> d]
  <2> HIDE DEF json
  <2>1. s.metrics = json
    OBVIOUS
  <2>2. FromDict(s) = [s EXCEPT !.metrics = [m \in MetricNames |-> IF s.metrics[m] = Null THEN NaN ELSE s.metrics[m]]]
    BY DEF FromDict
  <2>3. FromDict(s) = [s EXCEPT !.metrics = back]
    BY <2>1, <2>2, Zenon
  <2> HIDE DEF back
  <2>4. QED
    BY <2>3
<1>4. QED
  BY <1>1, <1>2, <1>3, Zenon

-------------------------------------------------------------------------------
(* The theorems.                                                             *)

(* What it says of a pass. *)
LEMMA PassHere == IInv => PassIsEarned
<1> SUFFICES ASSUME IInv, row # None
             PROVE  /\ FromDict(row) = report
                    /\ report.passes["overall"] => report.reason = Null /\ Counted(truth) # {}
                    /\ Plain /\ result.predicted = truth /\ Counted(truth) # {} => report.passes["overall"]
  BY DEF PassIsEarned
<1>1. report # None /\ row = ToDict(report)
  BY DEF IInv, Stored
<1>2. CASE result.reason # ""
  <2>1. report = Rejection(result)
    BY <1>1, <1>2 DEF IInv, Built
  <2>2. FromDict(ToDict(report)) = report
    <3> DEFINE b == [m \in MetricNames |-> NaN]
    <3>1. b = [m \in MetricNames |-> b[m]] /\ \A m \in MetricNames : b[m] = NaN
      OBVIOUS
    <3> HIDE DEF b
    <3>2. report = [reason |-> result.reason, metrics |-> b, perOutput |-> <<>>,
                    passes |-> [x \in Bands \cup {"overall"} |-> FALSE]]
      BY <2>1 DEF Rejection, b
    <3>3. QED
      BY <3>1, <3>2, RoundTrip
  <2>3. report.passes["overall"] = FALSE
    BY <2>1 DEF Rejection
  <2>4. QED
    BY <1>1, <1>2, <2>2, <2>3 DEF Plain
<1>3. CASE result.reason = ""
  <2>1. Plain
    BY <1>1, <1>3 DEF Plain
  <2>2. PICK p \in [Outputs -> SeriesOf(hours)], e \in BOOLEAN :
          /\ result = Measurement(p, e, TRUE)
          /\ e = Exceeds(HourlyCvrmse(p, truth), Ceiling)
          /\ report = Acceptance(result)
          /\ DOMAIN truth = Outputs /\ Comparable(p, truth, hours)
    BY <2>1, Submitted
  <2>3. /\ result.cvrmse = HourlyCvrmse(p, truth) /\ result.nmbe = HourlyNmbe(p, truth)
        /\ result.predicted = p /\ result.exceeded = e
    BY <2>2 DEF Measurement
  <2>4. FromDict(ToDict(report)) = report
    <3> DEFINE b == MetricsOf(result)
    <3>1. b \in [MetricNames -> Metric]
      BY <2>1, MetricsTyped
    <3> HIDE DEF b
    <3>2. b = [m \in MetricNames |-> b[m]] /\ \A m \in MetricNames : b[m] = NaN \/ b[m] # Null
      BY <3>1, ReportAssumption
    <3>3. report = [reason |-> IF result.exceeded THEN "CVRMSE_CEILING_EXCEEDED" ELSE Null,
                    metrics |-> b, perOutput |-> PerOutput(result.predicted, truth), passes |-> Passes(b)]
      BY <2>2 DEF Acceptance, b
    <3>4. QED
      BY <3>2, <3>3, RoundTrip
  <2>5. /\ report.passes = Passes(MetricsOf(result))
        /\ report.reason = IF e THEN "CVRMSE_CEILING_EXCEEDED" ELSE Null
    BY <2>2, <2>3 DEF Acceptance
  <2> DEFINE metrics == MetricsOf(result)
  <2>6. /\ metrics["hourly_cvrmse"] = HourlyCvrmse(p, truth) /\ metrics["hourly_nmbe"] = HourlyNmbe(p, truth)
        /\ metrics["monthly_cvrmse"] = MonthlyCvrmse(p, truth) /\ metrics["monthly_nmbe"] = MonthlyNmbe(p, truth)
    BY <2>3 DEF MetricsOf
  <2> HIDE DEF metrics
  <2>7. ASSUME report.passes["overall"] PROVE report.reason = Null /\ Counted(truth) # {}
    <3>1. Within(HourlyCvrmse(p, truth), 30)
      BY <2>5, <2>6, <2>7, BandsJudged DEF metrics
    <3> DEFINE c == HourlyCvrmse(p, truth)
    <3>2. c \in Metric
      BY <2>2, Totals
    <3>3. c.sum \in Int /\ c.of \in Nat \ {0} /\ Abs(c.sum) <= 30 * c.of
      BY <3>1, <3>2 DEF Metric, Within
    <3>4. Counted(truth) # {}
      <4>1. ASSUME Counted(truth) = {} PROVE FALSE
        <5>1. c.sum = 100 /\ c.of = 1
          BY <2>2, <4>1, Totals
        <5> HIDE DEF c
        <5>2. QED
          BY <3>3, <5>1 DEF Abs
      <4>2. QED
        BY <4>1
    <3>5. ~e
      <4>1. \A a, n, k \in Nat : a >= k => k * n <= a * n
        OBVIOUS
      <4>2. 30 * c.of <= Ceiling * c.of
        BY <3>3, <4>1, ReportAssumption
      <4> DEFINE top == Ceiling * c.of
      <4>3. top \in Nat
        BY <3>3, ReportAssumption
      <4> HIDE DEF c
      <4>4. ~(c.sum > top)
        <5> HIDE DEF top
        <5>1. 30 * c.of <= top
          BY <4>2 DEF top
        <5>2. QED
          BY <3>3, <4>3, <5>1 DEF Abs
      <4>5. QED
        BY <2>2, <4>4 DEF Exceeds, c
    <3>6. QED
      BY <2>5, <3>4, <3>5
  <2>8. ASSUME result.predicted = truth, Counted(truth) # {} PROVE report.passes["overall"]
    <3>1. Within(HourlyCvrmse(p, truth), 30) /\ Within(HourlyNmbe(p, truth), 10)
      BY <2>2, <2>3, <2>8, Exact
    <3>2. /\ Comparable(Monthly(p), Monthly(truth), Month(hours))
          /\ Counted(Monthly(truth)) # {}
          /\ \A o \in DOMAIN Monthly(truth) : Monthly(p)[o] = Monthly(truth)[o]
      BY <2>2, <2>3, <2>8, MonthliesComparable
    <3>3. Within(MonthlyCvrmse(p, truth), 15) /\ Within(MonthlyNmbe(p, truth), 5)
      BY <3>2, Exact DEF MonthlyCvrmse, MonthlyNmbe
    <3>4. QED
      BY <2>5, <2>6, <3>1, <3>3, BandsJudged DEF metrics
  <2>9. QED
    BY <1>1, <2>4, <2>7, <2>8
<1>4. QED
  BY <1>2, <1>3

(* What it says of the table of outputs. *)
LEMMA TableHere == IInv => TableExplainsTotals
<1> SUFFICES ASSUME IInv, Plain
             PROVE  /\ \A o \in Outputs \ Counted(truth) : report.perOutput[o] = Unmeasured
                    /\ Counted(truth) # {} =>
                       /\ report.metrics.hourly_cvrmse.sum
                            = SumFunction([o \in Counted(truth) |-> report.perOutput[o].cvrmse.sum])
                       /\ (\A o \in Counted(truth) : Within(report.perOutput[o].cvrmse, 30))
                            => report.passes["hourly_cvrmse"]
                       /\ (\A o \in Counted(truth) : Within(report.perOutput[o].nmbe, 10))
                            => report.passes["hourly_nmbe"]
  BY DEF TableExplainsTotals
<1>1. PICK p \in [Outputs -> SeriesOf(hours)], e \in BOOLEAN :
        /\ result = Measurement(p, e, TRUE)
        /\ report = Acceptance(result)
        /\ DOMAIN truth = Outputs /\ Comparable(p, truth, hours)
  BY Submitted
<1>2. result.cvrmse = HourlyCvrmse(p, truth) /\ result.nmbe = HourlyNmbe(p, truth) /\ result.predicted = p
  BY <1>1 DEF Measurement
<1>3. /\ report.metrics = MetricsOf(result) /\ report.passes = Passes(MetricsOf(result))
      /\ report.perOutput = PerOutput(p, truth)
  BY <1>1, <1>2 DEF Acceptance
<1>4. /\ report.metrics["hourly_cvrmse"] = HourlyCvrmse(p, truth)
      /\ report.metrics["hourly_nmbe"] = HourlyNmbe(p, truth)
      /\ report.metrics.hourly_cvrmse = HourlyCvrmse(p, truth)
  BY <1>2, <1>3 DEF MetricsOf
<1> DEFINE counted == Counted(truth)
           one(f, o) == Restrict(f, {o})
           table == report.perOutput
<1>5. ASSUME NEW o \in Outputs
      PROVE  /\ Comparable(one(p, o), one(truth, o), hours)
             /\ Counted(one(truth, o)) = counted \cap {o}
             /\ one(p, o)[o] = p[o] /\ one(truth, o)[o] = truth[o]
             /\ Silent(truth[o]) => Explained(one(truth, o)) = {}
             /\ table[o] = [cvrmse    |-> HourlyCvrmse(one(p, o), one(truth, o)),
                            nmbe      |-> HourlyNmbe(one(p, o), one(truth, o)),
                            r_squared |-> HourlyRSquared(one(p, o), one(truth, o))]
  <2>1. one(p, o) = [x \in {o} |-> p[x]] /\ one(truth, o) = [x \in {o} |-> truth[x]]
    BY DEF Restrict
  <2>2. hours \in Lengths /\ truth[o] \in SeriesOf(hours) /\ p[o] \in SeriesOf(hours)
    BY <1>1 DEF Comparable
  <2>3. Comparable(one(p, o), one(truth, o), hours)
    BY <2>1, <2>2, FS_Singleton DEF Comparable
  <2>4. Counted(one(truth, o)) = counted \cap {o}
    BY <1>1, <2>1 DEF Counted
  <2>5. Silent(truth[o]) => Explained(one(truth, o)) = {}
    BY <2>1, <2>2, SilentIsFlat DEF Explained
  <2>6. table[o] = [cvrmse    |-> HourlyCvrmse(one(p, o), one(truth, o)),
                    nmbe      |-> HourlyNmbe(one(p, o), one(truth, o)),
                    r_squared |-> HourlyRSquared(one(p, o), one(truth, o))]
    BY <1>3 DEF PerOutput
  <2>7. QED
    BY <2>1, <2>3, <2>4, <2>5, <2>6
<1> HIDE DEF table, one
<1>6. ASSUME NEW o \in Outputs \ counted PROVE table[o] = Unmeasured
  <2>1. Silent(truth[o]) /\ Counted(one(truth, o)) = {}
    BY <1>1, <1>5 DEF Counted
  <2>2. Comparable(one(p, o), one(truth, o), hours) /\ Explained(one(truth, o)) = {}
    BY <1>5, <2>1
  <2>3. /\ HourlyCvrmse(one(p, o), one(truth, o)) = [sum |-> 100, of |-> 1]
        /\ HourlyNmbe(one(p, o), one(truth, o)) = [sum |-> 100, of |-> 1]
        /\ HourlyRSquared(one(p, o), one(truth, o)) = [sum |-> 0, of |-> 1]
    BY <2>1, <2>2, Totals
  <2>4. QED
    BY <1>5, <2>3 DEF Unmeasured
<1>7. /\ counted \in SUBSET Outputs /\ IsFiniteSet(counted)
      /\ Cvrmses(p, truth) \in [counted -> Int] /\ Nmbes(p, truth) \in [counted -> Int]
  <2>1. counted \in SUBSET Outputs
    BY <1>1 DEF Counted
  <2>2. /\ IsFiniteSet(counted)
        /\ Cvrmses(p, truth) \in [counted -> Nat] /\ Nmbes(p, truth) \in [counted -> Int]
    BY <1>1, Numbers
  <2>3. QED
    BY <2>1, <2>2
<1>8. ASSUME NEW o \in counted
      PROVE  /\ table[o].cvrmse = [sum |-> Cvrmses(p, truth)[o], of |-> 1]
             /\ table[o].nmbe = [sum |-> Nmbes(p, truth)[o], of |-> 1]
  <2>1. /\ o \in Outputs /\ Counted(one(truth, o)) = {o}
        /\ Comparable(one(p, o), one(truth, o), hours)
        /\ one(p, o)[o] = p[o] /\ one(truth, o)[o] = truth[o]
    BY <1>5, <1>7
  <2> DEFINE c == Cvrmses(one(p, o), one(truth, o))
             d == Nmbes(one(p, o), one(truth, o))
  <2>2. c[o] = Cvrmses(p, truth)[o] /\ d[o] = Nmbes(p, truth)[o]
    BY <2>1 DEF Cvrmses, Nmbes
  <2>3. c \in [{o} -> Int] /\ d \in [{o} -> Int]
    BY <2>1, Numbers
  <2>4. HourlyCvrmse(one(p, o), one(truth, o)) = Average(c, 100)
        /\ HourlyNmbe(one(p, o), one(truth, o)) = Average(d, 100)
    BY DEF HourlyCvrmse, HourlyNmbe, Cvrmses, Nmbes
  <2> HIDE DEF c, d
  <2>5. Average(c, 100) = [sum |-> c[o], of |-> 1] /\ Average(d, 100) = [sum |-> d[o], of |-> 1]
    <3> DEFINE D == {o}
    <3>1. IsFiniteSet(D) /\ D = {o} /\ c \in [D -> Int] /\ d \in [D -> Int]
      BY <2>3, FS_Singleton
    <3> HIDE DEF D
    <3>2. QED
      BY <3>1, Averages
  <2>6. table[o].cvrmse = HourlyCvrmse(one(p, o), one(truth, o))
        /\ table[o].nmbe = HourlyNmbe(one(p, o), one(truth, o))
    <3>1. table[o] = [cvrmse    |-> HourlyCvrmse(one(p, o), one(truth, o)),
                      nmbe      |-> HourlyNmbe(one(p, o), one(truth, o)),
                      r_squared |-> HourlyRSquared(one(p, o), one(truth, o))]
      BY <1>5, <2>1
    <3>2. QED
      BY <3>1
  <2>7. QED
    BY <2>2, <2>4, <2>5, <2>6
<1>9. HourlyCvrmse(p, truth) = Average(Cvrmses(p, truth), 100)
      /\ HourlyNmbe(p, truth) = Average(Nmbes(p, truth), 100)
  BY DEF HourlyCvrmse, HourlyNmbe, Cvrmses, Nmbes
<1> DEFINE cs == Cvrmses(p, truth)
           ns == Nmbes(p, truth)
<1>10. counted # {} => HourlyCvrmse(p, truth).sum = SumFunction([o \in counted |-> table[o].cvrmse.sum])
  <2> SUFFICES ASSUME counted # {}
               PROVE  HourlyCvrmse(p, truth).sum = SumFunction([o \in counted |-> table[o].cvrmse.sum])
    OBVIOUS
  <2> HIDE DEF counted, cs
  <2>1. Average(cs, 100) = [sum |-> SumFunctionOnSet(cs, counted), of |-> Cardinality(counted)]
    BY <1>7, Averages DEF cs
  <2>2. [o \in counted |-> table[o].cvrmse.sum] = cs
    <3>1. ASSUME NEW o \in counted PROVE table[o].cvrmse.sum = cs[o]
      <4>1. table[o].cvrmse = [sum |-> cs[o], of |-> 1]
        BY <1>8 DEF cs
      <4>2. QED
        BY <4>1
    <3>2. cs = [o \in counted |-> cs[o]]
      BY <1>7 DEF cs
    <3>3. QED
      BY <3>1, <3>2
  <2>3. DOMAIN cs = counted
    BY <1>7 DEF cs
  <2>4. QED
    BY <1>9, <2>1, <2>2, <2>3 DEF SumFunction, cs
<1>11. ASSUME counted # {}, \A o \in counted : Within(table[o].cvrmse, 30)
       PROVE  report.passes["hourly_cvrmse"]
  <2> HIDE DEF counted, cs
  <2>1. \A o \in counted : Within([sum |-> cs[o], of |-> 1], 30)
    BY <1>8, <1>11 DEF cs
  <2>2. cs \in [counted -> Int] /\ IsFiniteSet(counted)
    BY <1>7 DEF cs
  <2>3. Within(Average(cs, 100), 30)
    BY <1>11, <2>1, <2>2, AverageWithin
  <2>4. QED
    BY <1>3, <1>4, <1>9, <2>3, BandsJudged DEF cs
<1>12. ASSUME counted # {}, \A o \in counted : Within(table[o].nmbe, 10)
       PROVE  report.passes["hourly_nmbe"]
  <2> HIDE DEF counted, ns
  <2>1. \A o \in counted : Within([sum |-> ns[o], of |-> 1], 10)
    BY <1>8, <1>12 DEF ns
  <2>2. ns \in [counted -> Int] /\ IsFiniteSet(counted)
    BY <1>7 DEF ns
  <2>3. Within(Average(ns, 100), 10)
    BY <1>12, <2>1, <2>2, AverageWithin
  <2>4. QED
    BY <1>3, <1>4, <1>9, <2>3, BandsJudged DEF ns
<1>13. QED
  BY <1>4, <1>6, <1>10, <1>11, <1>12 DEF table

(* What it says of the months. *)
LEMMA MonthlyHere == IInv => MonthlyAgrees
<1> SUFFICES ASSUME IInv, Plain
             PROVE  /\ hours <= HoursPerMonth =>
                         report.metrics.monthly_cvrmse
                           = Average([o \in Counted(truth) |-> Abs(Nmbe(result.predicted[o], truth[o]))], 100)
                    /\ Even(hours) =>
                         /\ report.metrics.monthly_nmbe = report.metrics.hourly_nmbe
                         /\ report.metrics.monthly_cvrmse.sum <= report.metrics.hourly_cvrmse.sum
  BY DEF MonthlyAgrees, Even
<1>1. PICK p \in [Outputs -> SeriesOf(hours)], e \in BOOLEAN :
        /\ result = Measurement(p, e, TRUE)
        /\ report = Acceptance(result)
        /\ DOMAIN truth = Outputs /\ Comparable(p, truth, hours)
  BY Submitted
<1>2. result.cvrmse = HourlyCvrmse(p, truth) /\ result.nmbe = HourlyNmbe(p, truth) /\ result.predicted = p
  BY <1>1 DEF Measurement
<1>3. report.metrics = MetricsOf(result)
  BY <1>1 DEF Acceptance
<1>4. /\ report.metrics.hourly_cvrmse = HourlyCvrmse(p, truth)
      /\ report.metrics.hourly_nmbe = HourlyNmbe(p, truth)
      /\ report.metrics.monthly_cvrmse = MonthlyCvrmse(p, truth)
      /\ report.metrics.monthly_nmbe = MonthlyNmbe(p, truth)
  BY <1>2, <1>3 DEF MetricsOf
<1>5. hours <= HoursPerMonth => Even(hours)
  BY DEF Even
<1>6. Even(hours) =>
        /\ MonthlyNmbe(p, truth) = HourlyNmbe(p, truth)
        /\ MonthlyCvrmse(p, truth).sum <= HourlyCvrmse(p, truth).sum
        /\ hours <= HoursPerMonth =>
             MonthlyCvrmse(p, truth) = Average([o \in Counted(truth) |-> Abs(Nmbe(p[o], truth[o]))], 100)
  BY <1>1, MonthlyTotals
<1>7. QED
  BY <1>2, <1>4, <1>5, <1>6

(* What a reader of a stored report finds passed was neither refused nor above  *)
(* the ceiling, and something was measured; whoever predicts what was measured *)
(* passes (build_calibration_report, scoring/report_builder.py, and to_dict).   *)
THEOREM PassesAreEarned == Spec => []PassIsEarned
<1>1. QED
  BY Invariant, PassHere, PTL

(* The table of outputs explains the totals of a report, for any outputs, hours *)
(* and predictions (_per_output_breakdown).                                     *)
THEOREM TableExplains == Spec => []TableExplainsTotals
<1>1. QED
  BY Invariant, TableHere, PTL

(* Resampling to hours neither invents nor loses what was recorded, for any     *)
(* number of samples and hours (_resample_to_hourly,                            *)
(* validator/emulator/manager.py).                                             *)
THEOREM SamplesConserved == Spec => []ResamplingConserves
<1>1. QED
  BY Invariant, ResamplingHere, PTL

(* The monthly metrics of one month are the bias again, and over whole months   *)
(* they forgive no bias and ask for no more than the hourly error               *)
(* (aggregate_to_monthly, scoring/metrics.py).                                  *)
THEOREM MonthsAgree == Spec => []MonthlyAgrees
<1>1. QED
  BY Invariant, MonthlyHere, PTL
=================================================================================
