---------------------------- MODULE NeatEpochProofs ----------------------------
EXTENDS NeatEpoch, FiniteSetTheorems, SequenceTheorems, WellFoundedInduction, TLAPS

(* A set of natural numbers that is not empty has a smallest one. *)
LEMMA SmallestNumber ==
  ASSUME NEW S \in SUBSET Nat, S # {}
  PROVE  \E n \in S : \A m \in S : n <= m
<1> DEFINE below(x) == {y \in S : y < x}
           T == {below(x) : x \in S}
<1>0. PICK top \in S : TRUE
  OBVIOUS
<1>1. IsWellFoundedOn(StrictSubsetOrdering(Nat), FiniteSubsetsOf(Nat))
  BY FS_StrictSubsetOrderingWellFounded
<1>2. T \subseteq FiniteSubsetsOf(Nat) /\ T # {}
  <2>1. ASSUME NEW x \in S
        PROVE  below(x) \in SUBSET Nat /\ IsFiniteSet(below(x))
    <3>0. x \in Nat /\ \A s \in S : s \in Nat
      OBVIOUS
    <3>2. \A s \in below(x) : s \in S /\ s < x
      OBVIOUS
    <3>3. \A s \in S : s < x => s <= x
      BY <3>0
    <3>4. below(x) \in SUBSET Nat /\ \A s \in below(x) : s <= x
      <4> HIDE DEF below
      <4>1. QED
        BY <3>0, <3>2, <3>3
    <3> HIDE DEF below
    <3>5. QED
      BY <3>0, <3>4, FS_BoundedSetOfNaturals
  <2> HIDE DEF below
  <2>2. QED
    BY <1>0, <2>1 DEF FiniteSubsetsOf
<1>3. PICK U \in T : \A V \in T : <<V, U>> \notin StrictSubsetOrdering(Nat)
  <2> HIDE DEF T
  <2>1. QED
    BY <1>1, <1>2, WFMin
<1>4. PICK x \in S : U = below(x)
  OBVIOUS
<1>5. ASSUME NEW y \in S, y < x
      PROVE  FALSE
  <2>1. x \in Nat /\ y \in Nat /\ \A z \in S : z \in Nat
    OBVIOUS
  <2>2. y \in below(x) /\ y \notin below(y)
    BY <1>5, <2>1
  <2>3. below(y) \subseteq below(x)
    <3>1. \A z \in S : z < y => z < x
      BY <1>5, <2>1
    <3>2. QED
      BY <3>1
  <2>4. below(y) \in T /\ below(y) \in SUBSET Nat /\ below(x) \in SUBSET Nat
    OBVIOUS
  <2> HIDE DEF below
  <2>5. <<below(y), below(x)>> \in StrictSubsetOrdering(Nat)
    BY <2>2, <2>3, <2>4 DEF StrictSubsetOrdering
  <2>6. QED
    BY <1>3, <1>4, <2>4, <2>5
<1>6. QED
  <2>1. \A z \in S : z \in Nat
    OBVIOUS
  <2>2. QED
    BY <1>5, <2>1

(* What holds at 0 and is passed on holds everywhere. *)
LEMMA PassedOn ==
  ASSUME NEW N \in Nat, NEW S \in SUBSET (0..N), 0 \in S,
         \A k \in 1..N : k - 1 \in S => k \in S
  PROVE  S = 0..N
<1> DEFINE T == (0..N) \ S
<1>1. CASE T # {}
  <2>0. T \in SUBSET Nat
    OBVIOUS
  <2>1. PICK k \in T : \A m \in T : k <= m
    <3> HIDE DEF T
    <3>1. QED
      BY <1>1, <2>0, SmallestNumber
  <2>2. k \in 1..N
    OBVIOUS
  <2>3. k - 1 \in 0..N /\ k - 1 \notin T
    BY <2>1, <2>2
  <2>4. QED
    BY <2>2, <2>3
<1>2. QED
  BY <1>1

(* What the empty set has, and what some element passes on to each other   *)
(* set, every finite set has.                                              *)
Hereditary(S, P) ==
  /\ P \in SUBSET (SUBSET S) /\ {} \in P
  /\ \A s \in SUBSET S : s # {} => \E x \in s : s \ {x} \in P => s \in P
LEMMA SetPassedOn ==
  ASSUME NEW S, IsFiniteSet(S), NEW P, Hereditary(S, P)
  PROVE  P = SUBSET S
<1> USE DEF Hereditary
<1> DEFINE T == (SUBSET S) \ P
<1>1. CASE T # {}
  <2>1. IsWellFoundedOn(StrictSubsetOrdering(S), FiniteSubsetsOf(S))
    BY FS_StrictSubsetOrderingWellFounded
  <2>2. T \subseteq FiniteSubsetsOf(S)
    BY FS_Subset DEF FiniteSubsetsOf
  <2>3. PICK U \in T : \A V \in T : <<V, U>> \notin StrictSubsetOrdering(S)
    <3> HIDE DEF T
    <3>1. QED
      BY <1>1, <2>1, <2>2, WFMin
  <2>4. U # {} /\ U \in SUBSET S
    OBVIOUS
  <2>5. PICK x \in U : U \ {x} \in P => U \in P
    BY <2>4
  <2>6. <<U \ {x}, U>> \in StrictSubsetOrdering(S)
    BY <2>4 DEF StrictSubsetOrdering
  <2>7. U \ {x} \notin T
    BY <2>3, <2>6
  <2>8. QED
    BY <2>4, <2>5, <2>7
<1>2. QED
  BY <1>1

(* A fold over a finite set exists, whichever elements it picks. *)
Folds(S, base, op, pick, f) ==
  f = [s \in SUBSET S |-> IF s = {} THEN base ELSE op[pick[s]][f[s \ {pick[s]}]]]
CanFold(S, D, base, op, pick) == \E f \in [SUBSET S -> D] : Folds(S, base, op, pick, f)
LEMMA FoldExists ==
  ASSUME NEW S, IsFiniteSet(S), NEW D, NEW base \in D, NEW op \in [S -> [D -> D]],
         NEW pick, \A s \in SUBSET S : s # {} => pick[s] \in s
  PROVE  CanFold(S, D, base, op, pick)
<1> DEFINE N == Cardinality(S)
           Small(n) == {s \in SUBSET S : Cardinality(s) <= n}
           Part(n, f) == /\ f \in [Small(n) -> D]
                         /\ \A s \in Small(n) : f[s] = IF s = {} THEN base ELSE op[pick[s]][f[s \ {pick[s]}]]
           P == {n \in 0..N : \E f : Part(n, f)}
<1>1. N \in Nat
  BY FS_CardinalityType
<1>2. \A s \in SUBSET S : /\ IsFiniteSet(s) /\ Cardinality(s) \in Nat /\ Cardinality(s) <= N
                          /\ Cardinality(s) = 0 <=> s = {}
                          /\ s # {} => Cardinality(s \ {pick[s]}) = Cardinality(s) - 1
  BY FS_Subset, FS_CardinalityType, FS_EmptySet, FS_RemoveElement
<1>3. 0 \in P
  <2> DEFINE f == [s \in Small(0) |-> base]
  <2>1. ASSUME NEW s \in Small(0)
        PROVE  s = {}
    <3>1. s \in SUBSET S /\ Cardinality(s) <= 0
      OBVIOUS
    <3>2. Cardinality(s) \in Nat
      BY <1>2, <3>1
    <3>3. Cardinality(s) = 0
      BY <3>1, <3>2
    <3>4. QED
      BY <1>2, <3>1, <3>3
  <2>2. Part(0, f)
    <3> HIDE DEF Small
    <3>1. QED
      BY <2>1
  <2> HIDE DEF Part, f
  <2>3. (\E g : Part(0, g)) /\ 0 \in 0..N
    BY <1>1, <2>2
  <2>4. QED
    BY <2>3
<1>4. ASSUME NEW n \in 1..N, n - 1 \in P
      PROVE  n \in P
  <2>1. PICK f : Part(n - 1, f)
    BY <1>4
  <2> DEFINE u == [s \in Small(n) |-> IF s = {} THEN base ELSE op[pick[s]][f[s \ {pick[s]}]]]
  <2>2. ASSUME NEW s \in Small(n), s # {}
        PROVE  /\ s \ {pick[s]} \in Small(n - 1) /\ s \ {pick[s]} \in Small(n)
               /\ pick[s] \in S /\ s \in SUBSET S
    <3>1. s \in SUBSET S /\ Cardinality(s) <= n /\ n \in Int
      OBVIOUS
    <3>2. pick[s] \in s /\ s \ {pick[s]} \in SUBSET S
      BY <2>2, <3>1
    <3>3. Cardinality(s) \in Nat /\ Cardinality(s \ {pick[s]}) = Cardinality(s) - 1
      BY <1>2, <2>2, <3>1
    <3>4. Cardinality(s \ {pick[s]}) <= n - 1 /\ Cardinality(s \ {pick[s]}) <= n
      BY <3>1, <3>3
    <3>5. QED
      BY <3>1, <3>2, <3>4
  <2>3. ASSUME NEW s \in Small(n - 1)
        PROVE  s \in Small(n)
    <3>1. s \in SUBSET S /\ Cardinality(s) <= n - 1 /\ n \in Int
      OBVIOUS
    <3>2. Cardinality(s) \in Nat
      BY <1>2, <3>1
    <3>3. Cardinality(s) <= n
      BY <3>1, <3>2
    <3>4. QED
      BY <3>1, <3>3
  <2> HIDE DEF Small
  <2>4. u \in [Small(n) -> D]
    <3>1. ASSUME NEW s \in Small(n), s # {}
          PROVE  op[pick[s]][f[s \ {pick[s]}]] \in D
      <4>1. f[s \ {pick[s]}] \in D
        BY <2>1, <2>2, <3>1
      <4>2. op[pick[s]] \in [D -> D]
        BY <2>2, <3>1
      <4>3. QED
        BY <4>1, <4>2
    <3>2. QED
      BY <3>1
  <2>5. \A s \in Small(n - 1) : u[s] = f[s]
    BY <2>1, <2>3
  <2>6. \A s \in Small(n) : u[s] = IF s = {} THEN base ELSE op[pick[s]][u[s \ {pick[s]}]]
    BY <2>2, <2>5
  <2>7. Part(n, u)
    BY <2>4, <2>6
  <2> HIDE DEF Part, u
  <2>8. (\E g : Part(n, g)) /\ n \in 0..N
    BY <2>7
  <2>9. QED
    BY <2>8
<1>5. P = 0..N
  <2>1. P \in SUBSET (0..N)
    OBVIOUS
  <2> HIDE DEF P, N
  <2>2. QED
    BY <1>1, <1>3, <1>4, <2>1, PassedOn
<1>6. PICK f : Part(N, f)
  <2>0. N \in 0..N
    <3> HIDE DEF N
    <3>1. QED
      BY <1>1
  <2>1. N \in P
    <3> HIDE DEF P, N
    <3>1. QED
      BY <1>5, <2>0
  <2>2. QED
    BY <2>1
<1>7. Small(N) = SUBSET S
  BY <1>2
<1>8. f \in [SUBSET S -> D]
  BY <1>6, <1>7
<1>9. f = [s \in SUBSET S |-> IF s = {} THEN base ELSE op[pick[s]][f[s \ {pick[s]}]]]
  BY <1>6, <1>7, <1>8
<1>10. QED
  BY <1>8, <1>9 DEF CanFold, Folds

-----------------------------------------------------------------------------
(* What every set has whose proper subsets have it, every finite set has.  *)
Inherited(S, P) ==
  /\ P \in SUBSET (SUBSET S)
  /\ \A s \in SUBSET S : (\A t \in SUBSET s : t # s => t \in P) => s \in P
LEMMA SubsetsPassOn ==
  ASSUME NEW S, IsFiniteSet(S), NEW P, Inherited(S, P)
  PROVE  P = SUBSET S
<1> USE DEF Inherited
<1> DEFINE T == (SUBSET S) \ P
<1>1. CASE T # {}
  <2>1. IsWellFoundedOn(StrictSubsetOrdering(S), FiniteSubsetsOf(S))
    BY FS_StrictSubsetOrderingWellFounded
  <2>2. T \subseteq FiniteSubsetsOf(S)
    BY FS_Subset DEF FiniteSubsetsOf
  <2>3. PICK U \in T : \A V \in T : <<V, U>> \notin StrictSubsetOrdering(S)
    <3> HIDE DEF T
    <3>1. QED
      BY <1>1, <2>1, <2>2, WFMin
  <2>4. ASSUME NEW t \in SUBSET U, t # U
        PROVE  t \in P
    <3>1. <<t, U>> \in StrictSubsetOrdering(S)
      BY <2>4 DEF StrictSubsetOrdering
    <3>2. t \notin T
      BY <2>3, <3>1
    <3>3. QED
      BY <3>2
  <2>5. QED
    BY <2>4
<1>2. QED
  BY <1>1

(* A sum over a set that is not empty is any of its members and the sum    *)
(* over the others.                                                        *)
Summed(f, S) ==
  /\ SumFunctionOnSet(f, {}) = 0
  /\ \A s \in SUBSET S :
       /\ SumFunctionOnSet(f, s) \in Int
       /\ \A x \in s : SumFunctionOnSet(f, s) = f[x] + SumFunctionOnSet(f, s \ {x})
LEMMA SumParts ==
  ASSUME NEW S, IsFiniteSet(S), NEW f, \A x \in S : f[x] \in Int
  PROVE  Summed(f, S)
<1> DEFINE some == [s \in SUBSET S |-> CHOOSE x \in s : TRUE]
           op == [x \in S |-> [n \in Int |-> f[x] + n]]
<1>1. \A s \in SUBSET S : s # {} => some[s] \in s /\ some[s] = CHOOSE x \in s : TRUE
  OBVIOUS
<1>2. op \in [S -> [Int -> Int]] /\ \A x \in S : \A n \in Int : op[x][n] = f[x] + n
  OBVIOUS
<1> HIDE DEF op, some
<1>3. ASSUME NEW T \in SUBSET S
      PROVE  \E g \in [SUBSET T -> Int] :
               /\ \A s \in SUBSET T : g[s] = IF s = {} THEN 0 ELSE f[some[s]] + g[s \ {some[s]}]
               /\ SumFunctionOnSet(f, T) = g[T]
  <2>1. IsFiniteSet(T) /\ 0 \in Int
    BY FS_Subset
  <2> DEFINE opT == [x \in T |-> op[x]]
             someT == [s \in SUBSET T |-> some[s]]
  <2>2. opT \in [T -> [Int -> Int]] /\ \A s \in SUBSET T : s # {} => someT[s] \in s
    BY <1>1, <1>2
  <2>3. PICK g \in [SUBSET T -> Int] : Folds(T, 0, opT, someT, g)
    <3> HIDE DEF opT, someT
    <3>1. CanFold(T, Int, 0, opT, someT)
      BY <2>1, <2>2, FoldExists
    <3>2. QED
      BY <3>1 DEF CanFold
  <2>4. g = [s \in SUBSET T |-> IF s = {} THEN 0 ELSE f[CHOOSE x \in s : TRUE] + g[s \ {CHOOSE x \in s : TRUE}]]
    <3>1. ASSUME NEW s \in SUBSET T, s # {}
          PROVE  opT[someT[s]][g[s \ {someT[s]}]]
                   = f[CHOOSE x \in s : TRUE] + g[s \ {CHOOSE x \in s : TRUE}]
      <4>1. someT[s] = (CHOOSE x \in s : TRUE) /\ someT[s] \in s /\ someT[s] \in S
        BY <1>1, <3>1
      <4>2. g[s \ {someT[s]}] \in Int
        OBVIOUS
      <4>3. opT[someT[s]] = op[someT[s]]
        BY <3>1, <4>1
      <4> HIDE DEF opT, someT
      <4>4. opT[someT[s]][g[s \ {someT[s]}]] = f[someT[s]] + g[s \ {someT[s]}]
        BY <1>2, <4>1, <4>2, <4>3
      <4>5. QED
        BY <4>1, <4>4
    <3> HIDE DEF opT, someT
    <3>2. g = [s \in SUBSET T |-> IF s = {} THEN 0 ELSE opT[someT[s]][g[s \ {someT[s]}]]]
      BY <2>3 DEF Folds
    <3>3. QED
      BY <3>1, <3>2, ZenonT(60)
  <2> DEFINE iter == CHOOSE h : h = [s \in SUBSET T |-> IF s = {} THEN 0
                                     ELSE f[CHOOSE x \in s : TRUE] + h[s \ {CHOOSE x \in s : TRUE}]]
  <2>5. iter = [s \in SUBSET T |-> IF s = {} THEN 0
                             ELSE f[CHOOSE x \in s : TRUE] + iter[s \ {CHOOSE x \in s : TRUE}]]
    BY <2>4
  <2>6. SumFunctionOnSet(f, T) = iter[T]
    BY DEF SumFunctionOnSet, FoldFunctionOnSet, MapThenFoldSet
  <2> HIDE DEF iter, opT, someT
  <2>7. ASSUME NEW s \in SUBSET T
        PROVE  iter[s] = IF s = {} THEN 0 ELSE f[some[s]] + iter[s \ {some[s]}]
    <3>1. s # {} => some[s] = CHOOSE x \in s : TRUE
      BY <1>1
    <3>2. QED
      BY <2>5, <3>1
  <2>8. iter \in [SUBSET T -> Int]
    <3> DEFINE P == {s \in SUBSET T : iter[s] \in Int}
    <3>1. {} \in P
      <4>1. {} \in SUBSET T /\ iter[{}] = 0
        BY <2>5
      <4>2. QED
        BY <4>1
    <3>2. ASSUME NEW s \in SUBSET T, s # {}
          PROVE  \E x \in s : s \ {x} \in P => s \in P
      <4>1. some[s] \in s /\ f[some[s]] \in Int
        BY <1>1, <3>2
      <4>2. iter[s] = f[some[s]] + iter[s \ {some[s]}]
        BY <2>7, <3>2
      <4>3. iter[s \ {some[s]}] \in Int => iter[s] \in Int
        BY <4>1, <4>2
      <4>4. s \ {some[s]} \in P => s \in P
        BY <4>3
      <4>5. QED
        BY <4>1, <4>4
    <3>3. Hereditary(T, P)
      <4>1. P \in SUBSET (SUBSET T)
        OBVIOUS
      <4> HIDE DEF P
      <4>2. QED
        BY <3>1, <3>2, <4>1 DEF Hereditary
    <3>4. P = SUBSET T
      <4> HIDE DEF P
      <4>1. QED
        BY <2>1, <3>3, SetPassedOn
    <3>5. QED
      BY <2>5, <3>4
  <2>9. QED
    BY <2>6, <2>7, <2>8
<1>4. PICK g \in [SUBSET S -> Int] :
        \A s \in SUBSET S : g[s] = IF s = {} THEN 0 ELSE f[some[s]] + g[s \ {some[s]}]
  <2>1. S \in SUBSET S
    OBVIOUS
  <2>2. QED
    BY <1>3, <2>1, ZenonT(60)
<1>5. ASSUME NEW T \in SUBSET S
      PROVE  SumFunctionOnSet(f, T) = g[T]
  <2>1. PICK h \in [SUBSET T -> Int] :
          /\ \A s \in SUBSET T : h[s] = IF s = {} THEN 0 ELSE f[some[s]] + h[s \ {some[s]}]
          /\ SumFunctionOnSet(f, T) = h[T]
    BY <1>3
  <2> DEFINE P == {s \in SUBSET T : h[s] = g[s]}
  <2>2. {} \in P
    BY <1>4, <2>1
  <2>3. ASSUME NEW s \in SUBSET T, s # {}
        PROVE  \E x \in s : s \ {x} \in P => s \in P
    <3>1. some[s] \in s /\ s \in SUBSET S
      BY <1>1, <2>3
    <3>2. s \ {some[s]} \in P => s \in P
      BY <1>4, <2>1, <2>3, <3>1
    <3>3. QED
      BY <3>1, <3>2
  <2>4. Hereditary(T, P)
    <3>1. P \in SUBSET (SUBSET T)
      OBVIOUS
    <3> HIDE DEF P
    <3>2. QED
      BY <2>2, <2>3, <3>1 DEF Hereditary
  <2>5. P = SUBSET T
    <3>1. IsFiniteSet(T)
      BY FS_Subset
    <3> HIDE DEF P
    <3>2. QED
      BY <2>4, <3>1, SetPassedOn
  <2>6. QED
    BY <2>1, <2>5
<1> DEFINE AnyPart(s) == \A x \in s : g[s] = f[x] + g[s \ {x}]
           P == {s \in SUBSET S : AnyPart(s)}
<1>6. ASSUME NEW s \in SUBSET S, \A t \in SUBSET s : t # s => t \in P
      PROVE  s \in P
  <2> SUFFICES ASSUME NEW x \in s PROVE g[s] = f[x] + g[s \ {x}]
    OBVIOUS
  <2> DEFINE y == some[s]
  <2>1. y \in s /\ g[s] = f[y] + g[s \ {y}]
    BY <1>1, <1>4
  <2> HIDE DEF y
  <2>2. CASE x = y
    BY <2>1, <2>2
  <2>3. CASE x # y
    <3>1. s \ {y} \in P /\ s \ {x} \in P /\ x \in s \ {y} /\ y \in s \ {x}
      BY <1>6, <2>1, <2>3
    <3>2. g[s \ {y}] = f[x] + g[(s \ {y}) \ {x}] /\ g[s \ {x}] = f[y] + g[(s \ {x}) \ {y}]
      BY <3>1
    <3>3. (s \ {y}) \ {x} = (s \ {x}) \ {y} /\ (s \ {y}) \ {x} \in SUBSET S
      OBVIOUS
    <3>4. f[x] \in Int /\ f[y] \in Int /\ g[(s \ {y}) \ {x}] \in Int
      BY <2>1, <3>3
    <3> DEFINE a == f[x]
               b == f[y]
               c == g[(s \ {y}) \ {x}]
    <3>5. a + (b + c) = b + (a + c)
      <4> HIDE DEF a, b, c
      <4>1. QED
        BY <3>4 DEF a, b, c
    <3>6. QED
      BY <2>1, <3>2, <3>3, <3>5
  <2>4. QED
    BY <2>2, <2>3
<1>7. P = SUBSET S
  <2>1. P \in SUBSET (SUBSET S)
    OBVIOUS
  <2> HIDE DEF P
  <2>2. Inherited(S, P)
    BY <1>6, <2>1 DEF Inherited
  <2>3. QED
    BY <2>2, SubsetsPassOn
<1>8. SumFunctionOnSet(f, {}) = 0
  <2>1. {} \in SUBSET S
    OBVIOUS
  <2>2. QED
    BY <1>4, <1>5, <2>1
<1>9. ASSUME NEW s \in SUBSET S
      PROVE  /\ SumFunctionOnSet(f, s) \in Int
             /\ \A x \in s : SumFunctionOnSet(f, s) = f[x] + SumFunctionOnSet(f, s \ {x})
  <2>1. SumFunctionOnSet(f, s) = g[s] /\ \A x \in s : SumFunctionOnSet(f, s \ {x}) = g[s \ {x}]
    BY <1>5
  <2>2. g[s] \in Int /\ s \in P
    BY <1>7
  <2>3. QED
    BY <2>1, <2>2
<1>10. QED
  BY <1>8, <1>9 DEF Summed
(* Equal numbers have equal sums. *)
LEMMA SumAlike ==
  ASSUME NEW S, IsFiniteSet(S), NEW f, NEW g, \A x \in S : f[x] \in Int /\ g[x] = f[x]
  PROVE  \A s \in SUBSET S : SumFunctionOnSet(g, s) = SumFunctionOnSet(f, s)
<1> DEFINE P == {s \in SUBSET S : SumFunctionOnSet(g, s) = SumFunctionOnSet(f, s)}
<1>1. Summed(f, S) /\ Summed(g, S)
  BY SumParts
<1>2. {} \in P
  BY <1>1 DEF Summed
<1>3. ASSUME NEW s \in SUBSET S, s # {}
      PROVE  \E x \in s : s \ {x} \in P => s \in P
  <2>1. PICK x \in s : TRUE
    BY <1>3
  <2>2. SumFunctionOnSet(f, s) = f[x] + SumFunctionOnSet(f, s \ {x})
    BY <1>1 DEF Summed
  <2>3. SumFunctionOnSet(g, s) = g[x] + SumFunctionOnSet(g, s \ {x})
    BY <1>1 DEF Summed
  <2>4. g[x] = f[x]
    OBVIOUS
  <2>5. SumFunctionOnSet(g, s \ {x}) = SumFunctionOnSet(f, s \ {x})
          => SumFunctionOnSet(g, s) = SumFunctionOnSet(f, s)
    BY <2>2, <2>3, <2>4
  <2>6. QED
    BY <2>5
<1>4. Hereditary(S, P)
  <2>1. P \in SUBSET (SUBSET S)
    OBVIOUS
  <2> HIDE DEF P
  <2>2. QED
    BY <1>2, <1>3, <2>1 DEF Hereditary
<1>5. P = SUBSET S
  <2> HIDE DEF P
  <2>1. QED
    BY <1>4, SetPassedOn
<1>6. QED
  BY <1>5

(* One number changes. *)
LEMMA SumChanged ==
  ASSUME NEW S, IsFiniteSet(S), NEW f, NEW g, NEW i \in S,
         \A x \in S : f[x] \in Int /\ g[x] \in Int /\ (x # i => g[x] = f[x])
  PROVE  SumFunctionOnSet(g, S) = SumFunctionOnSet(f, S) + (g[i] - f[i])
<1>1. Summed(f, S) /\ Summed(g, S) /\ S \in SUBSET S /\ S \ {i} \in SUBSET S
  BY SumParts
<1>2. SumFunctionOnSet(g, S \ {i}) = SumFunctionOnSet(f, S \ {i})
  <2>1. IsFiniteSet(S \ {i}) /\ \A x \in S \ {i} : f[x] \in Int /\ g[x] = f[x]
    BY FS_RemoveElement
  <2>2. \A s \in SUBSET (S \ {i}) : SumFunctionOnSet(g, s) = SumFunctionOnSet(f, s)
    BY <2>1, SumAlike
  <2>3. QED
    BY <2>2
<1>3. /\ SumFunctionOnSet(f, S) = f[i] + SumFunctionOnSet(f, S \ {i})
      /\ SumFunctionOnSet(g, S) = g[i] + SumFunctionOnSet(g, S \ {i})
      /\ SumFunctionOnSet(f, S \ {i}) \in Int
  BY <1>1 DEF Summed
<1>4. f[i] \in Int /\ g[i] \in Int
  OBVIOUS
<1>5. QED
  BY <1>2, <1>3, <1>4

(* One number more. *)
LEMMA SumMore ==
  ASSUME NEW S, IsFiniteSet(S), NEW f, NEW g, NEW i, i \notin S, g[i] \in Int,
         \A x \in S : f[x] \in Int /\ g[x] = f[x]
  PROVE  SumFunctionOnSet(g, S \cup {i}) = SumFunctionOnSet(f, S) + g[i]
<1>1. IsFiniteSet(S \cup {i}) /\ \A x \in S \cup {i} : g[x] \in Int
  BY FS_AddElement
<1>2. Summed(g, S \cup {i})
  BY <1>1, SumParts
<1>3. (S \cup {i}) \ {i} = S /\ S \cup {i} \in SUBSET (S \cup {i}) /\ i \in S \cup {i} /\ S \in SUBSET S
  OBVIOUS
<1>4. SumFunctionOnSet(g, S \cup {i}) = g[i] + SumFunctionOnSet(g, S)
  BY <1>2, <1>3 DEF Summed
<1>5. SumFunctionOnSet(g, S) = SumFunctionOnSet(f, S)
  BY <1>3, SumAlike
<1>6. SumFunctionOnSet(f, S) \in Int
  BY <1>3, SumParts DEF Summed
<1>7. QED
  BY <1>4, <1>5, <1>6

(* A factor of all numbers. *)
Scaled(f, g, c, S) == \A x \in S : f[x] \in Int /\ g[x] = f[x] * c
LEMMA SumScaled ==
  ASSUME NEW S, IsFiniteSet(S), NEW f, NEW g, NEW c \in Int, Scaled(f, g, c, S)
  PROVE  SumFunctionOnSet(g, S) = SumFunctionOnSet(f, S) * c
<1> USE DEF Scaled
<1> DEFINE P == {s \in SUBSET S : SumFunctionOnSet(g, s) = SumFunctionOnSet(f, s) * c}
<1>1. Summed(f, S) /\ Summed(g, S)
  BY SumParts
<1>2. {} \in P
  BY <1>1 DEF Summed
<1>3. ASSUME NEW s \in SUBSET S, s # {}
      PROVE  \E x \in s : s \ {x} \in P => s \in P
  <2>1. PICK x \in s : TRUE
    BY <1>3
  <2>2. SumFunctionOnSet(f, s) = f[x] + SumFunctionOnSet(f, s \ {x})
    BY <1>1 DEF Summed
  <2>3. SumFunctionOnSet(g, s) = g[x] + SumFunctionOnSet(g, s \ {x})
    BY <1>1 DEF Summed
  <2>4. g[x] = f[x] * c /\ f[x] \in Int /\ SumFunctionOnSet(f, s \ {x}) \in Int
    BY <1>1 DEF Summed
  <2>5. \A a, b \in Int : (a + b) * c = a * c + b * c
    OBVIOUS
  <2>6. SumFunctionOnSet(g, s \ {x}) = SumFunctionOnSet(f, s \ {x}) * c
          => SumFunctionOnSet(g, s) = SumFunctionOnSet(f, s) * c
    BY <2>2, <2>3, <2>4, <2>5
  <2>7. QED
    BY <2>6
<1>4. Hereditary(S, P)
  <2>1. P \in SUBSET (SUBSET S)
    OBVIOUS
  <2> HIDE DEF P
  <2>2. QED
    BY <1>2, <1>3, <2>1 DEF Hereditary
<1>5. P = SUBSET S
  <2> HIDE DEF P
  <2>1. QED
    BY <1>4, SetPassedOn
<1>6. QED
  BY <1>5

(* No number below zero: nor is a sum, nor is it below one of its numbers. *)
LEMMA SumNatural ==
  ASSUME NEW S, IsFiniteSet(S), NEW f, \A x \in S : f[x] \in Nat
  PROVE  \A s \in SUBSET S : /\ SumFunctionOnSet(f, s) \in Nat
                             /\ \A x \in s : f[x] <= SumFunctionOnSet(f, s)
<1> DEFINE P == {s \in SUBSET S : SumFunctionOnSet(f, s) \in Nat}
<1>1. Summed(f, S)
  BY SumParts
<1>2. {} \in P
  BY <1>1 DEF Summed
<1>3. ASSUME NEW s \in SUBSET S, s # {}
      PROVE  \E x \in s : s \ {x} \in P => s \in P
  <2>1. PICK x \in s : TRUE
    BY <1>3
  <2>2. SumFunctionOnSet(f, s) = f[x] + SumFunctionOnSet(f, s \ {x}) /\ f[x] \in Nat
    BY <1>1 DEF Summed
  <2>3. SumFunctionOnSet(f, s \ {x}) \in Nat => SumFunctionOnSet(f, s) \in Nat
    BY <2>2
  <2>4. QED
    BY <2>3
<1>4. Hereditary(S, P)
  <2>1. P \in SUBSET (SUBSET S)
    OBVIOUS
  <2> HIDE DEF P
  <2>2. QED
    BY <1>2, <1>3, <2>1 DEF Hereditary
<1>5. P = SUBSET S
  <2> HIDE DEF P
  <2>1. QED
    BY <1>4, SetPassedOn
<1>6. ASSUME NEW s \in SUBSET S, NEW x \in s
      PROVE  f[x] <= SumFunctionOnSet(f, s)
  <2>1. SumFunctionOnSet(f, s) = f[x] + SumFunctionOnSet(f, s \ {x}) /\ f[x] \in Nat
    BY <1>1 DEF Summed
  <2>2. SumFunctionOnSet(f, s \ {x}) \in Nat
    BY <1>5
  <2>3. QED
    BY <2>1, <2>2
<1>7. QED
  BY <1>5, <1>6

(* Numbers that are zero may be left out. *)
LEMMA SumWithout ==
  ASSUME NEW S, IsFiniteSet(S), NEW f, NEW T \in SUBSET S, \A x \in S : f[x] \in Int,
         \A x \in S \ T : f[x] = 0
  PROVE  SumFunctionOnSet(f, S) = SumFunctionOnSet(f, T)
<1> DEFINE P == {s \in SUBSET S : SumFunctionOnSet(f, s) = SumFunctionOnSet(f, s \cap T)}
<1>1. Summed(f, S)
  BY SumParts
<1>2. {} \in P
  <2>1. {} \cap T = {}
    OBVIOUS
  <2>2. QED
    BY <2>1
<1>3. ASSUME NEW s \in SUBSET S, s # {}
      PROVE  \E x \in s : s \ {x} \in P => s \in P
  <2>1. PICK x \in s : TRUE
    BY <1>3
  <2>2. SumFunctionOnSet(f, s) = f[x] + SumFunctionOnSet(f, s \ {x}) /\ f[x] \in Int
        /\ SumFunctionOnSet(f, s \ {x}) \in Int
    BY <1>1 DEF Summed
  <2>3. (s \cap T) \ {x} = (s \ {x}) \cap T /\ s \cap T \in SUBSET S
    OBVIOUS
  <2>4. SumFunctionOnSet(f, s \ {x}) = SumFunctionOnSet(f, (s \ {x}) \cap T)
          => SumFunctionOnSet(f, s) = SumFunctionOnSet(f, s \cap T)
    <3>1. CASE x \in T
      <4>1. SumFunctionOnSet(f, s \cap T) = f[x] + SumFunctionOnSet(f, (s \cap T) \ {x})
        BY <1>1, <2>3, <3>1 DEF Summed
      <4>2. QED
        BY <2>2, <2>3, <4>1
    <3>2. CASE x \notin T
      <4>1. f[x] = 0 /\ (s \ {x}) \cap T = s \cap T
        BY <3>2
      <4>2. SumFunctionOnSet(f, s) = SumFunctionOnSet(f, s \ {x})
        BY <2>2, <4>1
      <4>3. QED
        BY <4>1, <4>2
    <3>3. QED
      BY <3>1, <3>2
  <2>5. QED
    BY <2>4
<1>4. Hereditary(S, P)
  <2>1. P \in SUBSET (SUBSET S)
    OBVIOUS
  <2> HIDE DEF P
  <2>2. QED
    BY <1>2, <1>3, <2>1 DEF Hereditary
<1>5. P = SUBSET S
  <2> HIDE DEF P
  <2>1. QED
    BY <1>4, SetPassedOn
<1>6. S \in P /\ S \cap T = T
  BY <1>5
<1>7. QED
  BY <1>6

(* The numbers of a list that has each member of a set once. *)
Relisted(f, g, o, n, S) ==
  /\ o \in [1..n -> S] /\ \A k, l \in 1..n : o[k] = o[l] => k = l
  /\ \A x \in S : f[x] \in Int /\ \E k \in 1..n : o[k] = x
  /\ \A k \in 1..n : g[k] = f[o[k]]

(* A sum over a list of the members of a set is the sum over the set.      *)
LEMMA SumListed ==
  ASSUME NEW S, IsFiniteSet(S), NEW n \in Nat, NEW o, NEW f, NEW g, Relisted(f, g, o, n, S)
  PROVE  SumFunctionOnSet(g, 1..n) = SumFunctionOnSet(f, S)
<1> USE DEF Relisted
<1> DEFINE Part(s) == {o[k] : k \in s}
           P == {s \in SUBSET (1..n) : SumFunctionOnSet(g, s) = SumFunctionOnSet(f, Part(s))}
<1>1. IsFiniteSet(1..n) /\ Part(1..n) = S
  <2>1. IsFiniteSet(1..n)
    BY FS_Interval
  <2>2. Part(1..n) = S
    OBVIOUS
  <2>3. QED
    BY <2>1, <2>2
<1>2. Summed(f, S) /\ Summed(g, 1..n)
  <2>1. \A k \in 1..n : g[k] \in Int
    OBVIOUS
  <2>2. \A x \in S : f[x] \in Int
    OBVIOUS
  <2>3. QED
    BY <1>1, <2>1, <2>2, SumParts
<1>3. {} \in P
  <2>1. Part({}) = {}
    OBVIOUS
  <2>2. QED
    BY <1>2, <2>1 DEF Summed
<1>4. ASSUME NEW s \in SUBSET (1..n), s # {}
      PROVE  \E x \in s : s \ {x} \in P => s \in P
  <2>1. PICK k \in s : TRUE
    BY <1>4
  <2>2. SumFunctionOnSet(g, s) = g[k] + SumFunctionOnSet(g, s \ {k})
    BY <1>2 DEF Summed
  <2>3. Part(s) \in SUBSET S /\ o[k] \in Part(s) /\ Part(s \ {k}) = Part(s) \ {o[k]}
    OBVIOUS
  <2>4. SumFunctionOnSet(f, Part(s)) = f[o[k]] + SumFunctionOnSet(f, Part(s) \ {o[k]})
    BY <1>2, <2>3 DEF Summed
  <2>5. g[k] = f[o[k]]
    OBVIOUS
  <2> HIDE DEF Part
  <2>6. SumFunctionOnSet(g, s \ {k}) = SumFunctionOnSet(f, Part(s \ {k}))
          => SumFunctionOnSet(g, s) = SumFunctionOnSet(f, Part(s))
    BY <2>2, <2>3, <2>4, <2>5
  <2>7. QED
    BY <2>6
<1>5. Hereditary(1..n, P)
  <2>1. P \in SUBSET (SUBSET (1..n))
    OBVIOUS
  <2> HIDE DEF P
  <2>2. QED
    BY <1>3, <1>4, <2>1 DEF Hereditary
<1>6. P = SUBSET (1..n)
  <2> HIDE DEF P
  <2>1. QED
    BY <1>1, <1>5, SetPassedOn
<1>7. 1..n \in P
  BY <1>6
<1>8. QED
  BY <1>1, <1>7
-----------------------------------------------------------------------------
(* Every member of a set has its place in an order.                        *)
Orders(S, R) ==
  /\ \A x \in S : <<x, x>> \notin R
  /\ \A x, y, z \in S : <<x, y>> \in R /\ <<y, z>> \in R => <<x, z>> \in R
  /\ \A x, y \in S : x # y => <<x, y>> \in R \/ <<y, x>> \in R
Lists(o, S, R) ==
  /\ o \in [1..Cardinality(S) -> S] /\ Cardinality(S) \in Nat
  /\ \A k, l \in 1..Cardinality(S) : o[k] = o[l] => k = l
  /\ \A x \in S : \E k \in 1..Cardinality(S) : o[k] = x
  /\ \A k, l \in 1..Cardinality(S) : k < l => <<o[k], o[l]>> \in R
LEMMA InOrderIs ==
  ASSUME NEW S, IsFiniteSet(S), NEW R, Orders(S, R)
  PROVE  Lists(InOrder(S, R), S, R)
<1> DEFINE n == Cardinality(S)
           pred(x) == {y \in S : <<y, x>> \in R}
           rank(x) == Cardinality(pred(x))
           place == [x \in S |-> rank(x) + 1]
           o == InOrder(S, R)
<1>1. n \in Nat /\ IsFiniteSet(1..n) /\ Cardinality(1..n) = n
  <2>1. n \in Nat
    BY FS_CardinalityType
  <2>2. IsFiniteSet(1..n) /\ Cardinality(1..n) = IF 1 > n THEN 0 ELSE n - 1 + 1
    BY <2>1, FS_Interval
  <2>3. QED
    BY <2>1, <2>2
<1>2. ASSUME NEW x \in S
      PROVE  rank(x) \in Nat /\ rank(x) < n /\ IsFiniteSet(pred(x))
  <2>1. pred(x) \in SUBSET (S \ {x})
    BY DEF Orders
  <2>2. IsFiniteSet(S \ {x}) /\ Cardinality(S \ {x}) = n - 1
    BY FS_RemoveElement
  <2> HIDE DEF pred, n
  <2>3. IsFiniteSet(pred(x)) /\ rank(x) <= n - 1
    BY <2>1, <2>2, FS_Subset
  <2>4. rank(x) \in Nat
    BY <2>3, FS_CardinalityType
  <2>5. QED
    BY <1>1, <2>3, <2>4
<1>3. ASSUME NEW x \in S, NEW y \in S, <<x, y>> \in R
      PROVE  rank(x) < rank(y)
  <2>1. pred(x) \in SUBSET pred(y) /\ x \in pred(y) /\ x \notin pred(x)
    BY <1>3 DEF Orders
  <2> HIDE DEF pred
  <2>2. pred(x) # pred(y) /\ IsFiniteSet(pred(y))
    BY <1>2, <2>1
  <2>3. rank(x) <= rank(y) /\ rank(x) # rank(y)
    BY <2>1, <2>2, FS_Subset
  <2> HIDE DEF rank
  <2>4. rank(x) \in Nat /\ rank(y) \in Nat
    BY <1>2
  <2>5. QED
    BY <2>3, <2>4
<1>4. ASSUME NEW x \in S, NEW y \in S, rank(x) = rank(y)
      PROVE  x = y
  <2>1. ~(rank(x) < rank(y)) /\ ~(rank(y) < rank(x))
    <3>1. rank(x) \in Nat /\ rank(y) \in Nat
      BY <1>2
    <3> HIDE DEF rank
    <3>2. QED
      BY <1>4, <3>1
  <2>2. <<x, y>> \notin R /\ <<y, x>> \notin R
    BY <1>3, <2>1
  <2>3. QED
    BY <2>2 DEF Orders
<1> HIDE DEF rank, n
<1>5. place \in Injection(S, 1..n)
  <2>1. ASSUME NEW x \in S
        PROVE  rank(x) + 1 \in 1..n
    <3>1. rank(x) \in Nat /\ rank(x) < n
      BY <1>2
    <3>2. QED
      BY <1>1, <3>1
  <2>2. ASSUME NEW x \in S, NEW y \in S, rank(x) + 1 = rank(y) + 1
        PROVE  x = y
    <3>1. rank(x) \in Nat /\ rank(y) \in Nat
      BY <1>2
    <3>2. rank(x) = rank(y)
      BY <2>2, <3>1
    <3>3. QED
      BY <1>4, <3>2
  <2>3. QED
    BY <2>1, <2>2 DEF Injection, IsInjective
<1>6. place \in Surjection(S, 1..n)
  <2> HIDE DEF place
  <2>1. QED
    BY <1>1, <1>5, FS_Injection DEF n
<1>7. \A k \in 1..n : \E x \in S : rank(x) = k - 1
  <2>1. ASSUME NEW k \in 1..n
        PROVE  \E x \in S : rank(x) = k - 1
    <3>1. PICK x \in S : place[x] = k
      BY <1>6 DEF Surjection
    <3>2. rank(x) + 1 = k /\ rank(x) \in Nat
      BY <1>2, <3>1
    <3>3. QED
      BY <3>2
  <2>2. QED
    BY <2>1
<1>8. o = [k \in 1..n |-> CHOOSE x \in S : rank(x) = k - 1]
  BY DEF InOrder, n, rank
<1> HIDE DEF o, place, pred
<1>9. \A k \in 1..n : o[k] \in S /\ rank(o[k]) = k - 1
  BY <1>7, <1>8
<1>10. o \in [1..n -> S]
  BY <1>8, <1>9
<1>11. \A k, l \in 1..n : o[k] = o[l] => k = l
  <2>1. ASSUME NEW k \in 1..n, NEW l \in 1..n, o[k] = o[l]
        PROVE  k = l
    <3>1. k - 1 = l - 1 /\ k \in Int /\ l \in Int
      BY <1>9, <2>1
    <3>2. QED
      BY <3>1
  <2>2. QED
    BY <2>1
<1>12. \A x \in S : \E k \in 1..n : o[k] = x
  <2>1. ASSUME NEW x \in S
        PROVE  rank(x) + 1 \in 1..n /\ o[rank(x) + 1] = x
    <3>1. rank(x) \in Nat /\ rank(x) < n
      BY <1>2
    <3>2. PICK k \in 1..n : k = rank(x) + 1
      BY <1>1, <3>1
    <3>3. o[k] \in S /\ rank(o[k]) = k - 1 /\ k - 1 = rank(x)
      BY <1>9, <3>1, <3>2
    <3>4. o[k] = x
      BY <1>4, <3>3
    <3>5. QED
      BY <3>2, <3>4
  <2>2. QED
    BY <2>1
<1>13. \A k, l \in 1..n : k < l => <<o[k], o[l]>> \in R
  <2>1. ASSUME NEW k \in 1..n, NEW l \in 1..n, k < l
        PROVE  <<o[k], o[l]>> \in R
    <3>1. o[k] \in S /\ o[l] \in S /\ rank(o[k]) = k - 1 /\ rank(o[l]) = l - 1
      BY <1>9
    <3>2. k # l /\ o[k] # o[l] /\ ~(rank(o[l]) < rank(o[k]))
      BY <1>11, <2>1, <3>1
    <3>3. <<o[l], o[k]>> \notin R
      BY <1>3, <3>1, <3>2
    <3>4. QED
      BY <3>1, <3>2, <3>3 DEF Orders
  <2>2. QED
    BY <2>1
<1>14. QED
  BY <1>1, <1>10, <1>11, <1>12, <1>13 DEF Lists, n, o
(* Sequences are taken apart and put in order. *)
LEMMA IndexesOrdered ==
  ASSUME NEW S \in SUBSET Int
  PROVE  Orders(S, {p \in S \X S : p[1] < p[2]})
<1> DEFINE R == {p \in S \X S : p[1] < p[2]}
<1>1. \A x, y \in S : <<x, y>> \in R <=> x < y
  OBVIOUS
<1> HIDE DEF R
<1>2. \A x, y, z \in S : /\ ~(x < x) /\ (x < y /\ y < z => x < z)
                         /\ x # y => x < y \/ y < x
  OBVIOUS
<1>3. QED
  BY <1>1, <1>2 DEF Orders, R

Picked(seq, places, o, n) ==
  /\ n = Cardinality(places) /\ n \in Nat /\ o \in [1..n -> places]
  /\ \A k, l \in 1..n : o[k] = o[l] => k = l
  /\ \A i \in places : \E k \in 1..n : o[k] = i
  /\ \A k, l \in 1..n : k < l => o[k] < o[l]
  /\ At(seq, places) = [k \in 1..n |-> seq[o[k]]]
LEMMA AtIs ==
  ASSUME NEW seq, NEW len \in Nat, DOMAIN seq = 1..len, NEW places \in SUBSET (1..len)
  PROVE  \E o, n : Picked(seq, places, o, n)
<1> DEFINE R == {p \in places \X places : p[1] < p[2]}
           o == InOrder(places, R)
           n == Cardinality(places)
<1>1. IsFiniteSet(places) /\ Orders(places, R)
  <2>1. IsFiniteSet(1..len)
    BY FS_Interval
  <2>2. IsFiniteSet(places)
    BY <2>1, FS_Subset
  <2>3. places \in SUBSET Int
    OBVIOUS
  <2>4. QED
    BY <2>2, <2>3, IndexesOrdered
<1>2. Lists(o, places, R)
  <2> HIDE DEF R
  <2>1. QED
    BY <1>1, InOrderIs
<1>3. At(seq, places) = [k \in DOMAIN o |-> seq[o[k]]]
  BY DEF At
<1>4. \A x, y \in places : <<x, y>> \in R => x < y
  OBVIOUS
<1> HIDE DEF o, R
<1>5. o \in [1..n -> places] /\ n \in Nat
  BY <1>2 DEF Lists
<1>6. \A k, l \in 1..n : k < l => o[k] < o[l]
  BY <1>2, <1>4, <1>5 DEF Lists
<1>7. /\ \A k, l \in 1..n : o[k] = o[l] => k = l
      /\ \A i \in places : \E k \in 1..n : o[k] = i
  BY <1>2 DEF Lists
<1>8. DOMAIN o = 1..n
  BY <1>5
<1>9. At(seq, places) = [k \in 1..n |-> seq[o[k]]]
  BY <1>3, <1>8
<1>10. Picked(seq, places, o, n)
  BY <1>5, <1>6, <1>7, <1>9 DEF Picked
<1>11. QED
  BY <1>10

(* What is taken from a sequence is a sequence of its members, as long as  *)
(* there are places; if the first place is taken its member comes first.   *)
LEMMA AtTyped ==
  ASSUME NEW V, NEW seq \in Seq(V), NEW places \in SUBSET (DOMAIN seq)
  PROVE  /\ At(seq, places) \in Seq(V) /\ Len(At(seq, places)) = Cardinality(places)
         /\ \A k \in DOMAIN At(seq, places) : \E i \in places : At(seq, places)[k] = seq[i]
         /\ \A i \in places : \E k \in DOMAIN At(seq, places) : At(seq, places)[k] = seq[i]
         /\ places # {} => At(seq, places) # <<>>
         /\ 1 \in places => At(seq, places)[1] = seq[1]
<1>1. DOMAIN seq = 1..Len(seq) /\ Len(seq) \in Nat /\ \A i \in 1..Len(seq) : seq[i] \in V
  OBVIOUS
<1>2. PICK o, n : Picked(seq, places, o, n)
  BY <1>1, AtIs
<1> DEFINE taken == At(seq, places)
<1>3. /\ taken = [k \in 1..n |-> seq[o[k]]] /\ n \in Nat /\ n = Cardinality(places)
      /\ \A k \in 1..n : o[k] \in places
  BY <1>2 DEF Picked
<1> HIDE DEF taken
<1>4. taken \in [1..n -> V]
  BY <1>1, <1>3
<1>5. taken \in Seq(V) /\ Len(taken) = n /\ DOMAIN taken = 1..n
  BY <1>3, <1>4
<1>6. \A k \in 1..n : \E i \in places : taken[k] = seq[i]
  BY <1>3
<1>7. ASSUME NEW i \in places
      PROVE  \E k \in 1..n : taken[k] = seq[i]
  <2>1. PICK k \in 1..n : o[k] = i
    BY <1>2 DEF Picked
  <2>2. QED
    BY <1>3, <2>1
<1>8. ASSUME 1 \in places
      PROVE  taken[1] = seq[1]
  <2>1. PICK k \in 1..n : o[k] = 1
    BY <1>2, <1>8 DEF Picked
  <2>2. 1 \in 1..n /\ k \in Int
    BY <1>3, <2>1
  <2>3. o[1] \in Int /\ o[1] >= 1
    BY <1>1, <1>3, <2>2
  <2>4. 1 < k => o[1] < 1
    BY <1>2, <2>1, <2>2 DEF Picked
  <2>5. k = 1
    BY <2>1, <2>2, <2>3, <2>4
  <2>6. QED
    BY <1>3, <2>1, <2>2, <2>5
<1>9. ASSUME places # {}
      PROVE  taken # <<>>
  <2>1. PICK k \in 1..n : TRUE
    BY <1>7, <1>9
  <2>2. n # 0 /\ Len(<<>>) = 0
    BY <1>3, <2>1
  <2>3. QED
    BY <1>5, <2>2
<1>10. QED
  BY <1>3, <1>5, <1>6, <1>7, <1>8, <1>9 DEF taken

Permutes(o, n) ==
  /\ o \in [1..n -> 1..n]
  /\ \A k, l \in 1..n : o[k] = o[l] => k = l
LEMMA RankingIs ==
  ASSUME NEW n \in Nat, NEW f \in [1..n -> Int]
  PROVE  Permutes(Ranking(f), n)
<1> DEFINE S == 1..n
           R == {p \in S \X S : Better(f, p[1], p[2])}
<1>1. IsFiniteSet(S) /\ Cardinality(S) = n
  BY FS_Interval
<1>2. Ranking(f) = InOrder(S, R)
  BY DEF Ranking
<1>3. \A x, y \in S : <<x, y>> \in R <=> Better(f, x, y)
  OBVIOUS
<1>4. Orders(S, R)
  <2>1. \A x \in S : f[x] \in Int /\ x \in Int
    OBVIOUS
  <2> HIDE DEF S, R
  <2>2. ASSUME NEW x \in S, NEW y \in S, NEW z \in S
        PROVE  /\ ~Better(f, x, x)
               /\ Better(f, x, y) /\ Better(f, y, z) => Better(f, x, z)
               /\ x # y => Better(f, x, y) \/ Better(f, y, x)
    <3>1. f[x] \in Int /\ f[y] \in Int /\ f[z] \in Int /\ x \in Int /\ y \in Int /\ z \in Int
      BY <2>1
    <3>2. QED
      BY <3>1 DEF Better
  <2>3. QED
    BY <1>3, <2>2 DEF Orders
<1> HIDE DEF R
<1>5. Lists(Ranking(f), S, R)
  BY <1>1, <1>2, <1>4, InOrderIs
<1>6. QED
  BY <1>1, <1>5 DEF Lists, Permutes
-----------------------------------------------------------------------------
(* A set of numbers up to n has a largest one. *)
LEMMA LargestIn ==
  ASSUME NEW n \in Nat, NEW s \in SUBSET (0..n), s # {}
  PROVE  Max(s) \in s
<1> DEFINE T == {n - m : m \in s}
<1>1. \A m \in s : m \in Nat /\ m <= n /\ n - m \in Nat
  OBVIOUS
<1>2. T \in SUBSET Nat /\ T # {}
  BY <1>1
<1>3. PICK t \in T : \A u \in T : t <= u
  <2> HIDE DEF T
  <2>1. QED
    BY <1>2, SmallestNumber
<1>4. PICK x \in s : t = n - x
  OBVIOUS
<1>5. ASSUME NEW m \in s
      PROVE  x >= m
  <2>1. n - x <= n - m
    BY <1>3, <1>4
  <2>2. QED
    BY <1>1, <2>1
<1>6. QED
  BY <1>5 DEF Max

(* A fold over a sequence takes its last index away first. *)
LEMMA MaxIn ==
  ASSUME NEW n \in Nat, NEW s \in SUBSET (1..n), s # {}
  PROVE  Max(s) \in s
<1>1. s \in SUBSET (0..n)
  OBVIOUS
<1>2. QED
  BY <1>1, LargestIn

FoldsLeft(n, base, op, f) ==
  f = [s \in SUBSET (1..n) |-> IF s = {} THEN base ELSE op[Max(s)][f[s \ {Max(s)}]]]
CanFoldLeft(n, Q, base, op) == \E f \in [SUBSET (1..n) -> Q] : FoldsLeft(n, base, op, f)
LEMMA FoldLeftExists ==
  ASSUME NEW n \in Nat, NEW Q, NEW base \in Q, NEW op \in [1..n -> [Q -> Q]]
  PROVE  CanFoldLeft(n, Q, base, op)
<1> DEFINE S == 1..n
           pick == [s \in SUBSET S |-> Max(s)]
<1>1. IsFiniteSet(S)
  BY FS_Interval
<1>2. \A s \in SUBSET S : s # {} => pick[s] \in s
  BY MaxIn
<1>3. PICK f \in [SUBSET S -> Q] : Folds(S, base, op, pick, f)
  <2> HIDE DEF pick
  <2>1. op \in [S -> [Q -> Q]]
    OBVIOUS
  <2> HIDE DEF S
  <2>2. CanFold(S, Q, base, op, pick)
    BY <1>1, <1>2, <2>1, FoldExists
  <2>3. QED
    BY <2>2 DEF CanFold
<1>4. f = [s \in SUBSET S |-> IF s = {} THEN base ELSE op[Max(s)][f[s \ {Max(s)}]]]
  BY <1>3 DEF Folds
<1>5. QED
  BY <1>4 DEF CanFoldLeft, FoldsLeft

(* The beginnings of an interval, which a fold goes through.               *)
LEMMA LastOfInterval ==
  ASSUME NEW n \in Nat, NEW k \in 1..n
  PROVE  /\ 1..k \in SUBSET (1..n) /\ 1..k # {} /\ Max(1..k) = k
         /\ (1..k) \ {k} = 1..k - 1
<1>1. k \in 1..k /\ 1..k \in SUBSET (1..n) /\ (1..k) \ {k} = 1..k - 1
  OBVIOUS
<1>2. \A x \in 1..k : (\A y \in 1..k : x >= y) => x = k
  BY <1>1
<1>3. \A y \in 1..k : k >= y
  OBVIOUS
<1>4. Max(1..k) = k
  BY <1>1, <1>2, <1>3 DEF Max
<1>5. QED
  BY <1>1, <1>4
TimesSize(n, s) == n * Len(s.organisms)
CountStep(acc, o, all, s, down, up) ==
  CountOne(acc, o.share * (Sizes(all) \div Len(s.organisms)) * SizeOf(all), TotalWeight(all), down, up)
Enter(all, g) == AddToSpecies(all, Organism(g), Len(all) + 1, FALSE)
AllStolen(first, seq) == FoldLeft(Steal, first, seq)
AllGiven(first, seq) == FoldLeft(Give, first, seq)
CountedAll(all, down, up) ==
  FoldLeft(LAMBDA acc, s : CountNext(acc, s, all, down, up), [skim |-> 0, counts |-> <<>>], all)

(* The sizes of the species are multiplied one after the other.            *)
SizesSteps(t, n, all) ==
  /\ t[0] = 1
  /\ \A k \in 1..n : t[k] = TimesSize(t[k - 1], all[k])
  /\ Sizes(all) = t[n]
LEMMA SizesTrace ==
  ASSUME NEW n \in Nat, NEW all, DOMAIN all = 1..n, NEW Q, 1 \in Q,
         \A i \in 1..n : \A t \in Q : TimesSize(t, all[i]) \in Q
  PROVE  \E t \in [0..n -> Q] : SizesSteps(t, n, all)
<1> DEFINE op == [i \in 1..n |-> [t \in Q |-> TimesSize(t, all[i])]]
           iter == CHOOSE f : f = [s \in SUBSET (1..n) |-> IF s = {} THEN 1
                                     ELSE TimesSize(f[s \ {Max(s)}], all[Max(s)])]
           t == [k \in 0..n |-> iter[1..k]]
           folded == Sizes(all)
<1>1. op \in [1..n -> [Q -> Q]]
  OBVIOUS
<1>2. PICK f \in [SUBSET (1..n) -> Q] : FoldsLeft(n, 1, op, f)
  <2> HIDE DEF op
  <2>1. CanFoldLeft(n, Q, 1, op)
    BY <1>1, FoldLeftExists
  <2>2. QED
    BY <2>1 DEF CanFoldLeft
<1>3. f = [s \in SUBSET (1..n) |-> IF s = {} THEN 1 ELSE TimesSize(f[s \ {Max(s)}], all[Max(s)])]
  <2>1. ASSUME NEW s \in SUBSET (1..n), s # {}
        PROVE  op[Max(s)][f[s \ {Max(s)}]] = TimesSize(f[s \ {Max(s)}], all[Max(s)])
    <3>1. Max(s) \in 1..n /\ s \ {Max(s)} \in SUBSET (1..n)
      BY <2>1, MaxIn
    <3>2. f[s \ {Max(s)}] \in Q
      BY <3>1
    <3>3. QED
      BY <3>1, <3>2
  <2> HIDE DEF op
  <2>2. QED
    BY <1>2, <2>1 DEF FoldsLeft
<1>4. iter = [s \in SUBSET (1..n) |-> IF s = {} THEN 1
                             ELSE TimesSize(iter[s \ {Max(s)}], all[Max(s)])]
  BY <1>3
<1>5. folded = iter[1..n]
  BY DEF Sizes, TimesSize, FoldLeft, MapThenFoldSet
<1> HIDE DEF iter, op, folded
<1>6. iter[1..0] = 1
  <2>1. 1..0 = {} /\ {} \in SUBSET (1..n)
    OBVIOUS
  <2>2. QED
    BY <1>4, <2>1
<1>7. ASSUME NEW k \in 1..n
      PROVE  iter[1..k] = TimesSize(iter[1..k - 1], all[k])
  <2>1. /\ 1..k \in SUBSET (1..n) /\ 1..k # {} /\ Max(1..k) = k
        /\ (1..k) \ {k} = 1..k - 1
    BY LastOfInterval
  <2>2. QED
    BY <1>4, <2>1
<1>8. {k \in 0..n : iter[1..k] \in Q} = 0..n
  <2> DEFINE P == {k \in 0..n : iter[1..k] \in Q}
  <2>1. P \in SUBSET (0..n) /\ 0 \in P
    BY <1>6
  <2>2. ASSUME NEW k \in 1..n, k - 1 \in P
        PROVE  k \in P
    <3>1. iter[1..k - 1] \in Q /\ k \in 0..n
      BY <2>2
    <3>2. PICK p \in Q : p = iter[1..k - 1]
      BY <3>1
    <3>3. TimesSize(p, all[k]) \in Q
      BY <3>2
    <3>4. iter[1..k] = TimesSize(p, all[k])
      BY <1>7, <3>2
    <3>5. QED
      BY <3>1, <3>3, <3>4
  <2> HIDE DEF P
  <2>3. P = 0..n
    BY <2>1, <2>2, PassedOn
  <2>4. QED
    BY <2>3 DEF P
<1>9. t \in [0..n -> Q]
  BY <1>8
<1>10. t[0] = 1 /\ folded = t[n]
  BY <1>5, <1>6
<1>11. ASSUME NEW k \in 1..n
       PROVE  t[k] = TimesSize(t[k - 1], all[k])
  <2>1. k \in 0..n /\ k - 1 \in 0..n
    OBVIOUS
  <2>2. t[k] = iter[1..k] /\ t[k - 1] = iter[1..k - 1]
    BY <2>1
  <2>3. QED
    BY <1>7, <2>2
<1> HIDE DEF t
<1>12. t[0] = 1 /\ Sizes(all) = t[n]
  BY <1>10 DEF folded
<1>13. SizesSteps(t, n, all)
  BY <1>11, <1>12 DEF SizesSteps
<1>14. QED
  BY <1>9, <1>13

(* The offspring of the organisms of a species are counted one by one.     *)
CountSteps(t, n, all, sp, skim, down, up) ==
  /\ t[0] = [expected |-> 0, skim |-> skim]
  /\ \A k \in 1..n : t[k] = CountStep(t[k - 1], sp.organisms[k], all, sp, down, up)
  /\ count_offspring(all, sp, skim, down, up) = t[n]
LEMMA CountTrace ==
  ASSUME NEW n \in Nat, NEW all, NEW sp, NEW skim, NEW down, NEW up, DOMAIN sp.organisms = 1..n, NEW Q, [expected |-> 0, skim |-> skim] \in Q,
         \A i \in 1..n : \A t \in Q : CountStep(t, sp.organisms[i], all, sp, down, up) \in Q
  PROVE  \E t \in [0..n -> Q] : CountSteps(t, n, all, sp, skim, down, up)
<1> DEFINE op == [i \in 1..n |-> [t \in Q |-> CountStep(t, sp.organisms[i], all, sp, down, up)]]
           iter == CHOOSE f : f = [s \in SUBSET (1..n) |-> IF s = {} THEN [expected |-> 0, skim |-> skim]
                                     ELSE CountStep(f[s \ {Max(s)}], sp.organisms[Max(s)], all, sp, down, up)]
           t == [k \in 0..n |-> iter[1..k]]
           folded == count_offspring(all, sp, skim, down, up)
<1>1. op \in [1..n -> [Q -> Q]]
  OBVIOUS
<1>2. PICK f \in [SUBSET (1..n) -> Q] : FoldsLeft(n, [expected |-> 0, skim |-> skim], op, f)
  <2> HIDE DEF op
  <2>1. CanFoldLeft(n, Q, [expected |-> 0, skim |-> skim], op)
    BY <1>1, FoldLeftExists
  <2>2. QED
    BY <2>1 DEF CanFoldLeft
<1>3. f = [s \in SUBSET (1..n) |-> IF s = {} THEN [expected |-> 0, skim |-> skim] ELSE CountStep(f[s \ {Max(s)}], sp.organisms[Max(s)], all, sp, down, up)]
  <2>1. ASSUME NEW s \in SUBSET (1..n), s # {}
        PROVE  op[Max(s)][f[s \ {Max(s)}]] = CountStep(f[s \ {Max(s)}], sp.organisms[Max(s)], all, sp, down, up)
    <3>1. Max(s) \in 1..n /\ s \ {Max(s)} \in SUBSET (1..n)
      BY <2>1, MaxIn
    <3>2. f[s \ {Max(s)}] \in Q
      BY <3>1
    <3>3. QED
      BY <3>1, <3>2
  <2> HIDE DEF op
  <2>2. QED
    BY <1>2, <2>1 DEF FoldsLeft
<1>4. iter = [s \in SUBSET (1..n) |-> IF s = {} THEN [expected |-> 0, skim |-> skim]
                             ELSE CountStep(iter[s \ {Max(s)}], sp.organisms[Max(s)], all, sp, down, up)]
  BY <1>3
<1>5. folded = iter[1..n]
  BY DEF count_offspring, CountStep, FoldLeft, MapThenFoldSet
<1> HIDE DEF iter, op, folded
<1>6. iter[1..0] = [expected |-> 0, skim |-> skim]
  <2>1. 1..0 = {} /\ {} \in SUBSET (1..n)
    OBVIOUS
  <2>2. QED
    BY <1>4, <2>1
<1>7. ASSUME NEW k \in 1..n
      PROVE  iter[1..k] = CountStep(iter[1..k - 1], sp.organisms[k], all, sp, down, up)
  <2>1. /\ 1..k \in SUBSET (1..n) /\ 1..k # {} /\ Max(1..k) = k
        /\ (1..k) \ {k} = 1..k - 1
    BY LastOfInterval
  <2>2. QED
    BY <1>4, <2>1
<1>8. {k \in 0..n : iter[1..k] \in Q} = 0..n
  <2> DEFINE P == {k \in 0..n : iter[1..k] \in Q}
  <2>1. P \in SUBSET (0..n) /\ 0 \in P
    BY <1>6
  <2>2. ASSUME NEW k \in 1..n, k - 1 \in P
        PROVE  k \in P
    <3>1. iter[1..k - 1] \in Q /\ k \in 0..n
      BY <2>2
    <3>2. PICK p \in Q : p = iter[1..k - 1]
      BY <3>1
    <3>3. CountStep(p, sp.organisms[k], all, sp, down, up) \in Q
      BY <3>2
    <3>4. iter[1..k] = CountStep(p, sp.organisms[k], all, sp, down, up)
      BY <1>7, <3>2
    <3>5. QED
      BY <3>1, <3>3, <3>4
  <2> HIDE DEF P
  <2>3. P = 0..n
    BY <2>1, <2>2, PassedOn
  <2>4. QED
    BY <2>3 DEF P
<1>9. t \in [0..n -> Q]
  BY <1>8
<1>10. t[0] = [expected |-> 0, skim |-> skim] /\ folded = t[n]
  BY <1>5, <1>6
<1>11. ASSUME NEW k \in 1..n
       PROVE  t[k] = CountStep(t[k - 1], sp.organisms[k], all, sp, down, up)
  <2>1. k \in 0..n /\ k - 1 \in 0..n
    OBVIOUS
  <2>2. t[k] = iter[1..k] /\ t[k - 1] = iter[1..k - 1]
    BY <2>1
  <2>3. QED
    BY <1>7, <2>2
<1> HIDE DEF t
<1>12. t[0] = [expected |-> 0, skim |-> skim] /\ count_offspring(all, sp, skim, down, up) = t[n]
  BY <1>10 DEF folded
<1>13. CountSteps(t, n, all, sp, skim, down, up)
  BY <1>11, <1>12 DEF CountSteps
<1>14. QED
  BY <1>9, <1>13

(* ... and those of the species.                                           *)
CountAllSteps(t, n, all, down, up) ==
  /\ t[0] = [skim |-> 0, counts |-> <<>>]
  /\ \A k \in 1..n : t[k] = CountNext(t[k - 1], all[k], all, down, up)
  /\ CountedAll(all, down, up) = t[n]
LEMMA CountAllTrace ==
  ASSUME NEW n \in Nat, NEW all, NEW down, NEW up, DOMAIN all = 1..n, NEW Q, [skim |-> 0, counts |-> <<>>] \in Q,
         \A i \in 1..n : \A t \in Q : CountNext(t, all[i], all, down, up) \in Q
  PROVE  \E t \in [0..n -> Q] : CountAllSteps(t, n, all, down, up)
<1> DEFINE op == [i \in 1..n |-> [t \in Q |-> CountNext(t, all[i], all, down, up)]]
           iter == CHOOSE f : f = [s \in SUBSET (1..n) |-> IF s = {} THEN [skim |-> 0, counts |-> <<>>]
                                     ELSE CountNext(f[s \ {Max(s)}], all[Max(s)], all, down, up)]
           t == [k \in 0..n |-> iter[1..k]]
           folded == CountedAll(all, down, up)
<1>1. op \in [1..n -> [Q -> Q]]
  OBVIOUS
<1>2. PICK f \in [SUBSET (1..n) -> Q] : FoldsLeft(n, [skim |-> 0, counts |-> <<>>], op, f)
  <2> HIDE DEF op
  <2>1. CanFoldLeft(n, Q, [skim |-> 0, counts |-> <<>>], op)
    BY <1>1, FoldLeftExists
  <2>2. QED
    BY <2>1 DEF CanFoldLeft
<1>3. f = [s \in SUBSET (1..n) |-> IF s = {} THEN [skim |-> 0, counts |-> <<>>] ELSE CountNext(f[s \ {Max(s)}], all[Max(s)], all, down, up)]
  <2>1. ASSUME NEW s \in SUBSET (1..n), s # {}
        PROVE  op[Max(s)][f[s \ {Max(s)}]] = CountNext(f[s \ {Max(s)}], all[Max(s)], all, down, up)
    <3>1. Max(s) \in 1..n /\ s \ {Max(s)} \in SUBSET (1..n)
      BY <2>1, MaxIn
    <3>2. f[s \ {Max(s)}] \in Q
      BY <3>1
    <3>3. QED
      BY <3>1, <3>2
  <2> HIDE DEF op
  <2>2. QED
    BY <1>2, <2>1 DEF FoldsLeft
<1>4. iter = [s \in SUBSET (1..n) |-> IF s = {} THEN [skim |-> 0, counts |-> <<>>]
                             ELSE CountNext(iter[s \ {Max(s)}], all[Max(s)], all, down, up)]
  BY <1>3
<1>5. folded = iter[1..n]
  BY DEF CountedAll, FoldLeft, MapThenFoldSet
<1> HIDE DEF iter, op, folded
<1>6. iter[1..0] = [skim |-> 0, counts |-> <<>>]
  <2>1. 1..0 = {} /\ {} \in SUBSET (1..n)
    OBVIOUS
  <2>2. QED
    BY <1>4, <2>1
<1>7. ASSUME NEW k \in 1..n
      PROVE  iter[1..k] = CountNext(iter[1..k - 1], all[k], all, down, up)
  <2>1. /\ 1..k \in SUBSET (1..n) /\ 1..k # {} /\ Max(1..k) = k
        /\ (1..k) \ {k} = 1..k - 1
    BY LastOfInterval
  <2>2. QED
    BY <1>4, <2>1
<1>8. {k \in 0..n : iter[1..k] \in Q} = 0..n
  <2> DEFINE P == {k \in 0..n : iter[1..k] \in Q}
  <2>1. P \in SUBSET (0..n) /\ 0 \in P
    BY <1>6
  <2>2. ASSUME NEW k \in 1..n, k - 1 \in P
        PROVE  k \in P
    <3>1. iter[1..k - 1] \in Q /\ k \in 0..n
      BY <2>2
    <3>2. PICK p \in Q : p = iter[1..k - 1]
      BY <3>1
    <3>3. CountNext(p, all[k], all, down, up) \in Q
      BY <3>2
    <3>4. iter[1..k] = CountNext(p, all[k], all, down, up)
      BY <1>7, <3>2
    <3>5. QED
      BY <3>1, <3>3, <3>4
  <2> HIDE DEF P
  <2>3. P = 0..n
    BY <2>1, <2>2, PassedOn
  <2>4. QED
    BY <2>3 DEF P
<1>9. t \in [0..n -> Q]
  BY <1>8
<1>10. t[0] = [skim |-> 0, counts |-> <<>>] /\ folded = t[n]
  BY <1>5, <1>6
<1>11. ASSUME NEW k \in 1..n
       PROVE  t[k] = CountNext(t[k - 1], all[k], all, down, up)
  <2>1. k \in 0..n /\ k - 1 \in 0..n
    OBVIOUS
  <2>2. t[k] = iter[1..k] /\ t[k - 1] = iter[1..k - 1]
    BY <2>1
  <2>3. QED
    BY <1>7, <2>2
<1> HIDE DEF t
<1>12. t[0] = [skim |-> 0, counts |-> <<>>] /\ CountedAll(all, down, up) = t[n]
  BY <1>10 DEF folded
<1>13. CountAllSteps(t, n, all, down, up)
  BY <1>11, <1>12 DEF CountAllSteps
<1>14. QED
  BY <1>9, <1>13

(* Babies are stolen from one species after the other.                     *)
StealSteps(t, n, first, seq) ==
  /\ t[0] = first
  /\ \A k \in 1..n : t[k] = Steal(t[k - 1], seq[k])
  /\ AllStolen(first, seq) = t[n]
LEMMA StealTrace ==
  ASSUME NEW n \in Nat, NEW first, NEW seq, DOMAIN seq = 1..n, NEW Q, first \in Q,
         \A i \in 1..n : \A t \in Q : Steal(t, seq[i]) \in Q
  PROVE  \E t \in [0..n -> Q] : StealSteps(t, n, first, seq)
<1> DEFINE op == [i \in 1..n |-> [t \in Q |-> Steal(t, seq[i])]]
           iter == CHOOSE f : f = [s \in SUBSET (1..n) |-> IF s = {} THEN first
                                     ELSE Steal(f[s \ {Max(s)}], seq[Max(s)])]
           t == [k \in 0..n |-> iter[1..k]]
           folded == AllStolen(first, seq)
<1>1. op \in [1..n -> [Q -> Q]]
  OBVIOUS
<1>2. PICK f \in [SUBSET (1..n) -> Q] : FoldsLeft(n, first, op, f)
  <2> HIDE DEF op
  <2>1. CanFoldLeft(n, Q, first, op)
    BY <1>1, FoldLeftExists
  <2>2. QED
    BY <2>1 DEF CanFoldLeft
<1>3. f = [s \in SUBSET (1..n) |-> IF s = {} THEN first ELSE Steal(f[s \ {Max(s)}], seq[Max(s)])]
  <2>1. ASSUME NEW s \in SUBSET (1..n), s # {}
        PROVE  op[Max(s)][f[s \ {Max(s)}]] = Steal(f[s \ {Max(s)}], seq[Max(s)])
    <3>1. Max(s) \in 1..n /\ s \ {Max(s)} \in SUBSET (1..n)
      BY <2>1, MaxIn
    <3>2. f[s \ {Max(s)}] \in Q
      BY <3>1
    <3>3. QED
      BY <3>1, <3>2
  <2> HIDE DEF op
  <2>2. QED
    BY <1>2, <2>1 DEF FoldsLeft
<1>4. iter = [s \in SUBSET (1..n) |-> IF s = {} THEN first
                             ELSE Steal(iter[s \ {Max(s)}], seq[Max(s)])]
  BY <1>3
<1>5. folded = iter[1..n]
  BY DEF AllStolen, FoldLeft, MapThenFoldSet
<1> HIDE DEF iter, op, folded
<1>6. iter[1..0] = first
  <2>1. 1..0 = {} /\ {} \in SUBSET (1..n)
    OBVIOUS
  <2>2. QED
    BY <1>4, <2>1
<1>7. ASSUME NEW k \in 1..n
      PROVE  iter[1..k] = Steal(iter[1..k - 1], seq[k])
  <2>1. /\ 1..k \in SUBSET (1..n) /\ 1..k # {} /\ Max(1..k) = k
        /\ (1..k) \ {k} = 1..k - 1
    BY LastOfInterval
  <2>2. QED
    BY <1>4, <2>1
<1>8. {k \in 0..n : iter[1..k] \in Q} = 0..n
  <2> DEFINE P == {k \in 0..n : iter[1..k] \in Q}
  <2>1. P \in SUBSET (0..n) /\ 0 \in P
    BY <1>6
  <2>2. ASSUME NEW k \in 1..n, k - 1 \in P
        PROVE  k \in P
    <3>1. iter[1..k - 1] \in Q /\ k \in 0..n
      BY <2>2
    <3>2. PICK p \in Q : p = iter[1..k - 1]
      BY <3>1
    <3>3. Steal(p, seq[k]) \in Q
      BY <3>2
    <3>4. iter[1..k] = Steal(p, seq[k])
      BY <1>7, <3>2
    <3>5. QED
      BY <3>1, <3>3, <3>4
  <2> HIDE DEF P
  <2>3. P = 0..n
    BY <2>1, <2>2, PassedOn
  <2>4. QED
    BY <2>3 DEF P
<1>9. t \in [0..n -> Q]
  BY <1>8
<1>10. t[0] = first /\ folded = t[n]
  BY <1>5, <1>6
<1>11. ASSUME NEW k \in 1..n
       PROVE  t[k] = Steal(t[k - 1], seq[k])
  <2>1. k \in 0..n /\ k - 1 \in 0..n
    OBVIOUS
  <2>2. t[k] = iter[1..k] /\ t[k - 1] = iter[1..k - 1]
    BY <2>1
  <2>3. QED
    BY <1>7, <2>2
<1> HIDE DEF t
<1>12. t[0] = first /\ AllStolen(first, seq) = t[n]
  BY <1>10 DEF folded
<1>13. StealSteps(t, n, first, seq)
  BY <1>11, <1>12 DEF StealSteps
<1>14. QED
  BY <1>9, <1>13

(* ... and given to one after the other.                                   *)
GiveSteps(t, n, first, seq) ==
  /\ t[0] = first
  /\ \A k \in 1..n : t[k] = Give(t[k - 1], seq[k])
  /\ AllGiven(first, seq) = t[n]
LEMMA GiveTrace ==
  ASSUME NEW n \in Nat, NEW first, NEW seq, DOMAIN seq = 1..n, NEW Q, first \in Q,
         \A i \in 1..n : \A t \in Q : Give(t, seq[i]) \in Q
  PROVE  \E t \in [0..n -> Q] : GiveSteps(t, n, first, seq)
<1> DEFINE op == [i \in 1..n |-> [t \in Q |-> Give(t, seq[i])]]
           iter == CHOOSE f : f = [s \in SUBSET (1..n) |-> IF s = {} THEN first
                                     ELSE Give(f[s \ {Max(s)}], seq[Max(s)])]
           t == [k \in 0..n |-> iter[1..k]]
           folded == AllGiven(first, seq)
<1>1. op \in [1..n -> [Q -> Q]]
  OBVIOUS
<1>2. PICK f \in [SUBSET (1..n) -> Q] : FoldsLeft(n, first, op, f)
  <2> HIDE DEF op
  <2>1. CanFoldLeft(n, Q, first, op)
    BY <1>1, FoldLeftExists
  <2>2. QED
    BY <2>1 DEF CanFoldLeft
<1>3. f = [s \in SUBSET (1..n) |-> IF s = {} THEN first ELSE Give(f[s \ {Max(s)}], seq[Max(s)])]
  <2>1. ASSUME NEW s \in SUBSET (1..n), s # {}
        PROVE  op[Max(s)][f[s \ {Max(s)}]] = Give(f[s \ {Max(s)}], seq[Max(s)])
    <3>1. Max(s) \in 1..n /\ s \ {Max(s)} \in SUBSET (1..n)
      BY <2>1, MaxIn
    <3>2. f[s \ {Max(s)}] \in Q
      BY <3>1
    <3>3. QED
      BY <3>1, <3>2
  <2> HIDE DEF op
  <2>2. QED
    BY <1>2, <2>1 DEF FoldsLeft
<1>4. iter = [s \in SUBSET (1..n) |-> IF s = {} THEN first
                             ELSE Give(iter[s \ {Max(s)}], seq[Max(s)])]
  BY <1>3
<1>5. folded = iter[1..n]
  BY DEF AllGiven, FoldLeft, MapThenFoldSet
<1> HIDE DEF iter, op, folded
<1>6. iter[1..0] = first
  <2>1. 1..0 = {} /\ {} \in SUBSET (1..n)
    OBVIOUS
  <2>2. QED
    BY <1>4, <2>1
<1>7. ASSUME NEW k \in 1..n
      PROVE  iter[1..k] = Give(iter[1..k - 1], seq[k])
  <2>1. /\ 1..k \in SUBSET (1..n) /\ 1..k # {} /\ Max(1..k) = k
        /\ (1..k) \ {k} = 1..k - 1
    BY LastOfInterval
  <2>2. QED
    BY <1>4, <2>1
<1>8. {k \in 0..n : iter[1..k] \in Q} = 0..n
  <2> DEFINE P == {k \in 0..n : iter[1..k] \in Q}
  <2>1. P \in SUBSET (0..n) /\ 0 \in P
    BY <1>6
  <2>2. ASSUME NEW k \in 1..n, k - 1 \in P
        PROVE  k \in P
    <3>1. iter[1..k - 1] \in Q /\ k \in 0..n
      BY <2>2
    <3>2. PICK p \in Q : p = iter[1..k - 1]
      BY <3>1
    <3>3. Give(p, seq[k]) \in Q
      BY <3>2
    <3>4. iter[1..k] = Give(p, seq[k])
      BY <1>7, <3>2
    <3>5. QED
      BY <3>1, <3>3, <3>4
  <2> HIDE DEF P
  <2>3. P = 0..n
    BY <2>1, <2>2, PassedOn
  <2>4. QED
    BY <2>3 DEF P
<1>9. t \in [0..n -> Q]
  BY <1>8
<1>10. t[0] = first /\ folded = t[n]
  BY <1>5, <1>6
<1>11. ASSUME NEW k \in 1..n
       PROVE  t[k] = Give(t[k - 1], seq[k])
  <2>1. k \in 0..n /\ k - 1 \in 0..n
    OBVIOUS
  <2>2. t[k] = iter[1..k] /\ t[k - 1] = iter[1..k - 1]
    BY <2>1
  <2>3. QED
    BY <1>7, <2>2
<1> HIDE DEF t
<1>12. t[0] = first /\ AllGiven(first, seq) = t[n]
  BY <1>10 DEF folded
<1>13. GiveSteps(t, n, first, seq)
  BY <1>11, <1>12 DEF GiveSteps
<1>14. QED
  BY <1>9, <1>13

(* Genomes join their species one by one.                                  *)
SpeciateSteps(t, n, genomes) ==
  /\ t[0] = <<>>
  /\ \A k \in 1..n : t[k] = Enter(t[k - 1], genomes[k])
  /\ speciate(genomes) = t[n]
LEMMA SpeciateTrace ==
  ASSUME NEW n \in Nat, NEW genomes, DOMAIN genomes = 1..n, NEW Q, <<>> \in Q,
         \A i \in 1..n : \A t \in Q : Enter(t, genomes[i]) \in Q
  PROVE  \E t \in [0..n -> Q] : SpeciateSteps(t, n, genomes)
<1> DEFINE op == [i \in 1..n |-> [t \in Q |-> Enter(t, genomes[i])]]
           iter == CHOOSE f : f = [s \in SUBSET (1..n) |-> IF s = {} THEN <<>>
                                     ELSE Enter(f[s \ {Max(s)}], genomes[Max(s)])]
           t == [k \in 0..n |-> iter[1..k]]
           folded == speciate(genomes)
<1>1. op \in [1..n -> [Q -> Q]]
  OBVIOUS
<1>2. PICK f \in [SUBSET (1..n) -> Q] : FoldsLeft(n, <<>>, op, f)
  <2> HIDE DEF op
  <2>1. CanFoldLeft(n, Q, <<>>, op)
    BY <1>1, FoldLeftExists
  <2>2. QED
    BY <2>1 DEF CanFoldLeft
<1>3. f = [s \in SUBSET (1..n) |-> IF s = {} THEN <<>> ELSE Enter(f[s \ {Max(s)}], genomes[Max(s)])]
  <2>1. ASSUME NEW s \in SUBSET (1..n), s # {}
        PROVE  op[Max(s)][f[s \ {Max(s)}]] = Enter(f[s \ {Max(s)}], genomes[Max(s)])
    <3>1. Max(s) \in 1..n /\ s \ {Max(s)} \in SUBSET (1..n)
      BY <2>1, MaxIn
    <3>2. f[s \ {Max(s)}] \in Q
      BY <3>1
    <3>3. QED
      BY <3>1, <3>2
  <2> HIDE DEF op
  <2>2. QED
    BY <1>2, <2>1 DEF FoldsLeft
<1>4. iter = [s \in SUBSET (1..n) |-> IF s = {} THEN <<>>
                             ELSE Enter(iter[s \ {Max(s)}], genomes[Max(s)])]
  BY <1>3
<1>5. folded = iter[1..n]
  BY DEF speciate, Enter, FoldLeft, MapThenFoldSet
<1> HIDE DEF iter, op, folded
<1>6. iter[1..0] = <<>>
  <2>1. 1..0 = {} /\ {} \in SUBSET (1..n)
    OBVIOUS
  <2>2. QED
    BY <1>4, <2>1
<1>7. ASSUME NEW k \in 1..n
      PROVE  iter[1..k] = Enter(iter[1..k - 1], genomes[k])
  <2>1. /\ 1..k \in SUBSET (1..n) /\ 1..k # {} /\ Max(1..k) = k
        /\ (1..k) \ {k} = 1..k - 1
    BY LastOfInterval
  <2>2. QED
    BY <1>4, <2>1
<1>8. {k \in 0..n : iter[1..k] \in Q} = 0..n
  <2> DEFINE P == {k \in 0..n : iter[1..k] \in Q}
  <2>1. P \in SUBSET (0..n) /\ 0 \in P
    BY <1>6
  <2>2. ASSUME NEW k \in 1..n, k - 1 \in P
        PROVE  k \in P
    <3>1. iter[1..k - 1] \in Q /\ k \in 0..n
      BY <2>2
    <3>2. PICK p \in Q : p = iter[1..k - 1]
      BY <3>1
    <3>3. Enter(p, genomes[k]) \in Q
      BY <3>2
    <3>4. iter[1..k] = Enter(p, genomes[k])
      BY <1>7, <3>2
    <3>5. QED
      BY <3>1, <3>3, <3>4
  <2> HIDE DEF P
  <2>3. P = 0..n
    BY <2>1, <2>2, PassedOn
  <2>4. QED
    BY <2>3 DEF P
<1>9. t \in [0..n -> Q]
  BY <1>8
<1>10. t[0] = <<>> /\ folded = t[n]
  BY <1>5, <1>6
<1>11. ASSUME NEW k \in 1..n
       PROVE  t[k] = Enter(t[k - 1], genomes[k])
  <2>1. k \in 0..n /\ k - 1 \in 0..n
    OBVIOUS
  <2>2. t[k] = iter[1..k] /\ t[k - 1] = iter[1..k - 1]
    BY <2>1
  <2>3. QED
    BY <1>7, <2>2
<1> HIDE DEF t
<1>12. t[0] = <<>> /\ speciate(genomes) = t[n]
  BY <1>10 DEF folded
<1>13. SpeciateSteps(t, n, genomes)
  BY <1>11, <1>12 DEF SpeciateSteps
<1>14. QED
  BY <1>9, <1>13
-----------------------------------------------------------------------------
(* The babies and the parents of the species, and what the species expect. *)
Parents(s) == {j \in DOMAIN s.organisms : s.organisms[j].old}
BabiesOf(all) == [i \in DOMAIN all |-> Cardinality(Young(all[i]))]
SizesOf(all) == [i \in DOMAIN all |-> Len(all[i].organisms)]
ExpectedOf(all) == [i \in DOMAIN all |-> all[i].expected]

(* Every place of the next generation is accounted for: expected by a      *)
(* species from the count on, and made once its turn is over.              *)
Accounted ==
  /\ phase \in {"evaluate", "adjust", "count", "share"} => SizeOf(species) = Whole
  /\ phase \in {"share", "kill", "reproduce"} => Expected(species) = Whole
  /\ phase = "reproduce" =>
       SumFunction(BabiesOf(species))
         = SumFunctionOnSet(ExpectedOf(species), 1..turn.at - 1) + turn.count

(* Between the adjustment and the killing the organisms are those of the   *)
(* old generation, those past the parents marked for death.                *)
Marked(s) == \A j \in DOMAIN s.organisms :
               /\ s.organisms[j].old
               /\ s.organisms[j].eliminate <=> j > NumParents(Len(s.organisms))
InTurn ==
  /\ phase # "reproduce" => turn = Idle
  /\ phase \in {"count", "share", "kill"} =>
       seen.clone = "parent" /\ \A i \in DOMAIN species : Marked(species[i])
  /\ phase = "reproduce" => IF turn.at = 0 THEN turn = Idle /\ seen.clone = "parent"
                            ELSE turn.count <= AtWork.expected

EpochInv == EpochTypeOK /\ Accounted /\ InTurn

(* The champion of the best species is cloned, or its species still has to *)
(* clone it and has the babies left for it.                                *)
Cloned == \E i \in DOMAIN species : \E j \in Young(species[i]) :
            species[i].organisms[j].genome = seen.best
Able(s) == IF First(s).super = 0 THEN s.expected > 5 ELSE First(s).super <= s.expected
StillAble(s) == IF First(s).super = 0
                THEN /\ s.expected > 5 /\ turn.count = 0 /\ turn.curChamp = 1 /\ ~turn.champ_done
                     /\ Len(s.organisms) <= s.room
                ELSE turn.count + First(s).super <= s.expected
ToClone(i) == /\ First(species[i]).genome = seen.best
              /\ turn.at < i => Able(species[i])
              /\ turn.at = i => StillAble(species[i])
ChampionKept ==
  seen.kept =>
    /\ phase \in {"kill", "reproduce"} => Cloned \/ \E i \in DOMAIN species : i >= turn.at /\ ToClone(i)
    /\ phase = "evaluate" => BestKept

(* While a species that started its turn with its parents only, and no     *)
(* super champ, clones its elite, they are at the head of its vector, which *)
(* has room for the babies.                                                *)
Spacious(s) == 2 * Cardinality(Parents(s)) <= s.room + 1
ParentsFirst(s, parents, count) ==
  /\ First(s).super = 0
  /\ parents >= 1 /\ parents <= Len(s.organisms) /\ Len(s.organisms) <= parents + count
  /\ 2 * parents <= s.room + 1
  /\ \A j \in 1..parents : s.organisms[j].old
EliteCount(x) == (elitism_percentage * x) \div 100
EliteInTurn ==
  phase = "reproduce" =>
    /\ \A i \in DOMAIN species : Spacious(species[i])
    /\ turn.at > 0 /\ seen.guests = 0 /\ seen.supers = 0 =>
         /\ ParentsFirst(AtWork, seen.parents, turn.count)
         /\ Elite => /\ turn.curChamp = turn.count + 1
                     /\ elitism_percentage > 0 => turn.count < EliteCount(AtWork.expected)
EliteInv == EpochInv /\ EliteInTurn /\ EliteOfParents
-----------------------------------------------------------------------------
(* One number grows by one, or a one is new: so does the sum.              *)
OneUp(f, g) == \E i \in DOMAIN f : /\ DOMAIN g = DOMAIN f /\ g[i] = f[i] + 1
                                   /\ \A x \in DOMAIN f : x # i => g[x] = f[x]
OneNew(f, g) == \E i : /\ i \notin DOMAIN f /\ DOMAIN g = (DOMAIN f) \cup {i} /\ g[i] = 1
                       /\ \A x \in DOMAIN f : g[x] = f[x]
LEMMA OneMore ==
  ASSUME NEW f, NEW g, IsFiniteSet(DOMAIN f), \A x \in DOMAIN f : f[x] \in Nat,
         OneUp(f, g) \/ OneNew(f, g)
  PROVE  SumFunction(g) = SumFunction(f) + 1
<1> DEFINE S == DOMAIN f
<1>1. SumFunction(f) = SumFunctionOnSet(f, S) /\ SumFunction(g) = SumFunctionOnSet(g, DOMAIN g)
  BY DEF SumFunction
<1>2. SumFunctionOnSet(f, S) \in Nat
  BY SumNatural
<1>3. CASE OneUp(f, g)
  <2>1. PICK i \in S : DOMAIN g = S /\ g[i] = f[i] + 1 /\ \A x \in S : x # i => g[x] = f[x]
    BY <1>3 DEF OneUp
  <2>2. \A x \in S : f[x] \in Int /\ g[x] \in Int /\ (x # i => g[x] = f[x])
    BY <2>1
  <2>3. f[i] \in Nat
    OBVIOUS
  <2> HIDE DEF S
  <2>4. SumFunctionOnSet(g, S) = SumFunctionOnSet(f, S) + (g[i] - f[i])
    BY <2>1, <2>2, SumChanged DEF S
  <2>5. g[i] - f[i] = 1
    BY <2>1, <2>3
  <2>6. QED
    BY <1>1, <1>2, <2>1, <2>4, <2>5
<1>4. CASE OneNew(f, g)
  <2>1. PICK i : i \notin S /\ DOMAIN g = S \cup {i} /\ g[i] = 1 /\ \A x \in S : g[x] = f[x]
    BY <1>4 DEF OneNew
  <2>2. \A x \in S : f[x] \in Int /\ g[x] = f[x]
    BY <2>1
  <2>3. SumFunctionOnSet(g, S \cup {i}) = SumFunctionOnSet(f, S) + g[i]
    <3>1. g[i] \in Int
      BY <2>1
    <3> HIDE DEF S
    <3>2. IsFiniteSet(S)
      BY DEF S
    <3>3. QED
      BY <2>1, <2>2, <3>1, <3>2, SumMore
  <2>4. QED
    BY <1>1, <1>2, <2>1, <2>3
<1>5. QED
  BY <1>3, <1>4

(* A baby is appended to the organisms of a species, or is the first of a  *)
(* new species.                                                            *)
Joined(all, o, id, novel, new) ==
  \/ \E i \in DOMAIN all : new = [all EXCEPT ![i].organisms = Append(@, o)]
  \/ new = Append(all, NewSpecies(id, o, novel))
LEMMA Joins ==
  ASSUME NEW n \in Nat, NEW all, DOMAIN all = 1..n, NEW o, NEW id, NEW novel
  PROVE  Joined(all, o, id, novel, AddToSpecies(all, o, id, novel))
<1> DEFINE H == Hosts(all, o.genome)
<1>1. CASE H # {}
  <2>1. H \in SUBSET Nat /\ H \subseteq 1..n
    BY DEF Hosts
  <2>2. PICK i \in H : \A j \in H : i <= j
    <3> HIDE DEF H
    <3>1. QED
      BY <1>1, <2>1, SmallestNumber
  <2>3. Min(H) \in H
    BY <2>2 DEF Min
  <2>4. Min(H) \in DOMAIN all
    BY <2>1, <2>3
  <2>5. AddToSpecies(all, o, id, novel) = [all EXCEPT ![Min(H)].organisms = Append(@, o)]
    BY <1>1 DEF AddToSpecies
  <2> HIDE DEF H
  <2>6. QED
    BY <2>4, <2>5 DEF Joined
<1>2. CASE H = {}
  BY <1>2 DEF AddToSpecies, Joined
<1>3. QED
  BY <1>1, <1>2

(* Babies and parents of a species are finitely many, none of them both.   *)
LEMMA YoungFinite ==
  ASSUME NEW s \in SpeciesType
  PROVE  /\ IsFiniteSet(Young(s)) /\ Cardinality(Young(s)) \in Nat
         /\ IsFiniteSet(Parents(s)) /\ Cardinality(Parents(s)) \in Nat
         /\ Len(s.organisms) \in Nat \ {0} /\ DOMAIN s.organisms = 1..Len(s.organisms)
         /\ s.organisms \in Seq(OrganismType) /\ 1 \in DOMAIN s.organisms
         /\ \A j \in DOMAIN s.organisms : s.organisms[j] \in OrganismType
<1>1. s.organisms \in Seq(OrganismType) \ {<<>>}
  BY DEF SpeciesType
<1>2. /\ Len(s.organisms) \in Nat \ {0} /\ DOMAIN s.organisms = 1..Len(s.organisms)
      /\ 1 \in DOMAIN s.organisms
      /\ \A j \in DOMAIN s.organisms : s.organisms[j] \in OrganismType
  BY <1>1
<1>3. IsFiniteSet(DOMAIN s.organisms)
  BY <1>2, FS_Interval
<1>4. Young(s) \in SUBSET (DOMAIN s.organisms) /\ Parents(s) \in SUBSET (DOMAIN s.organisms)
  BY DEF Young, Parents
<1>5. IsFiniteSet(Young(s)) /\ IsFiniteSet(Parents(s))
  BY <1>3, <1>4, FS_Subset
<1>6. QED
  BY <1>1, <1>2, <1>5, FS_CardinalityType

(* A baby joins a species: one more young organism, at the end.            *)
WithBaby(s, o) == [s EXCEPT !.organisms = Append(@, o)]
LEMMA BabyJoins ==
  ASSUME NEW s \in SpeciesType, NEW o \in OrganismType
  PROVE  /\ WithBaby(s, o) \in SpeciesType
         /\ Len(WithBaby(s, o).organisms) = Len(s.organisms) + 1
         /\ WithBaby(s, o).expected = s.expected /\ WithBaby(s, o).room = s.room
         /\ WithBaby(s, o).organisms[Len(s.organisms) + 1] = o
         /\ \A j \in DOMAIN s.organisms : WithBaby(s, o).organisms[j] = s.organisms[j]
         /\ ~o.old => /\ Cardinality(Young(WithBaby(s, o))) = Cardinality(Young(s)) + 1
                      /\ Parents(WithBaby(s, o)) = Parents(s)
<1> DEFINE os == s.organisms
           n  == Len(os)
           t  == WithBaby(s, o)
<1>1. os \in Seq(OrganismType) /\ n \in Nat \ {0} /\ DOMAIN os = 1..n
  BY YoungFinite
<1>2. t.organisms = Append(os, o) /\ t.expected = s.expected /\ t.room = s.room
  BY DEF WithBaby, SpeciesType
<1>3. /\ Append(os, o) \in Seq(OrganismType) \ {<<>>} /\ Len(Append(os, o)) = n + 1
      /\ \A j \in 1..n : Append(os, o)[j] = os[j]
      /\ Append(os, o)[n + 1] = o
      /\ DOMAIN Append(os, o) = 1..n + 1
  <2> HIDE DEF os
  <2>1. QED
    BY <1>1
<1>4. t \in SpeciesType
  <2>1. t.organisms \in Seq(OrganismType) \ {<<>>}
    BY <1>2, <1>3
  <2>2. t = [s EXCEPT !.organisms = Append(os, o)]
    BY DEF WithBaby
  <2> HIDE DEF t, os
  <2>3. QED
    BY <1>3, <2>2 DEF SpeciesType
<1> HIDE DEF t, os, n
<1>5. ASSUME ~o.old
      PROVE  Cardinality(Young(t)) = Cardinality(Young(s)) + 1 /\ Parents(t) = Parents(s)
  <2>0. DOMAIN t.organisms = (DOMAIN os) \cup {n + 1} /\ n + 1 \notin DOMAIN os
    BY <1>1, <1>2, <1>3
  <2>1. /\ \A j \in DOMAIN os : t.organisms[j] = os[j]
        /\ t.organisms[n + 1] = o
    BY <1>1, <1>2, <1>3
  <2>2. Young(t) = Young(s) \cup {n + 1} /\ n + 1 \notin Young(s) /\ Parents(t) = Parents(s)
    BY <1>5, <2>0, <2>1 DEF Young, Parents, os
  <2>3. IsFiniteSet(Young(s))
    BY YoungFinite
  <2>4. QED
    BY <2>2, <2>3, FS_AddElement
<1>6. QED
  BY <1>1, <1>2, <1>3, <1>4, <1>5 DEF t, os, n

(* The numbers that are summed up over the species of a population.        *)
LEMMA Numbers ==
  ASSUME NEW all \in Seq(SpeciesType)
  PROVE  /\ Len(all) \in Nat /\ DOMAIN all = 1..Len(all) /\ IsFiniteSet(DOMAIN all)
         /\ \A i \in DOMAIN all : all[i] \in SpeciesType
         /\ SizesOf(all) \in [DOMAIN all -> Nat \ {0}]
         /\ BabiesOf(all) \in [DOMAIN all -> Nat] /\ ExpectedOf(all) \in [DOMAIN all -> Nat]
         /\ SizeOf(all) = SumFunctionOnSet(SizesOf(all), DOMAIN all)
         /\ Expected(all) = SumFunctionOnSet(ExpectedOf(all), DOMAIN all)
         /\ SizeOf(all) \in Nat /\ Expected(all) \in Nat
<1>1. /\ Len(all) \in Nat /\ DOMAIN all = 1..Len(all)
      /\ \A i \in DOMAIN all : all[i] \in SpeciesType
  OBVIOUS
<1>2. IsFiniteSet(DOMAIN all)
  BY <1>1, FS_Interval
<1>3. \A i \in DOMAIN all : /\ Len(all[i].organisms) \in Nat \ {0}
                            /\ Cardinality(Young(all[i])) \in Nat
  BY <1>1, YoungFinite
<1>4. \A i \in DOMAIN all : all[i].expected \in Nat
  BY <1>1 DEF SpeciesType
<1>5. /\ SizesOf(all) \in [DOMAIN all -> Nat \ {0}]
      /\ BabiesOf(all) \in [DOMAIN all -> Nat] /\ ExpectedOf(all) \in [DOMAIN all -> Nat]
  BY <1>3, <1>4 DEF SizesOf, BabiesOf, ExpectedOf
<1>6. SizeOf(all) = SumFunction(SizesOf(all)) /\ Expected(all) = SumFunction(ExpectedOf(all))
  BY DEF SizeOf, SizesOf, Expected, ExpectedOf
<1>7. DOMAIN SizesOf(all) = DOMAIN all /\ DOMAIN ExpectedOf(all) = DOMAIN all
  BY <1>5
<1>8. /\ SizeOf(all) = SumFunctionOnSet(SizesOf(all), DOMAIN all)
      /\ Expected(all) = SumFunctionOnSet(ExpectedOf(all), DOMAIN all)
  BY <1>6, <1>7 DEF SumFunction
<1>9. SumFunctionOnSet(SizesOf(all), DOMAIN all) \in Nat
  <2>1. \A i \in DOMAIN all : SizesOf(all)[i] \in Nat
    BY <1>5
  <2>2. QED
    BY <1>2, <2>1, SumNatural
<1>10. SumFunctionOnSet(ExpectedOf(all), DOMAIN all) \in Nat
  <2>1. \A i \in DOMAIN all : ExpectedOf(all)[i] \in Nat
    BY <1>5
  <2>2. QED
    BY <1>2, <2>1, SumNatural
<1>11. QED
  BY <1>1, <1>2, <1>5, <1>8, <1>9, <1>10

(* What a baby that joins does to a population.                            *)
Grown(all, o, new) ==
  /\ new \in Seq(SpeciesType) /\ DOMAIN all \subseteq DOMAIN new
  /\ \A i \in DOMAIN new : i \in DOMAIN all \/ i = Len(all) + 1
  /\ \A i \in DOMAIN all : new[i] = all[i] \/ new[i] = WithBaby(all[i], o)
  /\ \A i \in DOMAIN new :
       i \notin DOMAIN all => new[i].expected = 0 /\ new[i].room = 0 /\ new[i].organisms = <<o>>
  /\ \E i \in DOMAIN new :
       \/ i \notin DOMAIN all
       \/ i \in DOMAIN all /\ new[i] = WithBaby(all[i], o)
  /\ SizeOf(new) = SizeOf(all) + 1
  /\ SumFunction(BabiesOf(new)) = SumFunction(BabiesOf(all)) + 1
LEMMA Grows ==
  ASSUME NEW all \in Seq(SpeciesType), NEW o \in OrganismType, ~o.old,
         NEW id \in Nat, NEW novel \in BOOLEAN
  PROVE  Grown(all, o, AddToSpecies(all, o, id, novel))
<1> DEFINE new == AddToSpecies(all, o, id, novel)
           n   == Len(all)
           s0  == NewSpecies(id, o, novel)
<1>1. n \in Nat /\ DOMAIN all = 1..n /\ \A i \in 1..n : all[i] \in SpeciesType
  OBVIOUS
<1>2. Joined(all, o, id, novel, new)
  <2> HIDE DEF new
  <2>1. QED
    BY <1>1, Joins DEF new
<1>3. s0 \in SpeciesType /\ s0.expected = 0 /\ s0.room = 0 /\ s0.organisms = <<o>>
  <2>1. <<o>> \in Seq(OrganismType) \ {<<>>}
    OBVIOUS
  <2>2. QED
    BY <2>1 DEF NewSpecies, SpeciesType
<1>4. Cardinality(Young(s0)) = 1
  <2>1. Young(s0) = {1}
    <3>1. DOMAIN <<o>> = {1} /\ <<o>>[1] = o
      OBVIOUS
    <3> HIDE DEF s0
    <3>2. QED
      BY <1>3, <3>1 DEF Young
  <2>2. QED
    BY <2>1, FS_Singleton
<1>5. /\ IsFiniteSet(DOMAIN SizesOf(all)) /\ IsFiniteSet(DOMAIN BabiesOf(all))
      /\ \A i \in DOMAIN SizesOf(all) : SizesOf(all)[i] \in Nat
      /\ \A i \in DOMAIN BabiesOf(all) : BabiesOf(all)[i] \in Nat
  <2>1. DOMAIN SizesOf(all) = DOMAIN all /\ DOMAIN BabiesOf(all) = DOMAIN all
    BY DEF SizesOf, BabiesOf
  <2>2. QED
    BY <2>1, Numbers
<1>6. SizeOf(all) = SumFunction(SizesOf(all)) /\ SizeOf(new) = SumFunction(SizesOf(new))
  BY DEF SizeOf, SizesOf
<1> HIDE DEF new, s0
<1>7. CASE \E i \in DOMAIN all : new = [all EXCEPT ![i].organisms = Append(@, o)]
  <2>1. PICK i \in DOMAIN all : new = [all EXCEPT ![i].organisms = Append(@, o)]
    BY <1>7
  <2>2. /\ new[i] = WithBaby(all[i], o) /\ DOMAIN new = DOMAIN all
        /\ \A k \in DOMAIN all : k # i => new[k] = all[k]
    BY <2>1 DEF WithBaby
  <2>3. /\ WithBaby(all[i], o) \in SpeciesType
        /\ Len(WithBaby(all[i], o).organisms) = Len(all[i].organisms) + 1
        /\ Cardinality(Young(WithBaby(all[i], o))) = Cardinality(Young(all[i])) + 1
    BY <1>1, BabyJoins
  <2>4. new \in Seq(SpeciesType)
    <3>1. new = [k \in 1..n |-> IF k = i THEN WithBaby(all[i], o) ELSE all[k]]
      BY <1>1, <2>1, <2>2
    <3>2. QED
      BY <1>1, <2>3, <3>1
  <2>5. OneUp(SizesOf(all), SizesOf(new)) /\ OneUp(BabiesOf(all), BabiesOf(new))
    BY <2>2, <2>3 DEF OneUp, SizesOf, BabiesOf
  <2>6. SumFunction(SizesOf(new)) = SumFunction(SizesOf(all)) + 1
    BY <1>5, <2>5, OneMore
  <2>7. SumFunction(BabiesOf(new)) = SumFunction(BabiesOf(all)) + 1
    BY <1>5, <2>5, OneMore
  <2>8. \A k \in DOMAIN new : k \in DOMAIN all
    BY <2>2
  <2>9. SizeOf(new) = SizeOf(all) + 1
    BY <1>6, <2>6
  <2>10. \E k \in DOMAIN new : k \in DOMAIN all /\ new[k] = WithBaby(all[k], o)
    BY <2>2
  <2>11. \A k \in DOMAIN all : new[k] = all[k] \/ new[k] = WithBaby(all[k], o)
    BY <2>2
  <2>12. Grown(all, o, new)
    BY <2>2, <2>4, <2>7, <2>8, <2>9, <2>10, <2>11 DEF Grown
  <2>13. QED
    BY <2>12 DEF new
<1>8. CASE new = Append(all, s0)
  <2>1. /\ new \in Seq(SpeciesType) /\ DOMAIN new = (1..n) \cup {n + 1} /\ n + 1 \notin 1..n
        /\ new[n + 1] = s0 /\ \A k \in 1..n : new[k] = all[k]
    BY <1>1, <1>3, <1>8
  <2>2. OneNew(SizesOf(all), SizesOf(new)) /\ OneNew(BabiesOf(all), BabiesOf(new))
    <3>1. DOMAIN SizesOf(all) = 1..n /\ DOMAIN BabiesOf(all) = 1..n
      BY <1>1 DEF SizesOf, BabiesOf
    <3>2. Len(s0.organisms) = 1
      BY <1>3
    <3>3. SizesOf(new)[n + 1] = 1 /\ BabiesOf(new)[n + 1] = 1
      BY <1>4, <2>1, <3>2 DEF SizesOf, BabiesOf
    <3>4. QED
      BY <1>1, <2>1, <3>1, <3>3 DEF OneNew, SizesOf, BabiesOf
  <2>3. SumFunction(SizesOf(new)) = SumFunction(SizesOf(all)) + 1
    BY <1>5, <2>2, OneMore
  <2>4. SumFunction(BabiesOf(new)) = SumFunction(BabiesOf(all)) + 1
    BY <1>5, <2>2, OneMore
  <2>5. Grown(all, o, new)
    BY <1>1, <1>3, <1>6, <2>1, <2>3, <2>4 DEF Grown
  <2>6. QED
    BY <2>5 DEF new
<1>9. QED
  BY <1>2, <1>7, <1>8 DEF Joined, s0

(* The organism of a new genome.                                           *)
LEMMA OrganismTyped ==
  ASSUME NEW g \in Int
  PROVE  Organism(g) \in OrganismType /\ ~Organism(g).old /\ Organism(g).genome = g
BY DEF Organism, OrganismType

(* Populations alike in the sizes of their species ...                     *)
LEMMA SameSizes ==
  ASSUME NEW all, NEW new, DOMAIN new = DOMAIN all,
         \A i \in DOMAIN all : Len(new[i].organisms) = Len(all[i].organisms)
  PROVE  SizesOf(new) = SizesOf(all) /\ SizeOf(new) = SizeOf(all)
<1>1. SizesOf(new) = SizesOf(all)
  BY DEF SizesOf
<1>2. SizeOf(all) = SumFunction(SizesOf(all)) /\ SizeOf(new) = SumFunction(SizesOf(new))
  BY DEF SizeOf, SizesOf
<1>3. QED
  BY <1>1, <1>2

(* ... in what their species expect.                                       *)
LEMMA SameExpected ==
  ASSUME NEW all, NEW new, DOMAIN new = DOMAIN all,
         \A i \in DOMAIN all : new[i].expected = all[i].expected
  PROVE  ExpectedOf(new) = ExpectedOf(all) /\ Expected(new) = Expected(all)
<1>1. ExpectedOf(new) = ExpectedOf(all)
  BY DEF ExpectedOf
<1>2. Expected(all) = SumFunction(ExpectedOf(all)) /\ Expected(new) = SumFunction(ExpectedOf(new))
  BY DEF Expected, ExpectedOf
<1>3. QED
  BY <1>1, <1>2

(* Every genome of the first population is in one species.                 *)
LEMMA Speciated ==
  ASSUME NEW p \in Seq(Int)
  PROVE  speciate(p) \in Seq(SpeciesType) /\ SizeOf(speciate(p)) = Len(p)
<1> DEFINE n == Len(p)
           Q == Seq(SpeciesType)
<1>1. n \in Nat /\ DOMAIN p = 1..n /\ \A i \in 1..n : p[i] \in Int
  OBVIOUS
<1>2. ASSUME NEW i \in 1..n, NEW t \in Q
      PROVE  Grown(t, Organism(p[i]), Enter(t, p[i]))
  <2>1. Organism(p[i]) \in OrganismType /\ ~Organism(p[i]).old
    BY <1>1, OrganismTyped
  <2>2. Len(t) + 1 \in Nat /\ FALSE \in BOOLEAN
    OBVIOUS
  <2>3. QED
    BY <2>1, <2>2, Grows DEF Enter
<1>3. \A i \in 1..n : \A t \in Q : Enter(t, p[i]) \in Q
  BY <1>2 DEF Grown
<1>4. <<>> \in Q
  OBVIOUS
<1>5. PICK t \in [0..n -> Q] : SpeciateSteps(t, n, p)
  <2> HIDE DEF Q, n
  <2>1. QED
    BY <1>1, <1>3, <1>4, SpeciateTrace
<1> DEFINE P == {k \in 0..n : SizeOf(t[k]) = k}
<1>6. 0 \in P
  <2>1. SizeOf(<<>>) = SumFunctionOnSet(SizesOf(<<>>), DOMAIN <<>>) /\ DOMAIN <<>> = {}
    BY <1>4, Numbers
  <2>2. Summed(SizesOf(<<>>), {})
    BY SumParts, FS_EmptySet
  <2>3. SizeOf(<<>>) = 0
    BY <2>1, <2>2 DEF Summed
  <2>4. QED
    BY <1>1, <1>5, <2>3 DEF SpeciateSteps
<1>7. ASSUME NEW k \in 1..n, k - 1 \in P
      PROVE  k \in P
  <2>1. k \in 0..n /\ SizeOf(t[k - 1]) = k - 1
    BY <1>7
  <2>2. PICK u \in Q : u = t[k - 1]
    <3>1. k - 1 \in 0..n
      OBVIOUS
    <3>2. QED
      BY <1>5, <3>1
  <2>3. t[k] = Enter(u, p[k])
    BY <1>5, <2>2 DEF SpeciateSteps
  <2>4. SizeOf(t[k]) = SizeOf(u) + 1
    BY <1>2, <2>3 DEF Grown
  <2>5. SizeOf(t[k]) = k
    BY <2>1, <2>2, <2>4
  <2>6. QED
    BY <2>1, <2>5
<1>8. P \in SUBSET (0..n)
  OBVIOUS
<1>9. n \in P
  <2> HIDE DEF P
  <2>1. P = 0..n
    BY <1>1, <1>6, <1>7, <1>8, PassedOn
  <2>2. QED
    BY <1>1, <2>1
<1>10. QED
  BY <1>1, <1>5, <1>9 DEF SpeciateSteps

-----------------------------------------------------------------------------
(* The initial states.                                                     *)
LEMMA EpochStarts == EpochInit => EpochInv
<1> SUFFICES ASSUME EpochInit
             PROVE  EpochInv
  OBVIOUS
<1> USE DEF EpochInit
<1>1. PICK p \in Populations : LET all == speciate(p)
             IN  /\ last_species = Len(all)
                 /\ \E ages \in [DOMAIN all -> Ages] : species = Aged(all, ages)
  OBVIOUS
<1> DEFINE all == speciate(p)
<1>2. PICK ages \in [DOMAIN all -> Ages] : species = Aged(all, ages)
  BY <1>1
<1>3. p \in Seq(Int) /\ Len(p) = pop_size /\ pop_size \in Nat \ {0}
  BY EpochAssumption
<1>4. all \in Seq(SpeciesType) /\ SizeOf(all) = pop_size
  BY <1>3, Speciated
<1>5. last_species = Len(all)
  BY <1>1
<1> HIDE DEF all
<1>6. DOMAIN all = 1..Len(all) /\ Len(all) \in Nat /\ \A i \in 1..Len(all) : all[i] \in SpeciesType
  BY <1>4
<1>7. \A i \in DOMAIN all : ages[i][1] \in Nat /\ ages[i][2] \in Nat
  BY <1>2, EpochAssumption, SMTT(40)
<1>8. /\ DOMAIN species = DOMAIN all
      /\ \A i \in DOMAIN all : species[i] \in SpeciesType /\ species[i].organisms = all[i].organisms
  <2>1. ASSUME NEW i \in DOMAIN all
        PROVE  species[i] \in SpeciesType /\ species[i].organisms = all[i].organisms
    <3>1. PICK s \in SpeciesType : s = all[i]
      BY <1>6
    <3>2. PICK a \in Nat, b \in Nat : a = ages[i][1] /\ b = ages[i][2]
      BY <1>7
    <3>3. species[i] = [s EXCEPT !.age = a, !.improved = b]
      BY <1>2, <3>1, <3>2 DEF Aged
    <3>4. [s EXCEPT !.age = a, !.improved = b] \in SpeciesType
      BY DEF SpeciesType
    <3>5. QED
      BY <3>1, <3>3, <3>4 DEF SpeciesType
  <2>2. QED
    BY <1>2, <2>1 DEF Aged
<1>9. species \in Seq(SpeciesType)
  <2>1. species = [i \in 1..Len(all) |-> species[i]]
    BY <1>2, <1>6 DEF Aged
  <2>2. QED
    BY <1>6, <1>8, <2>1
<1>10. SizeOf(species) = pop_size
  BY <1>4, <1>8, SameSizes
<1>11. species # <<>>
  <2>1. SizeOf(<<>>) = 0
    <3>0. <<>> \in Seq(SpeciesType) /\ DOMAIN <<>> = {}
      OBVIOUS
    <3>1. SizeOf(<<>>) = SumFunctionOnSet(SizesOf(<<>>), DOMAIN <<>>)
      BY <3>0, Numbers
    <3>2. Summed(SizesOf(<<>>), {})
      BY SumParts, FS_EmptySet
    <3>3. QED
      BY <3>0, <3>1, <3>2 DEF Summed
  <2>2. QED
    BY <1>3, <1>10, <2>1
<1>12. turn = Idle /\ seen = Nothing /\ phase = "evaluate"
  OBVIOUS
<1>13. EpochTypeOK
  <2>1. generation \in Nat /\ last_species \in Nat /\ babies_stolen \in Nat
    BY <1>5, <1>6, EpochAssumption
  <2>2. highest_fitness \in Int /\ highest_last_changed \in Nat
    BY EpochAssumption
  <2>3. Idle \in [at : 0..Len(species), count : Nat, curChamp : Nat \ {0}, champ_done : BOOLEAN]
    BY <1>9 DEF Idle
  <2>4. Nothing \in [flagged : Nat, best : Int, kept : BOOLEAN, halved : BOOLEAN,
               clone : {"parent", "no parent"}, parents : Nat, guests : Nat, supers : Nat]
    BY DEF Nothing
  <2>5. QED
    BY <1>9, <1>11, <1>12, <2>1, <2>2, <2>3, <2>4 DEF EpochTypeOK
<1>14. ~seen.halved
  BY <1>12 DEF Nothing
<1>15. QED
  BY <1>10, <1>12, <1>13, <1>14 DEF EpochInv, Accounted, InTurn, Whole

-----------------------------------------------------------------------------
(* Evaluation and adjustment.                                              *)

(* A population whose species are changed one by one.                      *)
LEMMA Mapped ==
  ASSUME NEW all \in Seq(SpeciesType), NEW new, new = [i \in DOMAIN all |-> new[i]],
         \A i \in DOMAIN all : new[i] \in SpeciesType
  PROVE  /\ new \in Seq(SpeciesType) /\ Len(new) = Len(all) /\ DOMAIN new = DOMAIN all
         /\ all # <<>> => new # <<>>
<1>1. Len(all) \in Nat /\ DOMAIN all = 1..Len(all) /\ (all # <<>> => Len(all) # 0)
  OBVIOUS
<1>2. new \in [1..Len(all) -> SpeciesType]
  BY <1>1
<1>3. new \in Seq(SpeciesType) /\ Len(new) = Len(all)
  BY <1>1, <1>2
<1>4. new # <<>> \/ Len(all) = 0
  BY <1>1, <1>3
<1>5. QED
  BY <1>1, <1>2, <1>3, <1>4

(* A species with other organisms.                                         *)
LEMMA OtherOrganisms ==
  ASSUME NEW s \in SpeciesType, NEW n \in Nat \ {0}, NEW os \in [1..n -> OrganismType]
  PROVE  /\ [s EXCEPT !.organisms = os] \in SpeciesType
         /\ os \in Seq(OrganismType) \ {<<>>} /\ Len(os) = n
<1>1. os \in Seq(OrganismType) /\ Len(os) = n
  OBVIOUS
<1>2. os # <<>>
  BY <1>1
<1>3. QED
  BY <1>1, <1>2 DEF SpeciesType

(* The lowest fitness of a species, or zero.                               *)
LEMMA LowestIs ==
  ASSUME NEW s \in SpeciesType
  PROVE  /\ Lowest(s) \in Int /\ Lowest(s) <= 0
         /\ \A j \in DOMAIN s.organisms : Lowest(s) <= s.organisms[j].fitness
<1> DEFINE n == Len(s.organisms)
           f == [j \in 1..n |-> s.organisms[j].fitness]
           Least(k, m) == /\ m = 0 \/ \E j \in 1..k : m = f[j]
                          /\ m <= 0 /\ \A j \in 1..k : m <= f[j]
           P == {k \in 0..n : \E m \in Int : Least(k, m)}
<1>1. n \in Nat /\ DOMAIN s.organisms = 1..n /\ f \in [1..n -> Int]
  BY YoungFinite DEF OrganismType
<1> HIDE DEF n, f
<1>2. 0 \in P
  BY <1>1
<1>3. ASSUME NEW k \in 1..n, k - 1 \in P
      PROVE  k \in P
  <2>1. PICK m \in Int : Least(k - 1, m)
    BY <1>3
  <2>2. f[k] \in Int /\ k \in 0..n /\ \A j \in 1..k : j \in 1..k - 1 \/ j = k
    BY <1>1
  <2>3. \A j \in 1..k - 1 : f[j] \in Int /\ j \in 1..k
    BY <1>1
  <2>4. CASE f[k] < m
    <3>1. \A j \in 1..k - 1 : f[k] <= f[j]
      BY <2>1, <2>2, <2>3, <2>4
    <3>2. f[k] <= 0 /\ f[k] <= f[k]
      BY <2>1, <2>2, <2>4
    <3>3. \A j \in 1..k : f[k] <= f[j]
      BY <2>2, <3>1, <3>2
    <3>4. k \in 1..k
      BY <1>1
    <3>5. Least(k, f[k])
      BY <3>2, <3>3, <3>4
    <3>6. QED
      BY <2>2, <3>5
  <2>5. CASE m <= f[k]
    <3>1. Least(k, m)
      BY <2>1, <2>2, <2>3, <2>5
    <3>2. QED
      BY <2>2, <3>1
  <2>6. QED
    BY <2>2, <2>4, <2>5
<1>4. n \in P
  <2>1. P \in SUBSET (0..n)
    OBVIOUS
  <2> HIDE DEF P
  <2>2. P = 0..n
    BY <1>1, <1>2, <1>3, <2>1, PassedOn
  <2>3. QED
    BY <1>1, <2>2
<1>5. PICK m \in Int : Least(n, m)
  BY <1>4
<1> DEFINE F == {0} \cup {s.organisms[j].fitness : j \in DOMAIN s.organisms}
<1>6. F = {0} \cup {f[j] : j \in 1..n}
  BY <1>1 DEF f
<1>7. m \in F /\ \A x \in F : m <= x
  BY <1>5, <1>6
<1>8. Min(F) \in F /\ \A x \in F : Min(F) <= x
  BY <1>7 DEF Min
<1>9. 0 \in F /\ \A j \in DOMAIN s.organisms : s.organisms[j].fitness \in F
  OBVIOUS
<1>10. \A x \in F : x \in Int
  BY <1>1, <1>6
<1>11. Lowest(s) = Min(F)
  BY DEF Lowest
<1> HIDE DEF F
<1>12. QED
  BY <1>8, <1>9, <1>10, <1>11

(* There is a parent in every species.                                     *)
LEMMA ParentsLeft ==
  ASSUME NEW n \in Nat
  PROVE  NumParents(n) \in Nat /\ NumParents(n) >= 1
<1> DEFINE m == (survival_thresh * n) \div 100
<1>1. survival_thresh \in Nat /\ survival_thresh * n \in Nat
  BY EpochAssumption
<1>2. m \in Nat
  <2> DEFINE x == survival_thresh * n
  <2> HIDE DEF x
  <2>1. x \in Nat => x \div 100 \in Nat
    OBVIOUS
  <2>2. QED
    BY <1>1, <2>1 DEF x
<1> HIDE DEF m
<1>3. \E x \in {1, m} : \A y \in {1, m} : x >= y
  BY <1>2
<1>4. Max({1, m}) \in {1, m} /\ \A y \in {1, m} : Max({1, m}) >= y
  BY <1>3 DEF Max
<1>5. QED
  BY <1>2, <1>4 DEF NumParents, m

(* The organisms in the order of falling fitness are organisms again.      *)
LEMMA RankedTyped ==
  ASSUME NEW s \in SpeciesType
  PROVE  /\ Ranked(s.organisms) \in [1..Len(s.organisms) -> OrganismType]
         /\ \A k \in 1..Len(s.organisms) : \E j \in DOMAIN s.organisms :
              Ranked(s.organisms)[k] = s.organisms[j]
<1> DEFINE n == Len(s.organisms)
           f == [j \in DOMAIN s.organisms |-> s.organisms[j].fitness]
           order == Ranking(f)
<1>1. n \in Nat /\ DOMAIN s.organisms = 1..n /\ \A j \in 1..n : s.organisms[j] \in OrganismType
  BY YoungFinite
<1>2. f \in [1..n -> Int]
  BY <1>1 DEF OrganismType
<1>3. Permutes(order, n)
  <2> HIDE DEF n, f
  <2>1. QED
    BY <1>1, <1>2, RankingIs
<1>4. Ranked(s.organisms) = [k \in 1..n |-> s.organisms[order[k]]]
  BY <1>1 DEF Ranked
<1> HIDE DEF order, n
<1>5. \A k \in 1..n : order[k] \in 1..n
  BY <1>3 DEF Permutes
<1>6. \A k \in 1..n : s.organisms[order[k]] \in OrganismType
  BY <1>1, <1>5
<1>7. Ranked(s.organisms) \in [1..n -> OrganismType]
  BY <1>4, <1>6
<1>8. \A k \in 1..n : \E j \in DOMAIN s.organisms : Ranked(s.organisms)[k] = s.organisms[j]
  BY <1>1, <1>4, <1>5
<1>9. QED
  BY <1>7, <1>8 DEF n

(* An adjusted species keeps its size, and all but its parents are marked. *)
LEMMA AdjustTyped ==
  ASSUME NEW s \in SpeciesType
  PROVE  /\ adjust_fitness(s) \in SpeciesType
         /\ Len(adjust_fitness(s).organisms) = Len(s.organisms)
         /\ Marked(adjust_fitness(s))
<1> DEFINE ranked == Ranked(s.organisms)
           n      == Len(s.organisms)
           share(o) == (IF Stagnant(s) THEN o.fitness ELSE 100 * o.fitness) - 100 * Lowest(s)
           top    == ranked[1].fitness
           os     == [j \in 1..n |-> [ranked[j] EXCEPT
                          !.share = share(ranked[j]), !.eliminate = j > NumParents(n), !.old = TRUE]]
           new    == [s EXCEPT !.organisms = os,
                               !.improved = IF top > s.record THEN s.age ELSE @,
                               !.record   = IF top > s.record THEN top ELSE @]
<1>1. n \in Nat \ {0} /\ DOMAIN s.organisms = 1..n
  BY YoungFinite
<1>2. /\ ranked \in [1..n -> OrganismType] /\ Len(ranked) = n
      /\ \A k \in 1..n : \E j \in DOMAIN s.organisms : ranked[k] = s.organisms[j]
  <2>1. /\ ranked \in [1..n -> OrganismType]
        /\ \A k \in 1..n : \E j \in DOMAIN s.organisms : ranked[k] = s.organisms[j]
    BY RankedTyped
  <2> HIDE DEF ranked, n
  <2>2. QED
    BY <1>1, <2>1
<1>3. adjust_fitness(s) = new
  BY <1>2 DEF adjust_fitness
<1>4. Lowest(s) \in Int /\ Lowest(s) <= 0 /\ \A k \in 1..n : Lowest(s) <= ranked[k].fitness
  BY <1>2, LowestIs
<1>5. ASSUME NEW k \in 1..n
      PROVE  share(ranked[k]) \in Nat
  <2>1. PICK x \in Int, y \in Int : x = ranked[k].fitness /\ y = Lowest(s)
    BY <1>2, <1>4 DEF OrganismType
  <2>2. y <= 0 /\ y <= x
    BY <1>4, <2>1
  <2>3. x - 100 * y \in Nat /\ 100 * x - 100 * y \in Nat
    BY <2>2
  <2>4. QED
    BY <2>1, <2>3
<1> HIDE DEF share, ranked, n
<1>6. \A k \in 1..n : NumParents(n) \in Nat /\ (k > NumParents(n)) \in BOOLEAN
  BY <1>1, ParentsLeft
<1>7. os \in [1..n -> OrganismType]
  <2>1. ASSUME NEW k \in 1..n
        PROVE  os[k] \in OrganismType
    <3>1. PICK o \in OrganismType : o = ranked[k]
      BY <1>2
    <3>2. PICK v \in Nat : v = share(ranked[k])
      BY <1>5
    <3>3. PICK e \in BOOLEAN : e = (k > NumParents(n))
      BY <1>6
    <3>4. os[k] = [o EXCEPT !.share = v, !.eliminate = e, !.old = TRUE]
      BY <3>1, <3>2, <3>3
    <3> HIDE DEF os
    <3>5. QED
      BY <3>4 DEF OrganismType
  <2> HIDE DEF os
  <2>2. os = [k \in 1..n |-> os[k]]
    BY DEF os
  <2>3. QED
    BY <2>1, <2>2
<1>8. top \in Int
  BY <1>1, <1>2 DEF OrganismType
<1>9. \A k \in 1..n : os[k].old /\ (os[k].eliminate <=> k > NumParents(n))
  BY <1>2 DEF OrganismType
<1> HIDE DEF os, top
<1>10. Len(os) = n /\ os \in Seq(OrganismType) \ {<<>>} /\ DOMAIN os = 1..n
  BY <1>1, <1>7, OtherOrganisms
<1>11. new \in SpeciesType /\ new.organisms = os
  BY <1>8, <1>10 DEF SpeciesType
<1> HIDE DEF new
<1>12. QED
  BY <1>3, <1>9, <1>10, <1>11 DEF Marked, n

(* Evaluation changes nothing but fitness.                                 *)
LEMMA EvaluateKeeps == EpochInv /\ Evaluate => EpochInv'
<1> SUFFICES ASSUME EpochInv, Evaluate
             PROVE  EpochInv'
  OBVIOUS
<1> USE DEF Evaluate
<1>1. species \in Seq(SpeciesType) /\ species # <<>> /\ EpochTypeOK
  BY DEF EpochInv, EpochTypeOK
<1>2. PICK f \in [Organisms(species) -> Fitnesses] :
        species' = [i \in DOMAIN species |->
          [species[i] EXCEPT !.organisms = [j \in DOMAIN @ |-> [@[j] EXCEPT !.fitness = f[<<i, j>>]]]]]
  OBVIOUS
<1>3. ASSUME NEW i \in DOMAIN species
      PROVE  /\ species'[i] \in SpeciesType
             /\ Len(species'[i].organisms) = Len(species[i].organisms)
  <2> DEFINE n  == Len(species[i].organisms)
             os == [j \in 1..n |-> [species[i].organisms[j] EXCEPT !.fitness = f[<<i, j>>]]]
  <2>1. PICK s \in SpeciesType : s = species[i]
    BY <1>1
  <2>2. /\ n \in Nat \ {0} /\ DOMAIN species[i].organisms = 1..n
        /\ \A j \in 1..n : species[i].organisms[j] \in OrganismType
    BY <2>1, YoungFinite
  <2>3. ASSUME NEW j \in 1..n
        PROVE  os[j] \in OrganismType
    <3>1. PICK o \in OrganismType : o = species[i].organisms[j]
      BY <2>2
    <3>2. <<i, j>> \in Organisms(species)
      BY <2>2 DEF Organisms
    <3>3. PICK x \in Int : x = f[<<i, j>>]
      BY <3>2, EpochAssumption
    <3>4. os[j] = [o EXCEPT !.fitness = x]
      BY <3>1, <3>3
    <3> HIDE DEF os
    <3>5. QED
      BY <3>4 DEF OrganismType
  <2>4. os \in [1..n -> OrganismType]
    <3> HIDE DEF os
    <3>1. os = [j \in 1..n |-> os[j]]
      BY DEF os
    <3>2. QED
      BY <2>3, <3>1
  <2>5. species'[i] = [s EXCEPT !.organisms = os]
    BY <1>2, <2>1, <2>2
  <2> HIDE DEF os, n
  <2>6. [s EXCEPT !.organisms = os] \in SpeciesType /\ Len(os) = n
    BY <2>2, <2>4, OtherOrganisms
  <2>7. [s EXCEPT !.organisms = os].organisms = os
    BY DEF SpeciesType
  <2>8. QED
    BY <2>5, <2>6, <2>7 DEF n
<1>4. species' = [i \in DOMAIN species |-> species'[i]]
  BY <1>2
<1>5. /\ species' \in Seq(SpeciesType) /\ species' # <<>> /\ Len(species') = Len(species)
      /\ DOMAIN species' = DOMAIN species
  BY <1>1, <1>3, <1>4, Mapped
<1>6. SizeOf(species') = SizeOf(species)
  BY <1>3, <1>5, SameSizes
<1>7. Whole' = Whole /\ SizeOf(species)' = SizeOf(species')
  BY DEF Whole, SizeOf
<1>8. EpochTypeOK'
  BY <1>1, <1>5 DEF EpochTypeOK
<1>9. Accounted'
  BY <1>6, <1>7 DEF EpochInv, Accounted
<1>10. InTurn'
  BY DEF EpochInv, InTurn, Idle
<1>11. QED
  BY <1>8, <1>9, <1>10 DEF EpochInv

(* The species flagged is one of the population.                           *)
LEMMA FlagIs ==
  ASSUME species \in Seq(SpeciesType), species # <<>>
  PROVE  ToFlag \in DOMAIN species
<1> DEFINE O == {i \in DOMAIN species : Old(i)}
<1>1. Len(species) \in Nat \ {0} /\ DOMAIN species = 1..Len(species) /\ 1 \in DOMAIN species
  OBVIOUS
<1>2. O \in SUBSET (1..Len(species))
  BY <1>1
<1>3. O # {} => Max(O) \in O
  <2> HIDE DEF O
  <2>1. QED
    BY <1>1, <1>2, MaxIn
<1>4. ToFlag = IF O # {} THEN Max(O) ELSE 1
  BY DEF ToFlag
<1> HIDE DEF O
<1>5. QED
  BY <1>1, <1>2, <1>3, <1>4

(* The history of a generation keeps its form.                             *)
SeenType == [flagged : Nat, best : Int, kept : BOOLEAN, halved : BOOLEAN,
             clone : {"parent", "no parent"}, parents : Nat, guests : Nat, supers : Nat]
LEMMA SeenFlagged ==
  ASSUME NEW r \in SeenType, NEW v \in Nat, NEW h \in BOOLEAN
  PROVE  [r EXCEPT !.flagged = v, !.halved = h] \in SeenType
BY DEF SeenType
(* The history of a generation begins well formed.                         *)
LEMMA NothingTyped == Nothing \in SeenType
BY DEF Nothing, SeenType

(* ... and the adjustment keeps the sizes of the species.                  *)
LEMMA AdjustKeeps == EpochInv /\ Adjust => EpochInv'
<1> SUFFICES ASSUME EpochInv, Adjust
             PROVE  EpochInv'
  OBVIOUS
<1>1. species \in Seq(SpeciesType) /\ species # <<>> /\ EpochTypeOK
  BY DEF EpochInv, EpochTypeOK
<1> DEFINE flag == generation % 30 = 0
           marked(i) == [species[i] EXCEPT !.obliterate = @ \/ (flag /\ i = ToFlag)]
           flagged == IF flag THEN species[ToFlag].id ELSE 0
<1>2. /\ species' = [i \in DOMAIN species |-> adjust_fitness(marked(i))]
      /\ seen' = [Nothing EXCEPT !.flagged = flagged, !.halved = seen.halved]
      /\ phase = "adjust" /\ phase' = "count"
      /\ UNCHANGED <<generation, last_species, babies_stolen, highest_fitness,
                     highest_last_changed, turn>>
  BY DEF Adjust
<1>3. ASSUME NEW i \in DOMAIN species
      PROVE  /\ species'[i] \in SpeciesType
             /\ Len(species'[i].organisms) = Len(species[i].organisms)
             /\ Marked(species'[i])
  <2>1. species[i] \in SpeciesType
    BY <1>1
  <2>2. PICK s \in SpeciesType : s = species[i]
    BY <2>1
  <2>3. marked(i) = [s EXCEPT !.obliterate = s.obliterate \/ (flag /\ i = ToFlag)]
    BY <2>2
  <2>4. (s.obliterate \/ (flag /\ i = ToFlag)) \in BOOLEAN
    BY DEF SpeciesType
  <2>5. marked(i) \in SpeciesType /\ marked(i).organisms = species[i].organisms
    <3> HIDE DEF marked, flag
    <3>1. QED
      BY <2>2, <2>3, <2>4 DEF SpeciesType
  <2> HIDE DEF marked
  <2>6. QED
    BY <1>2, <2>5, AdjustTyped
<1>4. species' = [i \in DOMAIN species |-> species'[i]]
  BY <1>2
<1> HIDE DEF marked, flag
<1>5. /\ species' \in Seq(SpeciesType) /\ species' # <<>> /\ Len(species') = Len(species)
      /\ DOMAIN species' = DOMAIN species
  BY <1>1, <1>3, <1>4, Mapped
<1>6. SizeOf(species') = SizeOf(species)
  BY <1>3, <1>5, SameSizes
<1>7. /\ seen' \in [flagged : Nat, best : Int, kept : BOOLEAN, halved : BOOLEAN,
               clone : {"parent", "no parent"}, parents : Nat, guests : Nat, supers : Nat]
      /\ seen'.halved = seen.halved /\ seen'.clone = "parent"
  <2>1. ToFlag \in DOMAIN species
    BY <1>1, FlagIs
  <2>2. species[ToFlag] \in SpeciesType
    BY <1>1, <2>1
  <2>3. flagged \in Nat
    BY <2>2 DEF SpeciesType
  <2>4. seen.halved \in BOOLEAN
    BY <1>1 DEF EpochTypeOK
  <2>5. PICK v \in Nat, h \in BOOLEAN : v = flagged /\ h = seen.halved
    BY <2>3, <2>4
  <2> HIDE DEF flagged
  <2>6. seen' = [Nothing EXCEPT !.flagged = v, !.halved = h]
    BY <1>2, <2>5
  <2>7. /\ [Nothing EXCEPT !.flagged = v, !.halved = h].halved = h
        /\ [Nothing EXCEPT !.flagged = v, !.halved = h].clone = "parent"
    BY DEF Nothing
  <2>8. [Nothing EXCEPT !.flagged = v, !.halved = h]
          \in [flagged : Nat, best : Int, kept : BOOLEAN, halved : BOOLEAN,
               clone : {"parent", "no parent"}, parents : Nat, guests : Nat, supers : Nat]
    BY NothingTyped, SeenFlagged DEF SeenType
  <2>9. seen'.halved = seen.halved
    BY <2>5, <2>6, <2>7
  <2>10. seen'.clone = "parent"
    BY <2>6, <2>7
  <2>11. QED
    BY <2>6, <2>8, <2>9, <2>10
<1>8. Whole' = Whole /\ SizeOf(species)' = SizeOf(species')
  BY <1>7 DEF Whole, SizeOf
<1>9. EpochTypeOK'
  BY <1>1, <1>2, <1>5, <1>7 DEF EpochTypeOK
<1>10. Accounted'
  BY <1>2, <1>6, <1>8 DEF EpochInv, Accounted
<1>11. InTurn'
  BY <1>2, <1>3, <1>5, <1>7 DEF EpochInv, InTurn, Idle
<1>12. QED
  BY <1>9, <1>10, <1>11 DEF EpochInv

-----------------------------------------------------------------------------
(* Counting offspring.                                                     *)

(* Whole parts and the part left over.                                     *)
LEMMA Divided ==
  ASSUME NEW total \in Nat \ {0}, NEW part \in Nat
  PROVE  /\ part \div total \in Nat /\ part % total \in 0..total - 1
         /\ part = (part \div total) * total + (part % total)
         /\ part % total = 0 /\ part > 0 => part \div total >= 1
<1>1. /\ part \div total \in Int /\ part % total \in 0..total - 1
      /\ part = (part \div total) * total + (part % total)
  OBVIOUS
<1> DEFINE q == part \div total
           m == part % total
<1> HIDE DEF q, m
<1>2. q \in Int /\ m \in 0..total - 1 /\ part = q * total + m
  BY <1>1 DEF q, m
<1>3. q >= 0
  <2>1. ASSUME q <= -1
        PROVE  FALSE
    <3>1. q * total <= -total
      BY <1>2, <2>1
    <3>2. QED
      BY <1>2, <3>1
  <2>2. QED
    BY <1>2, <2>1
<1>4. m = 0 /\ part > 0 => q >= 1
  <2>1. q = 0 => q * total = 0
    OBVIOUS
  <2>2. QED
    BY <1>2, <1>3, <2>1
<1>5. QED
  BY <1>2, <1>3, <1>4 DEF q, m

(* What an organism expects is counted or left in the skim.                *)
Skims(total) == [expected : Nat, skim : 0..total]
CountsOn(old, new, part, total) ==
  /\ new \in Skims(total)
  /\ new.expected * total + new.skim = old.expected * total + old.skim + part
LEMMA CountedOne ==
  ASSUME NEW total \in Nat \ {0}, NEW part \in Nat, NEW acc \in Skims(total),
         NEW down \in BOOLEAN, NEW up \in BOOLEAN
  PROVE  CountsOn(acc, CountOne(acc, part, total, down, up), part, total)
<1> DEFINE lower == down /\ part % total = 0 /\ part > 0
           q    == part \div total
           m    == part % total
           int  == q - (IF lower THEN 1 ELSE 0)
           skim == acc.skim + (IF lower THEN total ELSE m)
           z    == Skimmed(skim, total, up)
           new  == CountOne(acc, part, total, down, up)
<1>1. new = [expected |-> acc.expected + int + z, skim |-> skim - total * z]
  BY DEF CountOne
<1>2. /\ q \in Nat /\ m \in 0..total - 1 /\ part = q * total + m
      /\ (m = 0 /\ part > 0 => q >= 1)
  BY Divided
<1>3. PICK e \in Nat, k \in 0..total : e = acc.expected /\ k = acc.skim
  BY DEF Skims
<1> DEFINE qt == q * total
           et == e * total
<1> HIDE DEF q, m, new
<1>4. qt \in Nat /\ et \in Nat
  BY <1>2
<1>5. /\ int \in Nat /\ skim \in Nat /\ skim <= 2 * total
      /\ int * total + skim = part + k
  <2>1. CASE lower
    <3>1. m = 0 /\ part > 0 /\ q >= 1
      BY <1>2, <2>1 DEF m
    <3>2. int = q - 1 /\ skim = k + total
      BY <1>3, <2>1
    <3>3. (q - 1) * total = qt - total
      BY <1>2
    <3>4. QED
      BY <1>2, <1>4, <3>1, <3>2, <3>3
  <2>2. CASE ~lower
    <3>1. int = q /\ skim = k + m
      BY <1>2, <1>3, <2>2
    <3>2. QED
      BY <1>2, <1>4, <3>1
  <2>3. QED
    BY <2>1, <2>2
<1> DEFINE it == int * total
<1>6. it \in Nat
  BY <1>5
<1> HIDE DEF int, skim, lower
<1>7. z \in {0, 1} /\ skim - total * z \in 0..total
  BY <1>5 DEF Skimmed
<1>8. (e + int + z) * total = et + it + total * z
  <2>1. CASE z = 0
    BY <1>5, <2>1
  <2>2. CASE z = 1
    BY <1>5, <2>2
  <2>3. QED
    BY <1>7, <2>1, <2>2
<1> HIDE DEF et, it, z
<1>9. new.expected = e + int + z /\ new.skim = skim - total * z
  BY <1>1, <1>3
<1>10. e + int + z \in Nat
  BY <1>5, <1>7
<1>11. new \in Skims(total)
  BY <1>1, <1>3, <1>7, <1>10 DEF Skims
<1>12. total * z \in Nat
  BY <1>7
<1>13. et + it + total * z + (skim - total * z) = et + k + part
  <2> DEFINE tz == total * z
  <2> HIDE DEF tz
  <2>1. tz \in Nat /\ it + skim = part + k /\ et \in Nat
    BY <1>4, <1>5, <1>12 DEF tz, it
  <2>2. et + it + tz + (skim - tz) = et + k + part
    BY <1>5, <1>6, <2>1
  <2>3. QED
    BY <2>2 DEF tz
<1>14. QED
  BY <1>3, <1>8, <1>9, <1>11, <1>13 DEF new, et, CountsOn

(* The weights of species and population are numbers.                      *)
Unit(all, s) == Sizes(all) \div Len(s.organisms)
WeightsOf(all) == [i \in DOMAIN all |-> SpeciesWeight(all, all[i])]
LEMMA Weights ==
  ASSUME NEW all \in Seq(SpeciesType)
  PROVE  /\ \A s \in SpeciesType :
              /\ Shares(s) \in [DOMAIN s.organisms -> Nat] /\ SumFunction(Shares(s)) \in Nat
              /\ Unit(all, s) \in Nat /\ SpeciesWeight(all, s) \in Nat
              /\ SpeciesWeight(all, s) = SumFunction(Shares(s)) * Unit(all, s)
         /\ WeightsOf(all) \in [DOMAIN all -> Nat] /\ TotalWeight(all) \in Nat
         /\ TotalWeight(all) = SumFunctionOnSet(WeightsOf(all), DOMAIN all)
<1>1. /\ Len(all) \in Nat /\ DOMAIN all = 1..Len(all) /\ IsFiniteSet(DOMAIN all)
      /\ \A i \in DOMAIN all : all[i] \in SpeciesType
  BY Numbers
<1>2. Sizes(all) \in Nat
  <2> DEFINE n == Len(all)
  <2>1. n \in Nat /\ DOMAIN all = 1..n
    BY <1>1
  <2>2. \A i \in 1..n : \A t \in Nat : TimesSize(t, all[i]) \in Nat
    BY <1>1, YoungFinite DEF TimesSize
  <2>3. 1 \in Nat
    OBVIOUS
  <2> HIDE DEF n
  <2>4. PICK t \in [0..n -> Nat] : SizesSteps(t, n, all)
    BY <2>1, <2>2, <2>3, SizesTrace
  <2>5. QED
    BY <2>1, <2>4 DEF SizesSteps
<1>3. ASSUME NEW s \in SpeciesType
      PROVE  /\ Shares(s) \in [DOMAIN s.organisms -> Nat] /\ SumFunction(Shares(s)) \in Nat
             /\ Unit(all, s) \in Nat /\ SpeciesWeight(all, s) \in Nat
             /\ SpeciesWeight(all, s) = SumFunction(Shares(s)) * Unit(all, s)
  <2>1. /\ Len(s.organisms) \in Nat \ {0} /\ DOMAIN s.organisms = 1..Len(s.organisms)
        /\ \A j \in DOMAIN s.organisms : s.organisms[j] \in OrganismType
    BY YoungFinite
  <2>2. Shares(s) \in [DOMAIN s.organisms -> Nat]
    BY <2>1 DEF Shares, OrganismType
  <2>3. IsFiniteSet(DOMAIN s.organisms)
    BY <2>1, FS_Interval
  <2>4. \A j \in DOMAIN s.organisms : Shares(s)[j] \in Nat
    BY <2>2
  <2>5. SumFunctionOnSet(Shares(s), DOMAIN s.organisms) \in Nat
    BY <2>3, <2>4, SumNatural
  <2>6. SumFunction(Shares(s)) \in Nat
    BY <2>2, <2>5 DEF SumFunction
  <2>7. Unit(all, s) \in Nat
    BY <1>2, <2>1, Divided DEF Unit
  <2>8. SpeciesWeight(all, s) = SumFunction(Shares(s)) * Unit(all, s)
    BY DEF SpeciesWeight, Unit
  <2>9. SpeciesWeight(all, s) \in Nat
    BY <2>6, <2>7, <2>8
  <2>10. QED
    BY <2>2, <2>6, <2>7, <2>8, <2>9
<1>4. WeightsOf(all) \in [DOMAIN all -> Nat]
  BY <1>1, <1>3 DEF WeightsOf
<1>5. TotalWeight(all) = SumFunction(WeightsOf(all))
  BY DEF TotalWeight, WeightsOf
<1>6. TotalWeight(all) = SumFunctionOnSet(WeightsOf(all), DOMAIN all)
  BY <1>4, <1>5 DEF SumFunction
<1>7. \A i \in DOMAIN all : WeightsOf(all)[i] \in Nat
  BY <1>4
<1>8. SumFunctionOnSet(WeightsOf(all), DOMAIN all) \in Nat
  BY <1>1, <1>7, SumNatural
<1>9. QED
  BY <1>3, <1>4, <1>6, <1>8

(* A sum over an interval grows at its end.                                *)
LEMMA SumGrows ==
  ASSUME NEW n \in Nat, NEW f, \A i \in 1..n : f[i] \in Int
  PROVE  /\ SumFunctionOnSet(f, 1..0) = 0
         /\ \A k \in 0..n : SumFunctionOnSet(f, 1..k) \in Int
         /\ \A k \in 1..n : SumFunctionOnSet(f, 1..k) = SumFunctionOnSet(f, 1..k - 1) + f[k]
<1>1. Summed(f, 1..n)
  <2>1. IsFiniteSet(1..n)
    BY FS_Interval
  <2>2. QED
    BY <2>1, SumParts
<1>2. 1..0 = {}
  OBVIOUS
<1>3. \A k \in 0..n : 1..k \in SUBSET (1..n)
  OBVIOUS
<1>4. \A k \in 0..n : SumFunctionOnSet(f, 1..k) \in Int
  BY <1>1, <1>3 DEF Summed
<1>5. ASSUME NEW k \in 1..n
      PROVE  SumFunctionOnSet(f, 1..k) = SumFunctionOnSet(f, 1..k - 1) + f[k]
  <2>1. 1..k \in SUBSET (1..n) /\ (1..k) \ {k} = 1..k - 1 /\ k \in 1..k /\ f[k] \in Int
    BY LastOfInterval
  <2>2. PICK rest : rest = 1..k - 1
    OBVIOUS
  <2>3. rest \in SUBSET (1..n) /\ (1..k) \ {k} = rest
    BY <2>1, <2>2
  <2>4. SumFunctionOnSet(f, 1..k) = f[k] + SumFunctionOnSet(f, rest) /\ SumFunctionOnSet(f, rest) \in Int
    BY <1>1, <2>1, <2>3 DEF Summed
  <2>5. SumFunctionOnSet(f, 1..k) = SumFunctionOnSet(f, rest) + f[k]
    BY <2>1, <2>4
  <2>6. QED
    BY <2>2, <2>5
<1>6. QED
  BY <1>1, <1>2, <1>4, <1>5 DEF Summed

(* What a species is due is counted to it or left in the skim.             *)
LEMMA CountedSpecies ==
  ASSUME NEW all \in Seq(SpeciesType), NEW s \in SpeciesType, TotalWeight(all) # 0,
         NEW skim \in 0..TotalWeight(all), NEW down \in BOOLEAN, NEW up \in BOOLEAN
  PROVE  LET c == count_offspring(all, s, skim, down, up)
         IN  /\ c \in Skims(TotalWeight(all))
             /\ c.expected * TotalWeight(all) + c.skim
                  = skim + SizeOf(all) * SpeciesWeight(all, s)
<1> DEFINE total == TotalWeight(all)
           n     == Len(s.organisms)
           os    == s.organisms
           unit  == Unit(all, s)
           size  == SizeOf(all)
           c     == count_offspring(all, s, skim, down, up)
           first == [expected |-> 0, skim |-> skim]
           parts == [j \in 1..n |-> os[j].share * unit * size]
           Q     == Skims(total)
<1>1. total \in Nat \ {0} /\ unit \in Nat /\ size \in Nat /\ skim \in 0..total
  BY Weights, Numbers
<1>2. n \in Nat /\ DOMAIN os = 1..n /\ \A j \in 1..n : os[j].share \in Nat
  BY YoungFinite DEF OrganismType
<1>3. Shares(s) = [j \in 1..n |-> os[j].share] /\ SumFunction(Shares(s)) \in Nat
      /\ Shares(s) \in [1..n -> Nat] /\ DOMAIN Shares(s) = 1..n
      /\ SpeciesWeight(all, s) = SumFunction(Shares(s)) * unit
  BY <1>2, Weights DEF Shares
<1>4. \A j \in 1..n : parts[j] \in Nat /\ parts[j] = Shares(s)[j] * (unit * size)
  <2> HIDE DEF unit, size, n, os
  <2>1. ASSUME NEW j \in 1..n
        PROVE  parts[j] \in Nat /\ parts[j] = Shares(s)[j] * (unit * size)
    <3>1. PICK x \in Nat : x = os[j].share
      BY <1>2
    <3>2. PICK y \in Nat, z \in Nat : y = unit /\ z = size
      BY <1>1
    <3>3. x * y * z \in Nat /\ x * y * z = x * (y * z)
      OBVIOUS
    <3>4. parts[j] = x * y * z /\ Shares(s)[j] = x
      BY <1>3, <3>1, <3>2
    <3>5. QED
      BY <3>2, <3>3, <3>4
  <2>2. QED
    BY <2>1
<1>5. SumFunctionOnSet(parts, 1..n) = size * SpeciesWeight(all, s)
  <2>0. PICK u \in Int : u = unit * size
    BY <1>1
  <2>1. n \in Nat
    BY <1>2
  <2> HIDE DEF parts, n, unit, size, os
  <2>2. \A j \in 1..n : Shares(s)[j] \in Int /\ parts[j] = Shares(s)[j] * u
    BY <1>3, <1>4, <2>0
  <2>3. SumFunctionOnSet(parts, 1..n) = SumFunctionOnSet(Shares(s), 1..n) * u
    <3>1. PICK S : S = 1..n
      OBVIOUS
    <3>2. IsFiniteSet(S) /\ Scaled(Shares(s), parts, u, S)
      <4>1. IsFiniteSet(1..n)
        BY <2>1, FS_Interval
      <4>2. Scaled(Shares(s), parts, u, 1..n)
        BY <2>2 DEF Scaled
      <4>3. QED
        BY <3>1, <4>1, <4>2
    <3>3. SumFunctionOnSet(parts, S) = SumFunctionOnSet(Shares(s), S) * u
      BY <3>2, SumScaled
    <3>4. QED
      BY <3>1, <3>3
  <2>4. SumFunctionOnSet(Shares(s), 1..n) = SumFunction(Shares(s))
    BY <1>3 DEF SumFunction
  <2>5. PICK x \in Nat, y \in Nat, z \in Nat :
          x = SumFunction(Shares(s)) /\ y = unit /\ z = size
    BY <1>1, <1>3
  <2>6. x * (y * z) = z * (x * y)
    OBVIOUS
  <2>7. QED
    BY <1>3, <2>0, <2>3, <2>4, <2>5, <2>6
<1> HIDE DEF parts, Q, c, first
<1>6. \A j \in 1..n : \A acc \in Q : /\ CountStep(acc, os[j], all, s, down, up) \in Q
                                     /\ CountStep(acc, os[j], all, s, down, up).expected * total
                                          + CountStep(acc, os[j], all, s, down, up).skim
                                        = acc.expected * total + acc.skim + parts[j]
  <2>1. ASSUME NEW j \in 1..n, NEW acc \in Q
        PROVE  /\ CountStep(acc, os[j], all, s, down, up) \in Q
               /\ CountStep(acc, os[j], all, s, down, up).expected * total
                    + CountStep(acc, os[j], all, s, down, up).skim
                  = acc.expected * total + acc.skim + parts[j]
    <3>1. parts[j] = os[j].share * unit * size /\ parts[j] \in Nat
      BY <1>4 DEF parts
    <3>2. CountStep(acc, os[j], all, s, down, up) = CountOne(acc, parts[j], total, down, up)
      BY <3>1 DEF CountStep, Unit
    <3> HIDE DEF total
    <3>3. acc \in Skims(total)
      BY DEF Q
    <3>4. PICK part \in Nat : part = parts[j]
      BY <3>1
    <3>5. CountsOn(acc, CountOne(acc, part, total, down, up), part, total)
      BY <1>1, <3>3, CountedOne
    <3>6. CountsOn(acc, CountStep(acc, os[j], all, s, down, up), part, total)
      BY <3>2, <3>4, <3>5
    <3>7. QED
      BY <3>4, <3>6 DEF Q, CountsOn
  <2>2. QED
    BY <2>1
<1>7. first \in Q /\ first.expected = 0 /\ first.skim = skim
  BY <1>1 DEF Q, Skims, first
<1>8. PICK t \in [0..n -> Q] : CountSteps(t, n, all, s, skim, down, up)
  <2>1. \A j \in 1..n : \A acc \in Q : CountStep(acc, s.organisms[j], all, s, down, up) \in Q
    BY <1>6
  <2>2. DOMAIN s.organisms = 1..n /\ [expected |-> 0, skim |-> skim] \in Q
    BY <1>2, <1>7 DEF first
  <2> HIDE DEF n
  <2>3. QED
    BY <1>2, <2>1, <2>2, CountTrace
<1>9. /\ t[0] = first /\ c = t[n]
      /\ \A k \in 1..n : t[k] = CountStep(t[k - 1], os[k], all, s, down, up)
  BY <1>8 DEF CountSteps, first, c
<1> DEFINE P == {k \in 0..n : t[k].expected * total + t[k].skim = skim + SumFunctionOnSet(parts, 1..k)}
<1>10. /\ SumFunctionOnSet(parts, 1..0) = 0
       /\ \A k \in 0..n : SumFunctionOnSet(parts, 1..k) \in Int
       /\ \A k \in 1..n : SumFunctionOnSet(parts, 1..k) = SumFunctionOnSet(parts, 1..k - 1) + parts[k]
  <2>1. \A j \in 1..n : parts[j] \in Int
    BY <1>4
  <2> HIDE DEF n
  <2>2. QED
    BY <1>2, <2>1, SumGrows
<1> HIDE DEF n, os, total
<1>11. 0 \in P
  <2>1. 0 * total = 0
    BY <1>1
  <2>2. QED
    BY <1>1, <1>2, <1>7, <1>9, <1>10, <2>1
<1>12. ASSUME NEW k \in 1..n, k - 1 \in P
       PROVE  k \in P
  <2>1. k - 1 \in 0..n /\ k \in 0..n
    BY <1>12, <1>2
  <2>2. PICK u \in Q : u = t[k - 1]
    BY <2>1
  <2>3. u.expected * total + u.skim = skim + SumFunctionOnSet(parts, 1..k - 1)
    BY <1>12, <2>2
  <2>4. t[k] = CountStep(u, os[k], all, s, down, up)
    BY <1>9, <2>2
  <2>5. t[k].expected * total + t[k].skim = u.expected * total + u.skim + parts[k]
    BY <1>6, <2>4
  <2>6. PICK x \in Int, y \in Int : x = SumFunctionOnSet(parts, 1..k - 1) /\ y = parts[k]
    BY <1>4, <1>10, <2>1
  <2>7. SumFunctionOnSet(parts, 1..k) = x + y
    BY <1>10, <2>6
  <2>8. skim + x + y = skim + (x + y)
    BY <1>1
  <2>9. t[k].expected * total + t[k].skim = skim + SumFunctionOnSet(parts, 1..k)
    BY <2>3, <2>5, <2>6, <2>7, <2>8
  <2>10. QED
    BY <2>1, <2>9
<1>13. n \in P
  <2>1. P \in SUBSET (0..n)
    OBVIOUS
  <2> HIDE DEF P
  <2>2. P = 0..n
    BY <1>2, <1>11, <1>12, <2>1, PassedOn
  <2>3. QED
    BY <1>2, <2>2
<1>14. c \in Q /\ c.expected * total + c.skim = skim + SumFunctionOnSet(parts, 1..n)
  BY <1>2, <1>9, <1>13
<1>15. QED
  BY <1>5, <1>14 DEF Q, c, total

(* The species are counted one after the other: what each is due is        *)
(* counted, less what the skim grew by.                                    *)
Due(all) == [i \in DOMAIN all |-> SizeOf(all) * SpeciesWeight(all, all[i])]
CountedTo(all, k, acc) ==
  /\ acc.skim \in 0..TotalWeight(all) /\ acc.counts \in Seq(Nat) /\ Len(acc.counts) = k
  /\ \A i \in 1..k : /\ acc.counts[i] * TotalWeight(all) >= Due(all)[i] - TotalWeight(all)
                     /\ acc.counts[i] * TotalWeight(all) <= Due(all)[i] + TotalWeight(all)
  /\ SumFunctionOnSet(acc.counts, 1..k) * TotalWeight(all) + acc.skim
       = SumFunctionOnSet(Due(all), 1..k)
LEMMA CountedNext ==
  ASSUME NEW all \in Seq(SpeciesType), TotalWeight(all) # 0, NEW k \in DOMAIN all, NEW acc,
         CountedTo(all, k - 1, acc), NEW down \in BOOLEAN, NEW up \in BOOLEAN
  PROVE  CountedTo(all, k, CountNext(acc, all[k], all, down, up))
<1> DEFINE total == TotalWeight(all)
           c     == count_offspring(all, all[k], acc.skim, down, up)
           new   == CountNext(acc, all[k], all, down, up)
           old   == acc.counts
           cs    == Append(old, c.expected)
<1>1. /\ total \in Nat \ {0} /\ k \in 1..Len(all) /\ Len(all) \in Nat
      /\ all[k] \in SpeciesType /\ \A i \in DOMAIN all : Due(all)[i] \in Nat
  <2>1. /\ Len(all) \in Nat /\ DOMAIN all = 1..Len(all) /\ SizeOf(all) \in Nat
        /\ \A i \in DOMAIN all : all[i] \in SpeciesType
    BY Numbers
  <2>2. total \in Nat /\ \A i \in DOMAIN all : SpeciesWeight(all, all[i]) \in Nat
    BY <2>1, Weights
  <2>3. \A a, b \in Nat : a * b \in Nat
    OBVIOUS
  <2>4. \A i \in DOMAIN all : Due(all)[i] \in Nat
    BY <2>1, <2>2, <2>3 DEF Due
  <2>5. QED
    BY <2>1, <2>2, <2>4
<1>2. /\ acc.skim \in 0..total /\ old \in Seq(Nat) /\ Len(old) = k - 1
      /\ SumFunctionOnSet(old, 1..k - 1) * total + acc.skim = SumFunctionOnSet(Due(all), 1..k - 1)
      /\ \A i \in 1..k - 1 : /\ old[i] * total >= Due(all)[i] - total
                             /\ old[i] * total <= Due(all)[i] + total
  BY DEF CountedTo
<1>3. /\ c.expected \in Nat /\ c.skim \in 0..total
      /\ c.expected * total + c.skim = acc.skim + Due(all)[k]
  <2>1. c \in Skims(total)
        /\ c.expected * total + c.skim = acc.skim + SizeOf(all) * SpeciesWeight(all, all[k])
    BY <1>1, <1>2, CountedSpecies
  <2>2. Due(all)[k] = SizeOf(all) * SpeciesWeight(all, all[k])
    BY <1>1 DEF Due
  <2> HIDE DEF c, total
  <2>3. QED
    BY <2>1, <2>2 DEF Skims
<1>4. new = [skim |-> c.skim, counts |-> cs]
  BY DEF CountNext
<1> HIDE DEF c, total, new
<1>5. /\ cs \in Seq(Nat) /\ Len(cs) = k /\ cs[k] = c.expected
      /\ \A i \in 1..k - 1 : cs[i] = old[i]
  BY <1>1, <1>2, <1>3
<1> HIDE DEF cs, old
<1>6. \A i \in 1..k : /\ cs[i] * total >= Due(all)[i] - total
                      /\ cs[i] * total <= Due(all)[i] + total
  <2>1. PICK ct \in Int : ct = c.expected * total
    BY <1>1, <1>3
  <2>2. ct >= Due(all)[k] - total /\ ct <= Due(all)[k] + total
    <3>1. PICK d \in Int : d = Due(all)[k]
      BY <1>1
    <3>2. PICK x \in 0..total, y \in 0..total : x = acc.skim /\ y = c.skim
      BY <1>2, <1>3
    <3>3. ct + y = x + d
      BY <1>3, <2>1, <3>1, <3>2
    <3>4. PICK m \in Nat : m = total
      BY <1>1
    <3>5. x \in 0..m /\ y \in 0..m
      BY <3>2, <3>4
    <3>6. ct >= d - m /\ ct <= d + m
      BY <3>3, <3>5
    <3>7. QED
      BY <3>1, <3>4, <3>6
  <2>3. \A i \in 1..k : i \in 1..k - 1 \/ i = k
    BY <1>1
  <2>4. ASSUME NEW i \in 1..k
        PROVE  cs[i] * total >= Due(all)[i] - total /\ cs[i] * total <= Due(all)[i] + total
    <3>1. CASE i = k
      BY <1>5, <2>1, <2>2, <3>1
    <3>2. CASE i \in 1..k - 1
      BY <1>2, <1>5, <3>2
    <3>3. QED
      BY <2>3, <3>1, <3>2
  <2>5. QED
    BY <2>4
<1>7. SumFunctionOnSet(cs, 1..k) * total + c.skim = SumFunctionOnSet(Due(all), 1..k)
  <2>1. \A i \in 1..k : cs[i] \in Int /\ Due(all)[i] \in Int
    BY <1>1, <1>5
  <2>2. /\ SumFunctionOnSet(cs, 1..k) = SumFunctionOnSet(cs, 1..k - 1) + cs[k]
        /\ SumFunctionOnSet(cs, 1..k - 1) \in Int
        /\ SumFunctionOnSet(Due(all), 1..k) = SumFunctionOnSet(Due(all), 1..k - 1) + Due(all)[k]
        /\ SumFunctionOnSet(Due(all), 1..k - 1) \in Int
    <3>1. k \in Nat /\ k \in 1..k /\ k - 1 \in 0..k
      BY <1>1
    <3>2. QED
      BY <2>1, <3>1, SumGrows
  <2>3. SumFunctionOnSet(cs, 1..k - 1) = SumFunctionOnSet(old, 1..k - 1)
    <3>1. PICK S : S = 1..k - 1
      OBVIOUS
    <3>2. IsFiniteSet(S) /\ \A i \in S : old[i] \in Int /\ cs[i] = old[i]
      <4>1. IsFiniteSet(1..k - 1)
        BY <1>1, FS_Interval
      <4>2. \A i \in 1..k - 1 : old[i] \in Int /\ cs[i] = old[i]
        BY <1>1, <1>2, <1>5
      <4>3. QED
        BY <3>1, <4>1, <4>2
    <3>3. \A s \in SUBSET S : SumFunctionOnSet(cs, s) = SumFunctionOnSet(old, s)
      BY <3>2, SumAlike
    <3>4. QED
      BY <3>1, <3>3
  <2>4. PICK so \in Int : so = SumFunctionOnSet(old, 1..k - 1)
    BY <2>2, <2>3
  <2>5. PICK sd \in Int : sd = SumFunctionOnSet(Due(all), 1..k - 1)
    BY <2>2
  <2>6. so * total + acc.skim = sd /\ so * total \in Int
    BY <1>1, <1>2, <2>4, <2>5
  <2>7. PICK ce \in Int, ck \in Int, d \in Int : ce = c.expected /\ ck = c.skim /\ d = Due(all)[k]
    BY <1>1, <1>3
  <2>8. ce * total + ck = acc.skim + d /\ ce * total \in Int
    BY <1>1, <1>3, <2>7
  <2>9. (so + ce) * total = so * total + ce * total
    BY <1>1
  <2>10. (so + ce) * total + ck = sd + d
    <3>1. PICK x \in Int, y \in Int : x = so * total /\ y = ce * total
      BY <2>6, <2>8
    <3>2. PICK z \in Int : z = acc.skim
      BY <1>1, <1>2
    <3>3. x + z = sd /\ y + ck = z + d
      BY <2>6, <2>8, <3>1, <3>2
    <3>4. x + y + ck = sd + d
      BY <3>3
    <3>5. QED
      BY <2>9, <3>1, <3>4
  <2>11. QED
    BY <1>5, <2>2, <2>3, <2>4, <2>5, <2>7, <2>10
<1>8. new.skim = c.skim /\ new.counts = cs
  BY <1>4
<1>9. CountedTo(all, k, new)
  BY <1>3, <1>5, <1>6, <1>7, <1>8 DEF CountedTo, total
<1>10. QED
  BY <1>9 DEF new

(* Together the species are due the whole population ...                   *)
LEMMA AllDue ==
  ASSUME NEW all \in Seq(SpeciesType)
  PROVE  /\ \A i \in DOMAIN all : Due(all)[i] \in Nat
         /\ SumFunctionOnSet(Due(all), DOMAIN all) = SizeOf(all) * TotalWeight(all)
<1>1. /\ IsFiniteSet(DOMAIN all) /\ SizeOf(all) \in Nat
      /\ \A i \in DOMAIN all : all[i] \in SpeciesType
  BY Numbers
<1>2. /\ WeightsOf(all) \in [DOMAIN all -> Nat] /\ TotalWeight(all) \in Nat
      /\ TotalWeight(all) = SumFunctionOnSet(WeightsOf(all), DOMAIN all)
  BY Weights
<1>3. \A a, b \in Nat : a * b \in Nat /\ a * b = b * a
  OBVIOUS
<1>4. \A i \in DOMAIN all : /\ Due(all)[i] \in Nat /\ WeightsOf(all)[i] \in Nat
                            /\ Due(all)[i] = WeightsOf(all)[i] * SizeOf(all)
  <2>1. ASSUME NEW i \in DOMAIN all
        PROVE  /\ Due(all)[i] \in Nat /\ WeightsOf(all)[i] \in Nat
               /\ Due(all)[i] = WeightsOf(all)[i] * SizeOf(all)
    <3>1. Due(all)[i] = SizeOf(all) * WeightsOf(all)[i] /\ WeightsOf(all)[i] \in Nat
      BY <1>2 DEF Due, WeightsOf
    <3>2. PICK a \in Nat, b \in Nat : a = SizeOf(all) /\ b = WeightsOf(all)[i]
      BY <1>1, <3>1
    <3>3. a * b \in Nat /\ a * b = b * a
      BY <1>3
    <3>4. QED
      BY <3>1, <3>2, <3>3
  <2>2. QED
    BY <2>1
<1>5. Scaled(WeightsOf(all), Due(all), SizeOf(all), DOMAIN all)
  <2>1. \A i \in DOMAIN all : WeightsOf(all)[i] \in Int
    BY <1>2
  <2>2. QED
    BY <1>4, <2>1 DEF Scaled
<1>6. SumFunctionOnSet(Due(all), DOMAIN all) = TotalWeight(all) * SizeOf(all)
  <2>1. SizeOf(all) \in Int
    BY <1>1
  <2>2. QED
    BY <1>1, <1>2, <1>5, <2>1, SumScaled
<1>7. TotalWeight(all) * SizeOf(all) = SizeOf(all) * TotalWeight(all)
  BY <1>1, <1>2
<1>8. QED
  BY <1>4, <1>6, <1>7

(* ... and at most one of it is not counted to any.                        *)
Shared(all, counts) ==
  /\ counts \in Seq(Nat) /\ Len(counts) = Len(all)
  /\ SumFunction(counts) = SizeOf(all) \/ SumFunction(counts) + 1 = SizeOf(all)
  /\ \A i \in DOMAIN all : /\ counts[i] * TotalWeight(all) >= Due(all)[i] - TotalWeight(all)
                           /\ counts[i] * TotalWeight(all) <= Due(all)[i] + TotalWeight(all)
LEMMA CountedAllIs ==
  ASSUME NEW all \in Seq(SpeciesType), TotalWeight(all) # 0,
         NEW down \in BOOLEAN, NEW up \in BOOLEAN
  PROVE  Shared(all, CountAll(all, down, up))
<1> DEFINE n     == Len(all)
           total == TotalWeight(all)
           first == [skim |-> 0, counts |-> <<>>]
           Q     == [skim : 0..total, counts : Seq(Nat)]
<1>1. total \in Nat \ {0} /\ n \in Nat /\ DOMAIN all = 1..n /\ \A i \in 1..n : all[i] \in SpeciesType
  BY Weights, Numbers
<1>2. ASSUME NEW i \in 1..n, NEW acc \in Q
      PROVE  CountNext(acc, all[i], all, down, up) \in Q
  <2> DEFINE c == count_offspring(all, all[i], acc.skim, down, up)
  <2>1. acc.skim \in 0..total
    OBVIOUS
  <2>2. c \in Skims(total)
    BY <1>1, <2>1, CountedSpecies
  <2>3. CountNext(acc, all[i], all, down, up) = [skim |-> c.skim, counts |-> Append(acc.counts, c.expected)]
    BY DEF CountNext
  <2> HIDE DEF c
  <2>4. Append(acc.counts, c.expected) \in Seq(Nat) /\ c.skim \in 0..total
    BY <2>2 DEF Skims
  <2>5. QED
    BY <2>3, <2>4
<1>3. first \in Q
  BY <1>1
<1>4. PICK t \in [0..n -> Q] : CountAllSteps(t, n, all, down, up)
  <2>1. \A i \in 1..n : \A acc \in Q : CountNext(acc, all[i], all, down, up) \in Q
    BY <1>2
  <2>2. [skim |-> 0, counts |-> <<>>] \in Q
    BY <1>3
  <2> HIDE DEF Q, n
  <2>3. QED
    BY <1>1, <2>1, <2>2, CountAllTrace
<1>5. /\ t[0] = first /\ CountedAll(all, down, up) = t[n]
      /\ \A k \in 1..n : t[k] = CountNext(t[k - 1], all[k], all, down, up)
  BY <1>4 DEF CountAllSteps
<1> DEFINE P == {k \in 0..n : CountedTo(all, k, t[k])}
<1>6. 0 \in P
  <2>1. SumFunctionOnSet(<<>>, 1..0) = 0 /\ SumFunctionOnSet(Due(all), 1..0) = 0
    <3>1. Summed(<<>>, {}) /\ Summed(Due(all), {}) /\ 1..0 = {}
      BY SumParts, FS_EmptySet
    <3>2. QED
      BY <3>1 DEF Summed
  <2>2. first.skim = 0 /\ first.counts = <<>> /\ <<>> \in Seq(Nat) /\ Len(<<>>) = 0
    OBVIOUS
  <2>3. 0 * total + 0 = 0 /\ \A i \in 1..0 : FALSE
    BY <1>1
  <2>4. CountedTo(all, 0, first)
    <3>1. first.skim \in 0..total
      BY <1>1
    <3> HIDE DEF first, total
    <3>2. QED
      BY <2>1, <2>2, <2>3, <3>1 DEF CountedTo, total
  <2>5. QED
    BY <1>1, <1>5, <2>4
<1>7. ASSUME NEW k \in 1..n, k - 1 \in P
      PROVE  k \in P
  <2>1. CountedTo(all, k - 1, t[k - 1]) /\ k \in DOMAIN all /\ k \in 0..n
    BY <1>1, <1>7
  <2>2. CountedTo(all, k, CountNext(t[k - 1], all[k], all, down, up))
    BY <2>1, CountedNext
  <2>3. QED
    BY <1>5, <2>1, <2>2
<1>8. n \in P
  <2>1. P \in SUBSET (0..n)
    OBVIOUS
  <2> HIDE DEF P, n
  <2>2. P = 0..n
    BY <1>1, <1>6, <1>7, <2>1, PassedOn
  <2>3. QED
    BY <1>1, <2>2
<1>9. CountedTo(all, n, t[n])
  BY <1>8
<1>10. CountAll(all, down, up) = t[n].counts
  BY <1>5 DEF CountAll, CountedAll
<1> DEFINE counts == t[n].counts
           sum    == SumFunctionOnSet(counts, 1..n)
<1>11. counts \in Seq(Nat) /\ Len(counts) = n /\ t[n].skim \in 0..total
  BY <1>9 DEF CountedTo
<1>12. sum \in Nat /\ SumFunction(counts) = sum
  <2> HIDE DEF counts, n
  <2>1. DOMAIN counts = 1..n /\ \A i \in 1..n : counts[i] \in Nat
    BY <1>1, <1>11
  <2>2. IsFiniteSet(1..n)
    BY <1>1, FS_Interval
  <2>3. PICK S : S = 1..n
    OBVIOUS
  <2>4. S \in SUBSET S /\ IsFiniteSet(S) /\ \A i \in S : counts[i] \in Nat
    BY <2>1, <2>2, <2>3
  <2>5. SumFunctionOnSet(counts, S) \in Nat
    BY <2>4, SumNatural
  <2>6. QED
    BY <2>1, <2>3, <2>5 DEF SumFunction
<1>13. sum * total + t[n].skim = SizeOf(all) * total
  <2>1. sum * total + t[n].skim = SumFunctionOnSet(Due(all), 1..n)
    BY <1>9 DEF CountedTo
  <2>2. QED
    BY <1>1, <2>1, AllDue
<1>14. sum = SizeOf(all) \/ sum + 1 = SizeOf(all)
  <2>0. PICK a \in Nat, m \in Nat \ {0}, z \in Nat : a = sum /\ m = total /\ z = SizeOf(all)
    BY <1>1, <1>12, Numbers
  <2>1. PICK k \in 0..m : k = t[n].skim
    BY <1>11, <2>0
  <2>2. a * m + k = z * m
    BY <1>13, <2>0, <2>1
  <2>3. ~(a > z)
    <3>1. ASSUME a > z
          PROVE  FALSE
      <4>1. a * m >= z * m + m
        BY <3>1
      <4>2. QED
        BY <2>2, <4>1
    <3>2. QED
      BY <3>1
  <2>4. ~(a < z - 1)
    <3>1. ASSUME a < z - 1
          PROVE  FALSE
      <4>1. a * m + 2 * m <= z * m
        BY <3>1
      <4>2. QED
        BY <2>2, <4>1
    <3>2. QED
      BY <3>1
  <2>5. a = z \/ a + 1 = z
    BY <2>3, <2>4
  <2>6. QED
    BY <2>0, <2>5
<1>15. \A i \in DOMAIN all : /\ counts[i] * total >= Due(all)[i] - total
                             /\ counts[i] * total <= Due(all)[i] + total
  BY <1>1, <1>9 DEF CountedTo
<1>16. Shared(all, counts)
  <2> HIDE DEF counts
  <2>1. QED
    BY <1>11, <1>12, <1>14, <1>15 DEF Shared
<1>17. QED
  BY <1>10, <1>16

(* Some species expects the most.                                          *)
LEMMA MostIs ==
  ASSUME NEW n \in Nat \ {0}, NEW f \in [1..n -> Nat]
  PROVE  MostExpected(f) \in 1..n
<1> DEFINE Most(k, i) == i \in 1..k /\ \A j \in 1..k : f[i] >= f[j]
           P == {k \in 0..n : k = 0 \/ \E i \in 1..k : Most(k, i)}
<1>1. 0 \in P
  OBVIOUS
<1>2. ASSUME NEW k \in 1..n, k - 1 \in P
      PROVE  k \in P
  <2>1. k \in 0..n /\ f[k] \in Nat /\ \A j \in 1..k : j \in 1..k - 1 \/ j = k
    OBVIOUS
  <2>2. \A j \in 1..k - 1 : f[j] \in Nat /\ j \in 1..k
    OBVIOUS
  <2>3. CASE k = 1
    <3>1. Most(k, k)
      BY <2>1, <2>3
    <3>2. QED
      BY <2>1, <3>1
  <2>4. CASE k # 1
    <3>1. PICK i \in 1..k - 1 : Most(k - 1, i)
      BY <1>2, <2>4
    <3>2. CASE f[k] >= f[i]
      <4>1. Most(k, k)
        BY <2>1, <2>2, <3>1, <3>2
      <4>2. QED
        BY <2>1, <4>1
    <3>3. CASE f[k] < f[i]
      <4>1. Most(k, i)
        BY <2>1, <2>2, <3>1, <3>3
      <4>2. QED
        BY <2>1, <2>2, <4>1
    <3>4. QED
      BY <2>1, <2>2, <3>2, <3>3
  <2>5. QED
    BY <2>3, <2>4
<1>3. n \in P
  <2>1. P \in SUBSET (0..n)
    OBVIOUS
  <2> HIDE DEF P
  <2>2. P = 0..n
    BY <1>1, <1>2, <2>1, PassedOn
  <2>3. QED
    BY <2>2
<1>4. PICK i \in 1..n : Most(n, i)
  BY <1>3
<1> DEFINE T == {x \in DOMAIN f : \A j \in DOMAIN f : f[x] >= f[j]}
<1>5. T \in SUBSET (1..n) /\ T # {}
  BY <1>4
<1>6. Max(T) \in T
  <2> HIDE DEF T
  <2>1. QED
    BY <1>5, MaxIn
<1>7. MostExpected(f) = Max(T)
  BY DEF MostExpected
<1>8. QED
  BY <1>5, <1>6, <1>7

(* What rounding lost is made up for.                                      *)
LEMMA MadeUp ==
  ASSUME NEW all \in Seq(SpeciesType), all # <<>>, NEW counts \in [DOMAIN all -> Nat],
         SizeOf(all) # 0, SumFunction(counts) <= SizeOf(all)
  PROVE  /\ MakeUp(all, counts) \in [DOMAIN all -> Nat]
         /\ SumFunctionOnSet(MakeUp(all, counts), DOMAIN all) = SizeOf(all)
         /\ SumFunction(counts) + 1 >= SizeOf(all) =>
              \A i \in DOMAIN all : MakeUp(all, counts)[i] \in {counts[i], counts[i] + 1}
<1> DEFINE S    == DOMAIN all
           size == SizeOf(all)
           most == MostExpected(counts)
           sum  == SumFunction(counts)
           new  == MakeUp(all, counts)
<1>1. /\ size \in Nat \ {0} /\ Len(all) \in Nat \ {0} /\ S = 1..Len(all) /\ IsFiniteSet(S)
  BY Numbers
<1>2. most \in S
  BY <1>1, MostIs
<1>3. sum = SumFunctionOnSet(counts, S) /\ sum \in Nat
  <2>1. \A i \in S : counts[i] \in Nat
    OBVIOUS
  <2>2. SumFunctionOnSet(counts, S) \in Nat
    BY <1>1, <2>1, SumNatural
  <2>3. QED
    BY <2>2 DEF SumFunction
<1>4. new = CASE sum >= size -> counts
              [] sum + 1 = size -> [counts EXCEPT ![most] = @ + 1]
              [] OTHER -> [i \in DOMAIN counts |-> IF i = most THEN size ELSE 0]
  BY DEF MakeUp
<1> HIDE DEF S, size, most, sum, new
<1>5. CASE sum = size
  <2>1. new = counts
    BY <1>1, <1>4, <1>5
  <2>2. QED
    BY <1>3, <1>5, <2>1 DEF S, size, new, sum
<1>6. CASE sum + 1 = size
  <2>1. new = [counts EXCEPT ![most] = @ + 1]
    BY <1>1, <1>3, <1>4, <1>6
  <2>2. counts \in [S -> Nat]
    BY DEF S
  <2>3. /\ new \in [S -> Nat] /\ new[most] = counts[most] + 1
        /\ \A i \in S : i # most => new[i] = counts[i]
    BY <1>2, <2>1, <2>2
  <2>4. OneUp(counts, new) /\ DOMAIN new = S /\ DOMAIN counts = S
    BY <1>2, <2>2, <2>3 DEF OneUp
  <2>5. SumFunction(new) = SumFunction(counts) + 1
    BY <1>1, <2>2, <2>4, OneMore
  <2>6. SumFunctionOnSet(new, S) = size
    BY <1>6, <2>4, <2>5 DEF SumFunction, sum
  <2>7. \A i \in S : new[i] \in {counts[i], counts[i] + 1}
    BY <2>3
  <2>8. QED
    BY <2>3, <2>6, <2>7 DEF S, size, new
<1>7. CASE sum + 1 < size
  <2>1. new = [i \in DOMAIN counts |-> IF i = most THEN size ELSE 0]
    BY <1>1, <1>3, <1>4, <1>7
  <2>2. /\ new \in [S -> Nat] /\ new[most] = size
        /\ \A i \in S : i # most => new[i] = 0
    BY <1>1, <1>2, <2>1 DEF S
  <2>3. SumFunctionOnSet(new, S) = SumFunctionOnSet(new, {most})
    <3>1. {most} \in SUBSET S /\ \A i \in S : new[i] \in Int
      BY <1>2, <2>2
    <3>2. \A i \in S \ {most} : new[i] = 0
      BY <2>2
    <3>3. QED
      BY <1>1, <3>1, <3>2, SumWithout
  <2>4. SumFunctionOnSet(new, {most}) = size
    <3>1. Summed(new, {most})
      <4>1. IsFiniteSet({most})
        BY FS_Singleton
      <4>2. \A i \in {most} : new[i] \in Int
        BY <1>1, <2>2
      <4>3. QED
        BY <4>1, <4>2, SumParts
    <3>2. SumFunctionOnSet(new, {most}) = new[most] + SumFunctionOnSet(new, {})
      <4>1. {most} \in SUBSET {most} /\ most \in {most} /\ {most} \ {most} = {}
        OBVIOUS
      <4>2. QED
        BY <3>1, <4>1 DEF Summed
    <3>3. SumFunctionOnSet(new, {}) = 0
      BY <3>1 DEF Summed
    <3>4. QED
      BY <1>1, <2>2, <3>2, <3>3
  <2>5. ~(sum + 1 >= size)
    BY <1>1, <1>3, <1>7
  <2>6. QED
    BY <2>2, <2>3, <2>4, <2>5 DEF S, size, new, sum
<1>8. sum <= size
  BY DEF sum, size
<1>9. QED
  BY <1>1, <1>3, <1>5, <1>6, <1>7, <1>8

(* What the species weigh is up to their organisms alone.                  *)
LEMMA WeighsAlike ==
  ASSUME NEW all \in Seq(SpeciesType), NEW new \in Seq(SpeciesType), DOMAIN new = DOMAIN all,
         \A i \in DOMAIN all : new[i].organisms = all[i].organisms
  PROVE  /\ TotalWeight(new) = TotalWeight(all)
         /\ \A i \in DOMAIN all : SpeciesWeight(new, new[i]) = SpeciesWeight(all, all[i])
<1> DEFINE n == Len(all)
<1>1. /\ n \in Nat /\ DOMAIN all = 1..n
      /\ \A i \in 1..n : all[i] \in SpeciesType /\ new[i] \in SpeciesType
  BY Numbers
<1> HIDE DEF n
<1>2. PICK t \in [0..n -> Nat] : SizesSteps(t, n, all)
  <2>1. \A i \in 1..n : \A m \in Nat : TimesSize(m, all[i]) \in Nat
    BY <1>1, YoungFinite, SMTT(40) DEF TimesSize
  <2>2. QED
    BY <1>1, <2>1, SizesTrace
<1>3. PICK u \in [0..n -> Nat] : SizesSteps(u, n, new)
  <2>1. \A i \in 1..n : \A m \in Nat : TimesSize(m, new[i]) \in Nat
    BY <1>1, YoungFinite, SMTT(40) DEF TimesSize
  <2>2. QED
    BY <1>1, <2>1, SizesTrace
<1> DEFINE P == {k \in 0..n : u[k] = t[k]}
<1>4. 0 \in P
  BY <1>1, <1>2, <1>3 DEF SizesSteps
<1>5. ASSUME NEW k \in 1..n, k - 1 \in P
      PROVE  k \in P
  <2>1. u[k - 1] = t[k - 1] /\ k \in 0..n
    BY <1>5
  <2>2. new[k].organisms = all[k].organisms
    BY <1>1
  <2>3. u[k] = TimesSize(u[k - 1], new[k]) /\ t[k] = TimesSize(t[k - 1], all[k])
    BY <1>2, <1>3 DEF SizesSteps
  <2>4. u[k] = t[k]
    BY <2>1, <2>2, <2>3 DEF TimesSize
  <2>5. QED
    BY <2>1, <2>4
<1>6. n \in P
  <2>1. P \in SUBSET (0..n)
    OBVIOUS
  <2> HIDE DEF P
  <2>2. P = 0..n
    BY <1>1, <1>4, <1>5, <2>1, PassedOn
  <2>3. QED
    BY <1>1, <2>2
<1>7. Sizes(new) = Sizes(all)
  BY <1>2, <1>3, <1>6 DEF SizesSteps
<1>8. \A i \in DOMAIN all : SpeciesWeight(new, new[i]) = SpeciesWeight(all, all[i])
  <2>1. ASSUME NEW i \in DOMAIN all
        PROVE  SpeciesWeight(new, new[i]) = SpeciesWeight(all, all[i])
    <3>1. Shares(new[i]) = Shares(all[i])
      BY DEF Shares
    <3>2. QED
      BY <1>7, <3>1 DEF SpeciesWeight
  <2>2. QED
    BY <2>1
<1>9. WeightsOf(new) = WeightsOf(all)
  BY <1>8 DEF WeightsOf
<1>10. TotalWeight(new) = SumFunction(WeightsOf(new)) /\ TotalWeight(all) = SumFunction(WeightsOf(all))
  BY DEF TotalWeight, WeightsOf
<1>11. QED
  BY <1>8, <1>9, <1>10

(* The counts of a population, however rounding goes.                      *)
Counts(all, down, up) ==
  IF TotalWeight(all) = 0 THEN [i \in DOMAIN all |-> 0] ELSE CountAll(all, down, up)
LEMMA CountsAre ==
  ASSUME NEW all \in Seq(SpeciesType), all # <<>>, SizeOf(all) # 0,
         NEW down \in BOOLEAN, NEW up \in BOOLEAN
  PROVE  /\ MakeUp(all, Counts(all, down, up)) \in [DOMAIN all -> Nat]
         /\ SumFunctionOnSet(MakeUp(all, Counts(all, down, up)), DOMAIN all) = SizeOf(all)
         /\ TotalWeight(all) # 0 =>
              \A i \in DOMAIN all :
                LET given == MakeUp(all, Counts(all, down, up))[i] * TotalWeight(all)
                IN  /\ Due(all)[i] - TotalWeight(all) <= given
                    /\ given <= Due(all)[i] + 2 * TotalWeight(all)
<1> DEFINE counts == Counts(all, down, up)
           total  == TotalWeight(all)
           new    == MakeUp(all, counts)
<1>1. /\ SizeOf(all) \in Nat \ {0} /\ Len(all) \in Nat /\ DOMAIN all = 1..Len(all)
      /\ IsFiniteSet(DOMAIN all) /\ total \in Nat
      /\ \A i \in DOMAIN all : Due(all)[i] \in Nat
  BY Numbers, Weights, AllDue
<1>2. CASE total = 0
  <2>1. counts = [i \in DOMAIN all |-> 0]
    BY <1>2 DEF Counts
  <2>2. counts \in [DOMAIN all -> Nat]
    BY <2>1
  <2>3. SumFunction(counts) = 0
    <3>1. DOMAIN counts = DOMAIN all /\ \A i \in DOMAIN all : counts[i] = 0
      BY <2>1
    <3>2. SumFunctionOnSet(counts, DOMAIN all) = SumFunctionOnSet(counts, {})
      <4>1. {} \in SUBSET (DOMAIN all) /\ \A i \in DOMAIN all : counts[i] \in Int
        BY <3>1
      <4>2. \A i \in (DOMAIN all) \ {} : counts[i] = 0
        BY <3>1
      <4> HIDE DEF counts
      <4>3. QED
        BY <1>1, <4>1, <4>2, SumWithout
    <3>3. SumFunctionOnSet(counts, {}) = 0
      <4>1. Summed(counts, {})
        BY SumParts, FS_EmptySet
      <4>2. QED
        BY <4>1 DEF Summed
    <3>4. QED
      BY <3>1, <3>2, <3>3 DEF SumFunction
  <2> HIDE DEF counts
  <2>4. SumFunction(counts) <= SizeOf(all)
    BY <1>1, <2>3
  <2>5. /\ new \in [DOMAIN all -> Nat]
        /\ SumFunctionOnSet(new, DOMAIN all) = SizeOf(all)
    BY <1>1, <2>2, <2>4, MadeUp
  <2>6. QED
    BY <1>2, <2>5 DEF counts
<1>3. CASE total # 0
  <2>1. counts = CountAll(all, down, up)
    BY <1>3 DEF Counts
  <2>2. Shared(all, counts)
    BY <1>3, <2>1, CountedAllIs
  <2> HIDE DEF counts
  <2>3. counts \in Seq(Nat) /\ Len(counts) = Len(all)
    BY <2>2 DEF Shared
  <2>4. counts \in [DOMAIN all -> Nat] /\ DOMAIN counts = DOMAIN all
    BY <1>1, <2>3
  <2>5. SumFunction(counts) \in Nat
    <3>1. \A i \in DOMAIN all : counts[i] \in Nat
      BY <2>4
    <3>2. SumFunctionOnSet(counts, DOMAIN all) \in Nat
      BY <1>1, <3>1, SumNatural
    <3>3. QED
      BY <2>4, <3>2 DEF SumFunction
  <2>6. SumFunction(counts) <= SizeOf(all) /\ SumFunction(counts) + 1 >= SizeOf(all)
    BY <1>1, <2>2, <2>5 DEF Shared
  <2>7. /\ new \in [DOMAIN all -> Nat]
        /\ SumFunctionOnSet(new, DOMAIN all) = SizeOf(all)
        /\ \A i \in DOMAIN all : new[i] \in {counts[i], counts[i] + 1}
    BY <1>1, <2>4, <2>6, MadeUp
  <2> HIDE DEF new
  <2>8. ASSUME NEW i \in DOMAIN all
        PROVE  Due(all)[i] - total <= new[i] * total /\ new[i] * total <= Due(all)[i] + 2 * total
    <3>1. PICK a \in Nat, m \in Nat, d \in Nat : a = counts[i] /\ m = total /\ d = Due(all)[i]
      BY <1>1, <2>4
    <3>2. d - m <= a * m /\ a * m <= d + m
      BY <2>2, <3>1 DEF Shared
    <3>3. (a + 1) * m = a * m + m
      OBVIOUS
    <3>4. d - m <= (a + 1) * m /\ (a + 1) * m <= d + 2 * m /\ a * m <= d + 2 * m
      <4>1. PICK b \in Nat : b = a * m
        OBVIOUS
      <4>2. d - m <= b + m /\ b + m <= d + 2 * m /\ b <= d + 2 * m
        BY <3>2, <4>1
      <4>3. QED
        BY <3>3, <4>1, <4>2
    <3>5. new[i] = a \/ new[i] = a + 1
      BY <2>7, <3>1
    <3>6. QED
      BY <3>1, <3>2, <3>4, <3>5
  <2>9. QED
    BY <2>7, <2>8 DEF new, counts
<1>4. QED
  BY <1>2, <1>3

(* Counting makes the species expect the whole population, each its share. *)
CountMade(all, new) ==
  /\ new \in Seq(SpeciesType) /\ new # <<>> /\ DOMAIN new = DOMAIN all /\ Len(new) = Len(all)
  /\ \A i \in DOMAIN all : new[i].organisms = all[i].organisms
  /\ SizeOf(new) = SizeOf(all) /\ Expected(new) = SizeOf(all)
  /\ TotalWeight(new) # 0 =>
       \A i \in DOMAIN all :
         /\ Due(new)[i] - TotalWeight(new) <= new[i].expected * TotalWeight(new)
         /\ new[i].expected * TotalWeight(new) <= Due(new)[i] + 2 * TotalWeight(new)
LEMMA CountMakes ==
  ASSUME NEW all \in Seq(SpeciesType), all # <<>>, SizeOf(all) # 0,
         NEW down \in BOOLEAN, NEW up \in BOOLEAN
  PROVE  CountMade(all, WithExpected(all, MakeUp(all, Counts(all, down, up))))
<1> DEFINE m   == MakeUp(all, Counts(all, down, up))
           new == WithExpected(all, m)
<1>1. /\ m \in [DOMAIN all -> Nat]
      /\ SumFunctionOnSet(m, DOMAIN all) = SizeOf(all)
      /\ TotalWeight(all) # 0 =>
           \A i \in DOMAIN all : /\ Due(all)[i] - TotalWeight(all) <= m[i] * TotalWeight(all)
                                 /\ m[i] * TotalWeight(all) <= Due(all)[i] + 2 * TotalWeight(all)
  BY CountsAre
<1> HIDE DEF m
<1>2. DOMAIN new = DOMAIN all /\ new = [i \in DOMAIN all |-> new[i]]
  BY DEF WithExpected
<1>3. ASSUME NEW i \in DOMAIN all
      PROVE  /\ new[i] \in SpeciesType /\ new[i].organisms = all[i].organisms
             /\ new[i].expected = m[i]
  <2>1. PICK s \in SpeciesType : s = all[i]
    OBVIOUS
  <2>2. PICK x \in Nat : x = m[i]
    BY <1>1
  <2>3. new[i] = [s EXCEPT !.expected = x]
    BY <2>1, <2>2 DEF WithExpected
  <2> HIDE DEF new
  <2>4. [s EXCEPT !.expected = x] \in SpeciesType /\ [s EXCEPT !.expected = x].expected = x
        /\ [s EXCEPT !.expected = x].organisms = s.organisms
    BY DEF SpeciesType
  <2>5. QED
    BY <2>1, <2>2, <2>3, <2>4
<1> HIDE DEF new
<1>4. new \in Seq(SpeciesType) /\ new # <<>> /\ Len(new) = Len(all)
  BY <1>2, <1>3, Mapped
<1>5. SizeOf(new) = SizeOf(all)
  BY <1>2, <1>3, SameSizes
<1>6. Expected(new) = SizeOf(all)
  <2>1. ExpectedOf(new) = m
    BY <1>1, <1>2, <1>3 DEF ExpectedOf
  <2>2. QED
    BY <1>1, <1>2, <1>4, <2>1, Numbers
<1>7. /\ TotalWeight(new) = TotalWeight(all)
      /\ \A i \in DOMAIN all : SpeciesWeight(new, new[i]) = SpeciesWeight(all, all[i])
  BY <1>2, <1>3, <1>4, WeighsAlike
<1>8. Due(new) = Due(all)
  BY <1>2, <1>5, <1>7 DEF Due
<1>9. CountMade(all, new)
  BY <1>1, <1>2, <1>3, <1>4, <1>5, <1>6, <1>7, <1>8 DEF CountMade
<1>10. QED
  BY <1>9 DEF new, m

(* A population is not empty.                                              *)
LEMMA WholeIs ==
  ASSUME EpochTypeOK
  PROVE  Whole \in Nat \ {0} /\ Half \in Nat /\ pop_size - Half \in Nat \ {0} /\ Half <= pop_size
<1>1. pop_size \in Nat \ {0}
  BY EpochAssumption
<1>2. Half \in Nat /\ 2 * Half <= pop_size
  BY <1>1 DEF Half
<1>3. pop_size - Half \in Nat \ {0} /\ Half <= pop_size
  BY <1>1, <1>2
<1>4. QED
  BY <1>1, <1>2, <1>3 DEF Whole

(* What the step of the counting makes.                                    *)
LEMMA CountStepMakes ==
  ASSUME EpochInv, Count
  PROVE  CountMade(species, species')
<1>1. PICK down \in BOOLEAN, up \in BOOLEAN :
        species' = WithExpected(species, MakeUp(species, Counts(species, down, up)))
  BY DEF Count, Counts
<1>2. species \in Seq(SpeciesType) /\ species # <<>>
  BY DEF EpochInv, EpochTypeOK
<1>3. SizeOf(species) # 0
  <2>1. SizeOf(species) = Whole /\ EpochTypeOK
    BY DEF EpochInv, Accounted, Count
  <2>2. QED
    BY <2>1, WholeIs
<1>4. QED
  BY <1>1, <1>2, <1>3, CountMakes

(* Counting keeps the invariant: the counts together are the population.   *)
LEMMA CountKeeps == EpochInv /\ Count => EpochInv'
<1> SUFFICES ASSUME EpochInv, Count
             PROVE  EpochInv'
  OBVIOUS
<1>1. CountMade(species, species')
  BY CountStepMakes
<1>2. /\ phase = "count" /\ phase' = "share"
      /\ UNCHANGED <<generation, last_species, babies_stolen, highest_fitness,
                     highest_last_changed, turn, seen>>
  BY DEF Count
<1>3. EpochTypeOK'
  BY <1>1, <1>2 DEF EpochInv, EpochTypeOK, CountMade
<1>4. Whole' = Whole /\ SizeOf(species)' = SizeOf(species') /\ Expected(species)' = Expected(species')
  BY <1>2 DEF Whole, SizeOf, Expected
<1>5. Accounted'
  BY <1>1, <1>2, <1>4 DEF EpochInv, Accounted, CountMade
<1>6. InTurn'
  <2>1. ASSUME NEW i \in DOMAIN species
        PROVE  Marked(species'[i])
    <3>1. Marked(species[i]) /\ species'[i].organisms = species[i].organisms
      BY <1>1, <1>2 DEF EpochInv, InTurn, CountMade
    <3>2. QED
      BY <3>1 DEF Marked
  <2>2. QED
    BY <1>1, <1>2, <2>1 DEF EpochInv, InTurn, CountMade, Idle
<1>7. QED
  BY <1>3, <1>5, <1>6 DEF EpochInv

-----------------------------------------------------------------------------
(* The worst die: what is left of a species are its parents, the first     *)
(* organism still the first.                                               *)
Killed(s) ==
  [s EXCEPT !.room = Len(s.organisms),
            !.organisms = LET left == At(s.organisms, {j \in DOMAIN s.organisms : ~s.organisms[j].eliminate})
                          IN  [j \in DOMAIN left |-> [left[j] EXCEPT !.fitness = 0, !.share = 0]]]
Left(s, k) ==
  /\ k \in SpeciesType /\ k.expected = s.expected /\ k.room = Len(s.organisms)
  /\ \A j \in DOMAIN k.organisms : k.organisms[j].old
  /\ First(k).genome = First(s).genome /\ First(k).super = First(s).super
  /\ Young(k) = {}
  /\ Len(k.organisms) = Cardinality({j \in 1..Len(s.organisms) : ~(j > NumParents(Len(s.organisms)))})
(* An organism whose fitness and share are reset is one still.             *)
LEMMA ResetTyped ==
  ASSUME NEW o \in OrganismType, NEW p, p = [o EXCEPT !.fitness = 0, !.share = 0]
  PROVE  p \in OrganismType
<1>1. PICK q : q = [o EXCEPT !.fitness = 0]
  OBVIOUS
<1>2. q \in OrganismType
  BY <1>1 DEF OrganismType
<1>3. p = [q EXCEPT !.share = 0]
  BY <1>1
<1>4. QED
  BY <1>2, <1>3 DEF OrganismType

(* What is left of a species whose worst are marked is its parents.        *)
LEMMA ParentsLive ==
  ASSUME NEW s \in SpeciesType, Marked(s)
  PROVE  Left(s, Killed(s))
<1> DEFINE os   == s.organisms
           n    == Len(os)
           keep == {j \in DOMAIN os : ~os[j].eliminate}
           left == At(os, keep)
           new  == [j \in DOMAIN left |-> [left[j] EXCEPT !.fitness = 0, !.share = 0]]
           k    == Killed(s)
<1>1. /\ n \in Nat \ {0} /\ DOMAIN os = 1..n /\ os \in Seq(OrganismType)
      /\ \A j \in 1..n : os[j] \in OrganismType /\ os[j].old /\ (os[j].eliminate <=> j > NumParents(n))
  BY YoungFinite DEF Marked
<1>2. keep = {j \in 1..n : ~(j > NumParents(n))} /\ 1 \in keep
  <2>1. NumParents(n) \in Nat /\ NumParents(n) >= 1
    BY <1>1, ParentsLeft
  <2> HIDE DEF n, os
  <2>2. keep = {j \in 1..n : ~(j > NumParents(n))}
    BY <1>1
  <2>3. QED
    BY <1>1, <2>1, <2>2
<1>3. /\ left \in Seq(OrganismType) /\ Len(left) = Cardinality(keep) /\ left # <<>>
      /\ \A j \in DOMAIN left : \E i \in keep : left[j] = os[i]
      /\ left[1] = os[1]
  <2>1. keep \in SUBSET (DOMAIN os) /\ keep # {}
    BY <1>2
  <2>2. PICK seq \in Seq(OrganismType) : seq = os
    BY <1>1
  <2>3. PICK places \in SUBSET (DOMAIN seq) : places = keep
    BY <2>1, <2>2
  <2> DEFINE taken == At(seq, places)
  <2>4. taken = left
    BY <2>2, <2>3
  <2> HIDE DEF keep, os, left
  <2>5. /\ taken \in Seq(OrganismType) /\ Len(taken) = Cardinality(places) /\ taken # <<>>
        /\ \A j \in DOMAIN taken : \E i \in places : taken[j] = seq[i]
        /\ taken[1] = seq[1]
    <3>1. places # {} /\ 1 \in places
      BY <1>2, <2>3
    <3>2. QED
      BY <3>1, AtTyped
  <2> HIDE DEF taken
  <2>6. QED
    BY <2>2, <2>3, <2>4, <2>5
<1> HIDE DEF left
<1>4. /\ Len(left) \in Nat \ {0} /\ DOMAIN left = 1..Len(left) /\ 1 \in DOMAIN left
      /\ \A j \in DOMAIN left : left[j] \in OrganismType /\ left[j].old
  <2>1. Len(left) \in Nat /\ DOMAIN left = 1..Len(left) /\ Len(left) # 0
    BY <1>3
  <2>2. \A j \in DOMAIN left : left[j] \in OrganismType /\ left[j].old
    BY <1>1, <1>3
  <2>3. QED
    BY <2>1, <2>2
<1>5. ASSUME NEW j \in DOMAIN left
      PROVE  /\ new[j] \in OrganismType /\ new[j].old
             /\ new[j].genome = left[j].genome /\ new[j].super = left[j].super
  <2>1. PICK o \in OrganismType : o = left[j] /\ o.old
    BY <1>4
  <2>2. new[j] = [o EXCEPT !.fitness = 0, !.share = 0]
    BY <2>1
  <2> HIDE DEF new
  <2>3. new[j] \in OrganismType
    BY <2>2, ResetTyped
  <2>7. /\ [o EXCEPT !.fitness = 0, !.share = 0].genome = o.genome
        /\ [o EXCEPT !.fitness = 0, !.share = 0].super = o.super
    BY Zenon DEF OrganismType
  <2>4. [o EXCEPT !.fitness = 0, !.share = 0].old = o.old
    BY Zenon DEF OrganismType
  <2>5. QED
    BY <2>1, <2>2, <2>3, <2>4, <2>7
<1>6. new \in [1..Len(left) -> OrganismType] /\ DOMAIN new = 1..Len(left)
  BY <1>4, <1>5
<1> HIDE DEF new
<1>7. [s EXCEPT !.organisms = new] \in SpeciesType /\ new \in Seq(OrganismType) \ {<<>>}
      /\ Len(new) = Len(left)
  BY <1>4, <1>6, OtherOrganisms
<1>8. k = [s EXCEPT !.room = n, !.organisms = new]
  BY DEF Killed, new, left
<1> HIDE DEF k, n
<1>9. /\ k \in SpeciesType /\ k.expected = s.expected /\ k.room = n /\ k.organisms = new
  BY <1>1, <1>7, <1>8 DEF SpeciesType
<1>10. \A j \in DOMAIN k.organisms : k.organisms[j].old
  BY <1>4, <1>5, <1>6, <1>9
<1>11. First(k).genome = First(s).genome /\ First(k).super = First(s).super
  BY <1>3, <1>4, <1>5, <1>9 DEF First
<1>12. Young(k) = {}
  BY <1>10 DEF Young
<1>13. Left(s, k)
  BY <1>2, <1>3, <1>7, <1>9, <1>10, <1>11, <1>12 DEF Left, n
<1>14. QED
  BY <1>13 DEF k

(* What the step of the killing makes.                                     *)
LEMMA KillMakes ==
  ASSUME EpochInv, Kill
  PROVE  /\ species' \in Seq(SpeciesType) /\ species' # <<>> /\ Len(species') = Len(species)
         /\ DOMAIN species' = DOMAIN species
         /\ \A i \in DOMAIN species : Left(species[i], species'[i])
<1>1. species \in Seq(SpeciesType) /\ species # <<>> /\ \A i \in DOMAIN species : Marked(species[i])
  BY DEF EpochInv, EpochTypeOK, InTurn, Kill
<1>2. species' = [i \in DOMAIN species |-> Killed(species[i])]
  BY DEF Kill, Killed
<1>3. \A i \in DOMAIN species : species[i] \in SpeciesType
  BY <1>1
<1>4. \A i \in DOMAIN species : Left(species[i], species'[i])
  BY <1>1, <1>2, <1>3, ParentsLive
<1>5. species' = [i \in DOMAIN species |-> species'[i]]
  BY <1>2
<1>6. \A i \in DOMAIN species : species'[i] \in SpeciesType
  BY <1>4 DEF Left
<1>7. QED
  BY <1>1, <1>4, <1>5, <1>6, Mapped

(* Killing keeps the invariant: nobody is young yet.                       *)
LEMMA KillKeeps == EpochInv /\ Kill => EpochInv'
<1> SUFFICES ASSUME EpochInv, Kill
             PROVE  EpochInv'
  OBVIOUS
<1>1. /\ species' \in Seq(SpeciesType) /\ species' # <<>> /\ Len(species') = Len(species)
      /\ DOMAIN species' = DOMAIN species
      /\ \A i \in DOMAIN species : Left(species[i], species'[i])
  BY KillMakes
<1>2. /\ phase = "kill" /\ phase' = "reproduce" /\ turn = Idle
      /\ UNCHANGED <<generation, last_species, babies_stolen, highest_fitness,
                     highest_last_changed, turn, seen>>
  BY DEF Kill, EpochInv, InTurn
<1>3. EpochTypeOK'
  BY <1>1, <1>2 DEF EpochInv, EpochTypeOK
<1>4. Whole' = Whole /\ SizeOf(species)' = SizeOf(species') /\ Expected(species)' = Expected(species')
  BY <1>2 DEF Whole, SizeOf, Expected
<1>5. Expected(species') = Expected(species)
  <2>1. \A i \in DOMAIN species : species'[i].expected = species[i].expected
    BY <1>1 DEF Left
  <2>2. QED
    BY <1>1, <2>1, SameExpected
<1>6. SumFunction(BabiesOf(species')) = 0
  <2>1. DOMAIN BabiesOf(species') = DOMAIN species' /\ IsFiniteSet(DOMAIN species')
    BY <1>1, Numbers DEF BabiesOf
  <2>2. \A i \in DOMAIN species' : BabiesOf(species')[i] = 0
    BY <1>1, FS_EmptySet DEF Left, BabiesOf
  <2>3. SumFunctionOnSet(BabiesOf(species'), DOMAIN species')
          = SumFunctionOnSet(BabiesOf(species'), {})
    BY <2>1, <2>2, SumWithout
  <2>4. SumFunctionOnSet(BabiesOf(species'), {}) = 0
    <3>1. Summed(BabiesOf(species'), {})
      BY SumParts, FS_EmptySet
    <3>2. QED
      BY <3>1 DEF Summed
  <2>5. QED
    BY <2>1, <2>3, <2>4 DEF SumFunction
<1>7. SumFunctionOnSet(ExpectedOf(species'), 1..turn'.at - 1) + turn'.count = 0
  <2>1. turn'.at = 0 /\ turn'.count = 0 /\ 1..0 - 1 = {}
    BY <1>2 DEF Idle
  <2>2. SumFunctionOnSet(ExpectedOf(species'), {}) = 0
    <3>1. Summed(ExpectedOf(species'), {})
      BY SumParts, FS_EmptySet
    <3>2. QED
      BY <3>1 DEF Summed
  <2>3. QED
    BY <2>1, <2>2
<1>8. Accounted'
  BY <1>2, <1>4, <1>5, <1>6, <1>7 DEF EpochInv, Accounted, BabiesOf, ExpectedOf
<1>9. InTurn'
  BY <1>2 DEF EpochInv, InTurn, Idle
<1>10. QED
  BY <1>3, <1>8, <1>9 DEF EpochInv

-----------------------------------------------------------------------------
(* Sharing: babies are moved between species, and the first organism of a  *)
(* species may become a super champ; nothing else of a species changes     *)
(* that the next generation is made of.                                    *)
SameMembers(s, k) ==
  /\ Len(k.organisms) = Len(s.organisms) /\ DOMAIN k.organisms = DOMAIN s.organisms
  /\ \A j \in DOMAIN s.organisms : /\ k.organisms[j].genome = s.organisms[j].genome
                                   /\ k.organisms[j].old = s.organisms[j].old
                                   /\ k.organisms[j].eliminate = s.organisms[j].eliminate
Promised(s, k, x) == k \in SpeciesType /\ SameMembers(s, k) /\ k.expected = x

(* An organism made a super champ is the same organism otherwise.          *)
LEMMA SuperTyped ==
  ASSUME NEW o \in OrganismType, NEW n \in Nat, NEW p, p = [o EXCEPT !.super = n]
  PROVE  /\ p \in OrganismType /\ p.genome = o.genome /\ p.super = n
         /\ p.old = o.old /\ p.eliminate = o.eliminate
<1>1. p \in OrganismType
  BY DEF OrganismType
<1>2. p.genome = o.genome /\ p.old = o.old /\ p.eliminate = o.eliminate
  BY Zenon DEF OrganismType
<1>3. p.super = n
  BY DEF OrganismType
<1>4. QED
  BY <1>1, <1>2, <1>3

(* A species that only expects another number of babies.                   *)
LEMMA ExpectsOther ==
  ASSUME NEW s \in SpeciesType, NEW x \in Nat, NEW k, k = [s EXCEPT !.expected = x]
  PROVE  Promised(s, k, x)
<1>1. k \in SpeciesType /\ k.expected = x /\ k.organisms = s.organisms
  BY DEF SpeciesType
<1>2. QED
  BY <1>1 DEF Promised, SameMembers

(* A species whose first organism becomes a super champ.                   *)
LEMMA SuperSpecies ==
  ASSUME NEW s \in SpeciesType, NEW n \in Nat, NEW k, k = [s EXCEPT !.organisms[1].super = n]
  PROVE  Promised(s, k, s.expected)
<1>1. /\ s.organisms \in Seq(OrganismType) /\ 1 \in DOMAIN s.organisms
      /\ Len(s.organisms) \in Nat \ {0} /\ DOMAIN s.organisms = 1..Len(s.organisms)
      /\ \A j \in DOMAIN s.organisms : s.organisms[j] \in OrganismType
  BY YoungFinite
<1>2. PICK os, m : os = s.organisms /\ m = Len(s.organisms)
  OBVIOUS
<1>3. PICK p : p = [os[1] EXCEPT !.super = n]
  OBVIOUS
<1>4. p \in OrganismType /\ p.genome = os[1].genome /\ p.old = os[1].old
      /\ p.eliminate = os[1].eliminate
  BY <1>1, <1>2, <1>3, SuperTyped
<1>5. PICK new : new = [os EXCEPT ![1] = p]
  OBVIOUS
<1>6. k = [s EXCEPT !.organisms = new]
  BY <1>2, <1>3, <1>5 DEF SpeciesType
<1>7. /\ new \in [1..m -> OrganismType] /\ DOMAIN new = DOMAIN os
      /\ \A j \in DOMAIN os : new[j] = IF j = 1 THEN p ELSE os[j]
  BY <1>1, <1>2, <1>4, <1>5
<1>8. [s EXCEPT !.organisms = new] \in SpeciesType /\ Len(new) = m
  BY <1>1, <1>2, <1>7, OtherOrganisms
<1>9. k.organisms = new /\ k.expected = s.expected
  BY <1>6, Zenon DEF SpeciesType
<1>10. SameMembers(s, k)
  BY <1>2, <1>4, <1>7, <1>8, <1>9 DEF SameMembers
<1>11. QED
  BY <1>6, <1>8, <1>9, <1>10 DEF Promised

(* A species that improved at another age.                                 *)
LEMMA ImprovedSpecies ==
  ASSUME NEW s \in SpeciesType, NEW x \in Nat, NEW k, k = [s EXCEPT !.improved = x]
  PROVE  Promised(s, k, s.expected)
<1>1. k \in SpeciesType /\ k.expected = s.expected /\ k.organisms = s.organisms
  BY DEF SpeciesType
<1>2. QED
  BY <1>1 DEF Promised, SameMembers

(* What is promised after a promise.                                       *)
LEMMA PromisedTwice ==
  ASSUME NEW s, NEW k, NEW m, NEW x, NEW y, Promised(s, k, x), Promised(k, m, y)
  PROVE  Promised(s, m, y)
BY DEF Promised, SameMembers

(* A population of the same members, whose species expect d babies more.   *)
Reshared(all, new, d) ==
  /\ new \in Seq(SpeciesType) /\ DOMAIN new = DOMAIN all /\ Len(new) = Len(all)
  /\ \A i \in DOMAIN all : SameMembers(all[i], new[i])
  /\ Expected(new) = Expected(all) + d

(* One species that expects another number changes the sum by as much.     *)
LEMMA OnePromised ==
  ASSUME NEW all \in Seq(SpeciesType), NEW i \in DOMAIN all, NEW x \in Nat, NEW k,
         Promised(all[i], k, x), NEW new, new = [all EXCEPT ![i] = k]
  PROVE  Reshared(all, new, x - all[i].expected) /\ new[i] = k
<1>1. /\ Len(all) \in Nat /\ DOMAIN all = 1..Len(all) /\ IsFiniteSet(DOMAIN all)
      /\ ExpectedOf(all) \in [DOMAIN all -> Nat]
      /\ Expected(all) = SumFunctionOnSet(ExpectedOf(all), DOMAIN all)
  BY Numbers
<1>2. /\ new \in Seq(SpeciesType) /\ Len(new) = Len(all) /\ DOMAIN new = DOMAIN all
      /\ \A j \in DOMAIN all : new[j] = IF j = i THEN k ELSE all[j]
  BY DEF Promised
<1>3. /\ ExpectedOf(new) \in [DOMAIN new -> Nat]
      /\ Expected(new) = SumFunctionOnSet(ExpectedOf(new), DOMAIN new)
  BY <1>2, Numbers
<1>4. PICK f \in [DOMAIN all -> Nat], g \in [DOMAIN all -> Nat] :
        f = ExpectedOf(all) /\ g = ExpectedOf(new)
  BY <1>1, <1>2, <1>3
<1>5. /\ f[i] = all[i].expected /\ g[i] = x
      /\ \A j \in DOMAIN all : j # i => g[j] = f[j]
  BY <1>2, <1>4 DEF ExpectedOf, Promised
<1>6. SumFunctionOnSet(g, DOMAIN all) = SumFunctionOnSet(f, DOMAIN all) + (g[i] - f[i])
  <2>1. PICK S : S = DOMAIN all /\ IsFiniteSet(S) /\ i \in S
    BY <1>1
  <2>2. \A j \in S : f[j] \in Int /\ g[j] \in Int /\ (j # i => g[j] = f[j])
    BY <1>5, <2>1
  <2>3. SumFunctionOnSet(g, S) = SumFunctionOnSet(f, S) + (g[i] - f[i])
    BY <2>1, <2>2, SumChanged
  <2>4. QED
    BY <2>1, <2>3
<1>7. Expected(new) = Expected(all) + (x - all[i].expected)
  BY <1>1, <1>2, <1>3, <1>4, <1>5, <1>6
<1>8. \A j \in DOMAIN all : SameMembers(all[j], new[j])
  BY <1>2 DEF Promised, SameMembers
<1>9. QED
  BY <1>2, <1>7, <1>8 DEF Reshared

(* Two changes after each other.                                           *)
LEMMA ResharedTwice ==
  ASSUME NEW all, NEW new, NEW last, NEW d \in Int, NEW e \in Int, Expected(all) \in Int,
         Reshared(all, new, d), Reshared(new, last, e)
  PROVE  Reshared(all, last, d + e)
<1>1. \A i \in DOMAIN all : SameMembers(all[i], last[i])
  BY DEF Reshared, SameMembers
<1>2. Expected(last) = Expected(all) + (d + e)
  BY DEF Reshared
<1>3. QED
  BY <1>1, <1>2 DEF Reshared

(* A species whose first organism becomes a super champ of n babies while  *)
(* it expects x.                                                           *)
LEMMA SuperAt ==
  ASSUME NEW all \in Seq(SpeciesType), NEW i \in DOMAIN all, NEW n \in Nat, NEW x \in Nat,
         NEW new, new = [all EXCEPT ![i].expected = x, ![i].organisms[1].super = n]
  PROVE  Reshared(all, new, x - all[i].expected)
<1>1. PICK s \in SpeciesType : s = all[i]
  OBVIOUS
<1>2. PICK k : k = [s EXCEPT !.expected = x]
  OBVIOUS
<1>3. Promised(s, k, x) /\ k \in SpeciesType
  BY <1>2, ExpectsOther DEF Promised
<1>4. PICK m : m = [k EXCEPT !.organisms[1].super = n]
  OBVIOUS
<1>5. Promised(k, m, k.expected) /\ k.expected = x
  BY <1>3, <1>4, SuperSpecies DEF Promised
<1>6. Promised(s, m, x)
  BY <1>3, <1>5, PromisedTwice
<1>7. new = [all EXCEPT ![i] = m]
  BY <1>1, <1>2, <1>4
<1>8. QED
  BY <1>1, <1>6, <1>7, OnePromised

(* A species made to work for its super champ.                             *)
LEMMA SuperIs ==
  ASSUME NEW all \in Seq(SpeciesType), NEW i \in DOMAIN all, NEW n \in Nat
  PROVE  /\ Reshared(all, Super(all, i, n), n - all[i].expected)
         /\ Super(all, i, n)[i].expected = n
         /\ \A j \in DOMAIN all : j # i => Super(all, i, n)[j] = all[j]
<1>1. PICK s \in SpeciesType : s = all[i]
  OBVIOUS
<1>2. PICK k : k = [s EXCEPT !.organisms[1].super = n]
  OBVIOUS
<1>3. Promised(s, k, s.expected) /\ k \in SpeciesType
  BY <1>2, SuperSpecies DEF Promised
<1>4. PICK l : l = [k EXCEPT !.expected = n]
  OBVIOUS
<1>5. Promised(k, l, n) /\ l \in SpeciesType
  BY <1>3, <1>4, ExpectsOther DEF Promised
<1>6. PICK m : m = [l EXCEPT !.improved = s.age]
  OBVIOUS
<1>7. Promised(l, m, n)
  <2>1. s.age \in Nat /\ l.expected = n
    BY <1>5 DEF SpeciesType, Promised
  <2>2. Promised(l, m, l.expected)
    BY <1>5, <1>6, <2>1, ImprovedSpecies
  <2>3. QED
    BY <2>1, <2>2
<1>8. Promised(s, m, n)
  BY <1>3, <1>5, <1>7, PromisedTwice
<1>9. Super(all, i, n) = [all EXCEPT ![i] = m]
  BY <1>1, <1>2, <1>4, <1>6 DEF Super
<1>10. PICK new : new = Super(all, i, n)
  OBVIOUS
<1>11. Reshared(all, new, n - all[i].expected) /\ new[i] = m
  BY <1>1, <1>8, <1>9, <1>10, OnePromised
<1>12. \A j \in DOMAIN all : j # i => new[j] = all[j]
  BY <1>9, <1>10
<1>13. QED
  BY <1>8, <1>10, <1>11, <1>12 DEF Promised

-----------------------------------------------------------------------------
(* Delta coding gives the whole population to the two best species, or a   *)
(* half of it to a single one.                                             *)
LEMMA CodedOne ==
  ASSUME NEW all \in Seq(SpeciesType), Len(all) = 1, NEW order, Len(order) = 1,
         pop_size \in Nat, NEW rest \in Nat, rest = pop_size - Half
  PROVE  /\ Reshared(all, DeltaCoding(all, order), rest - Expected(all))
         /\ Expected(all) \in Nat
<1>1. 1 \in DOMAIN all /\ DOMAIN all = 1..1 /\ Expected(all) \in Nat /\ all[1] \in SpeciesType
  BY Numbers
<1>2. PICK two : two = Super(all, 1, pop_size)
  OBVIOUS
<1>3. Reshared(all, two, pop_size - all[1].expected) /\ two[1].expected = pop_size
  BY <1>1, <1>2, SuperIs
<1>4. two \in Seq(SpeciesType) /\ 1 \in DOMAIN two
  BY <1>1, <1>3 DEF Reshared
<1>5. PICK s \in SpeciesType : s = two[1]
  BY <1>4
<1>6. PICK k : k = [s EXCEPT !.expected = rest]
  OBVIOUS
<1>7. PICK new : new = [two EXCEPT ![1] = k]
  OBVIOUS
<1>8. Promised(two[1], k, rest)
  BY <1>5, <1>6, ExpectsOther
<1>9. Reshared(two, new, rest - pop_size)
  BY <1>3, <1>4, <1>7, <1>8, OnePromised
<1>10. new = DeltaCoding(all, order)
  BY <1>2, <1>5, <1>6, <1>7 DEF DeltaCoding
<1>11. ExpectedOf(all) \in [DOMAIN all -> Nat] /\ Expected(all) = SumFunctionOnSet(ExpectedOf(all), 1..1)
  BY <1>1, Numbers
<1>12. PICK f \in [1..1 -> Nat] : f = ExpectedOf(all)
  BY <1>1, <1>11
<1>13. SumFunctionOnSet(f, 1..1) = f[1]
  <2>1. /\ SumFunctionOnSet(f, 1..0) = 0
        /\ SumFunctionOnSet(f, 1..1) = SumFunctionOnSet(f, 1..1 - 1) + f[1]
    BY SumGrows
  <2>2. QED
    BY <2>1
<1>14. Expected(all) = all[1].expected
  BY <1>1, <1>11, <1>12, <1>13 DEF ExpectedOf
<1>15. PICK x \in Nat : x = Expected(all)
  BY <1>1
<1>16. Reshared(all, new, (pop_size - x) + (rest - pop_size))
  BY <1>3, <1>9, <1>14, <1>15, ResharedTwice
<1>17. (pop_size - x) + (rest - pop_size) = rest - x
  OBVIOUS
<1>18. QED
  BY <1>10, <1>15, <1>16, <1>17

(* Half to one, the rest to the other, nothing to any other.               *)
Coded(all, new, one, other, rest) ==
  /\ new \in Seq(SpeciesType) /\ DOMAIN new = DOMAIN all /\ Len(new) = Len(all)
  /\ \A i \in DOMAIN all : SameMembers(all[i], new[i])
  /\ new[one].expected = Half /\ new[other].expected = rest
  /\ \A i \in DOMAIN all : i # one /\ i # other => new[i].expected = 0

(* Under delta coding the population is promised to the two best species.  *)
LEMMA CodedShares ==
  ASSUME NEW all \in Seq(SpeciesType), NEW order, Len(order) # 1,
         NEW one \in DOMAIN all, NEW other \in DOMAIN all, one # other,
         one = order[1], other = order[2], Half \in Nat,
         NEW rest \in Nat, rest = pop_size - Half
  PROVE  Coded(all, DeltaCoding(all, order), one, other, rest)
<1>1. PICK a : a = Super(all, one, Half)
  OBVIOUS
<1>2. /\ Reshared(all, a, Half - all[one].expected) /\ a[one].expected = Half
      /\ a \in Seq(SpeciesType) /\ DOMAIN a = DOMAIN all
  BY <1>1, SuperIs DEF Reshared
<1>3. PICK b : b = Super(a, other, rest)
  OBVIOUS
<1>4. /\ Reshared(a, b, rest - a[other].expected) /\ b[other].expected = rest
      /\ \A j \in DOMAIN a : j # other => b[j] = a[j]
  BY <1>2, <1>3, SuperIs
<1>5. b \in Seq(SpeciesType) /\ DOMAIN b = DOMAIN all /\ b[one].expected = Half
  BY <1>2, <1>4 DEF Reshared
<1>6. \A i \in DOMAIN all : SameMembers(all[i], b[i])
  BY <1>2, <1>4, SMTT(40) DEF Reshared, SameMembers
<1>7. PICK new : new = [i \in DOMAIN all |-> IF i \in {one, other} THEN b[i]
                                             ELSE [all[i] EXCEPT !.expected = 0]]
  OBVIOUS
<1>8. new = DeltaCoding(all, order)
  BY <1>1, <1>3, <1>7 DEF DeltaCoding
<1>9. ASSUME NEW i \in DOMAIN all
      PROVE  /\ new[i] \in SpeciesType /\ SameMembers(all[i], new[i])
             /\ i # one /\ i # other => new[i].expected = 0
  <2>1. CASE i \in {one, other}
    BY <1>5, <1>6, <1>7, <2>1
  <2>2. CASE i \notin {one, other}
    <3>1. PICK s \in SpeciesType : s = all[i]
      OBVIOUS
    <3>2. PICK k : k = [s EXCEPT !.expected = 0]
      OBVIOUS
    <3>3. Promised(s, k, 0)
      BY <3>2, ExpectsOther
    <3>4. new[i] = k
      BY <1>7, <2>2, <3>1, <3>2
    <3>5. QED
      BY <3>1, <3>3, <3>4 DEF Promised
  <2>3. QED
    BY <2>1, <2>2
<1>10. new[one].expected = Half /\ new[other].expected = rest
  BY <1>4, <1>5, <1>7
<1>11. new \in Seq(SpeciesType) /\ Len(new) = Len(all) /\ DOMAIN new = DOMAIN all
  <2>1. new = [i \in DOMAIN all |-> new[i]]
    BY <1>7
  <2>2. QED
    BY <1>9, <2>1, Mapped
<1>12. QED
  BY <1>8, <1>9, <1>10, <1>11 DEF Coded

(* ... which together is the population.                                   *)
LEMMA CodedTwo ==
  ASSUME NEW all \in Seq(SpeciesType), NEW new, NEW one \in DOMAIN all, NEW other \in DOMAIN all,
         one # other, Half \in Nat, NEW rest \in Nat, rest = pop_size - Half, pop_size \in Nat,
         Coded(all, new, one, other, rest)
  PROVE  Reshared(all, new, pop_size - Expected(all)) /\ Expected(all) \in Nat
<1>1. new \in Seq(SpeciesType) /\ DOMAIN new = DOMAIN all
  BY DEF Coded
<1>2. /\ IsFiniteSet(DOMAIN all) /\ ExpectedOf(new) \in [DOMAIN all -> Nat]
      /\ Expected(new) = SumFunctionOnSet(ExpectedOf(new), DOMAIN all) /\ Expected(all) \in Nat
  BY <1>1, Numbers
<1>3. PICK f \in [DOMAIN all -> Nat] : f = ExpectedOf(new)
  BY <1>2
<1>4. f[one] = Half /\ f[other] = rest /\ \A i \in DOMAIN all \ {one, other} : f[i] = 0
  BY <1>1, <1>3 DEF Coded, ExpectedOf
<1>5. \A i \in DOMAIN all : f[i] \in Int
  OBVIOUS
<1>6. SumFunctionOnSet(f, DOMAIN all) = SumFunctionOnSet(f, {one, other})
  BY <1>2, <1>4, <1>5, SumWithout
<1>7. Summed(f, {one, other})
  <2>1. IsFiniteSet({one, other}) /\ \A x \in {one, other} : f[x] \in Int
    BY <1>2, <1>5, FS_Subset
  <2>2. QED
    BY <2>1, SumParts
<1>8. /\ SumFunctionOnSet(f, {one, other}) = f[one] + SumFunctionOnSet(f, {one, other} \ {one})
      /\ SumFunctionOnSet(f, {other}) = f[other] + SumFunctionOnSet(f, {other} \ {other})
      /\ SumFunctionOnSet(f, {}) = 0
  BY <1>7 DEF Summed
<1>9. {one, other} \ {one} = {other} /\ {other} \ {other} = {}
  OBVIOUS
<1>10. SumFunctionOnSet(f, {one, other}) = pop_size
  <2>1. SumFunctionOnSet(f, {one, other}) = f[one] + SumFunctionOnSet(f, {other})
    BY <1>8, <1>9, Zenon
  <2>2. SumFunctionOnSet(f, {other}) = f[other] + SumFunctionOnSet(f, {})
    BY <1>8, <1>9, Zenon
  <2>3. QED
    BY <1>4, <1>8, <2>1, <2>2
<1>11. Expected(new) = pop_size
  BY <1>2, <1>3, <1>6, <1>10
<1>12. QED
  BY <1>2, <1>11 DEF Coded, Reshared

-----------------------------------------------------------------------------
(* What has been stolen and not been given is what the species together    *)
(* expect less.                                                            *)
Takings(all) == {q \in [all : Seq(SpeciesType), stolen : Nat] : Reshared(all, q.all, 0 - q.stolen)}

(* A species that is old enough keeps one baby.                            *)
LEMMA StealTakes ==
  ASSUME NEW all \in Seq(SpeciesType), NEW q \in Takings(all), NEW i \in DOMAIN all,
         babies_stolen \in Nat
  PROVE  Steal(q, i) \in Takings(all)
<1>1. PICK a \in Seq(SpeciesType), v \in Nat : a = q.all /\ v = q.stolen
  BY DEF Takings
<1>2. Reshared(all, a, 0 - v) /\ i \in DOMAIN a
  BY <1>1 DEF Takings, Reshared
<1>3. PICK s \in SpeciesType : s = a[i]
  BY <1>2
<1>4. PICK x \in Nat, want \in Int : x = s.expected /\ want = babies_stolen - v
  BY DEF SpeciesType
<1>5. CASE want > 0 /\ s.age > 5 /\ x > 2
  <2>1. PICK some \in Nat : some = (IF x - 1 >= want THEN want ELSE x - 1) /\ some <= x
    <3>1. CASE x - 1 >= want
      <4>1. want \in Nat /\ want <= x
        BY <1>5, <3>1
      <4>2. QED
        BY <3>1, <4>1
    <3>2. CASE ~(x - 1 >= want)
      <4>1. x - 1 \in Nat /\ x - 1 <= x
        BY <1>5
      <4>2. QED
        BY <3>2, <4>1
    <3>3. QED
      BY <3>1, <3>2
  <2>2. PICK y \in Nat : y = x - some
    <3>1. some <= x
      BY <2>1
    <3>2. x - some \in Nat
      BY <3>1
    <3>3. QED
      BY <3>2
  <2>3. PICK k : k = [s EXCEPT !.expected = y]
    OBVIOUS
  <2>4. PICK new : new = [a EXCEPT ![i] = k]
    OBVIOUS
  <2>5. Promised(s, k, y)
    BY <2>3, ExpectsOther
  <2>6. Reshared(a, new, y - x)
    BY <1>2, <1>3, <1>4, <2>4, <2>5, OnePromised
  <2>7. Expected(all) \in Int
    BY Numbers
  <2>8. Reshared(all, new, (0 - v) + (y - x))
    BY <1>2, <2>6, <2>7, ResharedTwice
  <2>9. (0 - v) + (y - x) = 0 - (v + some) /\ v + some \in Nat
    BY <2>2
  <2>10. PICK w \in Nat : w = v + some
    BY <2>9
  <2>11. Reshared(all, new, 0 - w) /\ new \in Seq(SpeciesType)
    BY <2>8, <2>9, <2>10 DEF Reshared
  <2>12. Steal(q, i) = [all |-> new, stolen |-> w]
    <3>1. [a EXCEPT ![i].expected = @ - some] = new
      BY <1>3, <1>4, <2>2, <2>3, <2>4
    <3>2. Steal(q, i) = [all |-> [a EXCEPT ![i].expected = @ - some], stolen |-> v + some]
      BY <1>1, <1>3, <1>4, <1>5, <2>1 DEF Steal
    <3>3. QED
      BY <2>10, <3>1, <3>2
  <2>13. QED
    BY <2>11, <2>12 DEF Takings
<1>6. CASE ~(want > 0 /\ s.age > 5 /\ x > 2)
  <2>1. Steal(q, i) = q
    BY <1>1, <1>3, <1>4, <1>6 DEF Steal
  <2>2. QED
    BY <2>1
<1>7. QED
  BY <1>5, <1>6

(* A gift is not more than there is.                                       *)
LEMMA GiftIs ==
  ASSUME NEW q, q.stolen \in Nat, q.stage \in Nat, babies_stolen \in Nat
  PROVE  Gift(q) \in Nat /\ Gift(q) <= q.stolen
<1>1. PICK v \in Nat : v = q.stolen
  OBVIOUS
<1>2. PICK f \in Nat, t \in Nat : f = babies_stolen \div 5 /\ t = babies_stolen \div 10
  <2>1. babies_stolen \div 5 \in Nat /\ babies_stolen \div 10 \in Nat
    OBVIOUS
  <2>2. QED
    BY <2>1
<1>3. Min({3, v}) \in Nat /\ Min({3, v}) <= v
  <2>1. \E x \in {3, v} : \A y \in {3, v} : x <= y
    <3>1. CASE v <= 3
      BY <3>1
    <3>2. CASE v > 3
      BY <3>2
    <3>3. QED
      BY <3>1, <3>2
  <2>2. Min({3, v}) \in {3, v} /\ \A y \in {3, v} : Min({3, v}) <= y
    BY <2>1 DEF Min
  <2>3. QED
    BY <2>2
<1>4. /\ Fifth(q) => v >= f
      /\ Tenth(q) => v >= t
      /\ Gift(q) = IF Fifth(q) THEN f ELSE IF Tenth(q) THEN t ELSE Min({3, v})
  BY <1>1, <1>2 DEF Gift, Fifth, Tenth
<1>5. QED
  <2>1. CASE Fifth(q)
    BY <1>1, <1>4, <2>1
  <2>2. CASE ~Fifth(q) /\ Tenth(q)
    BY <1>1, <1>4, <2>2
  <2>3. CASE ~Fifth(q) /\ ~Tenth(q)
    BY <1>1, <1>3, <1>4, <2>3
  <2>4. QED
    BY <2>1, <2>2, <2>3

(* What is left in the pot has been taken and not been given.              *)
Givings(all, pot) == {q \in [all : Seq(SpeciesType), stolen : Nat, stage : Nat] :
                        Reshared(all, q.all, pot - q.stolen)}

(* A species still improving gets its gift out of the pot.                 *)
LEMMA GiveGives ==
  ASSUME NEW all \in Seq(SpeciesType), NEW pot \in Nat, NEW q \in Givings(all, pot),
         NEW i \in DOMAIN all, babies_stolen \in Nat
  PROVE  Give(q, i) \in Givings(all, pot)
<1>1. PICK a \in Seq(SpeciesType), v \in Nat, st \in Nat : a = q.all /\ v = q.stolen /\ st = q.stage
  BY DEF Givings
<1>2. Reshared(all, a, pot - v) /\ i \in DOMAIN a
  BY <1>1 DEF Givings, Reshared
<1>3. PICK s \in SpeciesType : s = a[i]
  BY <1>2
<1>4. PICK g \in Nat : g = Gift(q) /\ g <= v
  BY <1>1, GiftIs
<1>5. CASE s.age - s.improved > dropoff_age
  <2>1. Give(q, i) = q
    BY <1>1, <1>3, <1>5 DEF Give
  <2>2. QED
    BY <2>1
<1>6. CASE ~(s.age - s.improved > dropoff_age)
  <2>1. PICK x \in Nat : x = s.expected
    BY DEF SpeciesType
  <2>2. PICK y \in Nat : y = x + g
    OBVIOUS
  <2>3. PICK new : new = [a EXCEPT ![i].expected = y, ![i].organisms[1].super = g]
    OBVIOUS
  <2>4. Reshared(a, new, y - x)
    BY <1>2, <1>3, <2>1, <2>3, SuperAt
  <2>5. Expected(all) \in Int
    BY Numbers
  <2>6. Reshared(all, new, (pot - v) + (y - x))
    BY <1>2, <2>4, <2>5, ResharedTwice
  <2>7. PICK w \in Nat : w = v - g
    BY <1>4
  <2>8. (pot - v) + (y - x) = pot - w
    BY <2>2, <2>7
  <2>9. Reshared(all, new, pot - w) /\ new \in Seq(SpeciesType)
    BY <2>6, <2>8 DEF Reshared
  <2>10. PICK stage \in Nat : stage = (IF Fifth(q) THEN st + 1 ELSE 4)
    OBVIOUS
  <2>11. Give(q, i) = [all |-> new, stolen |-> w, stage |-> stage]
    <3>1. Give(q, i) = [all |-> [a EXCEPT ![i].expected = @ + g, ![i].organisms[1].super = g],
                        stolen |-> v - g, stage |-> IF Fifth(q) THEN st + 1 ELSE 4]
      BY <1>1, <1>3, <1>4, <1>6 DEF Give
    <3>2. [a EXCEPT ![i].expected = @ + g, ![i].organisms[1].super = g] = new
      BY <1>3, <2>1, <2>2, <2>3
    <3>3. QED
      BY <2>7, <2>10, <3>1, <3>2
  <2>12. QED
    BY <2>9, <2>11 DEF Givings
<1>7. QED
  BY <1>5, <1>6

(* The first species takes what no species took.                           *)
LEMMA RestGiven ==
  ASSUME NEW all \in Seq(SpeciesType), NEW pot \in Nat, NEW q \in Givings(all, pot),
         NEW i \in DOMAIN all
  PROVE  Reshared(all, GiveRest(q, i), pot)
<1>1. PICK a \in Seq(SpeciesType), v \in Nat : a = q.all /\ v = q.stolen
  BY DEF Givings
<1>2. Reshared(all, a, pot - v) /\ i \in DOMAIN a
  BY <1>1 DEF Givings, Reshared
<1>3. PICK s \in SpeciesType : s = a[i]
  BY <1>2
<1>4. PICK x \in Nat, n \in Nat : x = s.expected /\ n = s.organisms[1].super
  <2>1. s.expected \in Nat /\ s.organisms[1] \in OrganismType
    BY YoungFinite DEF SpeciesType
  <2>2. QED
    BY <2>1 DEF OrganismType
<1>5. PICK y \in Nat, m \in Nat : y = x + v /\ m = n + v
  OBVIOUS
<1>6. PICK new : new = [a EXCEPT ![i].expected = y, ![i].organisms[1].super = m]
  OBVIOUS
<1>7. Reshared(a, new, y - x)
  BY <1>2, <1>3, <1>4, <1>6, SuperAt
<1>8. Expected(all) \in Int
  BY Numbers
<1>9. Reshared(all, new, (pot - v) + (y - x))
  BY <1>2, <1>7, <1>8, ResharedTwice
<1>10. (pot - v) + (y - x) = pot
  BY <1>5
<1>11. GiveRest(q, i) = new
  <2>1. GiveRest(q, i) = [a EXCEPT ![i].expected = @ + v, ![i].organisms[1].super = @ + v]
    BY <1>1 DEF GiveRest
  <2>2. a[i].expected + v = y /\ a[i].organisms[1].super + v = m
    BY <1>3, <1>4, <1>5
  <2>3. QED
    BY <1>6, <2>1, <2>2, Zenon
<1>12. QED
  BY <1>9, <1>10, <1>11

(* Nothing is lost on the way.                                             *)
LEMMA StolenShared ==
  ASSUME NEW all \in Seq(SpeciesType), NEW n \in Nat \ {0}, DOMAIN all = 1..n,
         NEW order \in [1..n -> 1..n], babies_stolen \in Nat
  PROVE  Reshared(all, StolenBabies(all, order), 0)
<1>1. Expected(all) \in Int /\ Reshared(all, all, 0)
  <2>1. Expected(all) \in Nat
    BY Numbers
  <2>2. Expected(all) = Expected(all) + 0
    BY <2>1
  <2>3. QED
    BY <2>1, <2>2 DEF Reshared, SameMembers
<1>2. PICK l \in Nat, seq \in {Reverse(Tail(order))} : seq = Reverse(Tail(order)) /\ DOMAIN seq = 1..l /\ seq \in [1..l -> 1..n]
  <2>1. order \in Seq(1..n) /\ order # <<>> /\ Len(order) = n
    OBVIOUS
  <2>2. PICK tail \in Seq(1..n) : tail = Tail(order)
    BY <2>1, HeadTailProperties
  <2>3. PICK l \in Nat : l = Len(tail) /\ DOMAIN tail = 1..l /\ tail \in [1..l -> 1..n]
    BY <2>2, LenProperties
  <2>4. Reverse(tail) = [j \in 1..l |-> tail[(l - j) + 1]]
    BY <2>3 DEF Reverse
  <2>5. \A j \in 1..l : (l - j) + 1 \in 1..l
    OBVIOUS
  <2>6. Reverse(tail) \in [1..l -> 1..n]
    BY <2>3, <2>4, <2>5
  <2>7. QED
    BY <2>2, <2>6
<1>3. PICK first : first = [all |-> all, stolen |-> 0]
  OBVIOUS
<1>4. first \in Takings(all)
  BY <1>1, <1>3 DEF Takings
<1>5. PICK t \in [0..l -> Takings(all)] : StealSteps(t, l, first, seq)
  <2>1. \A i \in 1..l : \A q \in Takings(all) : Steal(q, seq[i]) \in Takings(all)
    BY <1>2, StealTakes
  <2>2. QED
    BY <1>2, <1>4, <2>1, StealTrace
<1>6. PICK taken \in Takings(all) : taken = AllStolen(first, seq)
  BY <1>5 DEF StealSteps
<1>7. PICK a \in Seq(SpeciesType), pot \in Nat : a = taken.all /\ pot = taken.stolen
  BY DEF Takings
<1>8. Reshared(all, a, 0 - pot) /\ DOMAIN a = 1..n
  BY <1>7 DEF Takings, Reshared
<1>9. PICK start : start = [all |-> a, stolen |-> pot, stage |-> 1]
  OBVIOUS
<1>10. start \in Givings(a, pot)
  <2>1. Expected(a) \in Nat
    BY Numbers
  <2>2. Expected(a) = Expected(a) + (pot - pot)
    BY <2>1
  <2>3. Reshared(a, a, pot - pot)
    BY <2>2 DEF Reshared, SameMembers
  <2>4. QED
    BY <1>9, <2>3 DEF Givings
<1>11. PICK u \in [0..n -> Givings(a, pot)] : GiveSteps(u, n, start, order)
  <2>1. \A i \in 1..n : \A q \in Givings(a, pot) : Give(q, order[i]) \in Givings(a, pot)
    BY <1>8, GiveGives
  <2>2. DOMAIN order = 1..n
    OBVIOUS
  <2>3. QED
    BY <1>10, <2>1, <2>2, GiveTrace
<1>12. PICK given \in Givings(a, pot) : given = AllGiven(start, order)
  BY <1>11 DEF GiveSteps
<1>13. order[1] \in DOMAIN a
  BY <1>8
<1>14. Reshared(a, GiveRest(given, order[1]), pot)
  BY <1>13, RestGiven
<1>15. StolenBabies(all, order) = GiveRest(given, order[1])
  BY <1>2, <1>3, <1>6, <1>7, <1>9, <1>12, Zenon DEF StolenBabies, AllStolen, AllGiven
<1>16. PICK new : new = StolenBabies(all, order)
  OBVIOUS
<1>17. Reshared(all, new, (0 - pot) + pot)
  BY <1>1, <1>8, <1>14, <1>15, <1>16, ResharedTwice
<1>18. QED
  BY <1>16, <1>17

(* However the babies are shared, the members of the species stay, and     *)
(* together the species expect what is said.                               *)
Chosen(all, order, delta) ==
  CASE delta -> DeltaCoding(all, order)
    [] ~delta /\ babies_stolen > 0 -> StolenBabies(all, order)
    [] OTHER -> all

(* Whichever way the babies are shared, they are all shared out.           *)
LEMMA ChosenShared ==
  ASSUME NEW all \in Seq(SpeciesType), NEW n \in Nat \ {0}, DOMAIN all = 1..n, Len(all) = n,
         NEW order, Permutes(order, n), NEW delta \in BOOLEAN, EpochTypeOK,
         NEW x \in Nat, x = IF delta THEN IF n = 1 THEN pop_size - Half ELSE pop_size
                            ELSE Expected(all)
  PROVE  Reshared(all, Chosen(all, order, delta), x - Expected(all))
<1>1. order \in [1..n -> 1..n] /\ Len(order) = n /\ DOMAIN order = 1..n
  BY DEF Permutes
<1>2. PICK m \in Nat : m = Expected(all)
  BY Numbers
<1>3. PICK rest \in Nat : rest = pop_size - Half /\ Half \in Nat /\ pop_size \in Nat
  BY WholeIs, EpochAssumption
<1>4. CASE delta /\ n = 1
  <2>1. Reshared(all, DeltaCoding(all, order), rest - m)
    BY <1>1, <1>2, <1>3, <1>4, CodedOne
  <2>2. QED
    BY <1>2, <1>3, <1>4, <2>1 DEF Chosen
<1>5. CASE delta /\ n # 1
  <2>1. PICK one \in DOMAIN all, other \in DOMAIN all : one = order[1] /\ other = order[2] /\ one # other
    <3>1. 1 \in 1..n /\ 2 \in 1..n
      BY <1>5
    <3>2. order[1] \in 1..n /\ order[2] \in 1..n /\ order[1] # order[2]
      BY <3>1 DEF Permutes
    <3>3. QED
      BY <3>2
  <2>2. PICK new : new = DeltaCoding(all, order)
    OBVIOUS
  <2>3. Coded(all, new, one, other, rest)
    BY <1>1, <1>3, <1>5, <2>1, <2>2, CodedShares
  <2>4. Reshared(all, new, pop_size - Expected(all))
    BY <1>3, <2>1, <2>3, CodedTwo
  <2>5. QED
    BY <1>2, <1>5, <2>2, <2>4 DEF Chosen
<1>6. CASE ~delta /\ babies_stolen > 0
  <2>1. Reshared(all, StolenBabies(all, order), 0)
    BY <1>1, StolenShared DEF EpochTypeOK
  <2>2. x - Expected(all) = 0
    BY <1>2, <1>6
  <2>3. QED
    BY <1>6, <2>1, <2>2 DEF Chosen
<1>7. CASE ~delta /\ ~(babies_stolen > 0)
  <2>1. Reshared(all, all, 0)
    BY <1>2 DEF Reshared, SameMembers
  <2>2. x - Expected(all) = 0
    BY <1>2, <1>7
  <2>3. QED
    BY <1>7, <2>1, <2>2 DEF Chosen
<1>8. QED
  BY <1>4, <1>5, <1>6, <1>7

(* The order of the species is one.                                        *)
LEMMA OrderIs ==
  ASSUME species \in Seq(SpeciesType)
  PROVE  Permutes(Order, Len(species))
<1>1. PICK n \in Nat : n = Len(species) /\ DOMAIN species = 1..n
  OBVIOUS
<1>2. PICK f : f = [i \in DOMAIN species |-> First(species[i]).fitness]
  OBVIOUS
<1>3. f \in [1..n -> Int]
  <2>1. \A i \in DOMAIN species : First(species[i]).fitness \in Int
    BY YoungFinite DEF First, OrganismType
  <2>2. QED
    BY <1>1, <1>2, <2>1
<1>4. QED
  BY <1>1, <1>2, <1>3, RankingIs DEF Order

(* Where the champion of the generation is before the babies are counted   *)
(* to it.                                                                  *)
ChampionAt(all, new, i, s) ==
  /\ i \in DOMAIN all /\ s.best = First(all[i]).genome
  /\ s.kept = Able(new[i])

(* What the step of the sharing makes.                                     *)
LEMMA ShareMakes ==
  ASSUME EpochInv, Share
  PROVE  /\ Reshared(species, species', Whole' - Expected(species))
         /\ highest_fitness' \in Int /\ highest_last_changed' \in Nat /\ seen' \in SeenType
         /\ seen'.clone = seen.clone
         /\ \E i : ChampionAt(species, species', i, seen')
<1> DEFINE order  == Order
           top    == First(species[order[1]])
           record == top.fitness > highest_fitness
           still  == IF record THEN 0 ELSE highest_last_changed + 1
           delta  == still >= dropoff_age + 5
           all    == Chosen(species, order, delta)
           halved == IF delta THEN Len(order) = 1 ELSE seen.halved
<1>1. /\ species' = all /\ highest_fitness' = IF record THEN top.fitness ELSE highest_fitness
      /\ highest_last_changed' = IF delta THEN 0 ELSE still
      /\ seen' = [seen EXCEPT !.best = top.genome, !.halved = halved, !.kept = Able(all[order[1]])]
      /\ phase = "share"
  BY DEF Share, Chosen, Able
<1>2. /\ EpochTypeOK /\ species \in Seq(SpeciesType) /\ seen \in SeenType
      /\ highest_fitness \in Int /\ highest_last_changed \in Nat
  BY ZenonT(60) DEF EpochInv, EpochTypeOK, SeenType
<1>3. PICK n \in Nat \ {0} : n = Len(species) /\ DOMAIN species = 1..n
  <2>1. species # <<>>
    BY DEF EpochInv, EpochTypeOK
  <2>2. Len(species) \in Nat /\ Len(species) # 0 /\ DOMAIN species = 1..Len(species)
    BY <1>2, <2>1
  <2>3. QED
    BY <2>2
<1>4. Permutes(order, n)
  BY <1>2, <1>3, OrderIs
<1>5. order[1] \in 1..n /\ Len(order) = n
  BY <1>4 DEF Permutes
<1>6. top \in OrganismType
  BY <1>2, <1>3, <1>5, YoungFinite DEF First
<1>7. PICK o \in OrganismType : o = top
  BY <1>6
<1>8. record \in BOOLEAN /\ still \in Nat /\ delta \in BOOLEAN /\ o.fitness \in Int /\ o.genome \in Int
  BY <1>2, <1>7, EpochAssumption DEF OrganismType
<1>9. Expected(species) = Whole /\ Expected(species) \in Nat
  BY <1>1, <1>2, Numbers DEF EpochInv, Accounted
<1>10. pop_size \in Nat /\ pop_size - Half \in Nat
  BY <1>2, WholeIs, EpochAssumption
<1>11. PICK h \in BOOLEAN, d \in BOOLEAN : h = halved /\ d = delta
  BY <1>2, <1>8 DEF SeenType
<1>12. PICK x \in Nat : x = IF d THEN IF n = 1 THEN pop_size - Half ELSE pop_size
                            ELSE Expected(species)
  BY <1>9, <1>10
<1> HIDE DEF order, top, record, still, delta
<1>13. Reshared(species, all, x - Expected(species))
  BY <1>2, <1>3, <1>4, <1>11, <1>12, ChosenShared
<1> HIDE DEF all
<1>14. PICK k \in BOOLEAN : k = Able(all[order[1]])
  <2>1. PICK s \in SpeciesType : s = all[order[1]]
    BY <1>3, <1>5, <1>13 DEF Reshared
  <2>2. Able(s) \in BOOLEAN
    <3>1. s.expected \in Nat /\ First(s).super \in Nat
      BY YoungFinite DEF First, SpeciesType, OrganismType
    <3>2. (s.expected > 5) \in BOOLEAN /\ (First(s).super <= s.expected) \in BOOLEAN
      BY <3>1
    <3>3. QED
      BY <3>2, Zenon DEF Able
  <2>3. QED
    BY <2>1, <2>2
<1>15. seen' = [seen EXCEPT !.best = o.genome, !.halved = h, !.kept = k]
  BY <1>1, <1>7, <1>11, <1>14
<1>16. /\ seen' \in SeenType /\ seen'.clone = seen.clone /\ seen'.best = o.genome
       /\ seen'.halved = h /\ seen'.kept = k
  BY <1>2, <1>8, <1>15 DEF SeenType
<1>17. Whole' = x
  BY <1>5, <1>9, <1>11, <1>12, <1>16 DEF Whole, Half
<1>18. ChampionAt(species, species', order[1], seen')
  BY <1>1, <1>3, <1>5, <1>7, <1>14, <1>16 DEF ChampionAt, top
<1>19. highest_fitness' \in Int /\ highest_last_changed' \in Nat
  BY <1>1, <1>2, <1>7, <1>8
<1>20. QED
  BY <1>1, <1>13, <1>16, <1>17, <1>18, <1>19

(* What is marked stays marked among the same members.                     *)
LEMMA MarkedStays ==
  ASSUME NEW s, NEW k, Marked(s), SameMembers(s, k)
  PROVE  Marked(k)
BY DEF Marked, SameMembers

(* Sharing keeps the invariant: the babies of the population are neither   *)
(* lost nor gained by delta coding or stealing.                            *)
LEMMA ShareKeeps == EpochInv /\ Share => EpochInv'
<1> SUFFICES ASSUME EpochInv, Share
             PROVE  EpochInv'
  OBVIOUS
<1>1. /\ Reshared(species, species', Whole' - Expected(species))
      /\ highest_fitness' \in Int /\ highest_last_changed' \in Nat /\ seen' \in SeenType
      /\ seen'.clone = seen.clone
  BY ShareMakes
<1>2. /\ phase = "share" /\ phase' = "kill"
      /\ UNCHANGED <<generation, last_species, babies_stolen, turn>>
  BY DEF Share
<1>3. EpochTypeOK
  BY DEF EpochInv
<1>4. species' \in Seq(SpeciesType) /\ species' # <<>> /\ Len(species') = Len(species)
      /\ DOMAIN species' = DOMAIN species
  <2>1. Len(species') = Len(species) /\ species \in Seq(SpeciesType) /\ species # <<>>
        /\ species' \in Seq(SpeciesType) /\ DOMAIN species' = DOMAIN species
    BY <1>1, <1>3 DEF Reshared, EpochTypeOK
  <2>2. Len(species) # 0
    BY <2>1
  <2>3. Len(species') # 0
    BY <2>1, <2>2
  <2>4. species' # <<>>
    BY <2>3
  <2>5. QED
    BY <2>1, <2>4
<1>5. EpochTypeOK'
  BY <1>1, <1>2, <1>3, <1>4 DEF EpochTypeOK, SeenType
<1>6. Expected(species)' = Whole' /\ Expected(species)' = Expected(species')
  <2>1. PICK w \in Nat : w = Whole'
    <3>1. Whole' \in {pop_size - Half, pop_size}
      BY DEF Whole, Half
    <3>2. QED
      BY <1>3, <3>1, WholeIs, EpochAssumption
  <2>2. PICK e \in Nat : e = Expected(species)
    BY <1>3, Numbers DEF EpochTypeOK
  <2>3. Expected(species') = e + (w - e)
    BY <1>1, <2>1, <2>2 DEF Reshared
  <2>4. Expected(species)' = Expected(species')
    BY DEF Expected
  <2>5. e + (w - e) = w
    OBVIOUS
  <2>6. QED
    BY <2>1, <2>3, <2>4, <2>5
<1>7. Accounted'
  BY <1>2, <1>6 DEF Accounted
<1>8. InTurn'
  <2>1. \A i \in DOMAIN species : Marked(species[i])
    BY <1>2 DEF EpochInv, InTurn
  <2>2. \A i \in DOMAIN species : Marked(species'[i])
    BY <1>1, <2>1, MarkedStays DEF Reshared
  <2>3. turn' = Idle /\ seen'.clone = "parent"
    BY <1>1, <1>2 DEF EpochInv, InTurn
  <2>4. QED
    BY <1>2, <1>4, <2>2, <2>3 DEF InTurn
<1>9. QED
  BY <1>5, <1>7, <1>8 DEF EpochInv

-----------------------------------------------------------------------------
(* Reproduction: species after species, what it has made is what it was    *)
(* to make.                                                                *)
TurnType(n) == [at : 0..n, count : Nat, curChamp : Nat \ {0}, champ_done : BOOLEAN]

(* The sum of what the species up to the one at work were to make grows    *)
(* by what the next one is to make.                                        *)
LEMMA ExpectedTo ==
  ASSUME NEW all \in Seq(SpeciesType)
  PROVE  /\ SumFunctionOnSet(ExpectedOf(all), 1..0) = 0
         /\ \A k \in DOMAIN all :
              /\ SumFunctionOnSet(ExpectedOf(all), 1..k - 1) \in Int
              /\ SumFunctionOnSet(ExpectedOf(all), 1..k)
                   = SumFunctionOnSet(ExpectedOf(all), 1..k - 1) + all[k].expected
<1>1. PICK n \in Nat, f \in {ExpectedOf(all)} : DOMAIN all = 1..n /\ f = ExpectedOf(all) /\ f \in [1..n -> Nat]
  BY Numbers
<1>2. \A i \in 1..n : f[i] \in Int
  BY <1>1
<1>3. /\ SumFunctionOnSet(f, 1..0) = 0
      /\ \A k \in 0..n : SumFunctionOnSet(f, 1..k) \in Int
      /\ \A k \in 1..n : SumFunctionOnSet(f, 1..k) = SumFunctionOnSet(f, 1..k - 1) + f[k]
  BY <1>2, SumGrows
<1>4. \A k \in 1..n : f[k] = all[k].expected /\ k - 1 \in 0..n
  BY <1>1 DEF ExpectedOf
<1>5. QED
  BY <1>1, <1>3, <1>4

(* When a species is done, all babies up to it have been made.             *)
LEMMA AllMade ==
  ASSUME EpochInv, phase = "reproduce", Done
  PROVE  SumFunction(BabiesOf(species)) = SumFunctionOnSet(ExpectedOf(species), 1..turn.at)
<1>1. /\ EpochTypeOK /\ InTurn /\ species \in Seq(SpeciesType) /\ turn \in TurnType(Len(species))
      /\ SumFunction(BabiesOf(species))
           = SumFunctionOnSet(ExpectedOf(species), 1..turn.at - 1) + turn.count
  BY DEF EpochInv, EpochTypeOK, Accounted, TurnType
<1>2. PICK n \in Nat, at \in Nat, c \in Nat : n = Len(species) /\ DOMAIN species = 1..n
                                              /\ at = turn.at /\ c = turn.count /\ at <= n
  BY <1>1 DEF TurnType
<1>3. CASE at = 0
  <2>1. c = 0 /\ turn.at = 0
    BY <1>1, <1>2, <1>3 DEF InTurn, Idle
  <2>2. 1..0 = {} /\ 1..0 - 1 = {}
    OBVIOUS
  <2>3. SumFunctionOnSet(ExpectedOf(species), {}) = 0
    BY <1>1, <2>2, ExpectedTo
  <2>4. SumFunction(BabiesOf(species)) = SumFunctionOnSet(ExpectedOf(species), {}) + c
    BY <1>1, <1>2, <2>1, <2>2
  <2>5. QED
    BY <2>1, <2>2, <2>3, <2>4
<1>4. CASE at # 0
  <2>1. c = species[at].expected /\ at \in DOMAIN species
    BY <1>2, <1>4 DEF Done, AtWork
  <2>2. PICK part \in Int : part = SumFunctionOnSet(ExpectedOf(species), 1..at - 1)
    BY <1>1, <2>1, ExpectedTo
  <2>3. SumFunctionOnSet(ExpectedOf(species), 1..at) = part + c
    BY <1>1, <2>1, <2>2, ExpectedTo
  <2>4. SumFunction(BabiesOf(species)) = part + c
    BY <1>1, <1>2, <2>2
  <2>5. QED
    BY <1>2, <2>3, <2>4
<1>5. QED
  BY <1>3, <1>4

(* Populations alike in who is young and in what is expected are accounted *)
(* alike.                                                                  *)
LEMMA SameBabies ==
  ASSUME NEW all, NEW new, DOMAIN new = DOMAIN all,
         \A i \in DOMAIN all : SameMembers(all[i], new[i])
  PROVE  /\ BabiesOf(new) = BabiesOf(all) /\ SizeOf(new) = SizeOf(all)
         /\ \A i \in DOMAIN all : Young(new[i]) = Young(all[i]) /\ Parents(new[i]) = Parents(all[i])
<1>1. \A i \in DOMAIN all : Young(new[i]) = Young(all[i]) /\ Parents(new[i]) = Parents(all[i])
  BY DEF SameMembers, Young, Parents
<1>2. BabiesOf(new) = BabiesOf(all)
  BY <1>1 DEF BabiesOf
<1>3. SizeOf(new) = SizeOf(all)
  BY SameSizes DEF SameMembers
<1>4. QED
  BY <1>1, <1>2, <1>3

(* The species whose turn comes, with the room its vector has.             *)
Roomy(s, k) == /\ k \in SpeciesType /\ k.organisms = s.organisms /\ k.expected = s.expected
               /\ k.room >= s.room /\ k.room >= Len(s.organisms)

(* The vector of a species has room for the organisms in it.               *)
LEMMA RoomIs ==
  ASSUME NEW s \in SpeciesType, NEW k, k = [s EXCEPT !.room = Max({@, Len(s.organisms)})]
  PROVE  Roomy(s, k)
<1>1. PICK r \in Nat, n \in Nat : r = s.room /\ n = Len(s.organisms)
  BY YoungFinite DEF SpeciesType
<1>2. PICK m \in Nat : m = Max({r, n}) /\ m >= r /\ m >= n
  <2>1. \E x \in {r, n} : \A y \in {r, n} : x >= y
    <3>1. CASE r >= n
      BY <3>1
    <3>2. CASE n >= r
      BY <3>2
    <3>3. QED
      BY <3>1, <3>2
  <2>2. Max({r, n}) \in {r, n} /\ \A y \in {r, n} : Max({r, n}) >= y
    BY <2>1 DEF Max
  <2>3. QED
    BY <2>2
<1>3. k = [s EXCEPT !.room = m]
  BY <1>1, <1>2
<1>4. k \in SpeciesType /\ k.organisms = s.organisms /\ k.expected = s.expected /\ k.room = m
  BY <1>3 DEF SpeciesType
<1>5. QED
  BY <1>1, <1>2, <1>4 DEF Roomy

(* What is remembered of a species whose turn comes: parents and guests.   *)
LEMMA OldAndYoung ==
  ASSUME NEW s \in SpeciesType
  PROVE  /\ Cardinality(Parents(s)) \in Nat /\ Len(s.organisms) - Cardinality(Parents(s)) \in Nat
         /\ First(s).super \in Nat
<1>1. PICK n \in Nat, p \in Nat : n = Len(s.organisms) /\ p = Cardinality(Parents(s))
  BY YoungFinite
<1>2. IsFiniteSet(1..n) /\ Cardinality(1..n) = n /\ Parents(s) \in SUBSET (1..n)
  <2>1. IsFiniteSet(1..n) /\ Cardinality(1..n) = n
    BY FS_Interval
  <2>2. DOMAIN s.organisms = 1..n
    BY <1>1, YoungFinite
  <2>3. QED
    BY <2>1, <2>2 DEF Parents
<1>3. p <= n
  BY <1>1, <1>2, FS_Subset
<1>4. n - p \in Nat
  BY <1>3
<1>5. First(s).super \in Nat
  BY YoungFinite DEF First, OrganismType
<1>6. QED
  BY <1>1, <1>4, <1>5

(* The step to the next species.                                           *)
LEMMA NextMakes ==
  ASSUME EpochInv, NextSpecies
  PROVE  /\ turn.at + 1 \in DOMAIN species /\ DOMAIN species' = DOMAIN species
         /\ species' \in Seq(SpeciesType) /\ species' # <<>> /\ Len(species') = Len(species)
         /\ \A i \in DOMAIN species : IF i = turn.at + 1 THEN Roomy(species[i], species'[i])
                                      ELSE species'[i] = species[i]
         /\ seen' \in SeenType /\ seen'.halved = seen.halved
         /\ seen'.best = seen.best /\ seen'.kept = seen.kept
         /\ seen'.clone = "parent"
         /\ seen'.parents = Cardinality(Parents(species[turn.at + 1]))
         /\ seen'.guests = Len(species[turn.at + 1].organisms) - seen'.parents
         /\ seen'.supers = First(species[turn.at + 1]).super
<1>1. /\ species \in Seq(SpeciesType) /\ species # <<>> /\ turn \in TurnType(Len(species))
      /\ seen \in SeenType
  BY DEF EpochInv, EpochTypeOK, TurnType, SeenType
<1>2. PICK at \in Nat : at = turn.at + 1 /\ at \in DOMAIN species
  <2>1. turn.at \in Nat /\ turn.at < Len(species) /\ Len(species) \in Nat
        /\ DOMAIN species = 1..Len(species)
    BY <1>1 DEF NextSpecies, TurnType
  <2>2. QED
    BY <2>1
<1>3. PICK s \in SpeciesType : s = species[at]
  BY <1>1, <1>2
<1>4. PICK k : k = [s EXCEPT !.room = Max({@, Len(s.organisms)})]
  OBVIOUS
<1>5. Roomy(s, k)
  BY <1>4, RoomIs
<1>6. species' = [species EXCEPT ![at] = k]
  BY <1>2, <1>3, <1>4 DEF NextSpecies
<1>7. /\ species' \in Seq(SpeciesType) /\ Len(species') = Len(species)
      /\ DOMAIN species' = DOMAIN species
      /\ \A i \in DOMAIN species : species'[i] = IF i = at THEN k ELSE species[i]
  BY <1>1, <1>2, <1>5, <1>6 DEF Roomy
<1>8. species' # <<>>
  <2>1. Len(species) # 0
    BY <1>1
  <2>2. Len(species') # 0
    BY <1>7, <2>1
  <2>3. QED
    BY <2>2
<1>9. PICK p \in Nat, g \in Nat, v \in Nat : p = Cardinality(Parents(s))
        /\ g = Len(s.organisms) - p /\ v = First(s).super
  BY OldAndYoung
<1>10. seen' = [seen EXCEPT !.clone = "parent", !.parents = p, !.guests = g, !.supers = v]
  BY <1>2, <1>3, <1>9 DEF NextSpecies, Parents
<1>11. /\ seen' \in SeenType /\ seen'.clone = "parent" /\ seen'.parents = p
       /\ seen'.guests = g /\ seen'.supers = v
  BY <1>1, <1>10 DEF SeenType
<1>12. seen'.halved = seen.halved /\ seen'.kept = seen.kept /\ seen'.best = seen.best
  BY <1>1, <1>10, Zenon DEF SeenType
<1>13. QED
  BY <1>2, <1>3, <1>5, <1>7, <1>8, <1>9, <1>11, <1>12

(* The next species begins with nothing made for it.                       *)
LEMMA NextKeeps == EpochInv /\ NextSpecies => EpochInv'
<1> SUFFICES ASSUME EpochInv, NextSpecies
             PROVE  EpochInv'
  OBVIOUS
<1>1. /\ phase = "reproduce" /\ Done
      /\ UNCHANGED <<phase, generation, last_species, babies_stolen, highest_fitness,
                     highest_last_changed>>
      /\ turn' = [Idle EXCEPT !.at = turn.at + 1]
  BY DEF NextSpecies
<1>2. /\ turn.at + 1 \in DOMAIN species /\ DOMAIN species' = DOMAIN species
      /\ species' \in Seq(SpeciesType) /\ species' # <<>> /\ Len(species') = Len(species)
      /\ \A i \in DOMAIN species : IF i = turn.at + 1 THEN Roomy(species[i], species'[i])
                                   ELSE species'[i] = species[i]
      /\ seen' \in SeenType /\ seen'.halved = seen.halved
  BY NextMakes
<1>3. EpochTypeOK /\ turn \in TurnType(Len(species)) /\ species \in Seq(SpeciesType)
  BY DEF EpochInv, EpochTypeOK, TurnType
<1>4. PICK at \in Nat : at = turn.at /\ at + 1 \in DOMAIN species
  BY <1>2, <1>3 DEF TurnType
<1>5. PICK next \in Nat : next = at + 1 /\ next \in DOMAIN species /\ next - 1 = at
  BY <1>4
<1>6. turn' = [Idle EXCEPT !.at = next]
  BY <1>1, <1>4, <1>5
<1>7. /\ turn' \in TurnType(Len(species)) /\ turn'.at = next /\ turn'.count = 0
  <2>1. next \in 0..Len(species)
    BY <1>3, <1>5
  <2>2. turn' = [at |-> next, count |-> 0, curChamp |-> 1, champ_done |-> FALSE]
    BY <1>6 DEF Idle
  <2>3. QED
    BY <2>1, <2>2 DEF TurnType
<1>8. EpochTypeOK'
  BY <1>1, <1>2, <1>3, <1>7 DEF EpochTypeOK, TurnType, SeenType
<1>9. \A i \in DOMAIN species : /\ species'[i].organisms = species[i].organisms
                                /\ species'[i].expected = species[i].expected
  BY <1>2 DEF Roomy
<1>10. /\ BabiesOf(species') = BabiesOf(species) /\ ExpectedOf(species') = ExpectedOf(species)
       /\ Expected(species') = Expected(species)
  <2>1. \A i \in DOMAIN species : SameMembers(species[i], species'[i])
    BY <1>9 DEF SameMembers
  <2>2. QED
    BY <1>2, <1>9, <2>1, SameBabies, SameExpected
<1>11. SumFunction(BabiesOf(species)) = SumFunctionOnSet(ExpectedOf(species), 1..at)
  BY <1>1, <1>4, AllMade
<1>12. SumFunction(BabiesOf(species')) = SumFunctionOnSet(ExpectedOf(species'), 1..next - 1) + 0
  <2>1. SumFunctionOnSet(ExpectedOf(species), 1..at) \in Int
    <3>1. \A k \in DOMAIN species : SumFunctionOnSet(ExpectedOf(species), 1..k - 1) \in Int
      BY <1>3, ExpectedTo
    <3>2. QED
      BY <1>5, <3>1
  <2>2. PICK x \in Int : x = SumFunctionOnSet(ExpectedOf(species), 1..at)
    BY <2>1
  <2>3. SumFunction(BabiesOf(species')) = x /\ SumFunctionOnSet(ExpectedOf(species'), 1..next - 1) = x
    BY <1>5, <1>10, <1>11, <2>2
  <2>4. x = x + 0
    OBVIOUS
  <2>5. QED
    BY <2>3, <2>4
<1>13. /\ Whole' = Whole /\ Expected(species)' = Expected(species')
       /\ BabiesOf(species)' = BabiesOf(species') /\ ExpectedOf(species)' = ExpectedOf(species')
  BY <1>2 DEF Whole, Half, Expected, BabiesOf, ExpectedOf, Young
<1>14. Accounted'
  <2>1. Expected(species) = Whole
    BY <1>1 DEF EpochInv, Accounted
  <2>2. phase' = "reproduce"
    BY <1>1
  <2>3. QED
    BY <1>7, <1>10, <1>12, <1>13, <2>1, <2>2 DEF Accounted
<1>15. InTurn'
  <2>1. turn'.at # 0 /\ AtWork' \in SpeciesType
    BY <1>2, <1>5, <1>7 DEF AtWork
  <2>2. turn'.count <= AtWork'.expected
    BY <1>7, <2>1 DEF SpeciesType
  <2>3. QED
    BY <1>1, <2>1, <2>2 DEF InTurn
<1>16. QED
  BY <1>8, <1>14, <1>15 DEF EpochInv

(* A baby changes nothing of what is expected.                             *)
LEMMA BabyExpects ==
  ASSUME NEW all \in Seq(SpeciesType), NEW o, NEW new, Grown(all, o, new), o \in OrganismType
  PROVE  /\ \A i \in DOMAIN all : i \in DOMAIN new /\ new[i].expected = all[i].expected
         /\ \A s \in SUBSET (DOMAIN all) :
              SumFunctionOnSet(ExpectedOf(new), s) = SumFunctionOnSet(ExpectedOf(all), s)
         /\ Expected(new) = Expected(all) /\ Len(new) >= Len(all)
<1>1. /\ new \in Seq(SpeciesType) /\ DOMAIN all \subseteq DOMAIN new
      /\ \A i \in DOMAIN all : new[i] = all[i] \/ new[i] = WithBaby(all[i], o)
      /\ \A i \in DOMAIN new : i \notin DOMAIN all => new[i].expected = 0
  BY DEF Grown
<1>2. \A i \in DOMAIN all : i \in DOMAIN new /\ new[i].expected = all[i].expected
  <2>1. \A i \in DOMAIN all : WithBaby(all[i], o).expected = all[i].expected
    BY BabyJoins
  <2>2. QED
    BY <1>1, <2>1
<1>3. PICK n \in Nat, f \in {ExpectedOf(all)} : n = Len(all) /\ DOMAIN all = 1..n /\ f = ExpectedOf(all)
        /\ f \in [DOMAIN all -> Nat] /\ IsFiniteSet(DOMAIN all)
        /\ Expected(all) = SumFunctionOnSet(f, DOMAIN all)
  BY Numbers
<1>4. PICK m \in Nat, g \in {ExpectedOf(new)} : m = Len(new) /\ DOMAIN new = 1..m /\ g = ExpectedOf(new)
        /\ g \in [DOMAIN new -> Nat] /\ IsFiniteSet(DOMAIN new)
        /\ Expected(new) = SumFunctionOnSet(g, DOMAIN new)
  BY <1>1, Numbers
<1>5. \A i \in DOMAIN all : f[i] \in Int /\ g[i] = f[i]
  BY <1>2, <1>3, <1>4 DEF ExpectedOf
<1>6. \A s \in SUBSET (DOMAIN all) : SumFunctionOnSet(g, s) = SumFunctionOnSet(f, s)
  BY <1>3, <1>5, SumAlike
<1>7. SumFunctionOnSet(g, DOMAIN new) = SumFunctionOnSet(g, DOMAIN all)
  <2>1. \A i \in DOMAIN new : g[i] \in Int
    BY <1>4
  <2>2. \A i \in DOMAIN new \ DOMAIN all : g[i] = 0
    BY <1>1, <1>4 DEF ExpectedOf
  <2>3. QED
    BY <1>1, <1>4, <2>1, <2>2, SumWithout, SMTT(40)
<1>8. Expected(new) = Expected(all)
  BY <1>3, <1>4, <1>6, <1>7
<1>9. m >= n
  <2>1. CASE n = 0
    BY <2>1
  <2>2. CASE n # 0
    <3>1. n \in 1..m
      BY <1>1, <1>3, <1>4, <2>2
    <3>2. QED
      BY <3>1
  <2>3. QED
    BY <2>1, <2>2
<1>10. QED
  BY <1>2, <1>3, <1>4, <1>6, <1>8, <1>9

(* One round of reproduction: one baby more, and one round more.  In the   *)
(* round of a super champ the first organism of the species changes        *)
(* before, the members of the species stay.                                *)
Round(all, g) ==
  /\ Working /\ Reshared(species, all, 0) /\ ExpectedOf(all) = ExpectedOf(species)
  /\ g \in Int /\ AddBaby(all, g)
  /\ turn' \in TurnType(Len(species)) /\ turn'.at = turn.at /\ turn'.count = turn.count + 1
  /\ seen' \in SeenType /\ seen'.halved = seen.halved

(* A round makes one baby.                                                 *)
LEMMA RoundGrows ==
  ASSUME EpochInv, NEW all, NEW g, Round(all, g)
  PROVE  /\ Grown(all, Organism(g), species') /\ Organism(g) \in OrganismType
         /\ all \in Seq(SpeciesType) /\ DOMAIN all = DOMAIN species /\ Len(all) = Len(species)
<1>1. all \in Seq(SpeciesType) /\ DOMAIN all = DOMAIN species /\ Len(all) = Len(species)
  BY DEF Round, Reshared
<1>2. Organism(g) \in OrganismType /\ ~Organism(g).old
  BY OrganismTyped DEF Round
<1>3. last_species + 1 \in Nat
  <2>1. last_species \in Nat
    BY DEF EpochInv, EpochTypeOK
  <2>2. QED
    BY <2>1
<1>4. species' = AddToSpecies(all, Organism(g), last_species + 1, TRUE)
  BY DEF Round, AddBaby
<1>5. PICK o \in OrganismType, id \in Nat : o = Organism(g) /\ id = last_species + 1
  BY <1>2, <1>3
<1>6. Grown(all, o, AddToSpecies(all, o, id, TRUE))
  BY <1>1, <1>2, <1>5, Grows
<1>7. QED
  BY <1>1, <1>2, <1>4, <1>5, <1>6

(* A round keeps the invariant: one baby more, and one round more.         *)
LEMMA RoundKeeps ==
  ASSUME EpochInv, NEW all, NEW g, Round(all, g)
  PROVE  EpochInv'
<1>1. /\ EpochTypeOK /\ turn \in TurnType(Len(species)) /\ species \in Seq(SpeciesType)
      /\ species # <<>>
  BY DEF EpochInv, EpochTypeOK, TurnType
<1>2. /\ Grown(all, Organism(g), species') /\ Organism(g) \in OrganismType
      /\ all \in Seq(SpeciesType) /\ DOMAIN all = DOMAIN species /\ Len(all) = Len(species)
  BY RoundGrows
<1>3. /\ phase = "reproduce" /\ turn.at > 0 /\ turn.count < AtWork.expected
      /\ UNCHANGED <<phase, generation, babies_stolen, highest_fitness, highest_last_changed>>
      /\ last_species' = last_species + (IF Hosts(all, g) = {} THEN 1 ELSE 0)
  BY DEF Round, Working, AddBaby
<1>4. /\ species' \in Seq(SpeciesType) /\ Len(species') >= Len(species)
      /\ \A i \in DOMAIN species : i \in DOMAIN species' /\ species'[i].expected = all[i].expected
      /\ \A s \in SUBSET (DOMAIN species) :
           SumFunctionOnSet(ExpectedOf(species'), s) = SumFunctionOnSet(ExpectedOf(all), s)
      /\ Expected(species') = Expected(all)
  <2>1. species' \in Seq(SpeciesType)
    BY <1>2 DEF Grown
  <2>2. QED
    BY <1>2, <2>1, BabyExpects
<1>5. PICK n \in Nat, m \in Nat : n = Len(species) /\ m = Len(species') /\ n <= m /\ n # 0
                                  /\ DOMAIN species = 1..n
  <2>1. Len(species) \in Nat /\ Len(species') \in Nat /\ Len(species) # 0
        /\ DOMAIN species = 1..Len(species)
    BY <1>1, <1>4
  <2>2. QED
    BY <1>4, <2>1
<1>6. PICK at \in Nat, c \in Nat : at = turn.at /\ c = turn.count /\ at \in 1..n
  <2>1. turn.at \in 0..n /\ turn.count \in Nat
    BY <1>1, <1>5 DEF TurnType
  <2>2. QED
    BY <1>3, <2>1
<1>7. turn' \in TurnType(m) /\ turn'.at = at /\ turn'.count = c + 1
  <2>1. turn' \in TurnType(n) /\ turn'.at = at /\ turn'.count = c + 1
    BY <1>5, <1>6 DEF Round
  <2>2. 0..n \subseteq 0..m
    BY <1>5
  <2>3. QED
    BY <2>1, <2>2 DEF TurnType
<1>8. EpochTypeOK'
  <2>1. last_species' \in Nat
    <3>1. PICK l \in Nat : l = last_species
      BY <1>1 DEF EpochTypeOK
    <3>2. last_species' = l \/ last_species' = l + 1
      BY <1>3, <3>1
    <3>3. QED
      BY <3>2
  <2>2. species' # <<>>
    BY <1>5
  <2>3. seen' \in SeenType
    BY DEF Round
  <2>4. QED
    BY <1>1, <1>3, <1>4, <1>5, <1>7, <2>1, <2>2, <2>3 DEF EpochTypeOK, TurnType, SeenType
<1>9. ExpectedOf(all) = ExpectedOf(species) /\ Expected(all) = Expected(species)
  BY <1>2 DEF Round, Expected, ExpectedOf
<1>10. SumFunction(BabiesOf(species')) = SumFunction(BabiesOf(species)) + 1
  <2>1. BabiesOf(all) = BabiesOf(species)
    BY <1>2, SameBabies DEF Round, Reshared
  <2>2. QED
    BY <1>2, <2>1 DEF Grown
<1>11. SumFunctionOnSet(ExpectedOf(species'), 1..at - 1) = SumFunctionOnSet(ExpectedOf(species), 1..at - 1)
  <2>1. 1..at - 1 \in SUBSET (DOMAIN species)
    BY <1>5, <1>6
  <2>2. QED
    BY <1>4, <1>9, <2>1
<1>12. SumFunction(BabiesOf(species')) = SumFunctionOnSet(ExpectedOf(species'), 1..at - 1) + (c + 1)
  <2>1. PICK x \in Int : x = SumFunctionOnSet(ExpectedOf(species), 1..at - 1)
    BY <1>1, <1>5, <1>6, ExpectedTo
  <2>2. SumFunction(BabiesOf(species)) = x + c
    BY <1>3, <1>6, <2>1 DEF EpochInv, Accounted
  <2>3. QED
    BY <1>10, <1>11, <2>1, <2>2
<1>13. /\ Whole' = Whole /\ Expected(species)' = Expected(species')
       /\ BabiesOf(species)' = BabiesOf(species') /\ ExpectedOf(species)' = ExpectedOf(species')
  BY DEF Whole, Half, Expected, BabiesOf, ExpectedOf, Young, Round
<1>14. Accounted'
  <2>1. Expected(species) = Whole
    BY <1>3 DEF EpochInv, Accounted
  <2>2. phase' = "reproduce"
    BY <1>3
  <2>3. QED
    BY <1>4, <1>7, <1>9, <1>12, <1>13, <2>1, <2>2 DEF Accounted
<1>15. InTurn'
  <2>1. turn'.at # 0 /\ at \in DOMAIN species
    BY <1>5, <1>6, <1>7
  <2>2. PICK x \in Nat : x = species[at].expected /\ c < x
    <3>1. PICK s \in SpeciesType : s = species[at]
      BY <1>1, <2>1
    <3>2. s.expected \in Nat
      BY DEF SpeciesType
    <3>3. QED
      BY <1>3, <1>6, <3>1, <3>2 DEF AtWork
  <2>3. species'[at].expected = x
    <3>1. ExpectedOf(all)[at] = all[at].expected /\ ExpectedOf(species)[at] = species[at].expected
      BY <1>2, <2>1 DEF ExpectedOf
    <3>2. QED
      BY <1>4, <1>9, <2>1, <2>2, <3>1
  <2>4. turn'.count <= AtWork'.expected
    BY <1>7, <2>2, <2>3 DEF AtWork
  <2>5. QED
    BY <1>3, <2>1, <2>4 DEF InTurn
<1>16. QED
  BY <1>8, <1>14, <1>15 DEF EpochInv

(* A round is counted.                                                     *)
LEMMA TurnCounts ==
  ASSUME NEW n \in Nat, NEW t \in TurnType(n), NEW u, u = [t EXCEPT !.count = @ + 1]
  PROVE  u \in TurnType(n) /\ u.at = t.at /\ u.count = t.count + 1
<1>1. PICK c \in Nat : c = t.count + 1
  BY DEF TurnType
<1>2. u = [t EXCEPT !.count = c]
  BY <1>1
<1>3. u \in TurnType(n) /\ u.count = c
  BY <1>2 DEF TurnType
<1>4. u.at = t.at
  BY <1>2, Zenon DEF TurnType
<1>5. QED
  BY <1>1, <1>3, <1>4

EliteCounted(t, d, u) == u = [t EXCEPT !.count = @ + 1, !.curChamp = @ + 1, !.champ_done = d]

(* A round of the elite is counted, and its pointer moves on.              *)
LEMMA EliteCounts ==
  ASSUME NEW n \in Nat, NEW t \in TurnType(n), NEW d \in BOOLEAN, NEW u, EliteCounted(t, d, u)
  PROVE  /\ u \in TurnType(n) /\ u.at = t.at /\ u.count = t.count + 1
         /\ u.curChamp = t.curChamp + 1 /\ u.champ_done = d
<1>1. PICK c \in Nat, e \in Nat \ {0} : c = t.count + 1 /\ e = t.curChamp + 1
  BY DEF TurnType
<1>2. u = [t EXCEPT !.count = c, !.curChamp = e, !.champ_done = d]
  BY <1>1 DEF EliteCounted
<1>3. u \in TurnType(n)
  BY <1>2 DEF TurnType
<1>4. u.count = c /\ u.curChamp = e /\ u.champ_done = d
  BY <1>2, Zenon DEF TurnType
<1>5. u.at = t.at
  BY <1>2, Zenon DEF TurnType
<1>6. QED
  BY <1>1, <1>3, <1>4, <1>5

(* What every round rests on.                                              *)
LEMMA RoundStarts ==
  ASSUME EpochInv, Working
  PROVE  /\ species \in Seq(SpeciesType) /\ species # <<>> /\ Len(species) \in Nat
         /\ turn \in TurnType(Len(species)) /\ turn.at \in DOMAIN species
         /\ seen \in SeenType /\ AtWork \in SpeciesType /\ turn.count \in Nat
         /\ turn.curChamp \in Nat \ {0} /\ turn.champ_done \in BOOLEAN
         /\ turn.at \in Nat \ {0} /\ turn.count < AtWork.expected /\ phase = "reproduce"
<1>1. /\ species \in Seq(SpeciesType) /\ species # <<>> /\ turn \in TurnType(Len(species))
      /\ seen \in SeenType
  BY DEF EpochInv, EpochTypeOK, TurnType, SeenType
<1>2. turn.at > 0 /\ turn.count < AtWork.expected /\ phase = "reproduce"
  BY DEF Working
<1>3. PICK n \in Nat : n = Len(species) /\ DOMAIN species = 1..n
  BY <1>1
<1>4. turn.at \in 0..n /\ turn.count \in Nat /\ turn.curChamp \in Nat \ {0} /\ turn.champ_done \in BOOLEAN
  BY <1>1, <1>3 DEF TurnType
<1>5. turn.at \in 1..n
  BY <1>2, <1>4
<1>6. AtWork \in SpeciesType
  BY <1>1, <1>3, <1>5 DEF AtWork
<1>7. QED
  BY <1>1, <1>2, <1>3, <1>4, <1>5, <1>6

(* The population unchanged is a population of the same members.           *)
LEMMA Unchanged ==
  ASSUME species \in Seq(SpeciesType)
  PROVE  Reshared(species, species, 0)
<1>1. Expected(species) \in Nat
  BY Numbers
<1>2. Expected(species) = Expected(species) + 0
  BY <1>1
<1>3. QED
  BY <1>2 DEF Reshared, SameMembers

(* The rounds without a super champ that only count.                       *)
LEMMA OrdinaryRound ==
  ASSUME EpochInv, MutatedBaby \/ MatedBaby
  PROVE  /\ \E g \in Genomes : Round(species, g)
         /\ UNCHANGED seen /\ Ordinary /\ turn' = [turn EXCEPT !.count = @ + 1]
<1>1. PICK g \in Genomes : AddBaby(species, g)
  BY DEF MutatedBaby, MatedBaby
<1>2. Ordinary /\ Working /\ turn' = [turn EXCEPT !.count = @ + 1] /\ seen' = seen
  BY DEF MutatedBaby, MatedBaby, Ordinary
<1>3. /\ species \in Seq(SpeciesType) /\ Len(species) \in Nat /\ turn \in TurnType(Len(species))
      /\ seen \in SeenType
  BY <1>2, RoundStarts
<1>4. turn' \in TurnType(Len(species)) /\ turn'.at = turn.at /\ turn'.count = turn.count + 1
  BY <1>2, <1>3, TurnCounts
<1>5. Reshared(species, species, 0)
  BY <1>3, Unchanged
<1>6. g \in Int
  BY EpochAssumption
<1>7. Round(species, g)
  BY <1>1, <1>2, <1>3, <1>4, <1>5, <1>6 DEF Round
<1>8. QED
  BY <1>2, <1>7

(* What an elite clone is made of is an organism.                          *)
LEMMA ClonesTyped ==
  ASSUME EpochInv, Working, NEW mom \in Clones
  PROVE  mom \in OrganismType
<1>1. PICK s \in SpeciesType : s = AtWork
  BY RoundStarts
<1>2. PICK n \in Nat, c \in Nat \ {0} : n = Len(s.organisms) /\ c = turn.curChamp
        /\ DOMAIN s.organisms = 1..n
  BY RoundStarts, YoungFinite
<1>3. 1 \in DOMAIN s.organisms /\ \A j \in DOMAIN s.organisms : s.organisms[j] \in OrganismType
  BY YoungFinite
<1>4. CASE mom = First(s)
  BY <1>3, <1>4 DEF First
<1>5. CASE c <= n /\ mom = s.organisms[c]
  BY <1>2, <1>3, <1>5
<1>6. CASE \E g \in Genomes : mom = Organism(g)
  BY <1>6, EpochAssumption, OrganismTyped
<1>7. mom = First(s) \/ (c <= n /\ mom = s.organisms[c]) \/ \E g \in Genomes : mom = Organism(g)
  BY <1>1, <1>2 DEF Clones
<1>8. QED
  BY <1>4, <1>5, <1>6, <1>7

(* The round of an elite clone.                                            *)
LEMMA EliteRound ==
  ASSUME EpochInv, EliteBaby
  PROVE  \E mom \in Clones :
           /\ Round(species, mom.genome) /\ mom \in OrganismType
           /\ Working /\ First(AtWork).super = 0 /\ Elite
           /\ seen' = [seen EXCEPT !.clone = IF mom.old THEN @ ELSE "no parent"]
           /\ turn' = [turn EXCEPT !.count = @ + 1, !.curChamp = @ + 1,
                                   !.champ_done = elitism_percentage = 0 \/ LastElite]
           /\ turn'.curChamp = turn.curChamp + 1
           /\ turn'.champ_done = (elitism_percentage = 0 \/ LastElite)
<1>1. PICK mom \in Clones :
        AddBaby(species, mom.genome) /\ seen' = [seen EXCEPT !.clone = IF mom.old THEN @ ELSE "no parent"]
  BY DEF EliteBaby
<1>2. /\ Working /\ First(AtWork).super = 0 /\ Elite
      /\ turn' = [turn EXCEPT !.count = @ + 1, !.curChamp = @ + 1,
                              !.champ_done = elitism_percentage = 0 \/ LastElite]
  BY DEF EliteBaby
<1>3. /\ species \in Seq(SpeciesType) /\ Len(species) \in Nat /\ turn \in TurnType(Len(species))
      /\ seen \in SeenType
  BY <1>2, RoundStarts
<1>4. PICK d \in BOOLEAN : d = (elitism_percentage = 0 \/ LastElite)
  OBVIOUS
<1>5. /\ turn' \in TurnType(Len(species)) /\ turn'.at = turn.at /\ turn'.count = turn.count + 1
      /\ turn'.curChamp = turn.curChamp + 1 /\ turn'.champ_done = d
  <2>1. EliteCounted(turn, d, turn')
    BY <1>2, <1>4 DEF EliteCounted
  <2>2. QED
    BY <1>3, <2>1, EliteCounts
<1>6. mom \in OrganismType /\ mom.genome \in Int
  BY <1>2, ClonesTyped DEF OrganismType
<1>7. seen' \in SeenType /\ seen'.halved = seen.halved
  <2>1. PICK v \in {"parent", "no parent"} : v = IF mom.old THEN seen.clone ELSE "no parent"
    BY <1>3 DEF SeenType
  <2>2. seen' = [seen EXCEPT !.clone = v]
    BY <1>1, <2>1
  <2>3. seen' \in SeenType
    BY <1>3, <2>2 DEF SeenType
  <2>4. seen'.halved = seen.halved
    BY <1>3, <2>2, Zenon DEF SeenType
  <2>5. QED
    BY <2>3, <2>4
<1>8. Reshared(species, species, 0)
  BY <1>3, Unchanged
<1>9. Round(species, mom.genome)
  BY <1>1, <1>2, <1>3, <1>5, <1>6, <1>7, <1>8 DEF Round
<1>10. QED
  BY <1>1, <1>2, <1>4, <1>5, <1>6, <1>9

(* The round of a super champ, which has one offspring less to come.       *)
LEMMA SuperRound ==
  ASSUME EpochInv, SuperBaby
  PROVE  \E all, k, g :
           /\ Round(all, g) /\ all = [species EXCEPT ![turn.at] = k]
           /\ Promised(AtWork, k, AtWork.expected) /\ k.room = AtWork.room
           /\ First(AtWork).super > 0 /\ First(k).super = First(AtWork).super - 1
           /\ First(AtWork).super = 1 => g = First(AtWork).genome
           /\ UNCHANGED seen /\ Working /\ turn' = [turn EXCEPT !.count = @ + 1]
<1>1. /\ Working /\ First(AtWork).super > 0 /\ UNCHANGED seen
      /\ turn' = [turn EXCEPT !.count = @ + 1]
  BY DEF SuperBaby
<1>2. PICK g : /\ g \in (IF First(AtWork).super = 1 THEN {First(AtWork).genome} ELSE Genomes)
               /\ AddBaby([species EXCEPT ![turn.at].organisms[1].super = @ - 1], g)
  BY DEF SuperBaby
<1>3. /\ species \in Seq(SpeciesType) /\ Len(species) \in Nat /\ turn \in TurnType(Len(species))
      /\ seen \in SeenType /\ turn.at \in DOMAIN species
  BY <1>1, RoundStarts
<1>4. PICK s \in SpeciesType : s = AtWork /\ s = species[turn.at]
  BY <1>1, RoundStarts DEF AtWork
<1>5. First(s) \in OrganismType /\ First(s).super \in Nat /\ First(s).genome \in Int
  BY YoungFinite DEF First, OrganismType
<1>6. PICK n \in Nat : n = First(s).super - 1
  BY <1>1, <1>4, <1>5
<1>7. PICK k : k = [s EXCEPT !.organisms[1].super = n]
  OBVIOUS
<1>8. Promised(s, k, s.expected)
  BY <1>7, SuperSpecies
<1>9. k.room = s.room /\ First(k).super = n
  <2>1. k.room = s.room
    BY <1>7, Zenon DEF SpeciesType
  <2>2. 1 \in DOMAIN s.organisms /\ First(s) \in OrganismType
    BY <1>5, YoungFinite
  <2>3. k.organisms = [s.organisms EXCEPT ![1].super = n]
    BY <1>7 DEF SpeciesType
  <2>4. k.organisms[1] = [First(s) EXCEPT !.super = n]
    BY <2>2, <2>3 DEF First
  <2>5. k.organisms[1].super = n
    BY <2>2, <2>4, SuperTyped
  <2>6. QED
    BY <2>1, <2>5 DEF First
<1>10. PICK all : all = [species EXCEPT ![turn.at] = k]
  OBVIOUS
<1>11. all = [species EXCEPT ![turn.at].organisms[1].super = @ - 1]
  BY <1>4, <1>6, <1>7, <1>10 DEF First
<1>12. Reshared(species, all, 0)
  <2>1. PICK x \in Nat : x = s.expected
    BY DEF SpeciesType
  <2>5. PICK i \in DOMAIN species : i = turn.at
    BY <1>3
  <2>2. Reshared(species, all, x - x)
    <3>1. Promised(species[i], k, x) /\ all = [species EXCEPT ![i] = k] /\ species[i].expected = x
      BY <1>4, <1>8, <1>10, <2>1, <2>5
    <3>2. Reshared(species, all, x - species[i].expected)
      BY <1>3, <3>1, OnePromised
    <3>3. QED
      BY <3>1, <3>2
  <2>3. x - x = 0
    OBVIOUS
  <2>4. QED
    BY <2>2, <2>3
<1>13. ExpectedOf(all) = ExpectedOf(species)
  <2>1. DOMAIN all = DOMAIN species
    BY <1>10
  <2>2. \A i \in DOMAIN species : all[i].expected = species[i].expected
    BY <1>4, <1>8, <1>10 DEF Promised
  <2>3. QED
    BY <2>1, <2>2 DEF ExpectedOf
<1>14. g \in Int
  BY <1>2, <1>4, <1>5, EpochAssumption
<1>15. turn' \in TurnType(Len(species)) /\ turn'.at = turn.at /\ turn'.count = turn.count + 1
  BY <1>1, <1>3, TurnCounts
<1>16. Round(all, g)
  BY <1>1, <1>2, <1>3, <1>11, <1>12, <1>13, <1>14, <1>15 DEF Round
<1>17. First(AtWork).super = 1 => g = First(AtWork).genome
  BY <1>2
<1>18. QED
  BY <1>1, <1>4, <1>6, <1>8, <1>9, <1>10, <1>16, <1>17

(* Every round keeps the invariant.                                        *)
LEMMA BabiesKeep == EpochInv /\ (SuperBaby \/ EliteBaby \/ MutatedBaby \/ MatedBaby) => EpochInv'
<1>1. ASSUME EpochInv, SuperBaby
      PROVE  \E all, g : Round(all, g)
  BY <1>1, SuperRound
<1>2. ASSUME EpochInv, EliteBaby
      PROVE  \E all, g : Round(all, g)
  BY <1>2, EliteRound
<1>3. ASSUME EpochInv, MutatedBaby \/ MatedBaby
      PROVE  \E all, g : Round(all, g)
  BY <1>3, OrdinaryRound
<1>4. QED
  BY <1>1, <1>2, <1>3, RoundKeeps

-----------------------------------------------------------------------------
(* The new generation: what is left of a species is its young.             *)
Matured(s) == [s EXCEPT !.organisms = At(@, Young(s)), !.age = IF s.novel THEN @ ELSE @ + 1,
                        !.novel = FALSE]
Rebuilt(all) == LET young == [i \in DOMAIN all |-> Matured(all[i])]
                IN  At(young, {i \in DOMAIN all : Young(all[i]) # {}})

(* A species with young is one of them alone.                              *)
LEMMA MaturedIs ==
  ASSUME NEW s \in SpeciesType, Young(s) # {}
  PROVE  /\ Matured(s) \in SpeciesType /\ Len(Matured(s).organisms) = Cardinality(Young(s))
         /\ \A j \in Young(s) : \E k \in DOMAIN Matured(s).organisms :
              Matured(s).organisms[k] = s.organisms[j]
<1>1. PICK seq \in Seq(OrganismType), places \in {Young(s)} : seq = s.organisms /\ places = Young(s)
  BY YoungFinite
<1>2. places \in SUBSET (DOMAIN seq) /\ places # {}
  BY <1>1 DEF Young
<1>3. PICK os : os = At(seq, places)
  OBVIOUS
<1>4. /\ os \in Seq(OrganismType) /\ Len(os) = Cardinality(places) /\ os # <<>>
      /\ \A j \in places : \E k \in DOMAIN os : os[k] = seq[j]
  BY <1>2, <1>3, AtTyped
<1>5. PICK a \in Nat : a = IF s.novel THEN s.age ELSE s.age + 1
  <2>1. s.age \in Nat /\ s.age + 1 \in Nat
    BY DEF SpeciesType
  <2>2. QED
    BY <2>1
<1>6. PICK new : new = Matured(s)
  OBVIOUS
<1>7. new = [s EXCEPT !.organisms = os, !.age = a, !.novel = FALSE]
  BY <1>1, <1>3, <1>5, <1>6 DEF Matured
<1>8. new \in SpeciesType
  <2>1. PICK b : b = [s EXCEPT !.organisms = os]
    OBVIOUS
  <2>2. b \in SpeciesType
    BY <1>4, <2>1 DEF SpeciesType
  <2>3. PICK c : c = [b EXCEPT !.age = a]
    OBVIOUS
  <2>4. c \in SpeciesType
    BY <2>2, <2>3 DEF SpeciesType
  <2>5. new = [c EXCEPT !.novel = FALSE]
    BY <1>7, <2>1, <2>3
  <2>6. QED
    BY <2>4, <2>5 DEF SpeciesType
<1>9. new.organisms = os
  BY <1>7, Zenon DEF SpeciesType
<1>10. QED
  BY <1>1, <1>4, <1>6, <1>8, <1>9

(* The new generation is as many as there are young.                       *)
LEMMA RebuiltIs ==
  ASSUME NEW all \in Seq(SpeciesType)
  PROVE  /\ Rebuilt(all) \in Seq(SpeciesType) /\ SizeOf(Rebuilt(all)) = SumFunction(BabiesOf(all))
         /\ \A i \in DOMAIN all : \A j \in Young(all[i]) :
              \E k \in DOMAIN Rebuilt(all) : \E l \in DOMAIN Rebuilt(all)[k].organisms :
                Rebuilt(all)[k].organisms[l] = all[i].organisms[j]
<1>1. PICK n \in Nat, f \in {BabiesOf(all)} : n = Len(all) /\ DOMAIN all = 1..n /\ f = BabiesOf(all)
        /\ f \in [DOMAIN all -> Nat] /\ IsFiniteSet(DOMAIN all)
        /\ \A i \in DOMAIN all : all[i] \in SpeciesType
  BY Numbers
<1>2. PICK young : young = [i \in DOMAIN all |-> Matured(all[i])]
  OBVIOUS
<1>3. PICK left : left = {i \in DOMAIN all : Young(all[i]) # {}}
  OBVIOUS
<1>4. DOMAIN young = 1..n /\ left \in SUBSET (1..n) /\ IsFiniteSet(left)
  BY <1>1, <1>2, <1>3, FS_Subset
<1>5. PICK o, m : Picked(young, left, o, m)
  BY <1>4, AtIs
<1>6. PICK new : new = Rebuilt(all)
  OBVIOUS
<1>7. /\ m \in Nat /\ o \in [1..m -> left] /\ new = [k \in 1..m |-> young[o[k]]]
      /\ \A k, l \in 1..m : o[k] = o[l] => k = l
      /\ \A i \in left : \E k \in 1..m : o[k] = i
  BY <1>2, <1>3, <1>5, <1>6 DEF Picked, Rebuilt
<1>8. ASSUME NEW k \in 1..m
      PROVE  /\ o[k] \in left /\ o[k] \in DOMAIN all /\ Young(all[o[k]]) # {}
             /\ new[k] = Matured(all[o[k]])
             /\ new[k] \in SpeciesType /\ Len(new[k].organisms) = f[o[k]]
  <2>1. o[k] \in left /\ o[k] \in DOMAIN all /\ Young(all[o[k]]) # {}
    BY <1>3, <1>7
  <2>2. new[k] = Matured(all[o[k]])
    BY <1>2, <1>7, <2>1
  <2>3. QED
    BY <1>1, <2>1, <2>2, MaturedIs DEF BabiesOf
<1>9. new \in [1..m -> SpeciesType] /\ new \in Seq(SpeciesType) /\ DOMAIN new = 1..m
  BY <1>7, <1>8
<1>10. SizeOf(new) = SumFunction(f)
  <2>1. PICK g : g = SizesOf(new) /\ SizeOf(new) = SumFunctionOnSet(g, 1..m)
    BY <1>9, Numbers
  <2>2. \A k \in 1..m : g[k] = f[o[k]]
    BY <1>8, <1>9, <2>1 DEF SizesOf
  <2>3. \A x \in left : f[x] \in Int /\ \E k \in 1..m : o[k] = x
    BY <1>1, <1>4, <1>7
  <2>4. SumFunctionOnSet(g, 1..m) = SumFunctionOnSet(f, left)
    <3>1. Relisted(f, g, o, m, left)
      BY <1>7, <2>2, <2>3 DEF Relisted
    <3>2. QED
      BY <1>4, <1>7, <3>1, SumListed
  <2>5. \A x \in DOMAIN all : f[x] \in Int
    BY <1>1
  <2>6. \A x \in DOMAIN all \ left : f[x] = 0
    BY <1>1, <1>3, FS_EmptySet DEF BabiesOf
  <2>7. SumFunctionOnSet(f, DOMAIN all) = SumFunctionOnSet(f, left)
    <3>1. IsFiniteSet(DOMAIN all) /\ left \in SUBSET (DOMAIN all)
      BY <1>1, <1>4
    <3>2. QED
      BY <2>5, <2>6, <3>1, SumWithout
  <2>8. SumFunction(f) = SumFunctionOnSet(f, DOMAIN all)
    BY <1>1 DEF SumFunction
  <2>9. QED
    BY <2>1, <2>4, <2>7, <2>8
<1>11. ASSUME NEW i \in DOMAIN all, NEW j \in Young(all[i])
       PROVE  \E k \in DOMAIN new : \E l \in DOMAIN new[k].organisms :
                new[k].organisms[l] = all[i].organisms[j]
  <2>1. i \in left
    BY <1>3
  <2>2. PICK k \in 1..m : o[k] = i
    BY <1>7, <2>1
  <2>3. PICK s \in SpeciesType : s = all[i] /\ Young(s) # {}
    BY <1>1
  <2>4. \E l \in DOMAIN Matured(s).organisms : Matured(s).organisms[l] = s.organisms[j]
    BY <2>3, MaturedIs
  <2>5. new[k] = Matured(s)
    BY <1>8, <2>2, <2>3
  <2>6. QED
    BY <1>9, <2>3, <2>4, <2>5
<1>12. QED
  BY <1>1, <1>6, <1>9, <1>10, <1>11

(* Rebuilding keeps the invariant: as many are young as were expected.     *)
LEMMA RebuildKeeps == EpochInv /\ Rebuild => EpochInv'
<1> SUFFICES ASSUME EpochInv, Rebuild
             PROVE  EpochInv'
  OBVIOUS
<1>1. /\ phase = "reproduce" /\ Done /\ turn.at = Len(species)
      /\ species' = Rebuilt(species)
      /\ phase' = "evaluate" /\ generation' = generation + 1 /\ turn' = Idle
      /\ UNCHANGED <<last_species, babies_stolen, highest_fitness, highest_last_changed, seen>>
  BY DEF Rebuild, Rebuilt, Matured
<1>2. /\ EpochTypeOK /\ species \in Seq(SpeciesType) /\ species # <<>> /\ generation \in Nat
  BY DEF EpochInv, EpochTypeOK
<1>3. PICK n \in Nat : n = Len(species) /\ DOMAIN species = 1..n /\ turn.at = n
  BY <1>1, <1>2
<1>4. SumFunction(BabiesOf(species)) = SumFunctionOnSet(ExpectedOf(species), 1..n)
  BY <1>1, <1>3, AllMade
<1>5. SumFunction(BabiesOf(species)) = Whole
  <2>1. Expected(species) = SumFunctionOnSet(ExpectedOf(species), DOMAIN species)
    BY <1>2, Numbers
  <2>2. Expected(species) = Whole
    BY <1>1 DEF EpochInv, Accounted
  <2>3. QED
    BY <1>3, <1>4, <2>1, <2>2
<1>6. species' \in Seq(SpeciesType) /\ SizeOf(species') = Whole
  BY <1>1, <1>2, <1>5, RebuiltIs
<1>7. species' # <<>>
  <2>1. Whole \in Nat \ {0}
    BY <1>2, WholeIs
  <2>2. SUFFICES ASSUME species' = <<>>
                 PROVE  FALSE
    OBVIOUS
  <2>3. DOMAIN species' = {}
    BY <2>2
  <2>4. SizeOf(species') = SumFunctionOnSet(SizesOf(species'), {})
    BY <1>6, <2>3, Numbers
  <2>5. SumFunctionOnSet(SizesOf(species'), {}) = 0
    <3>1. Summed(SizesOf(species'), {})
      BY SumParts, FS_EmptySet
    <3>2. QED
      BY <3>1 DEF Summed
  <2>6. QED
    BY <1>6, <2>1, <2>4, <2>5
<1>8. EpochTypeOK'
  <2>1. generation' \in Nat
    BY <1>1, <1>2
  <2>2. turn' \in [at : 0..Len(species'), count : Nat, curChamp : Nat \ {0}, champ_done : BOOLEAN]
    <3>1. Len(species') \in Nat
      BY <1>6
    <3>2. 0 \in 0..Len(species')
      BY <3>1
    <3>3. turn' = [at |-> 0, count |-> 0, curChamp |-> 1, champ_done |-> FALSE]
      BY <1>1 DEF Idle
    <3>4. QED
      BY <3>2, <3>3
  <2>3. QED
    BY <1>1, <1>2, <1>6, <1>7, <2>1, <2>2 DEF EpochTypeOK
<1>9. Accounted'
  <2>1. Whole' = Whole /\ SizeOf(species)' = SizeOf(species')
    BY <1>1 DEF Whole, Half, SizeOf
  <2>2. QED
    BY <1>1, <1>6, <2>1 DEF Accounted
<1>10. InTurn'
  BY <1>1 DEF InTurn, Idle
<1>11. QED
  BY <1>8, <1>9, <1>10 DEF EpochInv

-----------------------------------------------------------------------------
(* Every step of a generation keeps the accounts.                          *)
LEMMA EpochStays == EpochInv /\ UNCHANGED epochVars => EpochInv'
<1> SUFFICES ASSUME EpochInv, UNCHANGED epochVars
             PROVE  EpochInv'
  OBVIOUS
<1>1. UNCHANGED <<phase, generation, species, last_species, babies_stolen, highest_fitness,
                  highest_last_changed, turn, seen>>
  BY DEF epochVars
<1>2. EpochTypeOK'
  BY <1>1 DEF EpochInv, EpochTypeOK
<1>3. /\ Whole' = Whole /\ SizeOf(species)' = SizeOf(species) /\ Expected(species)' = Expected(species)
      /\ BabiesOf(species)' = BabiesOf(species) /\ ExpectedOf(species)' = ExpectedOf(species)
  BY <1>1 DEF Whole, Half, SizeOf, Expected, BabiesOf, ExpectedOf, Young
<1>4. Accounted'
  BY <1>1, <1>3 DEF EpochInv, Accounted
<1>5. InTurn'
  BY <1>1 DEF EpochInv, InTurn, Marked, AtWork
<1>6. QED
  BY <1>2, <1>4, <1>5 DEF EpochInv

LEMMA EpochKeeps == EpochInv /\ [EpochNext]_epochVars => EpochInv'
<1> SUFFICES ASSUME EpochInv, EpochNext
             PROVE  EpochInv'
  BY EpochStays
<1>1. CASE Evaluate
  BY <1>1, EvaluateKeeps
<1>2. CASE Adjust
  BY <1>2, AdjustKeeps
<1>3. CASE Count
  BY <1>3, CountKeeps
<1>4. CASE Share
  BY <1>4, ShareKeeps
<1>5. CASE Kill
  BY <1>5, KillKeeps
<1>6. CASE NextSpecies
  BY <1>6, NextKeeps
<1>7. CASE SuperBaby \/ EliteBaby \/ MutatedBaby \/ MatedBaby
  BY <1>7, BabiesKeep
<1>8. CASE Rebuild
  BY <1>8, RebuildKeeps
<1>9. QED
  BY <1>1, <1>2, <1>3, <1>4, <1>5, <1>6, <1>7, <1>8 DEF EpochNext

(* In every state of every generation each place of the next one is        *)
(* accounted for: expected by a species, and made once its turn is over.   *)
THEOREM EpochAccounted == EpochSpec => []EpochInv
<1>1. EpochInit => EpochInv
  BY EpochStarts
<1>2. EpochInv /\ [EpochNext]_epochVars => EpochInv'
  BY EpochKeeps
<1>3. QED
  BY <1>1, <1>2, PTL DEF EpochSpec

(* The state of a generation is well formed in every phase, for every      *)
(* population and every choice of rounding.                                *)
THEOREM EpochTyped == EpochSpec => []EpochTypeOK
<1>1. EpochInv => EpochTypeOK
  BY DEF EpochInv
<1>2. QED
  BY <1>1, EpochAccounted, PTL

(* The population keeps its size: what the species expect together is the  *)
(* population, and the next generation is as many.                         *)
THEOREM SizeKeptHolds == EpochSpec => []SizeKept
<1>1. EpochInv => SizeKept
  BY DEF EpochInv, Accounted, SizeKept
<1>2. QED
  BY <1>1, EpochAccounted, PTL

(* Counting gives every species its share of the offspring, to less than   *)
(* one baby below and two above, whatever rounding does.                   *)
LEMMA CountIsFair ==
  ASSUME EpochInv, Count
  PROVE  FairShare'
<1>1. CountMade(species, species')
  BY CountStepMakes
<1>2. species' \in Seq(SpeciesType) /\ DOMAIN species' = DOMAIN species
  BY <1>1 DEF CountMade
<1>3. PICK total \in Nat : total = TotalWeight(species')
  BY <1>2, Weights
<1>4. ASSUME total > 0, NEW i \in DOMAIN species'
      PROVE  /\ SizeOf(species') * SpeciesWeight(species', species'[i]) - total
                  <= species'[i].expected * total
             /\ species'[i].expected * total
                  <= SizeOf(species') * SpeciesWeight(species', species'[i]) + 2 * total
  <2>1. /\ Due(species')[i] - total <= species'[i].expected * total
        /\ species'[i].expected * total <= Due(species')[i] + 2 * total
    BY <1>1, <1>2, <1>3, <1>4 DEF CountMade
  <2>2. Due(species')[i] = SizeOf(species') * SpeciesWeight(species', species'[i])
    BY DEF Due
  <2>3. QED
    BY <2>1, <2>2
<1>5. QED
  BY <1>3, <1>4 DEF FairShare

(* Every species is given its share of the offspring, to less than one     *)
(* baby below and two above, in every generation and for every choice of   *)
(* rounding.                                                               *)
THEOREM FairShareHolds == EpochSpec => []FairShare
<1>1. EpochInit => FairShare
  BY DEF EpochInit, FairShare
<1>2. EpochInv /\ FairShare /\ [EpochNext]_epochVars => FairShare'
  <2> SUFFICES ASSUME EpochInv, FairShare, [EpochNext]_epochVars
               PROVE  FairShare'
    OBVIOUS
  <2>1. CASE Count
    BY <2>1, CountIsFair
  <2>2. CASE EpochNext /\ ~Count
    <3>1. CASE Evaluate \/ Adjust \/ Share \/ Kill \/ Rebuild
      BY <3>1 DEF FairShare, Evaluate, Adjust, Share, Kill, Rebuild
    <3>2. CASE NextSpecies \/ MutatedBaby \/ MatedBaby
      <4>1. phase = "reproduce" /\ phase' = phase
        BY <3>2 DEF NextSpecies, MutatedBaby, MatedBaby, AddBaby, Working, Ordinary
      <4>2. QED
        BY <4>1 DEF FairShare
    <3>3. CASE SuperBaby \/ EliteBaby
      <4>1. phase = "reproduce" /\ phase' = phase
        BY <3>3 DEF SuperBaby, EliteBaby, AddBaby, Working
      <4>2. QED
        BY <4>1 DEF FairShare
    <3>4. QED
      BY <2>2, <3>1, <3>2, <3>3 DEF EpochNext
  <2>3. CASE UNCHANGED epochVars
    <3>1. phase' = phase /\ species' = species
      BY <2>3 DEF epochVars
    <3>2. QED
      BY <3>1, Zenon DEF FairShare
  <2>4. QED
    BY <2>1, <2>2, <2>3
<1>3. QED
  BY <1>1, <1>2, EpochAccounted, PTL DEF EpochSpec

-----------------------------------------------------------------------------
(* The best organism is not lost: until its genome is in a baby, the       *)
(* species it leads is still to clone it.                                  *)
BestInv == EpochInv /\ ChampionKept

(* A baby leaves everyone where it was, and is somewhere itself.           *)
LEMMA BabyAmong ==
  ASSUME NEW all \in Seq(SpeciesType), NEW o \in OrganismType, ~o.old, NEW new, Grown(all, o, new)
  PROVE  /\ \A i \in DOMAIN all :
              /\ i \in DOMAIN new /\ First(new[i]) = First(all[i])
              /\ new[i].expected = all[i].expected /\ new[i].room = all[i].room
              /\ \A j \in Young(all[i]) : /\ j \in Young(new[i])
                                          /\ new[i].organisms[j] = all[i].organisms[j]
         /\ \E i \in DOMAIN new : \E j \in Young(new[i]) : new[i].organisms[j] = o
<1>1. /\ new \in Seq(SpeciesType) /\ DOMAIN all \subseteq DOMAIN new
      /\ \A i \in DOMAIN all : new[i] = all[i] \/ new[i] = WithBaby(all[i], o)
      /\ \A i \in DOMAIN new : i \notin DOMAIN all => new[i].organisms = <<o>>
      /\ \E i \in DOMAIN new : \/ i \notin DOMAIN all
                               \/ i \in DOMAIN all /\ new[i] = WithBaby(all[i], o)
  BY DEF Grown
<1>2. \A i \in DOMAIN all : all[i] \in SpeciesType
  OBVIOUS
<1>3. ASSUME NEW s \in SpeciesType, NEW k, k = WithBaby(s, o)
      PROVE  /\ First(k) = First(s) /\ k.expected = s.expected /\ k.room = s.room
             /\ \A j \in Young(s) : j \in Young(k) /\ k.organisms[j] = s.organisms[j]
             /\ \E j \in Young(k) : k.organisms[j] = o
  <2>1. /\ k.expected = s.expected /\ k.room = s.room /\ k \in SpeciesType
        /\ Len(k.organisms) = Len(s.organisms) + 1
        /\ k.organisms[Len(s.organisms) + 1] = o
        /\ \A j \in DOMAIN s.organisms : k.organisms[j] = s.organisms[j]
    BY <1>3, BabyJoins
  <2>2. PICK n \in Nat \ {0} : n = Len(s.organisms) /\ DOMAIN s.organisms = 1..n
    BY YoungFinite
  <2>3. DOMAIN k.organisms = 1..n + 1
    BY <2>1, <2>2, YoungFinite
  <2>4. First(k) = First(s)
    BY <2>1, <2>2 DEF First
  <2>5. \A j \in Young(s) : j \in Young(k) /\ k.organisms[j] = s.organisms[j]
    BY <2>1, <2>2, <2>3 DEF Young
  <2>6. n + 1 \in Young(k) /\ k.organisms[n + 1] = o
    BY <2>1, <2>2, <2>3 DEF Young
  <2>7. QED
    BY <2>1, <2>4, <2>5, <2>6
<1>4. ASSUME NEW i \in DOMAIN all
      PROVE  /\ i \in DOMAIN new /\ First(new[i]) = First(all[i])
             /\ new[i].expected = all[i].expected /\ new[i].room = all[i].room
             /\ \A j \in Young(all[i]) : /\ j \in Young(new[i])
                                         /\ new[i].organisms[j] = all[i].organisms[j]
  <2>1. CASE new[i] = all[i]
    BY <1>1, <2>1
  <2>2. CASE new[i] = WithBaby(all[i], o)
    BY <1>1, <1>2, <1>3, <2>2
  <2>3. QED
    BY <1>1, <2>1, <2>2
<1>5. \E i \in DOMAIN new : \E j \in Young(new[i]) : new[i].organisms[j] = o
  <2>1. CASE \E i \in DOMAIN new : i \notin DOMAIN all
    <3>1. PICK i \in DOMAIN new : new[i].organisms = <<o>>
      BY <1>1, <2>1
    <3>2. DOMAIN <<o>> = 1..1 /\ <<o>>[1] = o
      OBVIOUS
    <3>3. 1 \in Young(new[i]) /\ new[i].organisms[1] = o
      BY <3>1, <3>2 DEF Young
    <3>4. QED
      BY <3>3
  <2>2. CASE \E i \in DOMAIN all : i \in DOMAIN new /\ new[i] = WithBaby(all[i], o)
    BY <1>2, <1>3, <2>2
  <2>3. QED
    BY <1>1, <2>1, <2>2
<1>6. QED
  BY <1>4, <1>5

(* A round loses no clone, and a baby of the best genome is one.           *)
LEMMA RoundClones ==
  ASSUME EpochInv, NEW all, NEW g, Round(all, g), seen'.best = seen.best
  PROVE  /\ Cloned \/ g = seen.best => Cloned'
         /\ \A i \in DOMAIN species :
              /\ i \in DOMAIN species' /\ First(species'[i]) = First(all[i])
              /\ species'[i].expected = all[i].expected /\ species'[i].room = all[i].room
<1>1. /\ Grown(all, Organism(g), species') /\ Organism(g) \in OrganismType
      /\ all \in Seq(SpeciesType) /\ DOMAIN all = DOMAIN species
  BY RoundGrows
<1>2. ~Organism(g).old /\ Organism(g).genome = g
  BY DEF Organism
<1>3. /\ \A i \in DOMAIN all :
           /\ i \in DOMAIN species' /\ First(species'[i]) = First(all[i])
           /\ species'[i].expected = all[i].expected /\ species'[i].room = all[i].room
           /\ \A j \in Young(all[i]) : /\ j \in Young(species'[i])
                                       /\ species'[i].organisms[j] = all[i].organisms[j]
      /\ \E i \in DOMAIN species' : \E j \in Young(species'[i]) : species'[i].organisms[j] = Organism(g)
  BY <1>1, <1>2, BabyAmong
<1>4. ASSUME Cloned
      PROVE  Cloned'
  <2>1. PICK i, j : i \in DOMAIN species /\ j \in Young(species[i]) /\ species[i].organisms[j].genome = seen.best
    BY <1>4 DEF Cloned
  <2>2. SameMembers(species[i], all[i])
    BY <2>1 DEF Round, Reshared
  <2>3. j \in Young(all[i]) /\ all[i].organisms[j].genome = seen.best
    BY <2>1, <2>2 DEF SameMembers, Young
  <2>4. i \in DOMAIN species' /\ j \in Young(species'[i]) /\ species'[i].organisms[j].genome = seen'.best
    BY <1>1, <1>3, <2>1, <2>3
  <2>5. QED
    BY <2>4 DEF Cloned
<1>5. ASSUME g = seen.best
      PROVE  Cloned'
  <2>1. PICK i, j : i \in DOMAIN species' /\ j \in Young(species'[i]) /\ species'[i].organisms[j] = Organism(g)
    BY <1>3
  <2>2. species'[i].organisms[j].genome = seen'.best
    BY <1>2, <1>5, <2>1
  <2>3. QED
    BY <2>1, <2>2 DEF Cloned
<1>6. QED
  BY <1>1, <1>3, <1>4, <1>5

ToBeCloned == Cloned \/ \E i \in DOMAIN species : i >= turn.at /\ ToClone(i)

(* Fields of a species that its numbers come from.                         *)
LEMMA SpeciesNumbers ==
  ASSUME NEW s \in SpeciesType
  PROVE  s.expected \in Nat /\ First(s) \in OrganismType /\ First(s).super \in Nat
BY YoungFinite DEF First, SpeciesType, OrganismType

(* The parts of a well-formed state.                                       *)
LEMMA EpochParts ==
  ASSUME EpochInv
  PROVE  /\ species \in Seq(SpeciesType) /\ species # <<>>
         /\ Len(species) \in Nat /\ DOMAIN species = 1..Len(species)
         /\ turn \in TurnType(Len(species)) /\ seen \in SeenType
         /\ turn.at \in Nat /\ turn.at <= Len(species)
         /\ turn.count \in Nat /\ turn.curChamp \in Nat \ {0} /\ turn.champ_done \in BOOLEAN
<1>1. /\ species \in Seq(SpeciesType) /\ species # <<>>
      /\ turn \in TurnType(Len(species)) /\ seen \in SeenType
  BY DEF EpochInv, EpochTypeOK, TurnType, SeenType
<1>2. PICK n \in Nat : n = Len(species) /\ DOMAIN species = 1..n
  BY <1>1
<1>3. /\ turn.at \in 0..n /\ turn.count \in Nat /\ turn.curChamp \in Nat \ {0}
      /\ turn.champ_done \in BOOLEAN
  BY <1>1, <1>2 DEF TurnType
<1>4. turn.at \in Nat /\ turn.at <= n
  BY <1>3
<1>5. QED
  BY <1>1, <1>2, <1>3, <1>4

(* A species not at work and not before is one whose turn is to come.      *)
LEMMA TurnToCome ==
  ASSUME EpochInv, Working, NEW i \in DOMAIN species, i >= turn.at, i # turn.at
  PROVE  i > turn.at
<1>1. species \in Seq(SpeciesType) /\ turn.at \in Nat \ {0}
  BY RoundStarts
<1>2. DOMAIN species \subseteq Int
  BY <1>1
<1>3. PICK at \in Int, k \in Int : at = turn.at /\ k = i
  BY <1>1, <1>2
<1>4. QED
  BY <1>3

(* A round leaves a species whose turn is to come as it is to clone it.    *)
LEMMA LaterStays ==
  ASSUME EpochInv, NEW all, NEW g, Round(all, g), seen'.best = seen.best,
         NEW i \in DOMAIN species, i > turn.at, all[i] = species[i], ToClone(i)
  PROVE  ToBeCloned'
<1>1. /\ i \in DOMAIN species' /\ First(species'[i]) = First(species[i])
      /\ species'[i].expected = species[i].expected
  BY RoundClones
<1>2. Able(species[i]) /\ First(species[i]).genome = seen.best
  <2>1. turn.at < i
    <3>1. PICK at \in Int, k \in Int : at = turn.at /\ k = i
      BY RoundStarts DEF Round
    <3>2. QED
      BY <3>1
  <2>2. QED
    BY <2>1 DEF ToClone
<1>3. Able(species'[i]) /\ First(species'[i]).genome = seen'.best
  BY <1>1, <1>2 DEF Able
<1>4. turn'.at = turn.at
  BY DEF Round
<1>5. PICK at \in Int, k \in Int : at = turn.at /\ k = i /\ k > at /\ k # at /\ k >= at
  BY RoundStarts DEF Round
<1>6. ToClone(i)' /\ i >= turn'.at
  BY <1>3, <1>4, <1>5 DEF ToClone
<1>7. QED
  BY <1>1, <1>6 DEF ToBeCloned

(* A species without a super champ that only mates and mutates is not the  *)
(* one that is still to clone it.                                          *)
LEMMA OrdinaryClones ==
  ASSUME EpochInv, MutatedBaby \/ MatedBaby, ToBeCloned
  PROVE  ToBeCloned'
<1>1. PICK g \in Genomes : Round(species, g)
  BY OrdinaryRound
<1>2. Ordinary /\ seen' = seen
  BY OrdinaryRound
<1>3. Working /\ First(AtWork).super = 0 /\ ~Elite
  BY <1>2 DEF Ordinary
<1>4. CASE Cloned
  BY <1>1, <1>2, <1>4, RoundClones DEF ToBeCloned
<1>5. CASE ~Cloned
  <2>1. PICK i \in DOMAIN species : i >= turn.at /\ ToClone(i)
    BY <1>5 DEF ToBeCloned
  <2>2. i # turn.at
    <3>1. SUFFICES ASSUME i = turn.at
                   PROVE  FALSE
      OBVIOUS
    <3>2. StillAble(AtWork)
      BY <2>1, <3>1 DEF ToClone, AtWork
    <3>3. AtWork.expected > 5 /\ ~turn.champ_done
      BY <1>3, <3>2 DEF StillAble
    <3>4. QED
      BY <1>3, <3>3 DEF Elite
  <2>3. i > turn.at
    BY <1>3, <2>1, <2>2, TurnToCome
  <2>4. QED
    BY <1>1, <1>2, <2>1, <2>3, LaterStays
<1>6. QED
  BY <1>4, <1>5

(* The first elite clone of a species is the one of its first organism.    *)
LEMMA EliteClones ==
  ASSUME EpochInv, EliteBaby, ToBeCloned
  PROVE  ToBeCloned'
<1>1. PICK mom \in Clones :
        /\ Round(species, mom.genome) /\ mom \in OrganismType
        /\ Working /\ First(AtWork).super = 0
        /\ seen' = [seen EXCEPT !.clone = IF mom.old THEN @ ELSE "no parent"]
  BY EliteRound
<1>2. seen \in SeenType /\ turn.at \in DOMAIN species /\ AtWork \in SpeciesType
  BY <1>1, RoundStarts
<1>3. seen'.best = seen.best
  BY <1>1, <1>2, Zenon DEF SeenType
<1>4. CASE Cloned
  BY <1>1, <1>3, <1>4, RoundClones DEF ToBeCloned
<1>5. CASE ~Cloned
  <2>1. PICK i \in DOMAIN species : i >= turn.at /\ ToClone(i)
    BY <1>5 DEF ToBeCloned
  <2>2. CASE i = turn.at
    <3>1. StillAble(AtWork) /\ First(AtWork).genome = seen.best
      BY <2>1, <2>2 DEF ToClone, AtWork
    <3>2. turn.curChamp = 1 /\ Len(AtWork.organisms) <= AtWork.room
      BY <1>1, <3>1 DEF StillAble
    <3>3. Len(AtWork.organisms) \in Nat \ {0}
      BY <1>2, YoungFinite
    <3>4. turn.curChamp <= Len(AtWork.organisms)
      BY <3>2, <3>3
    <3>5. elitism_percentage \in 0..100
      BY EpochAssumption
    <3>6. mom = First(AtWork)
      <4>1. CASE elitism_percentage = 0
        <5>1. Clones = {First(AtWork)}
          BY <4>1 DEF Clones
        <5>2. QED
          BY <5>1
      <4>2. CASE elitism_percentage # 0
        <5>1. elitism_percentage > 0 /\ ~(elitism_percentage = 0)
          BY <3>5, <4>2
        <5>2. Clones = {AtWork.organisms[turn.curChamp]}
          BY <3>2, <3>4, <5>1 DEF Clones
        <5>3. QED
          BY <3>2, <5>2 DEF First
      <4>3. QED
        BY <4>1, <4>2
    <3>7. mom.genome = seen.best
      BY <3>1, <3>6
    <3>8. QED
      BY <1>1, <1>3, <3>7, RoundClones DEF ToBeCloned
  <2>3. CASE i # turn.at
    <3>1. i > turn.at
      BY <1>1, <2>1, <2>3, TurnToCome
    <3>2. QED
      BY <1>1, <1>3, <2>1, <3>1, LaterStays
  <2>4. QED
    BY <2>2, <2>3
<1>6. QED
  BY <1>4, <1>5

(* The last offspring of a super champ is its clone; the ones before leave *)
(* it a round less and one to come less.                                   *)
LEMMA SuperClones ==
  ASSUME EpochInv, SuperBaby, ToBeCloned
  PROVE  ToBeCloned'
<1>1. PICK all, k, g :
        /\ Round(all, g) /\ all = [species EXCEPT ![turn.at] = k]
        /\ Promised(AtWork, k, AtWork.expected)
        /\ First(AtWork).super > 0 /\ First(k).super = First(AtWork).super - 1
        /\ First(AtWork).super = 1 => g = First(AtWork).genome
        /\ UNCHANGED seen /\ Working
  BY SuperRound
<1>2. turn.at \in DOMAIN species /\ AtWork \in SpeciesType /\ AtWork = species[turn.at]
  BY <1>1, RoundStarts DEF AtWork
<1>3. CASE Cloned
  BY <1>1, <1>3, RoundClones DEF ToBeCloned
<1>4. CASE ~Cloned
  <2>1. PICK i \in DOMAIN species : i >= turn.at /\ ToClone(i)
    BY <1>4 DEF ToBeCloned
  <2>2. CASE i = turn.at
    <3>1. StillAble(AtWork) /\ First(AtWork).genome = seen.best
      BY <1>2, <2>1, <2>2 DEF ToClone
    <3>2. CASE First(AtWork).super = 1
      BY <1>1, <3>1, <3>2, RoundClones DEF ToBeCloned
    <3>3. CASE First(AtWork).super # 1
      <4>1. PICK n \in Nat, x \in Nat : n = First(AtWork).super /\ x = AtWork.expected
        BY <1>2, SpeciesNumbers
      <4>2. PICK c \in Nat : c = turn.count
        BY <1>1, RoundStarts
      <4>3. n > 1 /\ c + n <= x /\ First(k).super = n - 1
        BY <1>1, <3>1, <3>3, <4>1, <4>2 DEF StillAble
      <4>4. PICK r \in DOMAIN species' : /\ r = turn.at /\ First(species'[r]) = First(k)
                                         /\ species'[r].expected = x
        <5>1. all[turn.at] = k /\ k.expected = x
          BY <1>1, <1>2, <4>1 DEF Promised
        <5>2. PICK r \in DOMAIN species : r = turn.at
          BY <1>2
        <5>3. /\ r \in DOMAIN species' /\ First(species'[r]) = First(all[r])
              /\ species'[r].expected = all[r].expected
          BY <1>1, RoundClones
        <5>4. QED
          BY <5>1, <5>2, <5>3
      <4>5. First(k).genome = seen'.best
        <5>1. 1 \in DOMAIN AtWork.organisms
          BY <1>2, YoungFinite
        <5>2. First(k).genome = First(AtWork).genome
          BY <1>1, <5>1 DEF Promised, SameMembers, First
        <5>3. QED
          BY <1>1, <3>1, <5>2
      <4>6. turn'.at = r /\ turn'.count = c + 1
        BY <1>1, <4>2, <4>4 DEF Round
      <4>7. First(species'[r]).super = n - 1 /\ n - 1 # 0 /\ (c + 1) + (n - 1) <= x
        BY <4>3, <4>4
      <4>8. StillAble(species[r])'
        BY <4>4, <4>6, <4>7 DEF StillAble
      <4>9. r \in Int
        BY <1>1, <4>4, RoundStarts
      <4>10. ~(turn'.at < r) /\ r >= turn'.at
        BY <4>6, <4>9
      <4>11. ToClone(r)'
        BY <4>4, <4>5, <4>6, <4>8, <4>10 DEF ToClone
      <4>12. QED
        BY <4>10, <4>11 DEF ToBeCloned
    <3>4. QED
      BY <3>2, <3>3
  <2>3. CASE i # turn.at
    <3>1. i > turn.at
      BY <1>1, <2>1, <2>3, TurnToCome
    <3>2. all[i] = species[i] /\ seen'.best = seen.best
      BY <1>1, <2>3
    <3>3. QED
      BY <1>1, <2>1, <3>1, <3>2, LaterStays
  <2>4. QED
    BY <2>2, <2>3
<1>5. QED
  BY <1>3, <1>4

(* A species that is done has nothing to clone any more.                   *)
LEMMA DoneIsCloned ==
  ASSUME EpochInv, phase = "reproduce", Done, turn.at > 0, turn.at \in DOMAIN species
  PROVE  ~ToClone(turn.at)
<1> SUFFICES ASSUME ToClone(turn.at)
             PROVE  FALSE
  OBVIOUS
<1>1. PICK s \in SpeciesType : s = species[turn.at] /\ s = AtWork
  BY EpochParts DEF AtWork
<1>2. PICK x \in Nat, n \in Nat : x = s.expected /\ n = First(s).super
  BY SpeciesNumbers
<1>3. turn.count = x
  <2>1. turn.at # 0
    BY EpochParts
  <2>2. QED
    BY <1>1, <1>2, <2>1 DEF Done
<1>4. StillAble(s)
  BY <1>1 DEF ToClone
<1>5. QED
  BY <1>2, <1>3, <1>4 DEF StillAble

(* The turn of a species that is to clone the best comes.                  *)
LEMMA NextClones ==
  ASSUME EpochInv, NextSpecies, ToBeCloned
  PROVE  ToBeCloned'
<1>1. /\ turn.at + 1 \in DOMAIN species /\ DOMAIN species' = DOMAIN species
      /\ \A i \in DOMAIN species : IF i = turn.at + 1 THEN Roomy(species[i], species'[i])
                                   ELSE species'[i] = species[i]
      /\ seen'.best = seen.best
  BY NextMakes
<1>2. phase = "reproduce" /\ Done /\ turn' = [Idle EXCEPT !.at = turn.at + 1]
  BY DEF NextSpecies
<1>3. PICK at \in Nat, n \in Nat : at = turn.at /\ n = Len(species) /\ DOMAIN species = 1..n
  BY EpochParts
<1>4. turn' = [at |-> at + 1, count |-> 0, curChamp |-> 1, champ_done |-> FALSE]
  BY <1>2, <1>3 DEF Idle
<1>5. \A i \in DOMAIN species : species'[i].organisms = species[i].organisms
                                /\ species'[i].expected = species[i].expected
  BY <1>1 DEF Roomy
<1>6. CASE Cloned
  BY <1>1, <1>5, <1>6 DEF Cloned, Young, ToBeCloned
<1>7. CASE ~Cloned
  <2>1. PICK i \in 1..n : i >= at /\ ToClone(i)
    BY <1>3, <1>7 DEF ToBeCloned
  <2>2. i # at
    BY <1>2, <1>3, <2>1, DoneIsCloned
  <2>3. i > at /\ i >= at + 1
    BY <2>1, <2>2
  <2>4. Able(species[i]) /\ First(species[i]).genome = seen.best
    BY <1>3, <2>1, <2>3 DEF ToClone
  <2>5. First(species'[i]) = First(species[i]) /\ species'[i].expected = species[i].expected
    BY <1>3, <1>5 DEF First
  <2>6. Able(species'[i]) /\ First(species'[i]).genome = seen'.best
    BY <1>1, <2>4, <2>5 DEF Able
  <2>7. i = at + 1 => StillAble(species[i])'
    <3>1. SUFFICES ASSUME i = at + 1
                   PROVE  StillAble(species[i])'
      OBVIOUS
    <3>2. PICK s \in SpeciesType : s = species'[i] /\ Len(s.organisms) <= s.room
      <4>1. Roomy(species[i], species'[i])
        BY <1>1, <1>3, <3>1
      <4>2. species'[i] \in SpeciesType /\ species'[i].room >= Len(species'[i].organisms)
        BY <4>1 DEF Roomy
      <4>3. PICK s \in SpeciesType : s = species'[i]
        BY <4>2
      <4>4. s.room \in Nat /\ Len(s.organisms) \in Nat
        BY YoungFinite DEF SpeciesType
      <4>5. QED
        BY <4>2, <4>3, <4>4
    <3>3. PICK x \in Nat, m \in Nat : x = s.expected /\ m = First(s).super
      BY SpeciesNumbers
    <3>4. 0 + m = m
      OBVIOUS
    <3>5. IF m = 0 THEN x > 5 ELSE m <= x
      BY <2>6, <3>2, <3>3 DEF Able
    <3>6. turn'.count = 0 /\ turn'.curChamp = 1 /\ ~turn'.champ_done
      BY <1>4
    <3>7. QED
      BY <3>2, <3>3, <3>4, <3>5, <3>6 DEF StillAble
  <2>8. ToClone(i)' /\ i >= turn'.at /\ i \in DOMAIN species'
    BY <1>1, <1>3, <1>4, <2>3, <2>6, <2>7 DEF ToClone
  <2>9. QED
    BY <2>8 DEF ToBeCloned
<1>8. QED
  BY <1>6, <1>7

(* Sharing leaves the best organism with a species that is to clone it, if *)
(* it says so.                                                             *)
LEMMA ShareClones ==
  ASSUME EpochInv, Share, seen'.kept
  PROVE  ToBeCloned'
<1>1. PICK i : ChampionAt(species, species', i, seen')
  BY ShareMakes
<1>2. Reshared(species, species', Whole' - Expected(species))
  BY ShareMakes
<1>3. i \in DOMAIN species /\ seen'.best = First(species[i]).genome /\ Able(species'[i])
  BY <1>1 DEF ChampionAt
<1>4. PICK s \in SpeciesType : s = species[i]
  BY <1>3, EpochParts
<1>5. DOMAIN species' = DOMAIN species /\ SameMembers(s, species'[i])
  BY <1>2, <1>3, <1>4 DEF Reshared
<1>6. 1 \in DOMAIN s.organisms
  BY YoungFinite
<1>7. First(species'[i]).genome = seen'.best
  BY <1>3, <1>4, <1>5, <1>6 DEF SameMembers, First
<1>8. turn' = [at |-> 0, count |-> 0, curChamp |-> 1, champ_done |-> FALSE]
  BY ZenonT(60) DEF Share, EpochInv, InTurn, Idle
<1>9. PICK n \in Nat : DOMAIN species = 1..n
  BY EpochParts
<1>10. i \in 1..n /\ turn'.at = 0
  BY <1>3, <1>8, <1>9
<1>11. turn'.at < i /\ i >= turn'.at /\ turn'.at # i
  BY <1>10
<1>12. ToClone(i)'
  BY <1>3, <1>7, <1>11 DEF ToClone
<1>13. QED
  BY <1>3, <1>5, <1>11, <1>12 DEF ToBeCloned

(* The best organism is not among the killed.                              *)
LEMMA KillClones ==
  ASSUME EpochInv, Kill, ToBeCloned
  PROVE  ToBeCloned'
<1>1. /\ DOMAIN species' = DOMAIN species
      /\ \A i \in DOMAIN species : Left(species[i], species'[i])
  BY KillMakes
<1>2. /\ \A i \in DOMAIN species : Marked(species[i])
      /\ turn = [at |-> 0, count |-> 0, curChamp |-> 1, champ_done |-> FALSE]
      /\ turn' = turn /\ seen' = seen
  BY DEF Kill, EpochInv, InTurn, Idle
<1>3. ~Cloned
  BY <1>2 DEF Cloned, Young, Marked
<1>4. PICK i \in DOMAIN species : i >= turn.at /\ ToClone(i)
  BY <1>3 DEF ToBeCloned
<1>5. PICK n \in Nat : DOMAIN species = 1..n
  BY EpochParts
<1>6. i \in 1..n /\ turn.at = 0
  BY <1>2, <1>4, <1>5
<1>7. turn.at < i /\ i >= turn.at /\ turn.at # i
  BY <1>6
<1>8. Able(species[i]) /\ First(species[i]).genome = seen.best
  BY <1>4, <1>7 DEF ToClone
<1>9. /\ species'[i].expected = species[i].expected /\ First(species'[i]).super = First(species[i]).super
      /\ First(species'[i]).genome = First(species[i]).genome
  BY <1>1, <1>4 DEF Left
<1>10. Able(species'[i]) /\ First(species'[i]).genome = seen'.best
  BY <1>2, <1>8, <1>9 DEF Able
<1>11. ToClone(i)' /\ i >= turn'.at /\ i \in DOMAIN species'
  BY <1>1, <1>2, <1>4, <1>7, <1>10 DEF ToClone
<1>12. QED
  BY <1>11 DEF ToBeCloned

(* The baby of the best genome is in the next generation.                  *)
LEMMA RebuildClones ==
  ASSUME EpochInv, Rebuild, ToBeCloned
  PROVE  BestKept'
<1>1. /\ phase = "reproduce" /\ Done /\ turn.at = Len(species)
      /\ species' = Rebuilt(species) /\ seen' = seen
  BY DEF Rebuild, Rebuilt, Matured
<1>2. PICK n \in Nat : n = Len(species) /\ DOMAIN species = 1..n /\ turn.at = n
  BY <1>1, EpochParts
<1>3. Cloned
  <2>1. SUFFICES ASSUME ~Cloned
                 PROVE  FALSE
    OBVIOUS
  <2>2. PICK i \in 1..n : i >= turn.at /\ ToClone(i)
    BY <1>2, <2>1 DEF ToBeCloned
  <2>3. i = turn.at /\ turn.at > 0 /\ turn.at \in DOMAIN species
    BY <1>2, <2>2
  <2>4. QED
    BY <1>1, <2>2, <2>3, DoneIsCloned
<1>4. PICK i, j : i \in DOMAIN species /\ j \in Young(species[i]) /\ species[i].organisms[j].genome = seen.best
  BY <1>3 DEF Cloned
<1>5. species \in Seq(SpeciesType)
  BY EpochParts
<1>6. PICK k, l : /\ k \in DOMAIN species'
                  /\ l \in DOMAIN species'[k].organisms
                  /\ species'[k].organisms[l] = species[i].organisms[j]
  BY <1>1, <1>4, <1>5, RebuiltIs
<1>7. species'[k].organisms[l].genome = seen'.best
  BY <1>1, <1>4, <1>6
<1>8. QED
  BY <1>6, <1>7 DEF BestKept

(* Every step keeps the best organism where it is or will be cloned.       *)
LEMMA ChampionKeeps ==
  ASSUME EpochInv, ChampionKept, EpochNext
  PROVE  ChampionKept'
<1>1. CASE Evaluate \/ Adjust \/ Count
  <2>1. phase' \in {"adjust", "count", "share"}
    BY <1>1 DEF Evaluate, Adjust, Count
  <2>2. QED
    BY <2>1 DEF ChampionKept
<1>2. CASE Share
  <2>1. phase' = "kill"
    BY <1>2 DEF Share
  <2>2. QED
    BY <1>2, <2>1, ShareClones DEF ChampionKept, ToBeCloned
<1>3. CASE Kill
  <2>1. phase = "kill" /\ phase' = "reproduce" /\ seen' = seen
    BY <1>3 DEF Kill
  <2>2. seen.kept => ToBeCloned
    BY <2>1 DEF ChampionKept, ToBeCloned
  <2>3. seen.kept => ToBeCloned'
    BY <1>3, <2>2, KillClones
  <2>4. QED
    BY <2>1, <2>3 DEF ChampionKept, ToBeCloned
<1>4. CASE NextSpecies \/ SuperBaby \/ EliteBaby \/ MutatedBaby \/ MatedBaby
  <2>1. phase = "reproduce" /\ phase' = phase
    BY <1>4 DEF NextSpecies, SuperBaby, EliteBaby, MutatedBaby, MatedBaby, Ordinary, Working, AddBaby
  <2>2. seen'.kept = seen.kept
    <3>1. CASE NextSpecies
      BY <3>1, NextMakes
    <3>2. CASE SuperBaby \/ MutatedBaby \/ MatedBaby
      BY <3>2 DEF SuperBaby, MutatedBaby, MatedBaby
    <3>3. CASE EliteBaby
      <4>1. PICK v : seen' = [seen EXCEPT !.clone = v]
        BY <3>3 DEF EliteBaby
      <4>2. seen \in SeenType
        BY EpochParts
      <4>3. QED
        BY <4>1, <4>2, Zenon DEF SeenType
    <3>4. QED
      BY <1>4, <3>1, <3>2, <3>3
  <2>3. seen.kept => ToBeCloned
    BY <2>1 DEF ChampionKept, ToBeCloned
  <2>4. seen.kept => ToBeCloned'
    BY <1>4, <2>3, NextClones, SuperClones, EliteClones, OrdinaryClones
  <2>5. phase' = "reproduce"
    BY <2>1
  <2>6. QED
    BY <2>2, <2>4, <2>5 DEF ChampionKept, ToBeCloned
<1>5. CASE Rebuild
  <2>1. phase = "reproduce" /\ phase' = "evaluate" /\ seen' = seen
    BY <1>5 DEF Rebuild
  <2>2. seen.kept => ToBeCloned
    BY <2>1 DEF ChampionKept, ToBeCloned
  <2>3. seen.kept => BestKept'
    BY <1>5, <2>2, RebuildClones
  <2>4. QED
    BY <2>1, <2>3 DEF ChampionKept
<1>6. QED
  BY <1>1, <1>2, <1>3, <1>4, <1>5 DEF EpochNext

(* A step that changes nothing loses nobody.                               *)
LEMMA ChampionStays == ChampionKept /\ UNCHANGED epochVars => ChampionKept'
<1> SUFFICES ASSUME ChampionKept, UNCHANGED epochVars
             PROVE  ChampionKept'
  OBVIOUS
<1>1. UNCHANGED <<phase, species, turn, seen>>
  BY DEF epochVars
<1>2. BestKept = BestKept'
  BY <1>1, Zenon DEF BestKept
<1>3. Cloned = Cloned'
  BY <1>1, Zenon DEF Cloned, Young
<1>4. \A i : ToClone(i) => ToClone(i)'
  BY <1>1 DEF ToClone, StillAble
<1>5. QED
  BY <1>1, <1>2, <1>3, <1>4 DEF ChampionKept

(* The genome of the best organism is in the next generation, whenever its *)
(* species had more than five babies or was to clone it last: in one of    *)
(* the babies, of whatever species they joined.                            *)
THEOREM BestKeptHolds == EpochSpec => []BestKept
<1>1. EpochInit => BestInv
  <2>1. EpochInit => ~seen.kept
    BY DEF EpochInit, Nothing
  <2>2. QED
    BY <2>1, EpochStarts DEF BestInv, ChampionKept
<1>2. BestInv /\ [EpochNext]_epochVars => BestInv'
  BY EpochKeeps, ChampionKeeps, ChampionStays DEF BestInv
<1>3. BestInv => BestKept
  BY DEF BestInv, ChampionKept, BestKept
<1>4. QED
  BY <1>1, <1>2, <1>3, PTL DEF EpochSpec

-----------------------------------------------------------------------------
(* The elite are parents.  This rests on the parameters: no more than half *)
(* of a species are parents, and a species that clones an elite clones one *)
(* organism at least.                                                      *)
EliteParameters == /\ survival_thresh <= 50
                   /\ elitism_percentage = 0 \/ 6 * elitism_percentage >= 100

(* Half of a species at most are parents, or there is one only.            *)
LEMMA HalfAreParents ==
  ASSUME EliteParameters, NEW n \in Nat \ {0}
  PROVE  2 * Cardinality({j \in 1..n : ~(j > NumParents(n))}) <= n + 1
<1>1. PICK m \in Nat : m = NumParents(n) /\ m >= 1
  BY ParentsLeft
<1>2. PICK t \in 0..50 : t = survival_thresh
  BY EpochAssumption DEF EliteParameters
<1>3. PICK p \in Nat : p = t * n
  BY <1>2
<1>4. p <= 50 * n
  BY <1>2, <1>3
<1>5. PICK h \in Nat : h = p \div 100
  BY <1>3
<1>6. 2 * h <= n
  BY <1>3, <1>4, <1>5
<1>7. 1 \in Int /\ h \in Int /\ m = Max({1, h})
  BY <1>1, <1>2, <1>3, <1>5 DEF NumParents
<1>8. m \in {1, h}
  <2>1. \E x \in {1, h} : \A y \in {1, h} : x >= y
    BY <1>7
  <2>2. QED
    BY <1>7, <2>1 DEF Max
<1>9. 2 * m <= n + 1
  BY <1>1, <1>5, <1>6, <1>8
<1>10. PICK S : S = {j \in 1..n : ~(j > m)}
  OBVIOUS
<1>11. S \in SUBSET (1..m)
  BY <1>1, <1>10
<1>12. IsFiniteSet(1..m) /\ Cardinality(1..m) = m
  BY <1>1, FS_Interval
<1>13. IsFiniteSet(S) /\ Cardinality(S) <= m
  BY <1>11, <1>12, FS_Subset
<1>14. PICK c \in Nat : c = Cardinality(S)
  BY <1>13, FS_CardinalityType
<1>15. c <= m
  BY <1>13, <1>14
<1>16. 2 * c <= n + 1
  BY <1>1, <1>9, <1>14, <1>15
<1>17. QED
  BY <1>1, <1>10, <1>14, <1>16

(* After the killing every vector has room for as many again as are left,  *)
(* but for one.                                                            *)
LEMMA KillElite ==
  ASSUME EliteParameters, EpochInv, Kill
  PROVE  EliteInTurn' /\ EliteOfParents'
<1>1. /\ species' \in Seq(SpeciesType) /\ DOMAIN species' = DOMAIN species
      /\ \A i \in DOMAIN species : Left(species[i], species'[i])
  BY KillMakes
<1>2. turn' = Idle /\ seen'.clone = "parent"
  BY DEF Kill, EpochInv, InTurn
<1>3. ASSUME NEW i \in DOMAIN species
      PROVE  Spacious(species'[i])
  <2>1. PICK s \in SpeciesType : s = species[i]
    BY EpochParts
  <2>2. PICK k \in SpeciesType : k = species'[i] /\ Left(s, k)
    BY <1>1, <2>1, ZenonT(60) DEF Left
  <2>3. PICK n \in Nat \ {0} : n = Len(s.organisms) /\ k.room = n
    BY <2>2, YoungFinite DEF Left
  <2>4. Parents(k) = 1..Len(k.organisms) /\ Len(k.organisms) \in Nat
    <3>1. DOMAIN k.organisms = 1..Len(k.organisms) /\ Len(k.organisms) \in Nat
      BY YoungFinite
    <3>2. \A j \in DOMAIN k.organisms : k.organisms[j].old
      BY <2>2 DEF Left
    <3>3. QED
      BY <3>1, <3>2 DEF Parents
  <2>5. Cardinality(Parents(k)) = Len(k.organisms)
    BY <2>4, FS_Interval
  <2>6. 2 * Len(k.organisms) <= n + 1
    BY <2>2, <2>3, HalfAreParents DEF Left
  <2>7. QED
    BY <2>2, <2>3, <2>5, <2>6 DEF Spacious
<1>4. turn'.at = 0
  BY <1>2 DEF Idle
<1>5. EliteInTurn'
  BY <1>1, <1>3, <1>4 DEF EliteInTurn
<1>6. QED
  BY <1>2, <1>5 DEF EliteOfParents

(* A species without guests is parents only.                               *)
LEMMA AllParents ==
  ASSUME NEW s \in SpeciesType, Len(s.organisms) - Cardinality(Parents(s)) = 0
  PROVE  /\ Cardinality(Parents(s)) = Len(s.organisms)
         /\ \A j \in 1..Len(s.organisms) : s.organisms[j].old
<1>1. PICK n \in Nat, p \in Nat : n = Len(s.organisms) /\ p = Cardinality(Parents(s))
        /\ DOMAIN s.organisms = 1..n
  BY YoungFinite
<1>2. p = n
  BY <1>1
<1>3. IsFiniteSet(1..n) /\ Cardinality(1..n) = n
  BY FS_Interval
<1>4. Parents(s) \in SUBSET (1..n)
  BY <1>1 DEF Parents
<1>5. 1..n = Parents(s)
  BY <1>1, <1>2, <1>3, <1>4, FS_Subset
<1>6. \A j \in 1..n : s.organisms[j].old
  BY <1>5 DEF Parents
<1>7. QED
  BY <1>1, <1>2, <1>6

(* A species that has more than five babies and an elite clones one of     *)
(* them at least.                                                          *)
LEMMA OneElite ==
  ASSUME EliteParameters, elitism_percentage > 0, NEW x \in Nat, x > 5
  PROVE  0 < EliteCount(x)
<1>1. PICK e \in 1..100 : e = elitism_percentage /\ 6 * e >= 100
  BY EpochAssumption DEF EliteParameters
<1>2. PICK y \in Nat : x = 6 + y
  <2>1. x - 6 \in Nat /\ x = 6 + (x - 6)
    OBVIOUS
  <2>2. QED
    BY <2>1
<1>3. PICK z \in Nat : z = e * y
  BY <1>1, <1>2
<1>4. e * x = 6 * e + z
  BY <1>1, <1>2, <1>3
<1>5. PICK w \in Nat : w = e * x /\ w >= 100
  BY <1>1, <1>3, <1>4
<1>6. w \div 100 > 0
  BY <1>5
<1>7. QED
  BY <1>1, <1>5, <1>6 DEF EliteCount

(* A species whose turn comes, without guests and without a super champ,   *)
(* has its parents at the head of its vector.                              *)
LEMMA NextElite ==
  ASSUME EliteParameters, EpochInv, EliteInTurn, NextSpecies
  PROVE  EliteInTurn' /\ EliteOfParents'
<1>1. /\ turn.at + 1 \in DOMAIN species /\ DOMAIN species' = DOMAIN species
      /\ species' \in Seq(SpeciesType)
      /\ \A i \in DOMAIN species : IF i = turn.at + 1 THEN Roomy(species[i], species'[i])
                                   ELSE species'[i] = species[i]
      /\ seen'.clone = "parent"
      /\ seen'.parents = Cardinality(Parents(species[turn.at + 1]))
      /\ seen'.guests = Len(species[turn.at + 1].organisms) - seen'.parents
      /\ seen'.supers = First(species[turn.at + 1]).super
  BY NextMakes
<1>2. phase = "reproduce" /\ turn' = [Idle EXCEPT !.at = turn.at + 1]
  BY DEF NextSpecies
<1>3. PICK at \in DOMAIN species : at = turn.at + 1
  BY <1>1
<1>4. turn' = [at |-> at, count |-> 0, curChamp |-> 1, champ_done |-> FALSE]
  BY <1>2, <1>3 DEF Idle
<1>5. PICK s \in SpeciesType, k \in SpeciesType :
        s = species[at] /\ k = species'[at] /\ Roomy(s, k)
  BY <1>1, <1>3, EpochParts, SMTT(40) DEF Roomy
<1>6. \A i \in DOMAIN species : Spacious(species[i])
  BY <1>2 DEF EliteInTurn
<1>7. PICK p \in Nat, n \in Nat \ {0} : p = Cardinality(Parents(s)) /\ n = Len(s.organisms)
  BY YoungFinite
<1>8. PICK r \in Nat, q \in Nat : r = s.room /\ q = k.room
  BY DEF SpeciesType
<1>9. /\ 2 * p <= r + 1 /\ q >= r /\ k.organisms = s.organisms /\ First(k) = First(s)
      /\ Parents(k) = Parents(s)
  BY <1>3, <1>5, <1>6, <1>7, <1>8 DEF Spacious, Roomy, First, Parents
<1>10. 2 * p <= q + 1
  BY <1>9
<1>11. \A i \in DOMAIN species' : Spacious(species'[i])
  <2>1. Spacious(species'[at])
    BY <1>5, <1>7, <1>8, <1>9, <1>10 DEF Spacious
  <2>2. QED
    BY <1>1, <1>3, <1>6, <2>1
<1>12. AtWork' = k
  BY <1>4, <1>5 DEF AtWork
<1>13. ASSUME seen'.guests = 0, seen'.supers = 0
       PROVE  /\ ParentsFirst(AtWork', seen'.parents, turn'.count)
              /\ Elite' => /\ turn'.curChamp = turn'.count + 1
                           /\ elitism_percentage > 0 => turn'.count < EliteCount(AtWork'.expected)
  <2>1. p = n /\ \A j \in 1..n : s.organisms[j].old
    BY <1>1, <1>3, <1>5, <1>7, <1>13, AllParents
  <2>2. seen'.parents = n /\ First(k).super = 0 /\ turn'.count = 0 /\ turn'.curChamp = 1
    BY <1>1, <1>3, <1>4, <1>5, <1>7, <1>9, <1>13, <2>1
  <2>3. n >= 1 /\ n <= n /\ n <= n + 0 /\ 2 * n <= q + 1
    BY <1>10, <2>1
  <2>4. ParentsFirst(AtWork', seen'.parents, turn'.count)
    BY <1>7, <1>8, <1>9, <1>12, <2>1, <2>2, <2>3 DEF ParentsFirst
  <2>5. turn'.curChamp = turn'.count + 1
    BY <2>2
  <2>6. ASSUME Elite', elitism_percentage > 0
        PROVE  turn'.count < EliteCount(AtWork'.expected)
    <3>1. PICK x \in Nat : x = k.expected
      BY DEF SpeciesType
    <3>2. x > 5
      BY <1>12, <2>6, <3>1 DEF Elite
    <3>3. 0 < EliteCount(x)
      BY <2>6, <3>2, OneElite
    <3>4. QED
      BY <1>12, <2>2, <3>1, <3>3
  <2>7. QED
    BY <2>4, <2>5, <2>6
<1>14. EliteInTurn'
  BY <1>11, <1>13 DEF EliteInTurn
<1>15. QED
  BY <1>1, <1>14 DEF EliteOfParents

(* A baby leaves the parents of every species where they were, and takes   *)
(* one place at most.                                                      *)
LEMMA BabyParents ==
  ASSUME NEW all \in Seq(SpeciesType), NEW o \in OrganismType, ~o.old, NEW new, Grown(all, o, new)
  PROVE  /\ \A i \in DOMAIN all :
              /\ i \in DOMAIN new /\ Parents(new[i]) = Parents(all[i]) /\ new[i].room = all[i].room
              /\ new[i].organisms # <<>>
              /\ \/ Len(new[i].organisms) = Len(all[i].organisms)
                 \/ Len(new[i].organisms) = Len(all[i].organisms) + 1
              /\ \A j \in DOMAIN all[i].organisms : new[i].organisms[j] = all[i].organisms[j]
         /\ \A i \in DOMAIN new : i \notin DOMAIN all => Parents(new[i]) = {} /\ new[i].room = 0
<1>1. /\ new \in Seq(SpeciesType) /\ DOMAIN all \subseteq DOMAIN new
      /\ \A i \in DOMAIN all : new[i] = all[i] \/ new[i] = WithBaby(all[i], o)
      /\ \A i \in DOMAIN new : i \notin DOMAIN all => new[i].organisms = <<o>> /\ new[i].room = 0
  BY DEF Grown
<1>2. ASSUME NEW i \in DOMAIN all
      PROVE  /\ i \in DOMAIN new /\ Parents(new[i]) = Parents(all[i]) /\ new[i].room = all[i].room
             /\ new[i].organisms # <<>>
             /\ \/ Len(new[i].organisms) = Len(all[i].organisms)
                \/ Len(new[i].organisms) = Len(all[i].organisms) + 1
             /\ \A j \in DOMAIN all[i].organisms : new[i].organisms[j] = all[i].organisms[j]
  <2>1. PICK s \in SpeciesType, k \in SpeciesType : s = all[i] /\ k = new[i]
    BY <1>1
  <2>2. k.organisms # <<>>
    BY DEF SpeciesType
  <2>3. CASE k = s
    BY <1>1, <2>1, <2>2, <2>3
  <2>4. CASE k = WithBaby(s, o)
    BY <1>1, <2>1, <2>2, <2>4, BabyJoins
  <2>5. QED
    BY <1>1, <2>1, <2>3, <2>4
<1>3. ASSUME NEW i \in DOMAIN new, i \notin DOMAIN all
      PROVE  Parents(new[i]) = {} /\ new[i].room = 0
  <2>1. new[i].organisms = <<o>> /\ new[i].room = 0
    BY <1>1, <1>3
  <2>2. DOMAIN <<o>> = 1..1 /\ <<o>>[1] = o
    OBVIOUS
  <2>3. QED
    BY <2>1, <2>2 DEF Parents
<1>4. QED
  BY <1>2, <1>3

(* A round keeps the vectors as spacious as they were.                     *)
LEMMA RoundSpacious ==
  ASSUME EpochInv, NEW all, NEW g, Round(all, g), \A i \in DOMAIN all : Spacious(all[i])
  PROVE  \A i \in DOMAIN species' : Spacious(species'[i])
<1>1. /\ Grown(all, Organism(g), species') /\ Organism(g) \in OrganismType
      /\ all \in Seq(SpeciesType)
  BY RoundGrows
<1>2. ~Organism(g).old
  BY DEF Organism
<1>3. /\ \A i \in DOMAIN all : Parents(species'[i]) = Parents(all[i]) /\ species'[i].room = all[i].room
      /\ \A i \in DOMAIN species' :
           i \notin DOMAIN all => Parents(species'[i]) = {} /\ species'[i].room = 0
  BY <1>1, <1>2, BabyParents
<1>4. Cardinality({}) = 0
  BY FS_EmptySet
<1>5. ASSUME NEW i \in DOMAIN species'
      PROVE  Spacious(species'[i])
  <2>1. CASE i \in DOMAIN all
    BY <1>3, <2>1 DEF Spacious
  <2>2. CASE i \notin DOMAIN all
    BY <1>3, <1>4, <2>2 DEF Spacious
  <2>3. QED
    BY <2>1, <2>2
<1>6. QED
  BY <1>5

(* In a round that leaves the species as they are, but for the baby, the   *)
(* parents of the species at work stay at the head of its vector.          *)
LEMMA RoundParents ==
  ASSUME EpochInv, NEW g, Round(species, g), seen'.best = seen.best, NEW p \in Nat
  PROVE  /\ AtWork'.expected = AtWork.expected
         /\ ParentsFirst(AtWork, p, turn.count) => ParentsFirst(AtWork', p, turn'.count)
<1>1. /\ Grown(species, Organism(g), species') /\ Organism(g) \in OrganismType
      /\ species \in Seq(SpeciesType)
  BY RoundGrows
<1>2. ~Organism(g).old
  BY DEF Organism
<1>3. PICK at \in DOMAIN species, c \in Nat : at = turn.at /\ c = turn.count
  BY RoundStarts DEF Round
<1>4. PICK s \in SpeciesType : s = species[at] /\ s = AtWork
  BY <1>1, <1>3 DEF AtWork
<1>5. turn'.at = at /\ turn'.count = c + 1
  BY <1>3 DEF Round
<1>6. PICK k : k = species'[at] /\ k = AtWork'
  <2>1. AtWork' = species'[at]
    BY <1>5 DEF AtWork
  <2>2. QED
    BY <2>1
<1>7. /\ Parents(k) = Parents(s) /\ k.room = s.room
      /\ Len(k.organisms) = Len(s.organisms) \/ Len(k.organisms) = Len(s.organisms) + 1
      /\ \A j \in DOMAIN s.organisms : k.organisms[j] = s.organisms[j]
  <2>1. \A i \in DOMAIN species :
          /\ Parents(species'[i]) = Parents(species[i]) /\ species'[i].room = species[i].room
          /\ \/ Len(species'[i].organisms) = Len(species[i].organisms)
             \/ Len(species'[i].organisms) = Len(species[i].organisms) + 1
          /\ \A j \in DOMAIN species[i].organisms :
               species'[i].organisms[j] = species[i].organisms[j]
    <3>1. PICK all \in Seq(SpeciesType), o \in OrganismType, new \in Seq(SpeciesType) :
            all = species /\ new = species' /\ o = Organism(g)
      BY <1>1 DEF Grown
    <3>2. Grown(all, o, new) /\ ~o.old
      BY <1>1, <1>2, <3>1
    <3>3. \A i \in DOMAIN all :
            /\ Parents(new[i]) = Parents(all[i]) /\ new[i].room = all[i].room
            /\ \/ Len(new[i].organisms) = Len(all[i].organisms)
               \/ Len(new[i].organisms) = Len(all[i].organisms) + 1
            /\ \A j \in DOMAIN all[i].organisms : new[i].organisms[j] = all[i].organisms[j]
      BY <3>2, BabyParents
    <3>4. QED
      BY <3>1, <3>3
  <2>2. QED
    BY <1>4, <1>6, <2>1, Zenon
<1>8. k.expected = s.expected /\ First(k) = First(s)
  <2>1. \A i \in DOMAIN species : /\ First(species'[i]) = First(species[i])
                                  /\ species'[i].expected = species[i].expected
    BY RoundClones
  <2>2. QED
    BY <1>3, <1>4, <1>6, <2>1
<1>9. PICK n \in Nat \ {0}, m \in Nat, r \in Nat :
        /\ n = Len(s.organisms) /\ m = Len(k.organisms) /\ r = s.room /\ DOMAIN s.organisms = 1..n
  <2>1. PICK n \in Nat \ {0} : n = Len(s.organisms) /\ DOMAIN s.organisms = 1..n
    BY YoungFinite
  <2>2. Len(k.organisms) \in Nat
    BY <1>7, <2>1
  <2>3. QED
    BY <2>1, <2>2 DEF SpeciesType
<1>10. ASSUME ParentsFirst(s, p, c)
       PROVE  ParentsFirst(k, p, c + 1)
  <2>1. /\ First(s).super = 0 /\ p >= 1 /\ p <= n /\ n <= p + c /\ 2 * p <= r + 1
        /\ \A j \in 1..p : s.organisms[j].old
    BY <1>9, <1>10 DEF ParentsFirst
  <2>2. p <= m /\ m <= p + (c + 1)
    BY <1>7, <1>9, <2>1
  <2>3. \A j \in 1..p : j \in DOMAIN s.organisms
    BY <1>9, <2>1
  <2>4. \A j \in 1..p : k.organisms[j].old
    BY <1>7, <2>1, <2>3
  <2>5. QED
    BY <1>7, <1>8, <1>9, <2>1, <2>2, <2>4 DEF ParentsFirst
<1>11. QED
  BY <1>3, <1>4, <1>5, <1>6, <1>8, <1>10

(* A round without elite keeps what is known of the elite.                 *)
LEMMA OrdinaryElite ==
  ASSUME EliteInv, MutatedBaby \/ MatedBaby
  PROVE  EliteInTurn' /\ EliteOfParents'
<1>1. EpochInv /\ EliteInTurn /\ EliteOfParents
  BY DEF EliteInv
<1>2. PICK g \in Genomes : Round(species, g)
  BY <1>1, OrdinaryRound
<1>3. Ordinary /\ seen' = seen /\ turn' = [turn EXCEPT !.count = @ + 1]
  BY <1>1, OrdinaryRound
<1>4. phase = "reproduce" /\ seen \in SeenType /\ turn \in TurnType(Len(species)) /\ turn.at > 0
  BY <1>1, <1>2, RoundStarts DEF Round, Working
<1>5. turn'.at = turn.at /\ turn'.champ_done = turn.champ_done
  BY <1>3, <1>4, Zenon DEF TurnType
<1>6. seen.parents \in Nat
  BY <1>4 DEF SeenType
<1>7. PICK p \in Nat : p = seen.parents
  BY <1>6
<1>8. /\ AtWork'.expected = AtWork.expected
      /\ ParentsFirst(AtWork, p, turn.count) => ParentsFirst(AtWork', p, turn'.count)
  BY <1>1, <1>2, <1>3, RoundParents
<1>9. ~Elite'
  BY <1>3, <1>5, <1>8 DEF Ordinary, Elite
<1>10. \A i \in DOMAIN species' : Spacious(species'[i])
  BY <1>1, <1>2, <1>4, RoundSpacious DEF EliteInTurn
<1>11. EliteInTurn'
  BY <1>1, <1>3, <1>4, <1>5, <1>7, <1>8, <1>9, <1>10 DEF EliteInTurn
<1>12. NbElitist' = NbElitist
  BY <1>8 DEF NbElitist
<1>13. EliteOfParents'
  BY <1>1, <1>3, <1>4, <1>12 DEF EliteOfParents
<1>14. QED
  BY <1>11, <1>13

(* A round of a super champ is not one of a species that has none.         *)
LEMMA SuperElite ==
  ASSUME EliteInv, SuperBaby
  PROVE  EliteInTurn' /\ EliteOfParents'
<1>1. EpochInv /\ EliteInTurn /\ EliteOfParents
  BY DEF EliteInv
<1>2. PICK all, k, g :
        /\ Round(all, g) /\ all = [species EXCEPT ![turn.at] = k]
        /\ Promised(AtWork, k, AtWork.expected) /\ k.room = AtWork.room
        /\ First(AtWork).super > 0 /\ seen' = seen /\ Working
  BY <1>1, SuperRound
<1>3. phase = "reproduce" /\ seen \in SeenType /\ turn.at > 0 /\ turn.at \in DOMAIN species
      /\ AtWork \in SpeciesType /\ AtWork = species[turn.at] /\ First(AtWork).super \in Nat
  BY <1>1, <1>2, RoundStarts, SpeciesNumbers DEF Working, AtWork
<1>4. First(AtWork).super # 0
  BY <1>2, <1>3
<1>5. ~(seen.guests = 0 /\ seen.supers = 0)
  BY <1>1, <1>3, <1>4 DEF EliteInTurn, ParentsFirst
<1>6. seen.guests > 0 \/ seen.supers > 0
  <2>1. seen.guests \in Nat /\ seen.supers \in Nat
    BY <1>3 DEF SeenType
  <2>2. QED
    BY <1>5, <2>1
<1>7. \A i \in DOMAIN all : Spacious(all[i])
  <2>1. \A i \in DOMAIN species : Spacious(species[i])
    BY <1>1, <1>3 DEF EliteInTurn
  <2>2. Parents(k) = Parents(AtWork)
    BY <1>2 DEF Promised, SameMembers, Parents
  <2>3. Spacious(k)
    BY <1>2, <1>3, <2>1, <2>2 DEF Spacious
  <2>4. QED
    BY <1>2, <2>1, <2>3
<1>8. \A i \in DOMAIN species' : Spacious(species'[i])
  BY <1>1, <1>2, <1>7, RoundSpacious
<1>9. EliteInTurn'
  BY <1>2, <1>5, <1>8 DEF EliteInTurn
<1>10. EliteOfParents'
  BY <1>2, <1>6 DEF EliteOfParents
<1>11. QED
  BY <1>9, <1>10

(* An elite clone is one of a parent: of the one at the head whose turn it *)
(* is, which the babies of this species have not moved.                    *)
LEMMA CloneOfParent ==
  ASSUME EliteInv, Working, Elite, NEW mom \in Clones,
         seen.guests = 0, seen.supers = 0, NbElitist <= seen.parents
  PROVE  mom.old
<1>1. EpochInv /\ EliteInTurn
  BY DEF EliteInv
<1>2. phase = "reproduce" /\ turn.at > 0
  BY DEF Working
<1>3. /\ ParentsFirst(AtWork, seen.parents, turn.count)
      /\ turn.curChamp = turn.count + 1
      /\ elitism_percentage > 0 => turn.count < EliteCount(AtWork.expected)
  BY <1>1, <1>2 DEF EliteInTurn
<1>4. PICK s \in SpeciesType : s = AtWork
  BY <1>1, RoundStarts
<1>5. PICK c \in Nat, p \in Nat, n \in Nat \ {0}, r \in Nat :
        /\ c = turn.count /\ p = seen.parents /\ n = Len(s.organisms) /\ r = s.room
  <2>1. seen.parents \in Nat
    BY <1>1, RoundStarts DEF SeenType
  <2>2. s.room \in Nat /\ Len(s.organisms) \in Nat \ {0}
    BY YoungFinite DEF SpeciesType
  <2>3. turn.count \in Nat
    BY <1>1, RoundStarts
  <2>4. QED
    BY <2>1, <2>2, <2>3
<1>6. /\ p >= 1 /\ p <= n /\ n <= p + c /\ 2 * p <= r + 1
      /\ \A j \in 1..p : s.organisms[j].old
  BY <1>3, <1>4, <1>5 DEF ParentsFirst
<1>7. turn.curChamp = c + 1 /\ (elitism_percentage > 0 => c < EliteCount(s.expected))
  BY <1>3, <1>4, <1>5
<1>8. elitism_percentage \in 0..100
  BY EpochAssumption
<1>9. CASE elitism_percentage = 0
  <2>1. mom = s.organisms[1]
    BY <1>4, <1>9 DEF Clones, First
  <2>2. QED
    BY <1>6, <2>1
<1>10. CASE elitism_percentage # 0
  <2>1. elitism_percentage > 0 /\ ~(elitism_percentage = 0)
    BY <1>8, <1>10
  <2>2. PICK e \in Int : e = EliteCount(s.expected)
    <3>1. s.expected \in Nat
      BY DEF SpeciesType
    <3>2. elitism_percentage * s.expected \in Int
      BY <1>8, <3>1
    <3>3. QED
      BY <3>2 DEF EliteCount
  <2>3. e <= p
    BY <1>4, <1>5, <2>2 DEF NbElitist, EliteCount
  <2>4. c < e
    BY <1>7, <2>1, <2>2
  <2>5. c + 1 <= n /\ n <= r /\ c + 1 \in 1..p
    BY <1>6, <2>3, <2>4
  <2>6. turn.curChamp <= Len(AtWork.organisms) /\ Len(AtWork.organisms) <= AtWork.room
    BY <1>4, <1>5, <1>7, <2>5
  <2>7. mom = s.organisms[c + 1]
    BY <1>4, <1>7, <2>1, <2>6 DEF Clones
  <2>8. QED
    BY <1>6, <2>5, <2>7
<1>11. QED
  BY <1>9, <1>10

(* A round of the elite is a step along the parents, and the last one ends *)
(* the elite.                                                              *)
LEMMA EliteElite ==
  ASSUME EliteInv, EliteBaby
  PROVE  EliteInTurn' /\ EliteOfParents'
<1>1. EpochInv /\ EliteInTurn /\ EliteOfParents
  BY DEF EliteInv
<1>2. PICK mom \in Clones :
        /\ Round(species, mom.genome) /\ mom \in OrganismType
        /\ Working /\ Elite
        /\ seen' = [seen EXCEPT !.clone = IF mom.old THEN @ ELSE "no parent"]
        /\ turn'.curChamp = turn.curChamp + 1
        /\ turn'.champ_done = (elitism_percentage = 0 \/ LastElite)
  BY <1>1, EliteRound
<1>3. /\ phase = "reproduce" /\ phase' = phase /\ seen \in SeenType /\ turn.at > 0
      /\ AtWork \in SpeciesType /\ turn'.at = turn.at /\ turn'.count = turn.count + 1
  BY <1>1, <1>2, RoundStarts DEF Round, Working, AddBaby
<1>4. /\ seen'.best = seen.best /\ seen'.parents = seen.parents /\ seen'.guests = seen.guests
      /\ seen'.supers = seen.supers
  BY <1>2, <1>3, Zenon DEF SeenType
<1>5. seen'.clone = IF mom.old THEN seen.clone ELSE "no parent"
  BY <1>2, <1>3 DEF SeenType
<1>6. PICK p \in Nat, c \in Nat, x \in Nat :
        p = seen.parents /\ c = turn.count /\ x = AtWork.expected
  <2>1. seen.parents \in Nat /\ AtWork.expected \in Nat
    BY <1>3 DEF SeenType, SpeciesType
  <2>2. turn.count \in Nat
    BY <1>1, <1>2, RoundStarts
  <2>3. QED
    BY <2>1, <2>2
<1>7. /\ AtWork'.expected = AtWork.expected
      /\ ParentsFirst(AtWork, p, turn.count) => ParentsFirst(AtWork', p, turn'.count)
  BY <1>1, <1>2, <1>4, RoundParents
<1>8. \A i \in DOMAIN species' : Spacious(species'[i])
  BY <1>1, <1>2, <1>3, RoundSpacious DEF EliteInTurn
<1>9. PICK e \in Int : e = EliteCount(x)
  <2>1. elitism_percentage \in 0..100
    BY EpochAssumption
  <2>2. elitism_percentage * x \in Int
    BY <2>1
  <2>3. QED
    BY <2>2 DEF EliteCount
<1>10. NbElitist = e /\ NbElitist' = e
  BY <1>6, <1>7, <1>9 DEF NbElitist, EliteCount
<1>11. ASSUME seen.guests = 0, seen.supers = 0
       PROVE  /\ ParentsFirst(AtWork', p, turn'.count)
              /\ Elite' => /\ turn'.curChamp = turn'.count + 1
                           /\ elitism_percentage > 0 => turn'.count < EliteCount(AtWork'.expected)
  <2>1. /\ ParentsFirst(AtWork, p, turn.count)
        /\ turn.curChamp = c + 1 /\ (elitism_percentage > 0 => c < e)
    BY <1>1, <1>2, <1>3, <1>6, <1>9, <1>11 DEF EliteInTurn
  <2>2. turn'.curChamp = turn'.count + 1
    BY <1>2, <1>3, <1>6, <2>1
  <2>3. ASSUME Elite', elitism_percentage > 0
        PROVE  turn'.count < EliteCount(AtWork'.expected)
    <3>1. ~LastElite
      BY <1>2, <2>3 DEF Elite
    <3>2. c # e - 1
      BY <1>6, <1>10, <3>1 DEF LastElite
    <3>3. c + 1 < e
      BY <2>1, <2>3, <3>2
    <3>4. QED
      BY <1>3, <1>6, <1>7, <1>9, <3>3
  <2>4. QED
    BY <1>7, <2>1, <2>2, <2>3
<1>12. EliteInTurn'
  BY <1>3, <1>4, <1>6, <1>8, <1>11 DEF EliteInTurn
<1>13. EliteOfParents'
  <2>1. SUFFICES ASSUME seen'.clone # "parent", ~(seen.guests > 0), ~(seen.supers > 0), ~(e > p)
                 PROVE  FALSE
    BY <1>4, <1>6, <1>10 DEF EliteOfParents
  <2>2. seen.guests = 0 /\ seen.supers = 0 /\ e <= p
    <3>1. seen.guests \in Nat /\ seen.supers \in Nat
      BY <1>3 DEF SeenType
    <3>2. QED
      BY <2>1, <3>1
  <2>3. mom.old
    BY <1>2, <1>6, <1>10, <2>2, CloneOfParent
  <2>4. seen.clone # "parent"
    BY <1>5, <2>1, <2>3
  <2>5. QED
    BY <1>1, <1>3, <1>6, <1>10, <2>1, <2>4 DEF EliteOfParents
<1>14. QED
  BY <1>12, <1>13

(* Every step keeps the parents at the head of the species that clones its *)
(* elite.                                                                  *)
LEMMA EliteKeeps ==
  ASSUME EliteParameters, EliteInv, EpochNext
  PROVE  EliteInTurn' /\ EliteOfParents'
<1>1. CASE Evaluate \/ Adjust \/ Count \/ Share \/ Rebuild
  <2>1. phase' # "reproduce"
    BY <1>1 DEF Evaluate, Adjust, Count, Share, Rebuild
  <2>2. QED
    BY <2>1 DEF EliteInTurn, EliteOfParents
<1>2. CASE Kill
  BY <1>2, KillElite DEF EliteInv
<1>3. CASE NextSpecies
  BY <1>3, NextElite DEF EliteInv
<1>4. CASE SuperBaby
  BY <1>4, SuperElite
<1>5. CASE EliteBaby
  BY <1>5, EliteElite
<1>6. CASE MutatedBaby \/ MatedBaby
  BY <1>6, OrdinaryElite
<1>7. QED
  BY <1>1, <1>2, <1>3, <1>4, <1>5, <1>6 DEF EpochNext

(* A step that changes nothing moves no parent.                            *)
LEMMA EliteStays ==
  ASSUME EliteInTurn, EliteOfParents, UNCHANGED epochVars
  PROVE  EliteInTurn' /\ EliteOfParents'
<1>1. UNCHANGED <<phase, species, turn, seen>>
  BY DEF epochVars
<1>2. AtWork' = AtWork /\ NbElitist' = NbElitist /\ Elite' = Elite
  BY <1>1 DEF AtWork, NbElitist, Elite
<1>3. EliteInTurn'
  BY <1>1, <1>2 DEF EliteInTurn
<1>4. EliteOfParents'
  BY <1>1, <1>2 DEF EliteOfParents
<1>5. QED
  BY <1>3, <1>4

(* With the parameters the repository runs with, an elite clone is one of  *)
(* a parent of its species, as long as the species has as many parents as  *)
(* it clones, no super champ and no baby of an earlier species: the        *)
(* pointer that walks over the vector stays on parents, and the vector is  *)
(* not moved under it by the babies that join meanwhile.                   *)
THEOREM EliteOfParentsHolds ==
  ASSUME EliteParameters
  PROVE  EpochSpec => []EliteOfParents
<1>1. EpochInit => EliteInv
  <2>1. EpochInit => phase = "evaluate"
    BY DEF EpochInit
  <2>2. QED
    BY <2>1, EpochStarts DEF EliteInv, EliteInTurn, EliteOfParents
<1>2. EliteInv /\ [EpochNext]_epochVars => EliteInv'
  BY EpochKeeps, EliteKeeps, EliteStays DEF EliteInv
<1>3. EliteInv => EliteOfParents
  BY DEF EliteInv
<1>4. QED
  BY <1>1, <1>2, <1>3, PTL DEF EpochSpec
====
