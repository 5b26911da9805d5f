--------------------------- MODULE NeatGenomeProofs ---------------------------
(***************************************************************************)
(* Proofs about the genomes of NEAT: for every starter genome, every       *)
(* number of births and generations and every order of mutations and       *)
(* matings, what innovation numbers mean, the form of a genome, its nodes  *)
(* and its forward links.                                                  *)
(*                                                                         *)
(* The argument goes through the marks of genes: number, ends and kind of  *)
(* link, without the flag that enables.  The book of all marks grows only  *)
(* by innovations; toggling, enabling and mating add none.                 *)
(***************************************************************************)
EXTENDS NeatGenome, FiniteSetTheorems, SequenceTheorems, WellFoundedInduction, TLAPS

GeneType == [in : Nat, out : Nat, recur : BOOLEAN, num : Nat, enable : BOOLEAN]
Genome == [nodes : Seq(Nat), genes : Seq(GeneType)]
Innovation == [type : {"NEWNODE", "NEWLINK"}, in : Nat, out : Nat, recur : {FALSE},
               num : Nat, old : Nat, node : Nat]
MarkType == [num : Nat, in : Nat, out : Nat, recur : BOOLEAN]

Before(genes, n) == \A x \in ToSet(genes) : x.num < n
Below(genes) == Before(genes, cur_innov_num)
LastNumber(v) == IF v.type = "NEWNODE" THEN v.num + 1 ELSE v.num

TypeOK ==
  /\ \A g \in genomes : g \in Genome /\ Below(g.genes)
  /\ \A v \in innovations : v \in Innovation /\ LastNumber(v) < cur_innov_num
  /\ cur_node_id \in Nat /\ \A n \in Sensors \cup Outputs : n < cur_node_id
  /\ cur_innov_num \in Nat /\ first_innov_num \in Nat /\ first_innov_num <= cur_innov_num
  /\ births \in Nat /\ mistaken \in BOOLEAN /\ reenabled \in BOOLEAN /\ crossed \in BOOLEAN /\ gaveup \in BOOLEAN

(* The book: what the genes of all genomes are, but for being enabled.     *)
Mark(x) == [num |-> x.num, in |-> x.in, out |-> x.out, recur |-> x.recur]
Marks(genes) == {Mark(x) : x \in ToSet(genes)}
Book(G) == UNION {Marks(g.genes) : g \in G}

Names(v, m) ==
  \/ v.type = "NEWLINK" /\ m.num = v.num /\ m.in = v.in /\ m.out = v.out
  \/ v.type = "NEWNODE" /\ m.num = v.num /\ m.in = v.in /\ m.out = v.node
  \/ v.type = "NEWNODE" /\ m.num = v.num + 1 /\ m.in = v.node /\ m.out = v.out /\ ~m.recur

(* An innovation of this generation has its genes in the book, those of a  *)
(* split with the gene that was split, and no gene of a node is older than *)
(* the node.                                                               *)
AddedLink(v, M) == \E m \in M : m.num = v.num /\ m.in = v.in /\ m.out = v.out
AddedNode(v, M, nodes) ==
  /\ v.node \notin Sensors \cup Outputs /\ v.node < nodes /\ v.in # v.node /\ v.out # v.node
  /\ \E x, y, z \in M :
       /\ x.num = v.num /\ x.in = v.in /\ x.out = v.node /\ x.recur = z.recur
       /\ y.num = v.num + 1 /\ y.in = v.node /\ y.out = v.out /\ ~y.recur
       /\ z.num = v.old /\ z.in = v.in /\ z.out = v.out
  /\ \A m \in M : m.in = v.node \/ m.out = v.node => m.num >= v.num
Added(v, M, first, next, nodes) ==
  /\ v.num >= first /\ v.num < next
  /\ v.type = "NEWLINK" => AddedLink(v, M)
  /\ v.type = "NEWNODE" => AddedNode(v, M, nodes)

Entry(m, next, nodes) ==
  /\ m.num < next /\ m.in < nodes /\ m.out < nodes
  /\ m.out \notin Sensors /\ (m.in \in Sensors => ~m.recur)
BookOK(M, I, first, next, nodes) ==
  /\ M \subseteq MarkType
  /\ \A m \in M : Entry(m, next, nodes)
  /\ \A m, n \in M : m.num = n.num => m = n
  /\ \A m \in M : m.num >= first => \E v \in I : Names(v, m)
  /\ \A v \in I : Added(v, M, first, next, nodes)

(* A genome as verify wants it. *)
Ascending(nodes) == \A i, j \in DOMAIN nodes : i < j => nodes[i] < nodes[j]
Sorted(genes) == \A i, j \in DOMAIN genes : i < j => genes[i].num < genes[j].num
Different(genes) == \A x, y \in ToSet(genes) : Link(x) = Link(y) => x.num = y.num
Shape(g, nodes) ==
  /\ Ascending(g.nodes) /\ Sorted(g.genes) /\ Different(g.genes)
  /\ NodesOf(g.genes) \subseteq ToSet(g.nodes)
  /\ \A n \in ToSet(g.nodes) : n < nodes

MarkInv ==
  ~mistaken => /\ BookOK(Book(genomes), innovations, first_innov_num, cur_innov_num, cur_node_id)
               /\ \A g \in genomes : Shape(g, cur_node_id)

(* As long as no gene was enabled again, no genome cut and no search given *)
(* up: a forward link has one number, none leads back to its node, the forward links can *)
(* be ranked, and a node of this generation is there with both its genes.  *)
Recent(m, first) == ~m.recur /\ m.num >= first
Unique(M, first) ==
  \A m, n \in M : Recent(m, first) /\ Recent(n, first) /\ m.in = n.in /\ m.out = n.out => m = n
NoLoop(M) == \A m \in M : m.in = m.out => m.recur
Ranked(genes, rank) ==
  \A x \in ToSet(genes) : x.enable /\ ~x.recur => rank[x.in] < rank[x.out]
Acyclic(genes) == \E rank \in [Nat -> Nat] : Ranked(genes, rank)
Has(genes, num) == \E x \in ToSet(genes) : x.num = num
Complete(g, v) ==
  v.type = "NEWNODE" /\ v.node \in ToSet(g.nodes) => Has(g.genes, v.num) /\ Has(g.genes, v.num + 1)

Pure == ~mistaken /\ ~reenabled /\ ~crossed /\ ~gaveup
PureInv ==
  Pure => /\ Unique(Book(genomes), first_innov_num) /\ NoLoop(Book(genomes))
          /\ \A g \in genomes : Acyclic(g.genes) /\ \A v \in innovations : Complete(g, v)

-----------------------------------------------------------------------------
(* A set of natural numbers that is not empty has a smallest one. *)
LEMMA SmallestNumber ==
  ASSUME NEW S \in SUBSET Nat, S # {}
  PROVE  \E n \in S : \A m \in S : n <= m
<1> DEFINE below(x) == {y \in S : y < x}
           T == {below(x) : x \in S}
<1>0. PICK top \in S : TRUE
  OBVIOUS
<1>1. IsWellFoundedOn(StrictSubsetOrdering(Nat), FiniteSubsetsOf(Nat))
  BY FS_StrictSubsetOrderingWellFounded
<1>2. T \subseteq FiniteSubsetsOf(Nat) /\ T # {}
  <2>1. ASSUME NEW x \in S
        PROVE  below(x) \in SUBSET Nat /\ IsFiniteSet(below(x))
    <3>0. x \in Nat /\ \A s \in S : s \in Nat
      OBVIOUS
    <3>2. \A s \in below(x) : s \in S /\ s < x
      OBVIOUS
    <3>3. \A s \in S : s < x => s <= x
      BY <3>0
    <3>4. below(x) \in SUBSET Nat /\ \A s \in below(x) : s <= x
      <4> HIDE DEF below
      <4>1. QED
        BY <3>0, <3>2, <3>3
    <3> HIDE DEF below
    <3>5. QED
      BY <3>0, <3>4, FS_BoundedSetOfNaturals
  <2> HIDE DEF below
  <2>2. QED
    BY <1>0, <2>1 DEF FiniteSubsetsOf
<1>3. PICK U \in T : \A V \in T : <<V, U>> \notin StrictSubsetOrdering(Nat)
  <2> HIDE DEF T
  <2>1. QED
    BY <1>1, <1>2, WFMin
<1>4. PICK x \in S : U = below(x)
  OBVIOUS
<1>5. ASSUME NEW y \in S, y < x
      PROVE  FALSE
  <2>1. x \in Nat /\ y \in Nat /\ \A z \in S : z \in Nat
    OBVIOUS
  <2>2. y \in below(x) /\ y \notin below(y)
    BY <1>5, <2>1
  <2>3. below(y) \subseteq below(x)
    <3>1. \A z \in S : z < y => z < x
      BY <1>5, <2>1
    <3>2. QED
      BY <3>1
  <2>4. below(y) \in T /\ below(y) \in SUBSET Nat /\ below(x) \in SUBSET Nat
    OBVIOUS
  <2> HIDE DEF below
  <2>5. <<below(y), below(x)>> \in StrictSubsetOrdering(Nat)
    BY <2>2, <2>3, <2>4 DEF StrictSubsetOrdering
  <2>6. QED
    BY <1>3, <1>4, <2>4, <2>5
<1>6. QED
  <2>1. \A z \in S : z \in Nat
    OBVIOUS
  <2>2. QED
    BY <1>5, <2>1

(* What holds at 0 and is passed on holds everywhere. *)
LEMMA PassedOn ==
  ASSUME NEW N \in Nat, NEW S \in SUBSET (0..N), 0 \in S,
         \A k \in 1..N : k - 1 \in S => k \in S
  PROVE  S = 0..N
<1> DEFINE T == (0..N) \ S
<1>1. CASE T # {}
  <2>0. T \in SUBSET Nat
    OBVIOUS
  <2>1. PICK k \in T : \A m \in T : k <= m
    <3> HIDE DEF T
    <3>1. QED
      BY <1>1, <2>0, SmallestNumber
  <2>2. k \in 1..N
    OBVIOUS
  <2>3. k - 1 \in 0..N /\ k - 1 \notin T
    BY <2>1, <2>2
  <2>4. QED
    BY <2>2, <2>3
<1>2. QED
  BY <1>1

(* A walk of N steps: a set of places, and for each place those it leads   *)
(* to.                                                                     *)
Walks(D, B, F, N, w) ==
  w \in [0..N -> SUBSET D] /\ w = [k \in 0..N |-> IF k = 0 THEN B ELSE UNION {F[s] : s \in w[k - 1]}]
CanWalk(D, B, F, N) == \E w : Walks(D, B, F, N, w)
LEMMA WalkExists ==
  ASSUME NEW D, NEW B \in SUBSET D, NEW F \in [D -> SUBSET D], NEW N \in Nat
  PROVE  CanWalk(D, B, F, N)
<1> DEFINE Walk(n, w) == /\ w \in [0..n -> SUBSET D] /\ w[0] = B
                         /\ \A k \in 1..n : w[k] = UNION {F[s] : s \in w[k - 1]}
           S == {n \in 0..N : \E w : Walk(n, w)}
<1>1. 0 \in S
  <2>1. Walk(0, [k \in 0..0 |-> B])
    OBVIOUS
  <2> HIDE DEF Walk
  <2>2. (\E w : Walk(0, w)) /\ 0 \in 0..N
    BY <2>1
  <2>3. QED
    BY <2>2
<1>2. ASSUME NEW n \in 1..N, n - 1 \in S
      PROVE  n \in S
  <2>1. PICK w : Walk(n - 1, w)
    BY <1>2
  <2> DEFINE new == UNION {F[s] : s \in w[n - 1]}
             u == [k \in 0..n |-> IF k = n THEN new ELSE w[k]]
  <2>2. n \in Nat /\ n - 1 \in 0..(n - 1) /\ 0 # n /\ 0 \in 0..n
    OBVIOUS
  <2>3. w[n - 1] \in SUBSET D
    BY <2>1, <2>2
  <2>4. new \in SUBSET D
    BY <2>3
  <2> HIDE DEF new
  <2>5. u \in [0..n -> SUBSET D]
    <3>1. ASSUME NEW k \in 0..n, k # n
          PROVE  w[k] \in SUBSET D
      <4>1. k \in 0..(n - 1)
        BY <2>2, <3>1
      <4>2. QED
        BY <2>1, <4>1
    <3>2. QED
      BY <2>4, <3>1
  <2>6. u[0] = B
    BY <2>1, <2>2
  <2>7. ASSUME NEW k \in 1..n
        PROVE  u[k] = UNION {F[s] : s \in u[k - 1]}
    <3>1. k - 1 \in 0..n /\ k \in 0..n /\ k - 1 # n /\ k \in Int
      BY <2>2
    <3>2. u[k - 1] = w[k - 1]
      BY <3>1
    <3>3. CASE k = n
      <4>1. u[k] = new
        BY <3>1, <3>3
      <4>2. QED
        BY <3>2, <3>3, <4>1 DEF new
    <3>4. CASE k # n
      <4>1. k \in 1..(n - 1)
        BY <2>2, <3>4
      <4>2. u[k] = w[k]
        BY <3>1, <3>4
      <4>3. QED
        BY <2>1, <3>2, <4>1, <4>2
    <3>5. QED
      BY <3>3, <3>4
  <2>8. Walk(n, u)
    BY <2>5, <2>6, <2>7
  <2> HIDE DEF Walk
  <2>9. (\E w_1 : Walk(n, w_1)) /\ n \in 0..N
    BY <2>8
  <2>10. QED
    BY <2>9
<1>3. S = 0..N
  <2> HIDE DEF S
  <2>1. S \in SUBSET (0..N)
    BY DEF S
  <2>2. QED
    BY <1>1, <1>2, <2>1, PassedOn
<1>4. PICK w : Walk(N, w)
  BY <1>3, SMTT(40)
<1>5. w = [k \in 0..N |-> IF k = 0 THEN B ELSE UNION {F[s] : s \in w[k - 1]}]
  BY <1>4
<1>6. QED
  BY <1>4, <1>5 DEF CanWalk, Walks

(* What the empty set has, and what some element passes on to each other   *)
(* set, every finite set has.                                              *)
Hereditary(S, P) ==
  /\ P \in SUBSET (SUBSET S) /\ {} \in P
  /\ \A s \in SUBSET S : s # {} => \E x \in s : s \ {x} \in P => s \in P
LEMMA SetPassedOn ==
  ASSUME NEW S, IsFiniteSet(S), NEW P, Hereditary(S, P)
  PROVE  P = SUBSET S
<1> USE DEF Hereditary
<1> DEFINE T == (SUBSET S) \ P
<1>1. CASE T # {}
  <2>1. IsWellFoundedOn(StrictSubsetOrdering(S), FiniteSubsetsOf(S))
    BY FS_StrictSubsetOrderingWellFounded
  <2>2. T \subseteq FiniteSubsetsOf(S)
    BY FS_Subset DEF FiniteSubsetsOf
  <2>3. PICK U \in T : \A V \in T : <<V, U>> \notin StrictSubsetOrdering(S)
    <3> HIDE DEF T
    <3>1. QED
      BY <1>1, <2>1, <2>2, WFMin
  <2>4. U # {} /\ U \in SUBSET S
    OBVIOUS
  <2>5. PICK x \in U : U \ {x} \in P => U \in P
    BY <2>4
  <2>6. <<U \ {x}, U>> \in StrictSubsetOrdering(S)
    BY <2>4 DEF StrictSubsetOrdering
  <2>7. U \ {x} \notin T
    BY <2>3, <2>6
  <2>8. QED
    BY <2>4, <2>5, <2>7
<1>2. QED
  BY <1>1

(* A fold over a finite set exists, whichever elements it picks. *)
Folds(S, base, op, pick, f) ==
  f = [s \in SUBSET S |-> IF s = {} THEN base ELSE op[pick[s]][f[s \ {pick[s]}]]]
CanFold(S, D, base, op, pick) == \E f \in [SUBSET S -> D] : Folds(S, base, op, pick, f)
LEMMA FoldExists ==
  ASSUME NEW S, IsFiniteSet(S), NEW D, NEW base \in D, NEW op \in [S -> [D -> D]],
         NEW pick, \A s \in SUBSET S : s # {} => pick[s] \in s
  PROVE  CanFold(S, D, base, op, pick)
<1> DEFINE N == Cardinality(S)
           Small(n) == {s \in SUBSET S : Cardinality(s) <= n}
           Part(n, f) == /\ f \in [Small(n) -> D]
                         /\ \A s \in Small(n) : f[s] = IF s = {} THEN base ELSE op[pick[s]][f[s \ {pick[s]}]]
           P == {n \in 0..N : \E f : Part(n, f)}
<1>1. N \in Nat
  BY FS_CardinalityType
<1>2. \A s \in SUBSET S : /\ IsFiniteSet(s) /\ Cardinality(s) \in Nat /\ Cardinality(s) <= N
                          /\ Cardinality(s) = 0 <=> s = {}
                          /\ s # {} => Cardinality(s \ {pick[s]}) = Cardinality(s) - 1
  BY FS_Subset, FS_CardinalityType, FS_EmptySet, FS_RemoveElement
<1>3. 0 \in P
  <2> DEFINE f == [s \in Small(0) |-> base]
  <2>1. ASSUME NEW s \in Small(0)
        PROVE  s = {}
    <3>1. s \in SUBSET S /\ Cardinality(s) <= 0
      OBVIOUS
    <3>2. Cardinality(s) \in Nat
      BY <1>2, <3>1
    <3>3. Cardinality(s) = 0
      BY <3>1, <3>2
    <3>4. QED
      BY <1>2, <3>1, <3>3
  <2>2. Part(0, f)
    <3> HIDE DEF Small
    <3>1. QED
      BY <2>1
  <2> HIDE DEF Part, f
  <2>3. (\E g : Part(0, g)) /\ 0 \in 0..N
    BY <1>1, <2>2
  <2>4. QED
    BY <2>3
<1>4. ASSUME NEW n \in 1..N, n - 1 \in P
      PROVE  n \in P
  <2>1. PICK f : Part(n - 1, f)
    BY <1>4
  <2> DEFINE u == [s \in Small(n) |-> IF s = {} THEN base ELSE op[pick[s]][f[s \ {pick[s]}]]]
  <2>2. ASSUME NEW s \in Small(n), s # {}
        PROVE  /\ s \ {pick[s]} \in Small(n - 1) /\ s \ {pick[s]} \in Small(n)
               /\ pick[s] \in S /\ s \in SUBSET S
    <3>1. s \in SUBSET S /\ Cardinality(s) <= n /\ n \in Int
      OBVIOUS
    <3>2. pick[s] \in s /\ s \ {pick[s]} \in SUBSET S
      BY <2>2, <3>1
    <3>3. Cardinality(s) \in Nat /\ Cardinality(s \ {pick[s]}) = Cardinality(s) - 1
      BY <1>2, <2>2, <3>1
    <3>4. Cardinality(s \ {pick[s]}) <= n - 1 /\ Cardinality(s \ {pick[s]}) <= n
      BY <3>1, <3>3
    <3>5. QED
      BY <3>1, <3>2, <3>4
  <2>3. ASSUME NEW s \in Small(n - 1)
        PROVE  s \in Small(n)
    <3>1. s \in SUBSET S /\ Cardinality(s) <= n - 1 /\ n \in Int
      OBVIOUS
    <3>2. Cardinality(s) \in Nat
      BY <1>2, <3>1
    <3>3. Cardinality(s) <= n
      BY <3>1, <3>2
    <3>4. QED
      BY <3>1, <3>3
  <2> HIDE DEF Small
  <2>4. u \in [Small(n) -> D]
    <3>1. ASSUME NEW s \in Small(n), s # {}
          PROVE  op[pick[s]][f[s \ {pick[s]}]] \in D
      <4>1. f[s \ {pick[s]}] \in D
        BY <2>1, <2>2, <3>1
      <4>2. op[pick[s]] \in [D -> D]
        BY <2>2, <3>1
      <4>3. QED
        BY <4>1, <4>2
    <3>2. QED
      BY <3>1
  <2>5. \A s \in Small(n - 1) : u[s] = f[s]
    BY <2>1, <2>3
  <2>6. \A s \in Small(n) : u[s] = IF s = {} THEN base ELSE op[pick[s]][u[s \ {pick[s]}]]
    BY <2>2, <2>5
  <2>7. Part(n, u)
    BY <2>4, <2>6
  <2> HIDE DEF Part, u
  <2>8. (\E g : Part(n, g)) /\ n \in 0..N
    BY <2>7
  <2>9. QED
    BY <2>8
<1>5. P = 0..N
  <2>1. P \in SUBSET (0..N)
    OBVIOUS
  <2> HIDE DEF P, N
  <2>2. QED
    BY <1>1, <1>3, <1>4, <2>1, PassedOn
<1>6. PICK f : Part(N, f)
  <2>0. N \in 0..N
    <3> HIDE DEF N
    <3>1. QED
      BY <1>1
  <2>1. N \in P
    <3> HIDE DEF P, N
    <3>1. QED
      BY <1>5, <2>0
  <2>2. QED
    BY <2>1
<1>7. Small(N) = SUBSET S
  BY <1>2
<1>8. f \in [SUBSET S -> D]
  BY <1>6, <1>7
<1>9. f = [s \in SUBSET S |-> IF s = {} THEN base ELSE op[pick[s]][f[s \ {pick[s]}]]]
  BY <1>6, <1>7, <1>8
<1>10. QED
  BY <1>8, <1>9 DEF CanFold, Folds

-----------------------------------------------------------------------------
(* A beginning of a sequence is as long as it has indexes. *)
LEMMA Beginning ==
  ASSUME NEW N \in Nat, NEW P \in SUBSET (1..N), \A k \in P : \A j \in 1..k : j \in P
  PROVE  Cardinality(P) \in 0..N /\ P = 1..Cardinality(P)
<1> DEFINE R == {n \in 0..N : n + 1 \notin P}
<1>1. N \in R /\ R \in SUBSET Nat
  OBVIOUS
<1>2. PICK n \in R : \A m \in R : n <= m
  <2> HIDE DEF R
  <2>1. QED
    BY <1>1, SmallestNumber
<1>3. n \in Nat /\ n <= N /\ n + 1 \notin P
  BY <1>2
<1>4. ASSUME NEW j \in 1..n
      PROVE  j \in P
  <2>1. j - 1 \in 0..N /\ j - 1 < n /\ j - 1 + 1 = j
    BY <1>3
  <2>2. j - 1 \notin R
    BY <1>2, <1>3, <2>1
  <2>3. QED
    BY <2>1, <2>2
<1>5. ASSUME NEW j \in P
      PROVE  j \in 1..n
  <2>1. j \in Nat /\ 1 <= j
    OBVIOUS
  <2>2. CASE n < j
    <3>1. n + 1 \in 1..j
      BY <1>3, <2>1, <2>2
    <3>2. QED
      BY <1>3, <3>1
  <2>3. QED
    BY <1>3, <2>1, <2>2
<1>6. P = 1..n
  BY <1>4, <1>5
<1>7. Cardinality(1..n) = n
  BY <1>3, FS_Interval
<1>8. QED
  BY <1>3, <1>6, <1>7

LEMMA Inserted ==
  ASSUME NEW T, NEW s \in Seq(T), NEW e \in T, NEW p \in 0..Len(s)
  PROVE  /\ InsertAt(s, 1 + p, e) \in Seq(T)
         /\ Len(InsertAt(s, 1 + p, e)) = Len(s) + 1
         /\ \A k \in 1..p : InsertAt(s, 1 + p, e)[k] = s[k]
         /\ InsertAt(s, 1 + p, e)[p + 1] = e
         /\ \A k \in p + 1..Len(s) : InsertAt(s, 1 + p, e)[k + 1] = s[k]
<1> DEFINE n == Len(s)
           a == SubSeq(s, 1, p)
           b == SubSeq(s, 1 + p, n)
           ae == a \o <<e>>
           t == ae \o b
<1>1. n \in Nat /\ p \in Nat /\ p <= n /\ \A k \in 1..n : s[k] \in T
  BY LenProperties, ElementOfSeq
<1>2. a \in Seq(T) /\ Len(a) = p /\ \A k \in 1..p : a[k] = s[k]
  <2>1. \A k \in 1..p : s[k] \in T
    BY <1>1
  <2> HIDE DEF n
  <2>2. /\ a \in Seq(T) /\ Len(a) = IF 1 <= p THEN p - 1 + 1 ELSE 0
        /\ \A k \in 1..(p - 1 + 1) : a[k] = s[1 + k - 1]
    BY <1>1, <2>1, SubSeqProperties
  <2> HIDE DEF a
  <2>3. \A k \in 1..p : 1 + k - 1 = k
    BY <1>1
  <2>4. p - 1 + 1 = p /\ (IF 1 <= p THEN p - 1 + 1 ELSE 0) = p
    BY <1>1
  <2>5. QED
    BY <2>2, <2>3, <2>4
<1>3. b \in Seq(T) /\ Len(b) = n - p /\ \A k \in 1..(n - p) : b[k] = s[p + k]
  <2>1. \A k \in 1 + p..n : s[k] \in T
    BY <1>1
  <2> HIDE DEF n
  <2>2. /\ b \in Seq(T) /\ Len(b) = IF 1 + p <= n THEN n - (1 + p) + 1 ELSE 0
        /\ \A k \in 1..(n - (1 + p) + 1) : b[k] = s[(1 + p) + k - 1]
    BY <1>1, <2>1, SubSeqProperties
  <2> HIDE DEF b
  <2>3. \A k \in 1..(n - p) : (1 + p) + k - 1 = p + k
    BY <1>1
  <2>4. n - (1 + p) + 1 = n - p /\ (IF 1 + p <= n THEN n - (1 + p) + 1 ELSE 0) = n - p
    BY <1>1
  <2>5. QED
    BY <2>2, <2>3, <2>4
<1>4. <<e>> \in Seq(T) /\ Len(<<e>>) = 1 /\ <<e>>[1] = e
  OBVIOUS
<1> HIDE DEF n, a, b
<1>5. /\ ae \in Seq(T) /\ Len(ae) = p + 1
      /\ \A k \in 1..(p + 1) : ae[k] = IF k <= p THEN a[k] ELSE e
  <2>1. /\ ae \in Seq(T) /\ Len(ae) = Len(a) + Len(<<e>>)
        /\ \A k \in 1..(Len(a) + Len(<<e>>)) : ae[k] = IF k <= Len(a) THEN a[k] ELSE <<e>>[k - Len(a)]
    BY <1>2, <1>4, ConcatProperties
  <2> HIDE DEF ae
  <2>2. \A k \in 1..(p + 1) : k > p => k - p = 1
    BY <1>1
  <2>3. QED
    BY <1>1, <1>2, <1>4, <2>1, <2>2
<1> HIDE DEF ae
<1>6. /\ t \in Seq(T) /\ Len(t) = n + 1
      /\ \A k \in 1..(n + 1) : t[k] = IF k <= p + 1 THEN ae[k] ELSE b[k - (p + 1)]
  <2>1. /\ t \in Seq(T) /\ Len(t) = Len(ae) + Len(b)
        /\ \A k \in 1..(Len(ae) + Len(b)) : t[k] = IF k <= Len(ae) THEN ae[k] ELSE b[k - Len(ae)]
    BY <1>3, <1>5, ConcatProperties
  <2> HIDE DEF t
  <2>2. (p + 1) + (n - p) = n + 1
    BY <1>1
  <2>3. QED
    BY <1>3, <1>5, <2>1, <2>2
<1> HIDE DEF t
<1>7. \A k \in 1..p : t[k] = s[k]
  BY <1>1, <1>2, <1>5, <1>6
<1>8. t[p + 1] = e
  BY <1>1, <1>5, <1>6
<1>9. ASSUME NEW k \in p + 1..n
      PROVE  t[k + 1] = s[k]
  <2>1. k + 1 \in 1..(n + 1) /\ ~(k + 1 <= p + 1) /\ (k + 1) - (p + 1) = k - p /\ k - p \in 1..(n - p) /\ p + (k - p) = k
    BY <1>1
  <2>2. QED
    BY <1>3, <1>6, <2>1
<1>10. InsertAt(s, 1 + p, e) = t
  <2>1. (1 + p) - 1 = p
    BY <1>1
  <2>2. QED
    BY <2>1 DEF InsertAt, t, ae, a, b, n
<1>11. QED
  BY <1>6, <1>7, <1>8, <1>9, <1>10 DEF n

(* An element that is inserted after the smaller ones: it is there besides *)
(* the others, and a sequence in order stays in order.                     *)
InOrder(key, s) == \A i, j \in DOMAIN s : i < j => key[s[i]] < key[s[j]]
Smaller(key, s, e, P) ==
  P \in SUBSET (DOMAIN s) /\ \A k \in DOMAIN s : k \in P <=> \A j \in 1..k : key[s[j]] < key[e]
Placed(T, key, s, e, t) ==
  /\ t \in Seq(T) /\ ToSet(t) = ToSet(s) \cup {e}
  /\ InOrder(key, s) /\ (\A k \in DOMAIN s : key[s[k]] # key[e]) => InOrder(key, t)
LEMMA InsertInOrder ==
  ASSUME NEW T, NEW key \in [T -> Nat], NEW s \in Seq(T), NEW e \in T,
         NEW P, Smaller(key, s, e, P)
  PROVE  Placed(T, key, s, e, InsertAt(s, 1 + Cardinality(P), e))
<1> DEFINE p == Cardinality(P)
           N == Len(s)
<1>0. SUFFICES ASSUME NEW t, t = InsertAt(s, 1 + p, e)
               PROVE  Placed(T, key, s, e, t)
  OBVIOUS
<1>1. N \in Nat /\ DOMAIN s = 1..N /\ \A k \in 1..N : s[k] \in T /\ key[s[k]] \in Nat
  BY LenProperties, ElementOfSeq
<1>2. p \in 0..N /\ P = 1..p
  <2>1. P \in SUBSET (1..N)
    BY <1>0, <1>1 DEF Smaller
  <2>2. ASSUME NEW k \in P, NEW j \in 1..k
        PROVE  j \in P
    <3>1. k \in 1..N
      BY <2>1
    <3>2. j \in 1..N /\ \A i \in 1..j : i \in 1..k
      BY <1>1, <3>1
    <3>3. QED
      BY <1>0, <1>1, <2>2, <3>1, <3>2 DEF Smaller
  <2> HIDE DEF N
  <2>3. QED
    BY <1>1, <2>1, <2>2, Beginning
<1>3. /\ \A k \in 1..p : key[s[k]] < key[e]
      /\ p + 1 \in 1..N => ~(key[s[p + 1]] < key[e])
  <2>1. \A k \in P : k \in 1..k /\ k \in DOMAIN s
    BY <1>1, <1>2
  <2>2. \A k \in 1..p : key[s[k]] < key[e]
    <3> HIDE DEF p
    <3>1. QED
      BY <1>0, <1>2, <2>1 DEF Smaller
  <2> HIDE DEF p, N
  <2>3. ASSUME p + 1 \in 1..N, key[s[p + 1]] < key[e]
        PROVE  FALSE
    <3>1. p \in Nat /\ p + 1 \notin 1..p
      BY <1>2
    <3>2. \A j \in 1..p + 1 : key[s[j]] < key[e]
      BY <2>2, <2>3, <3>1
    <3>3. p + 1 \in P
      BY <1>0, <1>1, <2>3, <3>2 DEF Smaller
    <3>4. QED
      BY <1>2, <3>1, <3>3
  <2>4. QED
    BY <2>2, <2>3
<1> HIDE DEF p, N
<1>4. /\ t \in Seq(T) /\ Len(t) = N + 1 /\ t[p + 1] = e
      /\ \A k \in 1..p : t[k] = s[k]
      /\ \A k \in p + 1..N : t[k + 1] = s[k]
  <2>1. p \in 0..Len(s)
    BY <1>2 DEF N
  <2>2. /\ t \in Seq(T) /\ Len(t) = Len(s) + 1
        /\ \A k \in 1..p : t[k] = s[k]
        /\ t[p + 1] = e
        /\ \A k \in p + 1..Len(s) : t[k + 1] = s[k]
    <3> DEFINE u == InsertAt(s, 1 + p, e)
    <3>1. u \in Seq(T)
      BY <2>1, Inserted
    <3>2. Len(u) = Len(s) + 1
      BY <2>1, Inserted
    <3>3. \A k \in 1..p : u[k] = s[k]
      BY <2>1, Inserted
    <3>4. u[p + 1] = e
      BY <2>1, Inserted
    <3>5. \A k \in p + 1..Len(s) : u[k + 1] = s[k]
      BY <2>1, Inserted
    <3>6. t = u
      BY <1>0
    <3> HIDE DEF u
    <3>7. QED
      BY <3>1, <3>2, <3>3, <3>4, <3>5, <3>6
  <2>3. QED
    BY <2>2 DEF N
<1>5. DOMAIN t = 1..N + 1 /\ p \in Nat /\ p <= N
  BY <1>1, <1>2, <1>4, LenProperties
<1>6. ToSet(t) = ToSet(s) \cup {e}
  <2>1. ASSUME NEW k \in 1..N
        PROVE  \E i \in 1..N + 1 : t[i] = s[k]
    <3>1. CASE k <= p
      <4>1. k \in 1..p /\ k \in 1..N + 1
        BY <1>1, <1>5, <3>1
      <4>2. QED
        BY <1>4, <4>1
    <3>2. CASE p < k
      <4>1. k \in p + 1..N /\ k + 1 \in 1..N + 1
        BY <1>1, <1>5, <3>2
      <4>2. QED
        BY <1>4, <4>1
    <3>3. QED
      BY <1>5, <3>1, <3>2
  <2>2. p + 1 \in 1..N + 1
    BY <1>1, <1>5
  <2>3. ASSUME NEW i \in 1..N + 1, i # p + 1
        PROVE  \E k \in 1..N : t[i] = s[k]
    <3>1. CASE i <= p
      <4>1. i \in 1..p /\ i \in 1..N
        BY <1>1, <1>5, <3>1
      <4>2. QED
        BY <1>4, <4>1
    <3>2. CASE p + 1 < i
      <4>1. i - 1 \in p + 1..N /\ i - 1 \in 1..N /\ (i - 1) + 1 = i
        BY <1>1, <1>5, <3>2
      <4>2. QED
        BY <1>4, <4>1
    <3>3. QED
      BY <1>5, <2>3, <3>1, <3>2
  <2>4. ToSet(t) = {t[i] : i \in 1..N + 1} /\ ToSet(s) = {s[k] : k \in 1..N}
    BY <1>1, <1>5 DEF ToSet
  <2>5. ASSUME NEW x \in ToSet(t)
        PROVE  x \in ToSet(s) \cup {e}
    <3>1. PICK i \in 1..N + 1 : x = t[i]
      BY <2>4
    <3>2. QED
      BY <1>4, <2>3, <2>4, <3>1
  <2>6. ASSUME NEW x \in ToSet(s) \cup {e}
        PROVE  x \in ToSet(t)
    BY <1>4, <2>1, <2>2, <2>4
  <2>7. QED
    BY <2>5, <2>6
<1>7. ASSUME InOrder(key, s),
             \A k \in DOMAIN s : key[s[k]] # key[e],
             NEW i \in DOMAIN t, NEW j \in DOMAIN t, i < j
      PROVE  key[t[i]] < key[t[j]]
  <2>0. i \in 1..N + 1 /\ j \in 1..N + 1 /\ key[e] \in Nat
    BY <1>5
  <2>1. ASSUME NEW k \in p + 1..N
        PROVE  key[e] < key[s[k]]
    <3>1. p + 1 \in 1..N /\ k \in 1..N
      BY <1>1, <1>5
    <3>4. key[e] < key[s[p + 1]] /\ key[s[p + 1]] \in Nat /\ key[s[k]] \in Nat
      BY <1>1, <1>3, <1>7, <2>0, <3>1 DEF InOrder
    <3>5. CASE k = p + 1
      BY <3>4, <3>5
    <3>6. CASE p + 1 < k
      <4>1. key[s[p + 1]] < key[s[k]]
        BY <1>1, <1>7, <3>1, <3>6 DEF InOrder
      <4>2. QED
        BY <2>0, <3>4, <4>1
    <3>7. QED
      BY <1>5, <3>5, <3>6
  <2>2. CASE j <= p
    <3>1. i \in 1..p /\ j \in 1..p /\ i \in 1..N /\ j \in 1..N
      BY <1>1, <1>5, <1>7, <2>0, <2>2
    <3>2. QED
      BY <1>1, <1>4, <1>7, <3>1 DEF InOrder
  <2>3. CASE j = p + 1
    <3>1. i \in 1..p
      BY <1>5, <1>7, <2>0, <2>3
    <3>2. QED
      BY <1>3, <1>4, <2>3, <3>1
  <2>4. CASE p + 1 < j
    <3>1. j - 1 \in p + 1..N /\ (j - 1) + 1 = j /\ j - 1 \in 1..N
      BY <1>1, <1>5, <2>0, <2>4
    <3>2. t[j] = s[j - 1] /\ key[e] < key[s[j - 1]] /\ key[s[j - 1]] \in Nat
      BY <1>1, <1>4, <2>1, <3>1
    <3>3. CASE i <= p
      <4>1. i \in 1..p /\ i \in 1..N
        BY <1>1, <1>5, <2>0, <3>3
      <4>2. t[i] = s[i] /\ key[s[i]] < key[e] /\ key[s[i]] \in Nat
        BY <1>1, <1>3, <1>4, <4>1
      <4>3. QED
        BY <2>0, <3>2, <4>2
    <3>4. CASE i = p + 1
      BY <1>4, <3>2, <3>4
    <3>5. CASE p + 1 < i
      <4>1. i - 1 \in p + 1..N /\ (i - 1) + 1 = i /\ i - 1 \in 1..N /\ i - 1 < j - 1
        BY <1>1, <1>5, <1>7, <2>0, <3>5
      <4>2. t[i] = s[i - 1]
        BY <1>4, <4>1
      <4>3. QED
        BY <1>1, <1>7, <3>1, <3>2, <4>1, <4>2 DEF InOrder
    <3>6. QED
      BY <1>5, <2>0, <3>3, <3>4, <3>5
  <2>5. QED
    BY <1>5, <2>0, <2>2, <2>3, <2>4
<1>8. QED
  BY <1>4, <1>6, <1>7 DEF Placed, InOrder

LEMMA NodeInserted ==
  ASSUME NEW nodes \in Seq(Nat), NEW n \in Nat
  PROVE  /\ node_insert(nodes, n) \in Seq(Nat)
         /\ ToSet(node_insert(nodes, n)) = ToSet(nodes) \cup {n}
         /\ Ascending(nodes) /\ n \notin ToSet(nodes) => Ascending(node_insert(nodes, n))
<1> DEFINE key == [x \in Nat |-> x]
           P == {k \in DOMAIN nodes : \A j \in 1..k : key[nodes[j]] < key[n]}
           t == InsertAt(nodes, 1 + Cardinality(P), n)
<1>1. key \in [Nat -> Nat] /\ \A x \in Nat : key[x] = x
  OBVIOUS
<1>2. \A k \in DOMAIN nodes : nodes[k] \in Nat /\ \A j \in 1..k : j \in DOMAIN nodes
  BY LenProperties, ElementOfSeq
<1> HIDE DEF key
<1>3. P = {k \in DOMAIN nodes : \A j \in 1..k : nodes[j] < n}
  BY <1>1, <1>2
<1> HIDE DEF P
<1>4. t = node_insert(nodes, n)
  BY <1>3 DEF node_insert
<1>5. Placed(Nat, key, nodes, n, t)
  <2>1. Smaller(key, nodes, n, P)
    BY DEF P, Smaller
  <2>2. QED
    BY <1>1, <2>1, InsertInOrder
<1>6. ASSUME Ascending(nodes), n \notin ToSet(nodes)
      PROVE  Ascending(t)
  <2>1. InOrder(key, nodes)
    BY <1>1, <1>2, <1>6 DEF Ascending, InOrder
  <2>2. \A k \in DOMAIN nodes : key[nodes[k]] # key[n]
    BY <1>1, <1>2, <1>6 DEF ToSet
  <2>3. InOrder(key, t)
    BY <1>5, <2>1, <2>2 DEF Placed
  <2> HIDE DEF t
  <2>4. \A k \in DOMAIN t : t[k] \in Nat
    BY <1>5, ElementOfSeq, LenProperties DEF Placed
  <2>5. QED
    BY <1>1, <2>3, <2>4 DEF Ascending, InOrder
<1>7. QED
  BY <1>4, <1>5, <1>6 DEF Placed

LEMMA GeneAdded ==
  ASSUME NEW genes \in Seq(GeneType), NEW x \in GeneType
  PROVE  /\ add_gene(genes, x) \in Seq(GeneType)
         /\ ToSet(add_gene(genes, x)) = ToSet(genes) \cup {x}
         /\ Sorted(genes) /\ (\A y \in ToSet(genes) : y.num # x.num) => Sorted(add_gene(genes, x))
<1> DEFINE key == [y \in GeneType |-> y.num]
           P == {k \in DOMAIN genes : \A j \in 1..k : key[genes[j]] < key[x]}
           t == InsertAt(genes, 1 + Cardinality(P), x)
<1>1. key \in [GeneType -> Nat] /\ \A y \in GeneType : key[y] = y.num
  BY DEF GeneType
<1>2. \A k \in DOMAIN genes : genes[k] \in GeneType /\ \A j \in 1..k : j \in DOMAIN genes
  BY LenProperties, ElementOfSeq
<1> HIDE DEF key
<1>3. P = {k \in DOMAIN genes : \A j \in 1..k : genes[j].num < x.num}
  BY <1>1, <1>2
<1> HIDE DEF P
<1>4. t = add_gene(genes, x)
  BY <1>3 DEF add_gene
<1>5. Placed(GeneType, key, genes, x, t)
  <2>1. Smaller(key, genes, x, P)
    BY DEF P, Smaller
  <2>2. QED
    BY <1>1, <2>1, InsertInOrder
<1>6. ASSUME Sorted(genes), \A y \in ToSet(genes) : y.num # x.num
      PROVE  Sorted(t)
  <2>1. InOrder(key, genes)
    BY <1>1, <1>2, <1>6 DEF Sorted, InOrder
  <2>2. \A k \in DOMAIN genes : key[genes[k]] # key[x]
    BY <1>1, <1>2, <1>6 DEF ToSet
  <2>3. InOrder(key, t)
    BY <1>5, <2>1, <2>2 DEF Placed
  <2> HIDE DEF t
  <2>4. \A k \in DOMAIN t : t[k] \in GeneType
    BY <1>5, ElementOfSeq, LenProperties DEF Placed
  <2>5. QED
    BY <1>1, <2>3, <2>4 DEF Sorted, InOrder
<1>7. QED
  BY <1>4, <1>5, <1>6 DEF Placed

(* The nodes of a finite set, in order. *)
LEMMA NodesInOrder ==
  ASSUME NEW S \in SUBSET Nat, IsFiniteSet(S)
  PROVE  Nodes(S) \in Seq(Nat) /\ ToSet(Nodes(S)) = S /\ Ascending(Nodes(S))
<1> DEFINE D == Seq(Nat)
           op == [x \in S |-> [d \in D |-> node_insert(d, x)]]
           pick == [s \in SUBSET S |-> CHOOSE x \in s : TRUE]
           iter == CHOOSE f : f = [s \in SUBSET S |-> IF s = {} THEN <<>>
                                     ELSE node_insert(f[s \ {CHOOSE x \in s : TRUE}], CHOOSE x \in s : TRUE)]
<1>1. op \in [S -> [D -> D]] /\ <<>> \in D
  <2>1. \A x \in S : \A d \in D : node_insert(d, x) \in D
    BY NodeInserted
  <2>2. QED
    BY <2>1
<1>2. \A s \in SUBSET S : s # {} => pick[s] \in s
  OBVIOUS
<1>3. PICK f \in [SUBSET S -> D] : Folds(S, <<>>, op, pick, f)
  <2> HIDE DEF D, op, pick
  <2>1. CanFold(S, D, <<>>, op, pick)
    BY <1>1, <1>2, FoldExists
  <2>2. QED
    BY <2>1 DEF CanFold
<1>4. f = [s \in SUBSET S |-> IF s = {} THEN <<>>
             ELSE node_insert(f[s \ {CHOOSE x \in s : TRUE}], CHOOSE x \in s : TRUE)]
  <2>1. ASSUME NEW s \in SUBSET S, s # {}
        PROVE  op[pick[s]][f[s \ {pick[s]}]] = node_insert(f[s \ {CHOOSE x \in s : TRUE}], CHOOSE x \in s : TRUE)
    <3>1. pick[s] \in S /\ f[s \ {pick[s]}] \in D /\ pick[s] = CHOOSE x \in s : TRUE
      BY <1>2, <2>1
    <3>2. QED
      BY <3>1
  <2> HIDE DEF op, pick, D
  <2>2. QED
    BY <1>3, <2>1 DEF Folds
<1>5. iter = [s \in SUBSET S |-> IF s = {} THEN <<>>
             ELSE node_insert(iter[s \ {CHOOSE x \in s : TRUE}], CHOOSE x \in s : TRUE)]
  BY <1>4
<1>6. Nodes(S) = iter[S]
  BY DEF Nodes, FoldSet, MapThenFoldSet
<1> HIDE DEF iter
<1> DEFINE Good(s) == iter[s] \in Seq(Nat) /\ ToSet(iter[s]) = s /\ Ascending(iter[s])
           P == {s \in SUBSET S : Good(s)}
<1>7. {} \in P
  <2>1. iter[{}] = <<>>
    BY <1>5
  <2>2. <<>> \in Seq(Nat) /\ ToSet(<<>>) = {} /\ Ascending(<<>>)
    BY DEF ToSet, Ascending
  <2>3. QED
    BY <2>1, <2>2
<1>8. ASSUME NEW s \in SUBSET S, s # {}
      PROVE  \E x \in s : s \ {x} \in P => s \in P
  <2> DEFINE x == CHOOSE y \in s : TRUE
             r == s \ {x}
  <2>1. x \in s /\ x \in Nat /\ r \in SUBSET S /\ s = r \cup {x} /\ x \notin r
    BY <1>8
  <2>2. iter[s] = node_insert(iter[r], x)
    BY <1>5, <1>8
  <2> HIDE DEF x, r
  <2>3. ASSUME Good(r)
        PROVE  Good(s)
    BY <2>1, <2>2, <2>3, NodeInserted
  <2> HIDE DEF Good
  <2>4. QED
    BY <2>1, <2>3 DEF r
<1>9. P = SUBSET S
  <2> HIDE DEF P
  <2>1. P \in SUBSET (SUBSET S)
    BY DEF P
  <2>2. Hereditary(S, P)
    BY <1>7, <1>8, <2>1 DEF Hereditary
  <2>3. QED
    BY <2>2, SetPassedOn
<1>10. QED
  BY <1>6, <1>9

-----------------------------------------------------------------------------
(* What the parts of a mutation make of a genome. *)
LEMMA LargestInSet ==
  ASSUME NEW S \in SUBSET Nat, IsFiniteSet(S), S # {}
  PROVE  Largest(S) \in S /\ \A m \in S : m <= Largest(S)
<1> DEFINE Top(s, n) == n \in s /\ \A m \in s : m <= n
           P == {s \in SUBSET S : s = {} \/ \E n \in S : Top(s, n)}
<1>1. ASSUME NEW s \in SUBSET S, s # {}
      PROVE  \E x \in s : s \ {x} \in P => s \in P
  <2>1. PICK x \in s : TRUE
    BY <1>1
  <2>2. ASSUME s \ {x} \in P
        PROVE  \E n \in S : Top(s, n)
    <3>0. x \in S /\ \A m \in s : m \in Nat
      OBVIOUS
    <3>1. CASE s \ {x} = {}
      <4>1. Top(s, x)
        BY <3>0, <3>1
      <4>2. QED
        BY <3>0, <4>1
    <3>2. CASE s \ {x} # {}
      <4>1. PICK n \in S : Top(s \ {x}, n)
        BY <2>2, <3>2
      <4>2. CASE x <= n
        <5>1. Top(s, n)
          BY <4>1, <4>2
        <5>2. QED
          BY <5>1
      <4>3. CASE n < x
        <5>1. Top(s, x)
          BY <3>0, <4>1, <4>3
        <5>2. QED
          BY <3>0, <5>1
      <4>4. QED
        BY <3>0, <4>2, <4>3
    <3>3. QED
      BY <3>1, <3>2
  <2> HIDE DEF Top
  <2>3. QED
    BY <2>2
<1>2. Hereditary(S, P)
  <2> HIDE DEF Top
  <2>1. P \in SUBSET (SUBSET S) /\ {} \in P
    OBVIOUS
  <2> HIDE DEF P
  <2>2. QED
    BY <1>1, <2>1 DEF Hereditary
<1>3. P = SUBSET S
  <2> HIDE DEF P
  <2>1. QED
    BY <1>2, SetPassedOn
<1>4. PICK n \in S : Top(S, n)
  <2>1. S \in P
    <3> HIDE DEF P
    <3>1. QED
      BY <1>3
  <2>2. QED
    BY <2>1
<1>5. QED
  BY <1>4 DEF Largest

(* A gene that is enabled or disabled keeps its mark. *)
Flagged(genes, i, e, t) ==
  /\ t \in Seq(GeneType) /\ DOMAIN t = DOMAIN genes
  /\ \A k \in DOMAIN genes : Mark(t[k]) = Mark(genes[k]) /\ t[k].num = genes[k].num /\ (k # i => t[k] = genes[k])
  /\ t[i] = [genes[i] EXCEPT !.enable = e]
  /\ Marks(t) = Marks(genes)
LEMMA FlagSet ==
  ASSUME NEW genes \in Seq(GeneType), NEW i \in DOMAIN genes, NEW e \in BOOLEAN
  PROVE  Flagged(genes, i, e, [genes EXCEPT ![i].enable = e])
<1> DEFINE t == [genes EXCEPT ![i].enable = e]
<1>1. \A k \in DOMAIN genes : genes[k] \in GeneType
  BY LenProperties, ElementOfSeq
<1>2. ASSUME NEW x \in GeneType
      PROVE  [x EXCEPT !.enable = e] \in GeneType /\ Mark([x EXCEPT !.enable = e]) = Mark(x)
             /\ [x EXCEPT !.enable = e].num = x.num
  BY DEF GeneType, Mark
<1>3. t = [genes EXCEPT ![i] = [genes[i] EXCEPT !.enable = e]]
  OBVIOUS
<1>4. t \in Seq(GeneType) /\ DOMAIN t = DOMAIN genes
  <2>1. [genes[i] EXCEPT !.enable = e] \in GeneType
    BY <1>1, <1>2
  <2>2. QED
    BY <1>3, <2>1, ExceptSeq
<1>5. ASSUME NEW k \in DOMAIN genes
      PROVE  Mark(t[k]) = Mark(genes[k]) /\ t[k].num = genes[k].num /\ (k # i => t[k] = genes[k])
             /\ t[i] = [genes[i] EXCEPT !.enable = e]
  BY <1>1, <1>2, <1>3
<1> HIDE DEF t
<1>6. Marks(t) = Marks(genes)
  BY <1>4, <1>5 DEF Marks, ToSet
<1>7. Flagged(genes, i, e, t)
  BY <1>4, <1>5, <1>6 DEF Flagged
<1>8. QED
  BY <1>7 DEF t

-----------------------------------------------------------------------------
(* Mating, gene by gene: a candidate is left out when a gene conflicts     *)
(* with it, or put at the end.                                             *)
Extended(genes, c, new) ==
  \/ Conflict(genes, c) /\ new = genes
  \/ ~Conflict(genes, c) /\ \E e \in BOOLEAN : (e => c.enable) /\ new = Append(genes, [c EXCEPT !.enable = e])
Carried(genes, c, new) ==
  /\ new \in Seq(GeneType) /\ ToSet(genes) \subseteq ToSet(new)
  /\ \A x \in ToSet(new) : x \in ToSet(genes) \/ (Mark(x) = Mark(c) /\ x.num = c.num)
  /\ Different(genes) => Different(new)
  /\ Sorted(genes) /\ Before(genes, c.num) => Sorted(new)
  /\ Has(new, c.num) \/ Conflict(genes, c)
LEMMA Carry ==
  ASSUME NEW genes \in Seq(GeneType), NEW c \in GeneType, NEW new, Extended(genes, c, new)
  PROVE  Carried(genes, c, new)
<1>0. /\ Len(genes) \in Nat /\ DOMAIN genes = 1..Len(genes)
      /\ \A k \in 1..Len(genes) : genes[k] \in GeneType
  BY LenProperties, ElementOfSeq
<1>1. CASE Conflict(genes, c) /\ new = genes
  <2>1. Conflict(genes, c) /\ new \in Seq(GeneType)
    BY <1>1
  <2>2. QED
    BY <1>1, <2>1, Zenon DEF Carried
<1>2. CASE ~Conflict(genes, c) /\ \E e \in BOOLEAN : (e => c.enable) /\ new = Append(genes, [c EXCEPT !.enable = e])
  <2>1. PICK e \in BOOLEAN : new = Append(genes, [c EXCEPT !.enable = e])
    BY <1>2
  <2>2. PICK d : d = [c EXCEPT !.enable = e]
    OBVIOUS
  <2>3. d \in GeneType /\ Mark(d) = Mark(c) /\ d.num = c.num /\ Link(d) = Link(c) /\ d.num \in Nat
    BY <2>2 DEF GeneType, Mark, Link
  <2>4. new = Append(genes, d)
    BY <2>1, <2>2
  <2>5. /\ new \in Seq(GeneType) /\ DOMAIN new = 1..Len(genes) + 1
        /\ new[Len(genes) + 1] = d /\ \A k \in 1..Len(genes) : new[k] = genes[k]
    <3>1. new \in Seq(GeneType) /\ Len(new) = Len(genes) + 1
      BY <2>3, <2>4, AppendProperties
    <3>2. new[Len(genes) + 1] = d /\ \A k \in 1..Len(genes) : new[k] = genes[k]
      BY <2>3, <2>4, AppendProperties
    <3>3. QED
      BY <3>1, <3>2, LenProperties
  <2>6. ToSet(new) = ToSet(genes) \cup {d}
    <3>1. \A k \in 1..Len(genes) + 1 : k \in 1..Len(genes) \/ k = Len(genes) + 1
      BY <1>0
    <3>2. Len(genes) + 1 \in 1..Len(genes) + 1 /\ \A k \in 1..Len(genes) : k \in 1..Len(genes) + 1
      BY <1>0
    <3>3. \A x \in ToSet(new) : x \in ToSet(genes) \cup {d}
      BY <1>0, <2>5, <3>1 DEF ToSet
    <3>4. \A x \in ToSet(genes) \cup {d} : x \in ToSet(new)
      BY <1>0, <2>5, <3>2 DEF ToSet
    <3>5. QED
      BY <3>3, <3>4
  <2>7. \A x \in ToSet(genes) : Link(x) # Link(d)
    BY <1>2, <2>3 DEF Conflict
  <2>8. Different(genes) => Different(new)
    BY <2>6, <2>7 DEF Different
  <2>9. ASSUME Sorted(genes), Before(genes, c.num)
        PROVE  Sorted(new)
    <3>1. \A k \in 1..Len(genes) : genes[k].num < d.num
      BY <1>0, <2>3, <2>9 DEF Before, ToSet
    <3>2. SUFFICES ASSUME NEW i \in 1..Len(genes) + 1, NEW j \in 1..Len(genes) + 1, i < j
                   PROVE  new[i].num < new[j].num
      BY <2>5 DEF Sorted
    <3>3. i \in 1..Len(genes)
      BY <1>0, <3>2
    <3>4. CASE j = Len(genes) + 1
      BY <2>5, <3>1, <3>3, <3>4
    <3>5. CASE j \in 1..Len(genes)
      BY <1>0, <2>5, <2>9, <3>2, <3>3, <3>5 DEF Sorted
    <3>6. QED
      BY <1>0, <3>4, <3>5
  <2>10. Has(new, c.num)
    BY <2>3, <2>6 DEF Has
  <2>11. \A x \in ToSet(new) : x \in ToSet(genes) \/ (Mark(x) = Mark(c) /\ x.num = c.num)
    BY <2>3, <2>6
  <2>12. ToSet(genes) \subseteq ToSet(new)
    BY <2>6
  <2>13. QED
    BY <2>5, <2>8, <2>9, <2>10, <2>11, <2>12, Zenon DEF Carried
<1>3. QED
  BY <1>1, <1>2 DEF Extended

(* The number at a place of the walk. *)
LEMMA NumAtFacts ==
  ASSUME NEW p \in Seq(GeneType), Below(p), cur_innov_num \in Nat, NEW k \in Nat \ {0}
  PROVE  /\ NumAt(p, k) \in Nat /\ NumAt(p, k) <= cur_innov_num
         /\ k <= Len(p) <=> NumAt(p, k) < cur_innov_num
         /\ k <= Len(p) => /\ NumAt(p, k) = p[k].num /\ p[k] \in GeneType /\ p[k] \in ToSet(p) /\ k \in DOMAIN p
                           /\ Sorted(p) => NumAt(p, k) < NumAt(p, k + 1)
<1>1. /\ Len(p) \in Nat /\ DOMAIN p = 1..Len(p)
      /\ \A i \in 1..Len(p) : p[i] \in GeneType /\ p[i] \in ToSet(p) /\ p[i].num \in Nat /\ p[i].num < cur_innov_num
  <2>1. Len(p) \in Nat /\ DOMAIN p = 1..Len(p) /\ \A i \in 1..Len(p) : p[i] \in GeneType
    BY LenProperties, ElementOfSeq
  <2>2. \A x \in GeneType : x.num \in Nat
    BY DEF GeneType
  <2>3. QED
    BY <2>1, <2>2 DEF Below, Before, ToSet
<1>2. CASE k > Len(p)
  BY <1>1, <1>2 DEF NumAt
<1>3. CASE k <= Len(p)
  <2>1. k \in 1..Len(p) /\ NumAt(p, k) = p[k].num
    BY <1>1, <1>3 DEF NumAt
  <2>2. ASSUME Sorted(p)
        PROVE  NumAt(p, k) < NumAt(p, k + 1)
    <3>1. CASE k = Len(p)
      BY <1>1, <2>1, <3>1 DEF NumAt
    <3>2. CASE k < Len(p)
      <4>1. k + 1 \in 1..Len(p) /\ k < k + 1 /\ ~(k + 1 > Len(p))
        BY <1>1, <3>2
      <4>2. p[k].num < p[k + 1].num
        BY <1>1, <2>1, <2>2, <4>1 DEF Sorted
      <4>3. QED
        BY <2>1, <4>1, <4>2 DEF NumAt
    <3>3. QED
      BY <1>1, <1>3, <3>1, <3>2
  <2>3. QED
    BY <1>1, <1>3, <2>1, <2>2
<1>4. QED
  BY <1>1, <1>2, <1>3

WalkState == [i : Nat \ {0}, j : Nat \ {0}, genes : Seq(GeneType), disable : BOOLEAN]
CutState == [i : Nat \ {0}, j : Nat \ {0}, count : Nat, genes : Seq(GeneType), disable : BOOLEAN]

LEMMA InheritWalk ==
  ASSUME NEW s \in WalkState, NEW c \in GeneType
  PROVE  /\ Inherit(s, c) \in WalkState /\ Inherit(s, c).i = s.i /\ Inherit(s, c).j = s.j
         /\ Extended(s.genes, c, Inherit(s, c).genes)
<1>1. CASE Conflict(s.genes, c)
  BY <1>1 DEF Inherit, Extended
<1>2. CASE ~Conflict(s.genes, c)
  <2>1. PICK e \in BOOLEAN : e = (c.enable /\ ~s.disable)
    OBVIOUS
  <2>2. PICK d : d = [c EXCEPT !.enable = e]
    OBVIOUS
  <2>3. d \in GeneType /\ d = [c EXCEPT !.enable = @ /\ ~s.disable] /\ (e => c.enable)
    BY <2>1, <2>2 DEF GeneType
  <2>4. Append(s.genes, d) \in Seq(GeneType)
    BY <2>3, AppendProperties DEF WalkState
  <2>5. PICK new : new = Append(s.genes, d)
    OBVIOUS
  <2>6. Inherit(s, c) = [s EXCEPT !.genes = new, !.disable = FALSE]
    BY <1>2, <2>3, <2>5 DEF Inherit
  <2>7. Inherit(s, c) \in WalkState /\ Inherit(s, c).i = s.i /\ Inherit(s, c).j = s.j /\ Inherit(s, c).genes = new
    BY <2>4, <2>5, <2>6 DEF WalkState
  <2>8. Extended(s.genes, c, new)
    BY <1>2, <2>2, <2>3, <2>5 DEF Extended
  <2>9. QED
    BY <2>7, <2>8
<1>3. QED
  BY <1>1, <1>2

LEMMA InheritCut ==
  ASSUME NEW s \in CutState, NEW c \in GeneType
  PROVE  /\ Inherit(s, c) \in CutState /\ Inherit(s, c).i = s.i /\ Inherit(s, c).j = s.j
         /\ Inherit(s, c).count = s.count
         /\ Extended(s.genes, c, Inherit(s, c).genes)
<1>1. CASE Conflict(s.genes, c)
  BY <1>1 DEF Inherit, Extended
<1>2. CASE ~Conflict(s.genes, c)
  <2>1. PICK e \in BOOLEAN : e = (c.enable /\ ~s.disable)
    OBVIOUS
  <2>2. PICK d : d = [c EXCEPT !.enable = e]
    OBVIOUS
  <2>3. d \in GeneType /\ d = [c EXCEPT !.enable = @ /\ ~s.disable] /\ (e => c.enable)
    BY <2>1, <2>2 DEF GeneType
  <2>4. Append(s.genes, d) \in Seq(GeneType)
    BY <2>3, AppendProperties DEF CutState
  <2>5. PICK new : new = Append(s.genes, d)
    OBVIOUS
  <2>6. Inherit(s, c) = [s EXCEPT !.genes = new, !.disable = FALSE]
    BY <1>2, <2>3, <2>5 DEF Inherit
  <2>7. /\ Inherit(s, c) \in CutState /\ Inherit(s, c).i = s.i /\ Inherit(s, c).j = s.j
        /\ Inherit(s, c).count = s.count /\ Inherit(s, c).genes = new
    BY <2>4, <2>5, <2>6 DEF CutState
  <2>8. Extended(s.genes, c, new)
    BY <1>2, <2>2, <2>3, <2>5 DEF Extended
  <2>9. QED
    BY <2>7, <2>8
<1>3. QED
  BY <1>1, <1>2

(* The average of two genes has the number of the first, and the mark of   *)
(* both when they have the same.                                           *)
LEMMA Averages ==
  ASSUME NEW x \in GeneType, NEW y \in GeneType, NEW E \in SUBSET BOOLEAN, NEW c \in Average(x, y, E)
  PROVE  c \in GeneType /\ c.num = x.num /\ (Mark(x) = Mark(y) => Mark(c) = Mark(x))
<1>1. PICK a \in {x, y}, b \in {x, y}, r \in {x, y}, e \in E :
        c = [in |-> a.in, out |-> b.out, recur |-> r.recur, num |-> x.num, enable |-> e]
  BY DEF Average
<1>2. c \in GeneType /\ c.num = x.num /\ c.in = a.in /\ c.out = b.out /\ c.recur = r.recur
  BY <1>1 DEF GeneType
<1>3. ASSUME Mark(x) = Mark(y)
      PROVE  Mark(c) = Mark(x)
  <2>1. x.in = y.in /\ x.out = y.out /\ x.recur = y.recur
    BY <1>3 DEF Mark
  <2>2. c.in = x.in /\ c.out = x.out /\ c.recur = x.recur
    BY <1>1, <1>2, <2>1
  <2>3. QED
    BY <1>2, <2>2 DEF Mark
<1>4. QED
  BY <1>2, <1>3

(* A step of mate_multipoint. *)
Both(p1, p2, s, t) ==
  /\ s.i <= Len(p1) /\ s.j <= Len(p2) /\ p1[s.i].num = p2[s.j].num
  /\ t.i = s.i + 1 /\ t.j = s.j + 1
  /\ \E c \in GeneType : /\ c.num = p1[s.i].num
                         /\ Mark(p1[s.i]) = Mark(p2[s.j]) => Mark(c) = Mark(p1[s.i])
                         /\ Extended(s.genes, c, t.genes)
First(p1, p2, b, s, t) ==
  /\ s.i <= Len(p1) /\ NumAt(p1, s.i) < NumAt(p2, s.j)
  /\ t.i = s.i + 1 /\ t.j = s.j
  /\ IF b THEN Extended(s.genes, p1[s.i], t.genes) ELSE t.genes = s.genes
Second(p1, p2, b, s, t) ==
  /\ s.j <= Len(p2) /\ NumAt(p2, s.j) < NumAt(p1, s.i)
  /\ t.i = s.i /\ t.j = s.j + 1
  /\ IF b THEN t.genes = s.genes ELSE Extended(s.genes, p2[s.j], t.genes)
Ends(p1, p2, s, t) == t = s /\ s.i > Len(p1) /\ s.j > Len(p2)

LEMMA MultipointStepIs ==
  ASSUME NEW p1 \in Seq(GeneType), NEW p2 \in Seq(GeneType), Below(p1), Below(p2), cur_innov_num \in Nat,
         NEW b \in BOOLEAN, NEW avg \in BOOLEAN, NEW s \in WalkState, NEW t \in MultipointStep(p1, p2, b, avg, s)
  PROVE  /\ t \in WalkState
         /\ Ends(p1, p2, s, t) \/ Both(p1, p2, s, t) \/ First(p1, p2, b, s, t) \/ Second(p1, p2, b, s, t)
<1> DEFINE n1 == NumAt(p1, s.i)
           n2 == NumAt(p2, s.j)
           u == [s EXCEPT !.i = IF n1 <= n2 /\ s.i <= Len(p1) THEN @ + 1 ELSE @,
                          !.j = IF n2 <= n1 /\ s.j <= Len(p2) THEN @ + 1 ELSE @]
<1>0. s.i \in Nat \ {0} /\ s.j \in Nat \ {0} /\ s.genes \in Seq(GeneType) /\ s.disable \in BOOLEAN
      /\ Len(p1) \in Nat /\ Len(p2) \in Nat
  BY LenProperties DEF WalkState
<1>1. /\ n1 \in Nat /\ n1 <= cur_innov_num /\ (s.i <= Len(p1) <=> n1 < cur_innov_num)
      /\ s.i <= Len(p1) => n1 = p1[s.i].num /\ p1[s.i] \in GeneType
  BY <1>0, NumAtFacts
<1>2. /\ n2 \in Nat /\ n2 <= cur_innov_num /\ (s.j <= Len(p2) <=> n2 < cur_innov_num)
      /\ s.j <= Len(p2) => n2 = p2[s.j].num /\ p2[s.j] \in GeneType
  BY <1>0, NumAtFacts
<1>3. u \in WalkState /\ u.genes = s.genes /\ u.disable = s.disable
      /\ u.i = (IF n1 <= n2 /\ s.i <= Len(p1) THEN s.i + 1 ELSE s.i)
      /\ u.j = (IF n2 <= n1 /\ s.j <= Len(p2) THEN s.j + 1 ELSE s.j)
  <2>1. PICK ii \in Nat \ {0} : ii = IF n1 <= n2 /\ s.i <= Len(p1) THEN s.i + 1 ELSE s.i
    BY <1>0
  <2>2. PICK jj \in Nat \ {0} : jj = IF n2 <= n1 /\ s.j <= Len(p2) THEN s.j + 1 ELSE s.j
    BY <1>0
  <2>3. u = [s EXCEPT !.i = ii, !.j = jj]
    BY <2>1, <2>2
  <2>4. /\ [s EXCEPT !.i = ii, !.j = jj] \in WalkState
        /\ [s EXCEPT !.i = ii, !.j = jj].genes = s.genes
        /\ [s EXCEPT !.i = ii, !.j = jj].disable = s.disable
        /\ [s EXCEPT !.i = ii, !.j = jj].i = ii
        /\ [s EXCEPT !.i = ii, !.j = jj].j = jj
    BY DEF WalkState
  <2> HIDE DEF u, n1, n2
  <2>5. QED
    BY <2>1, <2>2, <2>3, <2>4
<1>s. MultipointStep(p1, p2, b, avg, s) =
        CASE n1 = n2 /\ s.i > Len(p1) -> {s}
          [] n1 = n2 /\ s.i <= Len(p1) -> Matching(u, p1[s.i], p2[s.j], avg)
          [] n1 < n2 -> {IF b THEN Inherit(u, p1[s.i]) ELSE u}
          [] n2 < n1 -> {IF b THEN u ELSE Inherit(u, p2[s.j])}
  BY DEF MultipointStep
<1> HIDE DEF n1, n2, u
<1>4. CASE n1 = n2 /\ s.i > Len(p1)
  <2>1. t = s
    BY <1>0, <1>1, <1>2, <1>4, <1>s
  <2>2. s.j > Len(p2)
    BY <1>0, <1>1, <1>2, <1>4
  <2>3. QED
    BY <1>4, <2>1, <2>2 DEF Ends
<1>5. CASE n1 = n2 /\ s.i <= Len(p1)
  <2>1. t \in Matching(u, p1[s.i], p2[s.j], avg)
    BY <1>0, <1>1, <1>2, <1>5, <1>s
  <2>2. s.j <= Len(p2) /\ u.i = s.i + 1 /\ u.j = s.j + 1 /\ p1[s.i] \in GeneType /\ p2[s.j] \in GeneType
        /\ p1[s.i].num = p2[s.j].num
    BY <1>0, <1>1, <1>2, <1>3, <1>5, SMTT(40)
  <2>3. PICK x \in GeneType, y \in GeneType : x = p1[s.i] /\ y = p2[s.j]
    BY <2>2
  <2>4. ASSUME NEW v \in WalkState, NEW c \in GeneType, v.i = u.i, v.j = u.j, v.genes = u.genes,
               t = Inherit(v, c), c.num = x.num, Mark(x) = Mark(y) => Mark(c) = Mark(x)
        PROVE  t \in WalkState /\ Both(p1, p2, s, t)
    <3>1. t \in WalkState /\ t.i = s.i + 1 /\ t.j = s.j + 1 /\ Extended(s.genes, c, t.genes)
      BY <1>3, <2>2, <2>4, InheritWalk, ZenonT(60)
    <3>2. QED
      BY <1>5, <2>2, <2>3, <2>4, <3>1 DEF Both
  <2>5. CASE avg
    <3>0. t \in Matching(u, x, y, avg)
      BY <2>1, <2>3
    <3>1. PICK c \in Average(x, y, {~d : d \in Coin(x, y)}) : t = Inherit(u, c)
      <4>1. Matching(u, x, y, avg) = {Inherit(u, c) : c \in Average(x, y, {~d : d \in Coin(x, y)})}
        BY <2>5 DEF Matching
      <4>2. QED
        BY <3>0, <4>1
    <3>2. {~d : d \in Coin(x, y)} \in SUBSET BOOLEAN
      BY DEF Coin
    <3>3. c \in GeneType /\ c.num = x.num /\ (Mark(x) = Mark(y) => Mark(c) = Mark(x))
      BY <3>2, Averages
    <3>4. QED
      BY <1>3, <2>4, <3>1, <3>3
  <2>6. CASE ~avg
    <3>0. t \in Matching(u, x, y, avg)
      BY <2>1, <2>3
    <3>1. PICK c \in {x, y}, d \in Coin(x, y) : t = Inherit([u EXCEPT !.disable = @ \/ d], c)
      <4>1. Matching(u, x, y, avg) = {Inherit([u EXCEPT !.disable = @ \/ d], c) : c \in {x, y}, d \in Coin(x, y)}
        BY <2>6 DEF Matching
      <4>2. QED
        BY <3>0, <4>1, SMTT(40)
    <3>2. PICK v : v = [u EXCEPT !.disable = @ \/ d]
      OBVIOUS
    <3>3. v \in WalkState /\ v.i = u.i /\ v.j = u.j /\ v.genes = u.genes
      BY <1>3, <3>1, <3>2 DEF WalkState, Coin
    <3>4. c \in GeneType /\ c.num = x.num /\ (Mark(x) = Mark(y) => Mark(c) = Mark(x))
      BY <2>2, <2>3, <3>1
    <3>5. QED
      BY <2>4, <3>1, <3>2, <3>3, <3>4
  <2>7. QED
    BY <2>5, <2>6
<1>6. CASE n1 < n2
  <2>1. t = IF b THEN Inherit(u, p1[s.i]) ELSE u
    BY <1>0, <1>1, <1>2, <1>6, <1>s
  <2>2. s.i <= Len(p1) /\ p1[s.i] \in GeneType /\ u.i = s.i + 1 /\ u.j = s.j
    BY <1>0, <1>1, <1>2, <1>3, <1>6
  <2>3. t \in WalkState /\ t.i = s.i + 1 /\ t.j = s.j
        /\ IF b THEN Extended(s.genes, p1[s.i], t.genes) ELSE t.genes = s.genes
    BY <1>3, <2>1, <2>2, InheritWalk
  <2>4. QED
    BY <1>6, <2>2, <2>3 DEF First, n1, n2
<1>7. CASE n2 < n1
  <2>1. t = IF b THEN u ELSE Inherit(u, p2[s.j])
    BY <1>0, <1>1, <1>2, <1>7, <1>s
  <2>2. s.j <= Len(p2) /\ p2[s.j] \in GeneType /\ u.i = s.i /\ u.j = s.j + 1
    BY <1>0, <1>1, <1>2, <1>3, <1>7
  <2>3. t \in WalkState /\ t.i = s.i /\ t.j = s.j + 1
        /\ IF b THEN t.genes = s.genes ELSE Extended(s.genes, p2[s.j], t.genes)
    BY <1>3, <2>1, <2>2, InheritWalk
  <2>4. QED
    BY <1>7, <2>2, <2>3 DEF Second, n1, n2
<1>8. QED
  BY <1>0, <1>1, <1>2, <1>4, <1>5, <1>6, <1>7

(* What the genes of a baby keep: no link twice, and when genes of the same *)
(* number are the same in both parents, only marks of the parents.         *)
Agree(p1, p2) == \A x \in ToSet(p1), y \in ToSet(p2) : x.num = y.num => Mark(x) = Mark(y)
Kept(p1, p2, genes) ==
  /\ Below(genes) /\ Different(genes)
  /\ Agree(p1, p2) => Marks(genes) \subseteq Marks(p1) \cup Marks(p2)
LEMMA ExtendKept ==
  ASSUME NEW p1, NEW p2, NEW genes \in Seq(GeneType), Kept(p1, p2, genes), NEW c \in GeneType,
         c.num < cur_innov_num, Agree(p1, p2) => Mark(c) \in Marks(p1) \cup Marks(p2),
         NEW new, Carried(genes, c, new)
  PROVE  Kept(p1, p2, new)
<1>2. \A x \in ToSet(genes) : x.num < cur_innov_num
  BY DEF Kept, Below, Before
<1>3. Below(new)
  BY <1>2 DEF Carried, Below, Before
<1>4. Different(new)
  BY DEF Carried, Kept
<1>5. ASSUME Agree(p1, p2), NEW m \in Marks(new)
      PROVE  m \in Marks(p1) \cup Marks(p2)
  <2>1. PICK x \in ToSet(new) : m = Mark(x)
    BY DEF Marks
  <2>2. CASE x \in ToSet(genes)
    BY <1>5, <2>1, <2>2 DEF Kept, Marks
  <2>3. CASE Mark(x) = Mark(c)
    BY <1>5, <2>1, <2>3
  <2>4. QED
    BY <2>2, <2>3 DEF Carried
<1>6. QED
  BY <1>3, <1>4, <1>5 DEF Kept

(* The walk of mate_multipoint: the baby has numbers of the better parent, *)
(* each smaller than those the walk is at; what it has left behind of the  *)
(* better parent it has taken, or it conflicts with an older gene.         *)
Better(p1, p2, b) == IF b THEN p1 ELSE p2
At(s, b) == IF b THEN s.i ELSE s.j
From(better, genes) == \A x \in ToSet(genes) : Has(better, x.num)
Clash(x, c) == Link(x) = Link(c) \/ (x.in = c.out /\ x.out = c.in /\ ~x.recur /\ ~c.recur)
Taken(genes, c) == Has(genes, c.num) \/ \E x \in ToSet(genes) : x.num < c.num /\ Clash(x, c)
Alike(p1, p2) == Agree(p1, p2) /\ Sorted(p1) /\ Sorted(p2)
Ordered(genes, n1, n2) == Sorted(genes) /\ Before(genes, n1) /\ Before(genes, n2)
Mated(p1, p2, b, s) ==
  /\ s \in WalkState /\ s.i <= Len(p1) + 1 /\ s.j <= Len(p2) + 1
  /\ Kept(p1, p2, s.genes) /\ From(Better(p1, p2, b), s.genes)
  /\ Sorted(p1) /\ Sorted(p2) => Ordered(s.genes, NumAt(p1, s.i), NumAt(p2, s.j))
  /\ Alike(p1, p2) =>
       \A k \in DOMAIN Better(p1, p2, b) : k < At(s, b) => Taken(s.genes, Better(p1, p2, b)[k])

(* One gene is considered, that of the better parent or one like it. *)
LEMMA Considered ==
  ASSUME NEW p1 \in Seq(GeneType), NEW p2 \in Seq(GeneType), NEW better \in {p1, p2},
         NEW genes \in Seq(GeneType), Kept(p1, p2, genes), From(better, genes),
         NEW at \in DOMAIN better, better[at].num < cur_innov_num,
         NEW c \in GeneType, c.num = better[at].num, Agree(p1, p2) => Mark(c) = Mark(better[at]),
         NEW new, Extended(genes, c, new), Alike(p1, p2) => Before(genes, c.num),
         Alike(p1, p2) => \A k \in DOMAIN better : k < at => Taken(genes, better[k])
  PROVE  /\ Carried(genes, c, new) /\ Kept(p1, p2, new) /\ From(better, new)
         /\ Alike(p1, p2) => \A k \in DOMAIN better : k < at + 1 => Taken(new, better[k])
<1>1. Carried(genes, c, new)
  BY Carry
<1>2. better \in Seq(GeneType) /\ DOMAIN better \in SUBSET Nat /\ better[at] \in ToSet(better)
  BY LenProperties DEF ToSet
<1>3. Kept(p1, p2, new)
  <2>1. Agree(p1, p2) => Mark(c) \in Marks(p1) \cup Marks(p2)
    BY <1>2 DEF Marks
  <2>2. QED
    BY <1>1, <2>1, ExtendKept
<1>4. From(better, new)
  BY <1>1, <1>2 DEF From, Carried, Has
<1>5. ASSUME Alike(p1, p2), NEW k \in DOMAIN better, k < at + 1
      PROVE  Taken(new, better[k])
  <2>1. CASE k = at
    <3>1. CASE Has(new, c.num)
      BY <2>1, <3>1 DEF Taken
    <3>2. CASE Conflict(genes, c)
      <4>1. PICK x \in ToSet(genes) : Clash(x, c)
        BY <3>2 DEF Conflict, Clash
      <4>2. x \in ToSet(new) /\ x.num < c.num
        BY <1>1, <1>5 DEF Carried, Before
      <4>3. Mark(c) = Mark(better[at])
        BY <1>5 DEF Alike
      <4>4. Clash(x, better[at])
        BY <4>1, <4>3 DEF Clash, Mark, Link
      <4>5. QED
        BY <2>1, <4>2, <4>4 DEF Taken
    <3>3. QED
      BY <1>1, <3>1, <3>2 DEF Carried
  <2>2. CASE k # at
    <3>1. k < at
      BY <1>2, <1>5, <2>2
    <3>2. Taken(genes, better[k])
      BY <1>5, <3>1
    <3>3. QED
      BY <1>1, <3>2 DEF Carried, Taken, Has
  <2>3. QED
    BY <2>1, <2>2
<1>6. QED
  BY <1>1, <1>3, <1>4, <1>5

(* The order of the baby, when a gene with a smaller number is considered. *)
LEMMA InOrderStill ==
  ASSUME NEW genes \in Seq(GeneType), NEW c \in GeneType, NEW new, Carried(genes, c, new),
         NEW n1 \in Nat, NEW n2 \in Nat, NEW k1 \in Nat, NEW k2 \in Nat,
         Ordered(genes, n1, n2), c.num >= n1 \/ c.num >= n2,
         n1 <= k1, n2 <= k2, c.num < k1, c.num < k2
  PROVE  Ordered(new, k1, k2)
<1> USE DEF Ordered
<1>1. c.num \in Nat /\ \A x \in ToSet(genes) : x.num \in Nat
  <2>1. \A x \in GeneType : x.num \in Nat
    BY DEF GeneType
  <2>2. \A x \in ToSet(genes) : x \in GeneType
    BY LenProperties, ElementOfSeq DEF ToSet
  <2>3. QED
    BY <2>1, <2>2
<1>2. Before(genes, c.num)
  BY <1>1 DEF Before
<1>3. ASSUME NEW x \in ToSet(new)
      PROVE  x.num < k1 /\ x.num < k2
  BY <1>1, <1>3 DEF Carried, Before
<1>4. QED
  BY <1>2, <1>3 DEF Carried, Before

LEMMA MultipointKeeps ==
  ASSUME NEW p1 \in Seq(GeneType), NEW p2 \in Seq(GeneType), Below(p1), Below(p2), cur_innov_num \in Nat,
         NEW b \in BOOLEAN, NEW avg \in BOOLEAN, NEW s, Mated(p1, p2, b, s),
         NEW t \in MultipointStep(p1, p2, b, avg, s)
  PROVE  Mated(p1, p2, b, t) /\ (t.i + t.j > s.i + s.j \/ (t = s /\ s.i > Len(p1) /\ s.j > Len(p2)))
<1> DEFINE better == Better(p1, p2, b)
           n1 == NumAt(p1, s.i)
           n2 == NumAt(p2, s.j)
           k1 == NumAt(p1, t.i)
           k2 == NumAt(p2, t.j)
<1>0. /\ s \in WalkState /\ s.i \in Nat \ {0} /\ s.j \in Nat \ {0} /\ s.genes \in Seq(GeneType)
      /\ Len(p1) \in Nat /\ Len(p2) \in Nat
  BY LenProperties DEF Mated, WalkState
<1>1. /\ t \in WalkState /\ t.i \in Nat \ {0} /\ t.j \in Nat \ {0}
      /\ Ends(p1, p2, s, t) \/ Both(p1, p2, s, t) \/ First(p1, p2, b, s, t) \/ Second(p1, p2, b, s, t)
  <2>1. /\ t \in WalkState
        /\ Ends(p1, p2, s, t) \/ Both(p1, p2, s, t) \/ First(p1, p2, b, s, t) \/ Second(p1, p2, b, s, t)
    BY <1>0, MultipointStepIs
  <2>2. QED
    BY <2>1 DEF WalkState
<1>2. /\ n1 \in Nat /\ n1 <= cur_innov_num /\ (s.i <= Len(p1) <=> n1 < cur_innov_num)
      /\ s.i <= Len(p1) => /\ n1 = p1[s.i].num /\ p1[s.i] \in GeneType /\ p1[s.i] \in ToSet(p1) /\ s.i \in DOMAIN p1
                           /\ Sorted(p1) => n1 < NumAt(p1, s.i + 1)
  BY <1>0, NumAtFacts
<1>3. /\ n2 \in Nat /\ n2 <= cur_innov_num /\ (s.j <= Len(p2) <=> n2 < cur_innov_num)
      /\ s.j <= Len(p2) => /\ n2 = p2[s.j].num /\ p2[s.j] \in GeneType /\ p2[s.j] \in ToSet(p2) /\ s.j \in DOMAIN p2
                           /\ Sorted(p2) => n2 < NumAt(p2, s.j + 1)
  BY <1>0, NumAtFacts
<1>4. k1 \in Nat /\ k2 \in Nat
  BY <1>1, NumAtFacts
<1>5. better \in {p1, p2} /\ Kept(p1, p2, s.genes) /\ From(better, s.genes)
      /\ s.i <= Len(p1) + 1 /\ s.j <= Len(p2) + 1
  BY DEF Mated, Better
<1>6. Sorted(p1) /\ Sorted(p2) => Ordered(s.genes, n1, n2)
  BY DEF Mated
<1>7. Alike(p1, p2) => \A k \in DOMAIN better : k < At(s, b) => Taken(s.genes, better[k])
  BY DEF Mated
<1>8. SUFFICES ASSUME ~Ends(p1, p2, s, t)
               PROVE  Mated(p1, p2, b, t) /\ t.i + t.j > s.i + s.j
  BY DEF Ends
<1> HIDE DEF better, n1, n2, k1, k2
<1>9. ASSUME Both(p1, p2, s, t)
      PROVE  Mated(p1, p2, b, t) /\ t.i + t.j > s.i + s.j
  <2>1. /\ s.i <= Len(p1) /\ s.j <= Len(p2) /\ p1[s.i].num = p2[s.j].num /\ t.i = s.i + 1 /\ t.j = s.j + 1
    BY <1>9 DEF Both
  <2>2. PICK c \in GeneType : /\ c.num = p1[s.i].num
                              /\ Mark(p1[s.i]) = Mark(p2[s.j]) => Mark(c) = Mark(p1[s.i])
                              /\ Extended(s.genes, c, t.genes)
    BY <1>9 DEF Both
  <2>3. n1 = n2 /\ c.num = n1 /\ n1 < cur_innov_num /\ t.i <= Len(p1) + 1 /\ t.j <= Len(p2) + 1
        /\ t.i + t.j > s.i + s.j
    BY <1>0, <1>2, <1>3, <2>1, <2>2, SMTT(40)
  <2>4. Agree(p1, p2) => Mark(p1[s.i]) = Mark(p2[s.j])
    BY <1>2, <1>3, <2>1 DEF Agree
  <2>5. PICK at \in DOMAIN better : at = At(s, b) /\ better[at].num = c.num
                                    /\ (Agree(p1, p2) => Mark(c) = Mark(better[at]))
    <3>1. CASE b
      <4>1. better = p1 /\ At(s, b) = s.i
        BY <3>1 DEF At, better, Better
      <4>2. QED
        BY <1>2, <2>1, <2>2, <2>4, <4>1
    <3>2. CASE ~b
      <4>1. better = p2 /\ At(s, b) = s.j
        BY <3>2 DEF At, better, Better
      <4>2. QED
        BY <1>3, <2>1, <2>2, <2>4, <4>1
    <3>3. QED
      BY <3>1, <3>2
  <2>6. /\ Carried(s.genes, c, t.genes) /\ Kept(p1, p2, t.genes) /\ From(better, t.genes)
        /\ Alike(p1, p2) => \A k \in DOMAIN better : k < at + 1 => Taken(t.genes, better[k])
    <3>1. /\ c.num = better[at].num /\ better[at].num < cur_innov_num
          /\ Alike(p1, p2) => \A k \in DOMAIN better : k < at => Taken(s.genes, better[k])
          /\ Alike(p1, p2) => Before(s.genes, c.num)
      BY <1>6, <1>7, <2>3, <2>5 DEF Alike, Ordered
    <3>2. QED
      BY <1>0, <1>5, <2>2, <2>5, <3>1, Considered, SMTT(40)
  <2>7. At(t, b) = at + 1
    BY <2>1, <2>5 DEF At
  <2>8. ASSUME Sorted(p1), Sorted(p2)
        PROVE  Ordered(t.genes, k1, k2)
    <3>1. n1 < k1 /\ n2 < k2
      BY <1>2, <1>3, <2>1, <2>8 DEF k1, k2
    <3>2. /\ n1 \in Nat /\ n2 \in Nat /\ Ordered(s.genes, n1, n2) /\ n1 <= k1 /\ n2 <= k2
          /\ c.num >= n1 /\ c.num < k1 /\ c.num < k2
      BY <1>2, <1>3, <1>4, <1>6, <2>3, <2>8, <3>1
    <3>3. QED
      BY <1>0, <1>4, <2>6, <3>2, InOrderStill
  <2>9. QED
    BY <1>1, <2>3, <2>6, <2>7, <2>8 DEF Mated, better, k1, k2
<1>10. ASSUME First(p1, p2, b, s, t)
       PROVE  Mated(p1, p2, b, t) /\ t.i + t.j > s.i + s.j
  <2>1. s.i <= Len(p1) /\ n1 < n2 /\ t.i = s.i + 1 /\ t.j = s.j
    BY <1>10 DEF First, n1, n2
  <2>2. t.i <= Len(p1) + 1 /\ t.j <= Len(p2) + 1 /\ t.i + t.j > s.i + s.j /\ k2 = n2 /\ n1 < cur_innov_num
    BY <1>0, <1>2, <1>5, <2>1 DEF k2, n2
  <2>3. Sorted(p1) => n1 < k1
    BY <1>2, <2>1 DEF k1
  <2>4. CASE b
    <3>1. Extended(s.genes, p1[s.i], t.genes) /\ better = p1 /\ At(s, b) = s.i /\ At(t, b) = s.i + 1
      BY <1>10, <2>1, <2>4 DEF First, better, Better, At
    <3>2. PICK c \in GeneType : c = p1[s.i]
      BY <1>2, <2>1
    <3>3. s.i \in DOMAIN better /\ c.num = better[s.i].num /\ better[s.i].num < cur_innov_num
          /\ Mark(c) = Mark(better[s.i]) /\ c.num = n1
      BY <1>2, <2>1, <2>2, <3>1, <3>2
    <3>4. /\ Carried(s.genes, c, t.genes) /\ Kept(p1, p2, t.genes) /\ From(better, t.genes)
          /\ Alike(p1, p2) => \A k \in DOMAIN better : k < s.i + 1 => Taken(t.genes, better[k])
      <4>1. Alike(p1, p2) => Before(s.genes, c.num)
        BY <1>6, <3>3 DEF Alike, Ordered
      <4>2. PICK at \in DOMAIN better : at = s.i
        BY <3>3
      <4>3. /\ Extended(s.genes, c, t.genes) /\ c.num = better[at].num /\ better[at].num < cur_innov_num
            /\ Agree(p1, p2) => Mark(c) = Mark(better[at])
        BY <3>1, <3>2, <3>3, <4>2
      <4>4. Alike(p1, p2) => \A k \in DOMAIN better : k < at => Taken(s.genes, better[k])
        BY <1>7, <3>1, <4>2
      <4>5. /\ Carried(s.genes, c, t.genes) /\ Kept(p1, p2, t.genes) /\ From(better, t.genes)
            /\ Alike(p1, p2) => \A k \in DOMAIN better : k < at + 1 => Taken(t.genes, better[k])
        BY <1>0, <1>5, <4>1, <4>3, <4>4, Considered
      <4>6. QED
        BY <4>2, <4>5
    <3>5. ASSUME Sorted(p1), Sorted(p2)
          PROVE  Ordered(t.genes, k1, k2)
      <4>1. /\ Ordered(s.genes, n1, n2) /\ n1 \in Nat /\ n2 \in Nat /\ (c.num >= n1 \/ c.num >= n2)
            /\ n1 <= k1 /\ n2 <= k2 /\ c.num < k1 /\ c.num < k2
        BY <1>2, <1>3, <1>4, <1>6, <2>1, <2>2, <2>3, <3>3, <3>5
      <4>2. QED
        BY <1>0, <1>4, <3>4, <4>1, InOrderStill
    <3>6. QED
      BY <1>1, <2>2, <3>1, <3>4, <3>5 DEF Mated, better, k1, k2
  <2>5. CASE ~b
    <3>1. t.genes = s.genes /\ At(t, b) = At(s, b)
      BY <1>10, <2>1, <2>5 DEF First, At
    <3>2. ASSUME Sorted(p1), Sorted(p2)
          PROVE  Ordered(t.genes, k1, k2)
      <4>1. \A x \in ToSet(s.genes) : x.num \in Nat
        <5>1. \A x \in GeneType : x.num \in Nat
          BY DEF GeneType
        <5>2. QED
          BY <1>0, <5>1, LenProperties, ElementOfSeq DEF ToSet
      <4>2. QED
        BY <1>2, <1>4, <1>6, <2>2, <2>3, <3>1, <3>2, <4>1 DEF Ordered, Before
    <3>3. QED
      BY <1>1, <1>5, <1>7, <2>2, <3>1, <3>2 DEF Mated, better, k1, k2
  <2>6. QED
    BY <2>4, <2>5
<1>11. ASSUME Second(p1, p2, b, s, t)
       PROVE  Mated(p1, p2, b, t) /\ t.i + t.j > s.i + s.j
  <2>1. s.j <= Len(p2) /\ n2 < n1 /\ t.i = s.i /\ t.j = s.j + 1
    BY <1>11 DEF Second, n1, n2
  <2>2. t.i <= Len(p1) + 1 /\ t.j <= Len(p2) + 1 /\ t.i + t.j > s.i + s.j /\ k1 = n1 /\ n2 < cur_innov_num
    BY <1>0, <1>3, <1>5, <2>1 DEF k1, n1
  <2>3. Sorted(p2) => n2 < k2
    BY <1>3, <2>1 DEF k2
  <2>4. CASE ~b
    <3>1. Extended(s.genes, p2[s.j], t.genes) /\ better = p2 /\ At(s, b) = s.j /\ At(t, b) = s.j + 1
      BY <1>11, <2>1, <2>4 DEF Second, better, Better, At
    <3>2. PICK c \in GeneType : c = p2[s.j]
      BY <1>3, <2>1
    <3>3. s.j \in DOMAIN better /\ c.num = better[s.j].num /\ better[s.j].num < cur_innov_num
          /\ Mark(c) = Mark(better[s.j]) /\ c.num = n2
      BY <1>3, <2>1, <2>2, <3>1, <3>2
    <3>4. /\ Carried(s.genes, c, t.genes) /\ Kept(p1, p2, t.genes) /\ From(better, t.genes)
          /\ Alike(p1, p2) => \A k \in DOMAIN better : k < s.j + 1 => Taken(t.genes, better[k])
      <4>1. Alike(p1, p2) => Before(s.genes, c.num)
        BY <1>6, <3>3 DEF Alike, Ordered
      <4>2. PICK at \in DOMAIN better : at = s.j
        BY <3>3
      <4>3. /\ Extended(s.genes, c, t.genes) /\ c.num = better[at].num /\ better[at].num < cur_innov_num
            /\ Agree(p1, p2) => Mark(c) = Mark(better[at])
        BY <3>1, <3>2, <3>3, <4>2
      <4>4. Alike(p1, p2) => \A k \in DOMAIN better : k < at => Taken(s.genes, better[k])
        BY <1>7, <3>1, <4>2
      <4>5. /\ Carried(s.genes, c, t.genes) /\ Kept(p1, p2, t.genes) /\ From(better, t.genes)
            /\ Alike(p1, p2) => \A k \in DOMAIN better : k < at + 1 => Taken(t.genes, better[k])
        BY <1>0, <1>5, <4>1, <4>3, <4>4, Considered
      <4>6. QED
        BY <4>2, <4>5
    <3>5. ASSUME Sorted(p1), Sorted(p2)
          PROVE  Ordered(t.genes, k1, k2)
      <4>1. /\ Ordered(s.genes, n1, n2) /\ n1 \in Nat /\ n2 \in Nat /\ (c.num >= n1 \/ c.num >= n2)
            /\ n1 <= k1 /\ n2 <= k2 /\ c.num < k1 /\ c.num < k2
        BY <1>2, <1>3, <1>4, <1>6, <2>1, <2>2, <2>3, <3>3, <3>5
      <4>2. QED
        BY <1>0, <1>4, <3>4, <4>1, InOrderStill
    <3>6. QED
      BY <1>1, <2>2, <3>1, <3>4, <3>5 DEF Mated, better, k1, k2
  <2>5. CASE b
    <3>1. t.genes = s.genes /\ At(t, b) = At(s, b)
      BY <1>11, <2>1, <2>5 DEF Second, At
    <3>2. ASSUME Sorted(p1), Sorted(p2)
          PROVE  Ordered(t.genes, k1, k2)
      <4>1. \A x \in ToSet(s.genes) : x.num \in Nat
        <5>1. \A x \in GeneType : x.num \in Nat
          BY DEF GeneType
        <5>2. QED
          BY <1>0, <5>1, LenProperties, ElementOfSeq DEF ToSet
      <4>2. QED
        BY <1>3, <1>4, <1>6, <2>2, <2>3, <3>1, <3>2, <4>1 DEF Ordered, Before
    <3>3. QED
      BY <1>1, <1>5, <1>7, <2>2, <3>1, <3>2 DEF Mated, better, k1, k2
  <2>6. QED
    BY <2>4, <2>5
<1>12. QED
  BY <1>1, <1>8, <1>9, <1>10, <1>11

(* The genes of a baby of mate_multipoint. *)
Baby(p1, p2, genes) ==
  genes \in Seq(GeneType) /\ Kept(p1, p2, genes) /\ (Sorted(p1) /\ Sorted(p2) => Sorted(genes))
TookBetter(p1, p2, b, genes) ==
  /\ From(Better(p1, p2, b), genes)
  /\ Alike(p1, p2) => \A c \in ToSet(Better(p1, p2, b)) : Taken(genes, c)

LEMMA MultipointStart ==
  ASSUME NEW p1 \in Seq(GeneType), NEW p2 \in Seq(GeneType), NEW b \in BOOLEAN
  PROVE  Mated(p1, p2, b, [i |-> 1, j |-> 1, genes |-> <<>>, disable |-> FALSE])
<1> DEFINE s == [i |-> 1, j |-> 1, genes |-> <<>>, disable |-> FALSE]
<1>1. s \in WalkState /\ s.i = 1 /\ s.j = 1 /\ s.genes = <<>>
  BY DEF WalkState
<1>2. Len(p1) \in Nat /\ Len(p2) \in Nat /\ DOMAIN p1 = 1..Len(p1) /\ DOMAIN p2 = 1..Len(p2)
  BY LenProperties
<1>3. DOMAIN <<>> = {} /\ ToSet(<<>>) = {}
  BY DEF ToSet
<1> HIDE DEF s
<1>4. Kept(p1, p2, s.genes)
  BY <1>1, <1>3 DEF Kept, Below, Before, Different, Marks
<1>5. From(Better(p1, p2, b), s.genes)
  BY <1>1, <1>3 DEF From
<1>6. Ordered(s.genes, NumAt(p1, s.i), NumAt(p2, s.j))
  BY <1>1, <1>3 DEF Ordered, Sorted, Before
<1>7. \A k \in DOMAIN Better(p1, p2, b) : ~(k < At(s, b))
  BY <1>1, <1>2 DEF At, Better
<1>8. Mated(p1, p2, b, s)
  BY <1>1, <1>2, <1>4, <1>5, <1>6, <1>7 DEF Mated
<1>9. QED
  BY <1>8 DEF s

LEMMA MultipointGenes ==
  ASSUME NEW p1 \in Seq(GeneType), NEW p2 \in Seq(GeneType), Below(p1), Below(p2), cur_innov_num \in Nat,
         NEW b \in BOOLEAN, NEW avg \in BOOLEAN, NEW genes \in Multipoint(p1, p2, b, avg)
  PROVE  Baby(p1, p2, genes) /\ TookBetter(p1, p2, b, genes)
<1> DEFINE N == Len(p1) + Len(p2)
           D == {s \in WalkState : Mated(p1, p2, b, s)}
           start == [i |-> 1, j |-> 1, genes |-> <<>>, disable |-> FALSE]
           F == [s \in D |-> MultipointStep(p1, p2, b, avg, s)]
           walk == CHOOSE w : w = [k \in 0..N |-> IF k = 0 THEN {start}
                                                  ELSE UNION {MultipointStep(p1, p2, b, avg, s) : s \in w[k - 1]}]
<1>1. Len(p1) \in Nat /\ Len(p2) \in Nat /\ N \in Nat
  BY LenProperties
<1>2. start \in D
  <2>1. start \in WalkState
    BY DEF WalkState
  <2>2. QED
    BY <2>1, MultipointStart
<1>3. ASSUME NEW s \in D, NEW t \in MultipointStep(p1, p2, b, avg, s)
      PROVE  t \in D /\ (t.i + t.j > s.i + s.j \/ (t = s /\ s.i > Len(p1) /\ s.j > Len(p2)))
  <2>1. Mated(p1, p2, b, s)
    OBVIOUS
  <2> HIDE DEF D
  <2>2. Mated(p1, p2, b, t) /\ (t.i + t.j > s.i + s.j \/ (t = s /\ s.i > Len(p1) /\ s.j > Len(p2)))
    BY <2>1, MultipointKeeps
  <2>3. QED
    BY <2>2 DEF Mated, D
<1>4. F \in [D -> SUBSET D]
  <2> HIDE DEF D
  <2>1. QED
    BY <1>3
<1> HIDE DEF start
<1>5. PICK w : Walks(D, {start}, F, N, w)
  <2> HIDE DEF D, F, N
  <2>1. {start} \in SUBSET D
    BY <1>2
  <2>2. QED
    BY <1>1, <1>4, <2>1, WalkExists DEF CanWalk
<1>6. w = [k \in 0..N |-> IF k = 0 THEN {start} ELSE UNION {MultipointStep(p1, p2, b, avg, s) : s \in w[k - 1]}]
  <2>1. ASSUME NEW k \in 0..N, k # 0
        PROVE  UNION {F[s] : s \in w[k - 1]} = UNION {MultipointStep(p1, p2, b, avg, s) : s \in w[k - 1]}
    <3>1. k - 1 \in 0..N
      BY <1>1, <2>1
    <3>2. w[k - 1] \in SUBSET D
      BY <1>5, <3>1 DEF Walks
    <3> HIDE DEF D
    <3>3. \A s \in w[k - 1] : F[s] = MultipointStep(p1, p2, b, avg, s)
      BY <3>2
    <3> HIDE DEF F
    <3>4. QED
      BY <3>3
  <2> HIDE DEF D, F, N
  <2>2. QED
    BY <1>5, <2>1 DEF Walks
<1>7. walk = [k \in 0..N |-> IF k = 0 THEN {start} ELSE UNION {MultipointStep(p1, p2, b, avg, s) : s \in walk[k - 1]}]
  <2> HIDE DEF N
  <2>1. QED
    BY <1>6
<1>8. Multipoint(p1, p2, b, avg) = {s.genes : s \in walk[N]}
  BY DEF Multipoint, start
<1> HIDE DEF walk
<1> DEFINE S == {k \in 0..N : walk[k] \in SUBSET D /\ \A s \in walk[k] : s.i + s.j >= k + 2}
<1>9. S = 0..N
  <2>1. 0 \in S
    <3>1. walk[0] = {start}
      BY <1>1, <1>7
    <3>2. start.i + start.j >= 0 + 2
      BY DEF start
    <3> HIDE DEF D
    <3>3. QED
      BY <1>1, <1>2, <3>1, <3>2
  <2>2. ASSUME NEW k \in 1..N, k - 1 \in S
        PROVE  k \in S
    <3>1. k \in 0..N /\ k # 0 /\ k - 1 \in 0..N /\ k \in Nat
      BY <1>1
    <3>2. walk[k] = UNION {MultipointStep(p1, p2, b, avg, s) : s \in walk[k - 1]}
      BY <1>7, <3>1
    <3>3. walk[k - 1] \in SUBSET D /\ \A s \in walk[k - 1] : s.i + s.j >= (k - 1) + 2
      BY <2>2
    <3>4. ASSUME NEW t \in walk[k]
          PROVE  t \in D /\ t.i + t.j >= k + 2
      <4>1. PICK s \in walk[k - 1] : t \in MultipointStep(p1, p2, b, avg, s)
        BY <3>2
      <4>2. s \in D /\ t \in D /\ (t.i + t.j > s.i + s.j \/ (t = s /\ s.i > Len(p1) /\ s.j > Len(p2)))
        <5> HIDE DEF D
        <5>1. QED
          BY <1>3, <3>3, <4>1
      <4>3. s.i \in Nat /\ s.j \in Nat /\ t.i \in Nat /\ t.j \in Nat
        BY <4>2 DEF WalkState
      <4>4. s.i + s.j >= (k - 1) + 2
        BY <3>3
      <4> HIDE DEF D
      <4>5. QED
        BY <1>1, <3>1, <4>2, <4>3, <4>4, SMTT(40)
    <3> HIDE DEF D
    <3>5. QED
      BY <3>1, <3>4
  <2> HIDE DEF D, N
  <2>3. S \in SUBSET (0..N)
    OBVIOUS
  <2> HIDE DEF S
  <2>4. QED
    BY <1>1, <2>1, <2>2, <2>3, PassedOn
<1>10. PICK s \in walk[N] : genes = s.genes
  <2> HIDE DEF N
  <2>1. QED
    BY <1>8
<1>11. Mated(p1, p2, b, s) /\ s.i + s.j >= N + 2
  <2>1. N \in S
    <3> HIDE DEF S, N
    <3>1. QED
      BY <1>1, <1>9
  <2>2. QED
    BY <2>1
<1>12. s \in WalkState /\ s.i = Len(p1) + 1 /\ s.j = Len(p2) + 1
  BY <1>1, <1>11 DEF Mated, WalkState
<1>13. Baby(p1, p2, genes)
  BY <1>10, <1>11, <1>12 DEF Mated, Baby, WalkState, Ordered
<1>14. TookBetter(p1, p2, b, genes)
  <2>1. ASSUME Alike(p1, p2), NEW c \in ToSet(Better(p1, p2, b))
        PROVE  Taken(genes, c)
    <3>1. PICK k \in DOMAIN Better(p1, p2, b) : c = Better(p1, p2, b)[k]
      BY DEF ToSet
    <3>2. k < At(s, b)
      BY <1>1, <1>12, LenProperties DEF At, Better
    <3>3. QED
      BY <1>10, <1>11, <2>1, <3>1, <3>2 DEF Mated
  <2>2. QED
    BY <1>10, <1>11, <2>1 DEF Mated, TookBetter
<1>15. QED
  BY <1>13, <1>14

(* A step of mate_singlepoint. *)
CutEnds(p2, s, t) == t = s /\ s.j > Len(p2)
CutTail(p1, p2, s, t) ==
  /\ s.j <= Len(p2) /\ s.i > Len(p1) /\ t.i = s.i /\ t.j = s.j + 1 /\ t.count = s.count
  /\ Extended(s.genes, p2[s.j], t.genes)
CutBoth(p1, p2, s, t) == Both(p1, p2, s, t) /\ t.count = s.count + 1
CutFirst(p1, p2, crosspoint, s, t) ==
  /\ s.j <= Len(p2) /\ s.i <= Len(p1) /\ NumAt(p1, s.i) < NumAt(p2, s.j) /\ s.count < crosspoint
  /\ t.i = s.i + 1 /\ t.j = s.j /\ t.count = s.count + 1 /\ Extended(s.genes, p1[s.i], t.genes)
CutPast(p1, p2, crosspoint, s, t) ==
  /\ s.j <= Len(p2) /\ s.i <= Len(p1) /\ NumAt(p1, s.i) < NumAt(p2, s.j) /\ ~(s.count < crosspoint)
  /\ t.i = s.i /\ t.j = s.j + 1 /\ t.count = s.count /\ Extended(s.genes, p2[s.j], t.genes)
CutSecond(p1, p2, s, t) ==
  /\ s.j <= Len(p2) /\ s.i <= Len(p1) /\ NumAt(p2, s.j) < NumAt(p1, s.i)
  /\ t.i = s.i /\ t.j = s.j + 1 /\ t.count = s.count /\ t.genes = s.genes
CutStep(p1, p2, crosspoint, s, t) ==
  \/ CutEnds(p2, s, t) \/ CutTail(p1, p2, s, t) \/ CutBoth(p1, p2, s, t)
  \/ CutFirst(p1, p2, crosspoint, s, t) \/ CutPast(p1, p2, crosspoint, s, t) \/ CutSecond(p1, p2, s, t)

LEMMA SinglepointStepIs ==
  ASSUME NEW p1 \in Seq(GeneType), NEW p2 \in Seq(GeneType), Below(p1), Below(p2), cur_innov_num \in Nat,
         NEW crosspoint \in Int, NEW s \in CutState, NEW t \in SinglepointStep(p1, p2, crosspoint, s)
  PROVE  t \in CutState /\ CutStep(p1, p2, crosspoint, s, t)
<1> DEFINE n1 == NumAt(p1, s.i)
           n2 == NumAt(p2, s.j)
           x == p1[s.i]
           y == p2[s.j]
           on1 == [s EXCEPT !.i = @ + 1, !.count = @ + 1]
           on2 == [s EXCEPT !.j = @ + 1]
           on  == [on1 EXCEPT !.j = @ + 1]
           averaged == {Inherit(on, c) : c \in Average(x, y, {x.enable /\ y.enable})}
           matched == IF s.count < crosspoint THEN {Inherit(on, x)}
                      ELSE IF s.count > crosspoint THEN {Inherit(on, y)} ELSE averaged
<1>0. s.i \in Nat \ {0} /\ s.j \in Nat \ {0} /\ s.count \in Nat /\ s.genes \in Seq(GeneType)
      /\ Len(p1) \in Nat /\ Len(p2) \in Nat
  BY LenProperties DEF CutState
<1>1. n1 \in Nat /\ (s.i <= Len(p1) => n1 = x.num /\ x \in GeneType)
  BY <1>0, NumAtFacts
<1>2. n2 \in Nat /\ (s.j <= Len(p2) => n2 = y.num /\ y \in GeneType)
  BY <1>0, NumAtFacts
<1>3. /\ on1 \in CutState /\ on1.genes = s.genes /\ on1.i = s.i + 1 /\ on1.j = s.j /\ on1.count = s.count + 1
      /\ on2 \in CutState /\ on2.genes = s.genes /\ on2.i = s.i /\ on2.j = s.j + 1 /\ on2.count = s.count
      /\ on \in CutState /\ on.genes = s.genes /\ on.i = s.i + 1 /\ on.j = s.j + 1 /\ on.count = s.count + 1
  <2>0. PICK ii \in Nat \ {0}, jj \in Nat \ {0}, cc \in Nat : ii = s.i + 1 /\ jj = s.j + 1 /\ cc = s.count + 1
    <3>1. s.i + 1 \in Nat \ {0} /\ s.j + 1 \in Nat \ {0} /\ s.count + 1 \in Nat
      BY <1>0, SMTT(40)
    <3>2. QED
      BY <3>1, Zenon
  <2>1. /\ on1 = [s EXCEPT !.i = ii, !.count = cc] /\ on2 = [s EXCEPT !.j = jj]
        /\ on = [on1 EXCEPT !.j = on1.j + 1]
    BY <2>0
  <2> HIDE DEF on1, on2, on
  <2>2. on1 \in CutState /\ on1.genes = s.genes /\ on1.i = ii /\ on1.j = s.j /\ on1.count = cc
    BY <2>1 DEF CutState
  <2>3. on2 \in CutState /\ on2.genes = s.genes /\ on2.i = s.i /\ on2.j = jj /\ on2.count = s.count
    BY <2>1 DEF CutState
  <2>4. on = [on1 EXCEPT !.j = jj]
    BY <2>0, <2>1, <2>2
  <2>5. on \in CutState /\ on.genes = s.genes /\ on.i = ii /\ on.j = jj /\ on.count = cc
    BY <2>2, <2>4 DEF CutState
  <2>6. QED
    BY <2>0, <2>2, <2>3, <2>5
<1>s. SinglepointStep(p1, p2, crosspoint, s) =
        CASE s.j > Len(p2) -> {s}
          [] s.j <= Len(p2) /\ s.i > Len(p1) -> {Inherit(on2, y)}
          [] s.j <= Len(p2) /\ s.i <= Len(p1) /\ n1 = n2 -> matched
          [] s.j <= Len(p2) /\ s.i <= Len(p1) /\ n1 < n2 ->
               IF s.count < crosspoint THEN {Inherit(on1, x)} ELSE {Inherit(on2, y)}
          [] s.j <= Len(p2) /\ s.i <= Len(p1) /\ n2 < n1 -> {on2}
  BY DEF SinglepointStep
<1> HIDE DEF n1, n2, x, y, on1, on2, on, averaged, matched
<1>4. CASE s.j > Len(p2)
  <2>1. t = s
    BY <1>0, <1>4, <1>s
  <2>2. QED
    BY <1>4, <2>1 DEF CutStep, CutEnds
<1>5. CASE s.j <= Len(p2) /\ s.i > Len(p1)
  <2>1. t = Inherit(on2, y) /\ y \in GeneType
    BY <1>0, <1>2, <1>5, <1>s
  <2>2. /\ t \in CutState /\ t.i = s.i /\ t.j = s.j + 1 /\ t.count = s.count
        /\ Extended(s.genes, y, t.genes)
    BY <1>3, <2>1, InheritCut
  <2>3. QED
    BY <1>5, <2>2 DEF CutStep, CutTail, y
<1>6. CASE s.j <= Len(p2) /\ s.i <= Len(p1) /\ n1 = n2
  <2>1. x \in GeneType /\ y \in GeneType /\ x.num = y.num
    BY <1>1, <1>2, <1>6
  <2>2. t \in matched
    BY <1>0, <1>1, <1>2, <1>6, <1>s
  <2>3. ASSUME NEW c \in GeneType, t = Inherit(on, c), c.num = x.num, Mark(x) = Mark(y) => Mark(c) = Mark(x)
        PROVE  t \in CutState /\ CutBoth(p1, p2, s, t)
    <3>1. /\ t \in CutState /\ t.i = s.i + 1 /\ t.j = s.j + 1 /\ t.count = s.count + 1
          /\ Extended(s.genes, c, t.genes)
      BY <1>3, <2>3, InheritCut
    <3>2. QED
      BY <1>6, <2>1, <2>3, <3>1 DEF CutBoth, Both, x, y
  <2>4. CASE s.count < crosspoint
    <3>1. t = Inherit(on, x)
      BY <2>2, <2>4 DEF matched
    <3>2. QED
      BY <2>1, <2>3, <3>1 DEF CutStep
  <2>5. CASE ~(s.count < crosspoint) /\ s.count > crosspoint
    <3>1. t = Inherit(on, y)
      BY <2>2, <2>5 DEF matched
    <3>2. QED
      BY <2>1, <2>3, <3>1 DEF CutStep
  <2>6. CASE ~(s.count < crosspoint) /\ ~(s.count > crosspoint)
    <3>0. PICK e \in BOOLEAN : e = (x.enable /\ y.enable)
      OBVIOUS
    <3>1. PICK c \in Average(x, y, {e}) : t = Inherit(on, c)
      <4>1. t \in averaged
        BY <2>2, <2>6 DEF matched
      <4>2. averaged = {Inherit(on, c) : c \in Average(x, y, {e})}
        BY <3>0 DEF averaged
      <4>3. QED
        BY <4>1, <4>2
    <3>2. {e} \in SUBSET BOOLEAN
      BY <3>0
    <3>3. c \in GeneType /\ c.num = x.num /\ (Mark(x) = Mark(y) => Mark(c) = Mark(x))
      BY <2>1, <3>2, Averages
    <3>4. QED
      BY <2>3, <3>1, <3>3 DEF CutStep
  <2>7. QED
    BY <2>4, <2>5, <2>6
<1>7. CASE s.j <= Len(p2) /\ s.i <= Len(p1) /\ n1 < n2
  <2>1. t = IF s.count < crosspoint THEN Inherit(on1, x) ELSE Inherit(on2, y)
    BY <1>0, <1>1, <1>2, <1>7, <1>s
  <2>2. CASE s.count < crosspoint
    <3>1. t = Inherit(on1, x) /\ x \in GeneType
      BY <1>1, <1>7, <2>1, <2>2
    <3>2. /\ t \in CutState /\ t.i = s.i + 1 /\ t.j = s.j /\ t.count = s.count + 1
          /\ Extended(s.genes, x, t.genes)
      BY <1>3, <3>1, InheritCut
    <3>3. QED
      BY <1>7, <2>2, <3>2 DEF CutStep, CutFirst, x, n1, n2
  <2>3. CASE ~(s.count < crosspoint)
    <3>1. t = Inherit(on2, y) /\ y \in GeneType
      BY <1>2, <1>7, <2>1, <2>3
    <3>2. /\ t \in CutState /\ t.i = s.i /\ t.j = s.j + 1 /\ t.count = s.count
          /\ Extended(s.genes, y, t.genes)
      BY <1>3, <3>1, InheritCut
    <3>3. QED
      BY <1>7, <2>3, <3>2 DEF CutStep, CutPast, y, n1, n2
  <2>4. QED
    BY <2>2, <2>3
<1>8. CASE s.j <= Len(p2) /\ s.i <= Len(p1) /\ n2 < n1
  <2>1. t = on2
    BY <1>0, <1>1, <1>2, <1>8, <1>s
  <2>2. QED
    BY <1>3, <1>8, <2>1 DEF CutStep, CutSecond, n1, n2
<1>9. QED
  BY <1>0, <1>1, <1>2, <1>4, <1>5, <1>6, <1>7, <1>8

(* The walk of mate_singlepoint: past the crosspoint the baby may be ahead *)
(* of the first parent, which then stays where it is.                      *)
CutOrdered(genes, n1, n2, past) ==
  Sorted(genes) /\ Before(genes, n2) /\ (Before(genes, n1) \/ (n1 < n2 /\ past))
CutMated(p1, p2, crosspoint, s) ==
  /\ s \in CutState /\ Kept(p1, p2, s.genes)
  /\ Sorted(p1) /\ Sorted(p2) =>
       CutOrdered(s.genes, NumAt(p1, s.i), NumAt(p2, s.j), ~(s.count < crosspoint))

LEMMA SortedStill ==
  ASSUME NEW genes \in Seq(GeneType), NEW c \in GeneType, NEW new, Carried(genes, c, new),
         NEW n \in Nat, Sorted(genes), Before(genes, n), n <= c.num, NEW k \in Nat, c.num < k
  PROVE  Sorted(new) /\ Before(new, k)
<1>1. Ordered(genes, n, n)
  BY DEF Ordered
<1>2. c.num \in Nat
  BY DEF GeneType
<1>3. Ordered(new, k, k)
  BY <1>1, <1>2, InOrderStill
<1>4. QED
  BY <1>3 DEF Ordered

LEMMA SinglepointKeeps ==
  ASSUME NEW p1 \in Seq(GeneType), NEW p2 \in Seq(GeneType), Below(p1), Below(p2), cur_innov_num \in Nat,
         NEW crosspoint \in Int, NEW s, CutMated(p1, p2, crosspoint, s),
         NEW t \in SinglepointStep(p1, p2, crosspoint, s)
  PROVE  CutMated(p1, p2, crosspoint, t)
<1> DEFINE n1 == NumAt(p1, s.i)
           n2 == NumAt(p2, s.j)
           k1 == NumAt(p1, t.i)
           k2 == NumAt(p2, t.j)
           past == ~(s.count < crosspoint)
           Sorts == Sorted(p1) /\ Sorted(p2)
<1>0. /\ s \in CutState /\ s.i \in Nat \ {0} /\ s.j \in Nat \ {0} /\ s.count \in Nat /\ s.genes \in Seq(GeneType)
      /\ Len(p1) \in Nat /\ Len(p2) \in Nat
  BY LenProperties DEF CutMated, CutState
<1>1. t \in CutState /\ t.i \in Nat \ {0} /\ t.j \in Nat \ {0} /\ CutStep(p1, p2, crosspoint, s, t)
  <2>1. t \in CutState /\ CutStep(p1, p2, crosspoint, s, t)
    BY <1>0, SinglepointStepIs
  <2>2. QED
    BY <2>1 DEF CutState
<1>2. /\ n1 \in Nat /\ n1 <= cur_innov_num /\ (s.i <= Len(p1) <=> n1 < cur_innov_num)
      /\ s.i <= Len(p1) => /\ n1 = p1[s.i].num /\ p1[s.i] \in GeneType /\ p1[s.i] \in ToSet(p1)
                           /\ Sorted(p1) => n1 < NumAt(p1, s.i + 1)
  BY <1>0, NumAtFacts
<1>3. /\ n2 \in Nat /\ n2 <= cur_innov_num /\ (s.j <= Len(p2) <=> n2 < cur_innov_num)
      /\ s.j <= Len(p2) => /\ n2 = p2[s.j].num /\ p2[s.j] \in GeneType /\ p2[s.j] \in ToSet(p2)
                           /\ Sorted(p2) => n2 < NumAt(p2, s.j + 1)
  BY <1>0, NumAtFacts
<1>4. k1 \in Nat /\ k2 \in Nat /\ k1 <= cur_innov_num /\ k2 <= cur_innov_num
  BY <1>1, NumAtFacts
<1>5. Kept(p1, p2, s.genes) /\ (Sorts => CutOrdered(s.genes, n1, n2, past))
  BY DEF CutMated
<1>6. \A x \in ToSet(s.genes) : x.num \in Nat
  <2>1. \A x \in GeneType : x.num \in Nat
    BY DEF GeneType
  <2>2. QED
    BY <1>0, <2>1, LenProperties, ElementOfSeq DEF ToSet
<1> HIDE DEF n1, n2, k1, k2, past
(* A gene of one parent is considered, or one like those of both. *)
<1>7. ASSUME NEW c \in GeneType, c.num < cur_innov_num, Extended(s.genes, c, t.genes),
             Agree(p1, p2) => Mark(c) \in Marks(p1) \cup Marks(p2)
      PROVE  Carried(s.genes, c, t.genes) /\ Kept(p1, p2, t.genes) /\ c.num \in Nat
  <2>1. Carried(s.genes, c, t.genes)
    BY <1>0, <1>7, Carry
  <2>2. Kept(p1, p2, t.genes)
    BY <1>0, <1>5, <1>7, <2>1, ExtendKept
  <2>3. QED
    BY <2>1, <2>2 DEF GeneType
<1>8. ASSUME NEW q \in {p1, p2}, NEW c \in ToSet(q)
      PROVE  Mark(c) \in Marks(p1) \cup Marks(p2)
  BY DEF Marks
<1>9. SUFFICES Kept(p1, p2, t.genes) /\ (Sorts => CutOrdered(t.genes, k1, k2, ~(t.count < crosspoint)))
  BY <1>1 DEF CutMated, k1, k2
<1>10. CASE CutEnds(p2, s, t)
  BY <1>5, <1>10 DEF CutEnds, k1, k2, n1, n2, past
<1>11. CASE CutTail(p1, p2, s, t)
  <2>1. /\ s.j <= Len(p2) /\ s.i > Len(p1) /\ t.i = s.i /\ t.j = s.j + 1
        /\ Extended(s.genes, p2[s.j], t.genes)
    BY <1>11 DEF CutTail
  <2>2. PICK c \in GeneType : c = p2[s.j] /\ c \in ToSet(p2) /\ c.num = n2 /\ n2 < cur_innov_num
    BY <1>3, <2>1
  <2>3. Carried(s.genes, c, t.genes) /\ Kept(p1, p2, t.genes)
    BY <1>7, <1>8, <2>1, <2>2
  <2>4. ASSUME Sorts
        PROVE  CutOrdered(t.genes, k1, k2, ~(t.count < crosspoint))
    <3>1. Sorted(s.genes) /\ Before(s.genes, n2)
      BY <1>5, <2>4 DEF CutOrdered
    <3>2. k1 = n1 /\ n1 = cur_innov_num /\ n2 < k2
      BY <1>0, <1>2, <1>3, <2>1, <2>4 DEF k1, k2, n1
    <3>3. n2 <= c.num /\ c.num < k2 /\ c.num < k1
      BY <1>3, <2>2, <3>2
    <3>4. Sorted(t.genes) /\ Before(t.genes, k2) /\ Before(t.genes, k1)
      BY <1>0, <1>3, <1>4, <2>3, <3>1, <3>3, SortedStill
    <3>5. QED
      BY <3>4 DEF CutOrdered
  <2>5. QED
    BY <2>3, <2>4
<1>12. CASE CutBoth(p1, p2, s, t)
  <2>1. /\ s.i <= Len(p1) /\ s.j <= Len(p2) /\ p1[s.i].num = p2[s.j].num /\ t.i = s.i + 1 /\ t.j = s.j + 1
    BY <1>12 DEF CutBoth, Both
  <2>2. PICK c \in GeneType : /\ c.num = p1[s.i].num
                              /\ Mark(p1[s.i]) = Mark(p2[s.j]) => Mark(c) = Mark(p1[s.i])
                              /\ Extended(s.genes, c, t.genes)
    BY <1>12 DEF CutBoth, Both
  <2>3. n1 = n2 /\ c.num = n1 /\ n1 < cur_innov_num
    BY <1>0, <1>2, <1>3, <2>1, <2>2
  <2>4. Agree(p1, p2) => Mark(c) \in Marks(p1) \cup Marks(p2)
    BY <1>2, <1>3, <1>8, <2>1, <2>2 DEF Agree
  <2>5. Carried(s.genes, c, t.genes) /\ Kept(p1, p2, t.genes)
    BY <1>7, <2>2, <2>3, <2>4
  <2>6. ASSUME Sorts
        PROVE  CutOrdered(t.genes, k1, k2, ~(t.count < crosspoint))
    <3>1. Sorted(s.genes) /\ Before(s.genes, n2)
      BY <1>5, <2>6 DEF CutOrdered
    <3>2. n1 < k1 /\ n2 < k2
      BY <1>2, <1>3, <2>1, <2>6 DEF k1, k2
    <3>3. n2 <= c.num /\ c.num < k2 /\ c.num < k1
      BY <1>3, <2>3, <3>2
    <3>4. Sorted(t.genes) /\ Before(t.genes, k2) /\ Before(t.genes, k1)
      BY <1>0, <1>3, <1>4, <2>5, <3>1, <3>3, SortedStill
    <3>5. QED
      BY <3>4 DEF CutOrdered
  <2>7. QED
    BY <2>5, <2>6
<1>13. CASE CutFirst(p1, p2, crosspoint, s, t)
  <2>1. /\ s.i <= Len(p1) /\ n1 < n2 /\ ~past /\ t.i = s.i + 1 /\ t.j = s.j
        /\ Extended(s.genes, p1[s.i], t.genes)
    BY <1>13 DEF CutFirst, n1, n2, past
  <2>2. PICK c \in GeneType : c = p1[s.i] /\ c \in ToSet(p1) /\ c.num = n1 /\ n1 < cur_innov_num
    BY <1>2, <2>1
  <2>3. Carried(s.genes, c, t.genes) /\ Kept(p1, p2, t.genes)
    BY <1>7, <1>8, <2>1, <2>2
  <2>4. ASSUME Sorts
        PROVE  CutOrdered(t.genes, k1, k2, ~(t.count < crosspoint))
    <3>1. Sorted(s.genes) /\ Before(s.genes, n1)
      BY <1>5, <2>1, <2>4 DEF CutOrdered
    <3>2. n1 < k1 /\ n2 = k2
      BY <1>2, <2>1, <2>4 DEF k1, k2, n2
    <3>3. n1 <= c.num /\ c.num < k2 /\ c.num < k1
      BY <1>2, <2>1, <2>2, <3>2
    <3>4. Sorted(t.genes) /\ Before(t.genes, k2) /\ Before(t.genes, k1)
      BY <1>0, <1>2, <1>4, <2>3, <3>1, <3>3, SortedStill
    <3>5. QED
      BY <3>4 DEF CutOrdered
  <2>5. QED
    BY <2>3, <2>4
<1>14. CASE CutPast(p1, p2, crosspoint, s, t)
  <2>1. /\ s.j <= Len(p2) /\ n1 < n2 /\ past /\ t.i = s.i /\ t.j = s.j + 1 /\ t.count = s.count
        /\ Extended(s.genes, p2[s.j], t.genes)
    BY <1>14 DEF CutPast, n1, n2, past
  <2>2. PICK c \in GeneType : c = p2[s.j] /\ c \in ToSet(p2) /\ c.num = n2 /\ n2 < cur_innov_num
    BY <1>3, <2>1
  <2>3. Carried(s.genes, c, t.genes) /\ Kept(p1, p2, t.genes)
    BY <1>7, <1>8, <2>1, <2>2
  <2>4. ASSUME Sorts
        PROVE  CutOrdered(t.genes, k1, k2, ~(t.count < crosspoint))
    <3>1. Sorted(s.genes) /\ Before(s.genes, n2)
      BY <1>5, <2>4 DEF CutOrdered
    <3>2. k1 = n1 /\ n2 < k2
      BY <1>3, <2>1, <2>4 DEF k1, k2, n1
    <3>3. n2 <= c.num /\ c.num < k2 /\ k1 < k2
      BY <1>2, <1>3, <1>4, <2>1, <2>2, <3>2
    <3>4. Sorted(t.genes) /\ Before(t.genes, k2)
      BY <1>0, <1>3, <1>4, <2>3, <3>1, <3>3, SortedStill
    <3>5. QED
      BY <2>1, <3>3, <3>4 DEF CutOrdered, past
  <2>5. QED
    BY <2>3, <2>4
<1>15. CASE CutSecond(p1, p2, s, t)
  <2>1. s.j <= Len(p2) /\ n2 < n1 /\ t.i = s.i /\ t.j = s.j + 1 /\ t.genes = s.genes
    BY <1>15 DEF CutSecond, n1, n2
  <2>2. ASSUME Sorts
        PROVE  CutOrdered(t.genes, k1, k2, ~(t.count < crosspoint))
    <3>1. Sorted(s.genes) /\ Before(s.genes, n2)
      BY <1>5, <2>2 DEF CutOrdered
    <3>2. k1 = n1 /\ n2 < k2
      BY <1>3, <2>1, <2>2 DEF k1, k2, n1
    <3>3. Before(s.genes, k1) /\ Before(s.genes, k2)
      BY <1>2, <1>3, <1>4, <1>6, <2>1, <3>1, <3>2 DEF Before
    <3>4. QED
      BY <2>1, <3>1, <3>3 DEF CutOrdered
  <2>3. QED
    BY <1>5, <2>1, <2>2
<1>16. QED
  BY <1>1, <1>10, <1>11, <1>12, <1>13, <1>14, <1>15 DEF CutStep

(* The genes of a baby of mate_singlepoint. *)
LEMMA SinglepointGenes ==
  ASSUME NEW p1 \in Seq(GeneType), NEW p2 \in Seq(GeneType), Below(p1), Below(p2), cur_innov_num \in Nat,
         NEW crosspoint \in Int, NEW genes \in Singlepoint(p1, p2, crosspoint)
  PROVE  Baby(p1, p2, genes)
<1> DEFINE N == Len(p1) + Len(p2)
           D == {s \in CutState : CutMated(p1, p2, crosspoint, s)}
           start == [i |-> 1, j |-> 1, count |-> 0, genes |-> <<>>, disable |-> FALSE]
           F == [s \in D |-> SinglepointStep(p1, p2, crosspoint, s)]
           walk == CHOOSE w : w = [k \in 0..N |-> IF k = 0 THEN {start}
                                                  ELSE UNION {SinglepointStep(p1, p2, crosspoint, s) : s \in w[k - 1]}]
<1>1. Len(p1) \in Nat /\ Len(p2) \in Nat /\ N \in Nat
  BY LenProperties
<1>2. start \in D
  <2>1. start \in CutState /\ start.genes = <<>>
    BY DEF CutState
  <2>2. DOMAIN <<>> = {} /\ ToSet(<<>>) = {}
    BY DEF ToSet
  <2> HIDE DEF start
  <2>3. Kept(p1, p2, start.genes)
    BY <2>1, <2>2 DEF Kept, Below, Before, Different, Marks
  <2>4. Sorted(start.genes) /\ \A n : Before(start.genes, n)
    BY <2>1, <2>2 DEF Sorted, Before
  <2>5. CutMated(p1, p2, crosspoint, start)
    BY <2>1, <2>3, <2>4 DEF CutMated, CutOrdered
  <2>6. QED
    BY <2>1, <2>5
<1>3. ASSUME NEW s \in D, NEW t \in SinglepointStep(p1, p2, crosspoint, s)
      PROVE  t \in D
  <2>1. CutMated(p1, p2, crosspoint, s)
    OBVIOUS
  <2> HIDE DEF D
  <2>2. CutMated(p1, p2, crosspoint, t)
    BY <2>1, SinglepointKeeps
  <2>3. QED
    BY <2>2 DEF CutMated, D
<1>4. F \in [D -> SUBSET D]
  <2> HIDE DEF D
  <2>1. QED
    BY <1>3
<1> HIDE DEF start
<1>5. PICK w : Walks(D, {start}, F, N, w)
  <2> HIDE DEF D, F, N
  <2>1. {start} \in SUBSET D
    BY <1>2
  <2>2. QED
    BY <1>1, <1>4, <2>1, WalkExists DEF CanWalk
<1>6. w = [k \in 0..N |-> IF k = 0 THEN {start} ELSE UNION {SinglepointStep(p1, p2, crosspoint, s) : s \in w[k - 1]}]
  <2>1. ASSUME NEW k \in 0..N, k # 0
        PROVE  UNION {F[s] : s \in w[k - 1]} = UNION {SinglepointStep(p1, p2, crosspoint, s) : s \in w[k - 1]}
    <3>1. k - 1 \in 0..N
      BY <1>1, <2>1
    <3>2. w[k - 1] \in SUBSET D
      BY <1>5, <3>1 DEF Walks
    <3> HIDE DEF D
    <3>3. \A s \in w[k - 1] : F[s] = SinglepointStep(p1, p2, crosspoint, s)
      BY <3>2
    <3> HIDE DEF F
    <3>4. QED
      BY <3>3
  <2> HIDE DEF D, F, N
  <2>2. QED
    BY <1>5, <2>1 DEF Walks
<1>7. walk = [k \in 0..N |-> IF k = 0 THEN {start} ELSE UNION {SinglepointStep(p1, p2, crosspoint, s) : s \in walk[k - 1]}]
  <2> HIDE DEF N
  <2>1. QED
    BY <1>6
<1>8. Singlepoint(p1, p2, crosspoint) = {s.genes : s \in walk[N]}
  BY DEF Singlepoint, start
<1> HIDE DEF walk
<1> DEFINE S == {k \in 0..N : walk[k] \in SUBSET D}
<1>9. S = 0..N
  <2>1. 0 \in S
    <3>1. walk[0] = {start}
      BY <1>1, <1>7
    <3> HIDE DEF D
    <3>2. QED
      BY <1>1, <1>2, <3>1
  <2>2. ASSUME NEW k \in 1..N, k - 1 \in S
        PROVE  k \in S
    <3>1. k \in 0..N /\ k # 0 /\ k - 1 \in 0..N
      BY <1>1
    <3>2. walk[k] = UNION {SinglepointStep(p1, p2, crosspoint, s) : s \in walk[k - 1]}
      BY <1>7, <3>1
    <3>3. walk[k - 1] \in SUBSET D
      BY <2>2
    <3> HIDE DEF D
    <3>4. walk[k] \in SUBSET D
      BY <1>3, <3>2, <3>3
    <3>5. QED
      BY <3>1, <3>4
  <2> HIDE DEF D, N
  <2>3. S \in SUBSET (0..N)
    OBVIOUS
  <2> HIDE DEF S
  <2>4. QED
    BY <1>1, <2>1, <2>2, <2>3, PassedOn
<1>10. PICK s \in walk[N] : genes = s.genes
  <2> HIDE DEF N
  <2>1. QED
    BY <1>8
<1>11. CutMated(p1, p2, crosspoint, s)
  <2>1. N \in S
    <3> HIDE DEF S, N
    <3>1. QED
      BY <1>1, <1>9
  <2>2. QED
    BY <2>1
<1>12. QED
  BY <1>10, <1>11 DEF CutMated, Baby, CutState, CutOrdered

-----------------------------------------------------------------------------
(* The book grows by an innovation, and by nothing else. *)
LEMMA BookGrows ==
  ASSUME NEW G, NEW g
  PROVE  Book(G \cup {g}) = Book(G) \cup Marks(g.genes)
BY DEF Book

LinkMark(in, out, recur, num) == [num |-> num, in |-> in, out |-> out, recur |-> recur]

(* A link whose innovation is known is in the book already, unless it got  *)
(* the number of a link of the other kind.                                 *)
LEMMA KnownLink ==
  ASSUME NEW M, NEW I, NEW first, NEW next, NEW nodes, BookOK(M, I, first, next, nodes),
         NEW v \in I, v \in Innovation, NEW in, NEW out, NEW recur, SameLink(v, in, out, recur),
         in \in Sensors \/ \A m \in M : m.num = v.num => m.recur = recur
  PROVE  LinkMark(in, out, recur, v.num) \in M
<1>1. PICK m \in M : m.num = v.num /\ m.in = v.in /\ m.out = v.out
  BY DEF BookOK, Added, AddedLink, SameLink
<1>2. v.in = in /\ v.out = out /\ v.recur = recur /\ recur = FALSE
  BY DEF SameLink, Innovation
<1>3. m \in MarkType /\ Entry(m, next, nodes)
  BY <1>1 DEF BookOK
<1>4. m.recur = FALSE
  BY <1>1, <1>2, <1>3 DEF Entry, MarkType
<1>5. m = LinkMark(in, out, recur, v.num)
  BY <1>1, <1>2, <1>3, <1>4 DEF MarkType, LinkMark
<1>6. QED
  BY <1>1, <1>5

(* A link that is new gets the next number. *)
LEMMA NovelLink ==
  ASSUME NEW M, NEW I, NEW first \in Nat, NEW next \in Nat, first <= next, NEW nodes \in Nat,
         BookOK(M, I, first, next, nodes), \A v \in I : v \in Innovation,
         NEW in \in Nat, NEW out \in Nat, NEW recur \in BOOLEAN, in < nodes, out < nodes,
         out \notin Sensors, in \in Sensors => ~recur
  PROVE  BookOK(M \cup {LinkMark(in, out, recur, next)}, I \cup {NewLink(in, out, next)}, first, next + 1, nodes)
<1> DEFINE m == LinkMark(in, out, recur, next)
           v == NewLink(in, out, next)
           MM == M \cup {m}
           II == I \cup {v}
<1>1. /\ m \in MarkType /\ m.num = next /\ m.in = in /\ m.out = out /\ m.recur = recur
      /\ v.type = "NEWLINK" /\ v.num = next /\ v.in = in /\ v.out = out
  BY DEF LinkMark, MarkType, NewLink
<1> HIDE DEF m, v
<1>2. /\ M \subseteq MarkType /\ \A n \in M : Entry(n, next, nodes) /\ n.num \in Nat
      /\ \A n, k \in M : n.num = k.num => n = k
      /\ \A n \in M : n.num >= first => \E w \in I : Names(w, n)
      /\ \A w \in I : Added(w, M, first, next, nodes)
  BY DEF BookOK, MarkType
<1>3. MM \subseteq MarkType
  BY <1>1, <1>2
<1>4. \A n \in MM : Entry(n, next + 1, nodes)
  <2>1. Entry(m, next + 1, nodes)
    BY <1>1 DEF Entry
  <2>2. \A n \in M : Entry(n, next + 1, nodes)
    BY <1>2 DEF Entry
  <2>3. QED
    BY <2>1, <2>2
<1>5. \A n, k \in MM : n.num = k.num => n = k
  <2>1. \A n \in M : n.num # m.num
    BY <1>1, <1>2 DEF Entry
  <2>2. QED
    BY <1>2, <2>1
<1>6. \A n \in MM : n.num >= first => \E w \in II : Names(w, n)
  <2>1. Names(v, m)
    BY <1>1 DEF Names
  <2>2. QED
    BY <1>2, <2>1
<1>7. ASSUME NEW w \in II
      PROVE  Added(w, MM, first, next + 1, nodes)
  <2>1. CASE w = v
    <3>1. AddedLink(v, MM)
      BY <1>1 DEF AddedLink
    <3>2. QED
      BY <1>1, <2>1, <3>1 DEF Added
  <2>2. CASE w \in I
    <3>1. Added(w, M, first, next, nodes) /\ w.num \in Nat
      BY <1>2, <2>2 DEF Innovation
    <3>2. w.num >= first /\ w.num < next
      BY <3>1 DEF Added
    <3>3. w.type = "NEWLINK" => AddedLink(w, MM)
      BY <3>1 DEF Added, AddedLink
    <3>4. ASSUME w.type = "NEWNODE"
          PROVE  AddedNode(w, MM, nodes)
      <4>1. AddedNode(w, M, nodes)
        BY <3>1, <3>4 DEF Added
      <4>2. \A n \in MM : n.in = w.node \/ n.out = w.node => n.num >= w.num
        BY <1>1, <3>1, <3>2, <4>1 DEF AddedNode
      <4>3. QED
        BY <4>1, <4>2 DEF AddedNode
    <3>5. QED
      BY <3>1, <3>2, <3>3, <3>4 DEF Added
  <2>3. QED
    BY <2>1, <2>2
<1>8. BookOK(MM, II, first, next + 1, nodes)
  BY <1>3, <1>4, <1>5, <1>6, <1>7 DEF BookOK
<1>9. QED
  BY <1>8 DEF m, v

(* The marks of the two genes that split a gene. *)
SplitMarks(gene, v) ==
  {LinkMark(gene.in, v.node, gene.recur, v.num), LinkMark(v.node, gene.out, FALSE, v.num + 1)}

LEMMA KnownSplit ==
  ASSUME NEW M, NEW I, NEW first, NEW next, NEW nodes, BookOK(M, I, first, next, nodes),
         NEW v \in I, NEW gene \in GeneType, Mark(gene) \in M, SameSplit(v, gene)
  PROVE  SplitMarks(gene, v) \subseteq M
<1>1. PICK x \in M, y \in M, z \in M :
        /\ x.num = v.num /\ x.in = v.in /\ x.out = v.node /\ x.recur = z.recur
        /\ y.num = v.num + 1 /\ y.in = v.node /\ y.out = v.out /\ ~y.recur
        /\ z.num = v.old /\ z.in = v.in /\ z.out = v.out
  BY DEF BookOK, Added, AddedNode, SameSplit
<1>2. v.in = gene.in /\ v.out = gene.out /\ v.old = gene.num
  BY DEF SameSplit
<1>3. x \in MarkType /\ y \in MarkType /\ z \in MarkType
  BY DEF BookOK
<1>4. z = Mark(gene)
  BY <1>1, <1>2 DEF BookOK, Mark
<1>5. x.recur = gene.recur /\ y.recur = FALSE
  BY <1>1, <1>3, <1>4 DEF Mark, MarkType
<1>6. x = LinkMark(gene.in, v.node, gene.recur, v.num)
  BY <1>1, <1>2, <1>3, <1>5 DEF MarkType, LinkMark
<1>7. y = LinkMark(v.node, gene.out, FALSE, v.num + 1)
  BY <1>1, <1>2, <1>3, <1>5 DEF MarkType, LinkMark
<1>8. QED
  BY <1>6, <1>7 DEF SplitMarks

LEMMA NovelSplit ==
  ASSUME NEW M, NEW I, NEW first \in Nat, NEW next \in Nat, first <= next, NEW nodes \in Nat,
         \A n \in Sensors \cup Outputs : n < nodes,
         BookOK(M, I, first, next, nodes), \A w \in I : w \in Innovation /\ LastNumber(w) < next,
         NEW gene \in GeneType, Mark(gene) \in M,
         NEW v \in Innovation, SameSplit(v, gene), v.num = next, v.node = nodes
  PROVE  BookOK(M \cup SplitMarks(gene, v), I \cup {v}, first, next + 2, nodes + 1)
<1> DEFINE x == LinkMark(gene.in, v.node, gene.recur, v.num)
           y == LinkMark(v.node, gene.out, FALSE, v.num + 1)
           z == Mark(gene)
           MM == M \cup {x, y}
           II == I \cup {v}
<1>0. v.type = "NEWNODE" /\ v.in = gene.in /\ v.out = gene.out /\ v.old = gene.num
  BY DEF SameSplit
<1>1. /\ x \in MarkType /\ x.num = next /\ x.in = gene.in /\ x.out = nodes /\ x.recur = gene.recur
      /\ y \in MarkType /\ y.num = next + 1 /\ y.in = nodes /\ y.out = gene.out /\ y.recur = FALSE
      /\ z \in M /\ z.num = gene.num /\ z.in = gene.in /\ z.out = gene.out /\ z.recur = gene.recur
  BY DEF LinkMark, MarkType, GeneType, Mark
<1> HIDE DEF x, y, z
<1>2. /\ M \subseteq MarkType
      /\ \A n \in M : Entry(n, next, nodes) /\ n.num \in Nat /\ n.in \in Nat /\ n.out \in Nat
      /\ \A n, k \in M : n.num = k.num => n = k
      /\ \A n \in M : n.num >= first => \E w \in I : Names(w, n)
      /\ \A w \in I : Added(w, M, first, next, nodes)
  BY DEF BookOK, MarkType
<1>3. Entry(z, next, nodes) /\ z.in \in Nat /\ z.out \in Nat /\ z.in < nodes /\ z.out < nodes
  BY <1>1, <1>2 DEF Entry
<1>4. nodes \notin Sensors /\ nodes \notin Outputs
  OBVIOUS
<1>5. MM \subseteq MarkType
  BY <1>1, <1>2
<1>6. \A n \in MM : Entry(n, next + 2, nodes + 1)
  <2>1. Entry(x, next + 2, nodes + 1)
    BY <1>1, <1>3, <1>4 DEF Entry
  <2>2. Entry(y, next + 2, nodes + 1)
    BY <1>1, <1>3, <1>4 DEF Entry
  <2>3. \A n \in M : Entry(n, next + 2, nodes + 1)
    BY <1>2 DEF Entry
  <2>4. QED
    BY <2>1, <2>2, <2>3
<1>7. \A n, k \in MM : n.num = k.num => n = k
  <2>1. \A n \in M : n.num # x.num /\ n.num # y.num
    BY <1>1, <1>2 DEF Entry
  <2>2. x.num # y.num
    BY <1>1
  <2>3. QED
    BY <1>2, <2>1, <2>2
<1>8. \A n \in MM : n.num >= first => \E w \in II : Names(w, n)
  <2>1. Names(v, x) /\ Names(v, y)
    BY <1>0, <1>1 DEF Names
  <2>2. QED
    BY <1>2, <2>1
<1>9. ASSUME NEW w \in II
      PROVE  Added(w, MM, first, next + 2, nodes + 1)
  <2>1. CASE w = v
    <3>1. v.node \notin Sensors \cup Outputs /\ v.node < nodes + 1 /\ v.in # v.node /\ v.out # v.node
      BY <1>0, <1>1, <1>3, <1>4
    <3>2. /\ x.num = v.num /\ x.in = v.in /\ x.out = v.node /\ x.recur = z.recur
          /\ y.num = v.num + 1 /\ y.in = v.node /\ y.out = v.out /\ ~y.recur
          /\ z.num = v.old /\ z.in = v.in /\ z.out = v.out
      BY <1>0, <1>1
    <3>3. \A n \in MM : n.in = v.node \/ n.out = v.node => n.num >= v.num
      <4>1. \A n \in M : n.in # nodes /\ n.out # nodes
        BY <1>2 DEF Entry
      <4>2. QED
        BY <1>1, <4>1
    <3>4. AddedNode(v, MM, nodes + 1)
      BY <1>1, <3>1, <3>2, <3>3 DEF AddedNode
    <3>5. QED
      BY <1>0, <2>1, <3>4 DEF Added
  <2>2. CASE w \in I
    <3>1. Added(w, M, first, next, nodes) /\ w.num \in Nat
      BY <1>2, <2>2 DEF Innovation
    <3>2. w.num >= first /\ w.num < next
      BY <3>1 DEF Added
    <3>3. w.type = "NEWLINK" => AddedLink(w, MM)
      BY <3>1 DEF Added, AddedLink
    <3>4. ASSUME w.type = "NEWNODE"
          PROVE  AddedNode(w, MM, nodes + 1)
      <4>0. w.node \in Nat
        BY <2>2 DEF Innovation
      <4>1. AddedNode(w, M, nodes)
        BY <3>1, <3>4 DEF Added
      <4>2. \A n \in MM : (n.in = w.node \/ n.out = w.node) => n.num >= w.num
        <5>1. x.num >= w.num /\ y.num >= w.num
          BY <1>1, <3>1, <3>2
        <5>2. \A n \in M : (n.in = w.node \/ n.out = w.node) => n.num >= w.num
          BY <4>1 DEF AddedNode
        <5>3. QED
          BY <5>1, <5>2
      <4>3. w.node < nodes
        BY <4>1 DEF AddedNode
      <4>31. w.node < nodes + 1
        BY <4>0, <4>3
      <4>4. QED
        BY <4>1, <4>2, <4>31 DEF AddedNode
    <3>5. QED
      BY <3>1, <3>2, <3>3, <3>4 DEF Added
  <2>3. QED
    BY <2>1, <2>2
<1>10. BookOK(MM, II, first, next + 2, nodes + 1)
  BY <1>5, <1>6, <1>7, <1>8, <1>9 DEF BookOK
<1>11. QED
  BY <1>10 DEF x, y, SplitMarks

-----------------------------------------------------------------------------
(* Babies: the gene or genes that a mutation gives one genome. *)
LEMMA InBook ==
  ASSUME NEW G, NEW g \in G, NEW x \in ToSet(g.genes)
  PROVE  Mark(x) \in Book(G) /\ Mark(x) \in Marks(g.genes) /\ Marks(g.genes) \subseteq Book(G)
BY DEF Book, Marks

LinkBaby(g, in, out, recur, num) == [g EXCEPT !.genes = add_gene(@, Gene(in, out, recur, num))]
Linked(g, in, out, recur, num, b) ==
  /\ b \in Genome /\ b.nodes = g.nodes
  /\ ToSet(b.genes) = ToSet(g.genes) \cup {Gene(in, out, recur, num)}
  /\ Marks(b.genes) = Marks(g.genes) \cup {LinkMark(in, out, recur, num)}
NewIn(g, in, out, recur, num) ==
  \A x \in ToSet(g.genes) : x.num # num /\ Link(x) # <<in, out, recur>>

LEMMA MarksGrow ==
  ASSUME NEW s, NEW t, NEW x, ToSet(t) = ToSet(s) \cup {x}
  PROVE  Marks(t) = Marks(s) \cup {Mark(x)}
BY DEF Marks

(* A genome that gets one more gene, to the nodes it has. *)
LEMMA LinkAdded ==
  ASSUME NEW g \in Genome, NEW in \in ToSet(g.nodes), NEW out \in ToSet(g.nodes), NEW recur \in BOOLEAN,
         NEW num \in Nat
  PROVE  /\ Linked(g, in, out, recur, num, LinkBaby(g, in, out, recur, num))
         /\ \A nodes : Shape(g, nodes) /\ NewIn(g, in, out, recur, num) =>
              Shape(LinkBaby(g, in, out, recur, num), nodes)
<1> DEFINE x == Gene(in, out, recur, num)
           b == LinkBaby(g, in, out, recur, num)
<1>1. g.nodes \in Seq(Nat) /\ g.genes \in Seq(GeneType)
  BY DEF Genome
<1>2. in \in Nat /\ out \in Nat
  BY <1>1 DEF ToSet
<1>3. /\ x \in GeneType /\ x.in = in /\ x.out = out /\ x.recur = recur /\ x.num = num
      /\ Link(x) = <<in, out, recur>> /\ Mark(x) = LinkMark(in, out, recur, num)
  BY <1>2 DEF Gene, GeneType, Link, Mark, LinkMark
<1>4. b.nodes = g.nodes /\ b.genes = add_gene(g.genes, x) /\ b = [nodes |-> g.nodes, genes |-> add_gene(g.genes, x)]
  BY DEF Genome, LinkBaby
<1> HIDE DEF x, b
<1>5. /\ b.genes \in Seq(GeneType) /\ ToSet(b.genes) = ToSet(g.genes) \cup {x}
      /\ Sorted(g.genes) /\ (\A y \in ToSet(g.genes) : y.num # x.num) => Sorted(b.genes)
  BY <1>1, <1>3, <1>4, GeneAdded
<1>6. b \in Genome
  BY <1>1, <1>4, <1>5 DEF Genome
<1>7. Marks(b.genes) = Marks(g.genes) \cup {Mark(x)}
  BY <1>5, MarksGrow
<1>8. ASSUME NEW nodes, Shape(g, nodes), NewIn(g, in, out, recur, num)
      PROVE  Shape(b, nodes)
  <2>1. Sorted(b.genes)
    BY <1>3, <1>5, <1>8 DEF Shape, NewIn
  <2>2. Different(b.genes)
    BY <1>3, <1>5, <1>8 DEF Shape, NewIn, Different
  <2>3. NodesOf(b.genes) \subseteq ToSet(b.nodes)
    BY <1>3, <1>4, <1>5, <1>8 DEF Shape, NodesOf
  <2>4. QED
    BY <1>4, <1>8, <2>1, <2>2, <2>3 DEF Shape
<1>9. Linked(g, in, out, recur, num, b)
  BY <1>3, <1>4, <1>5, <1>6, <1>7 DEF Linked, x
<1>10. QED
  BY <1>8, <1>9 DEF b

(* A genome of which one gene is enabled or disabled. *)
FlagBaby(g, i, e) == [g EXCEPT !.genes = [g.genes EXCEPT ![i].enable = e]]
LEMMA FlagBabyIs ==
  ASSUME NEW g \in Genome, NEW i \in DOMAIN g.genes, NEW e \in BOOLEAN
  PROVE  /\ FlagBaby(g, i, e) \in Genome /\ FlagBaby(g, i, e).nodes = g.nodes
         /\ Flagged(g.genes, i, e, FlagBaby(g, i, e).genes)
         /\ \A nodes : Shape(g, nodes) => Shape(FlagBaby(g, i, e), nodes)
<1> DEFINE b == FlagBaby(g, i, e)
<1>1. g.nodes \in Seq(Nat) /\ g.genes \in Seq(GeneType)
  BY DEF Genome
<1>2. Flagged(g.genes, i, e, [g.genes EXCEPT ![i].enable = e])
  BY <1>1, FlagSet
<1>3. PICK t : t = [g.genes EXCEPT ![i].enable = e]
  OBVIOUS
<1>4. b.nodes = g.nodes /\ b.genes = t /\ b = [nodes |-> g.nodes, genes |-> t]
  <2>1. b = [g EXCEPT !.genes = t]
    BY <1>3, Zenon DEF FlagBaby
  <2> HIDE DEF b
  <2>2. QED
    BY <2>1 DEF Genome
<1> HIDE DEF b
<1>5. Flagged(g.genes, i, e, t)
  BY <1>2, <1>3
<1>6. b \in Genome
  BY <1>1, <1>4, <1>5 DEF Flagged, Genome
<1>7. ASSUME NEW nodes, Shape(g, nodes)
      PROVE  Shape(b, nodes)
  <2>1. /\ DOMAIN t = DOMAIN g.genes
        /\ \A k \in DOMAIN g.genes : t[k].num = g.genes[k].num /\ t[k].in = g.genes[k].in
                                     /\ t[k].out = g.genes[k].out /\ Link(t[k]) = Link(g.genes[k])
    <3>1. ASSUME NEW k \in DOMAIN g.genes
          PROVE  t[k].in = g.genes[k].in /\ t[k].out = g.genes[k].out /\ t[k].recur = g.genes[k].recur
      <4>1. Mark(t[k]) = Mark(g.genes[k])
        BY <1>5 DEF Flagged
      <4>2. QED
        BY <4>1 DEF Mark
    <3>2. QED
      BY <1>5, <3>1 DEF Flagged, Link
  <2>2. Sorted(t)
    BY <1>7, <2>1 DEF Shape, Sorted
  <2>3. Different(t)
    <3>1. \A x \in ToSet(t) : \E y \in ToSet(g.genes) : x.num = y.num /\ Link(x) = Link(y)
      BY <2>1 DEF ToSet
    <3>2. QED
      BY <1>7, <3>1 DEF Shape, Different
  <2>4. NodesOf(t) \subseteq ToSet(g.nodes)
    <3>1. \A x \in ToSet(t) : \E y \in ToSet(g.genes) : x.in = y.in /\ x.out = y.out
      BY <2>1 DEF ToSet
    <3>2. NodesOf(t) \subseteq NodesOf(g.genes)
      BY <3>1 DEF NodesOf
    <3>3. QED
      BY <1>7, <3>2 DEF Shape
  <2>5. QED
    BY <1>4, <1>7, <2>2, <2>3, <2>4 DEF Shape
<1>8. QED
  BY <1>4, <1>5, <1>6, <1>7 DEF b

(* A genome of which one gene is split by a node. *)
SplitOf(g, i, v, b) ==
  /\ b \in Genome /\ ToSet(b.nodes) = ToSet(g.nodes) \cup {v.node}
  /\ \E rest : /\ Flagged(g.genes, i, FALSE, rest)
               /\ ToSet(b.genes) = ToSet(rest) \cup {Gene(g.genes[i].in, v.node, g.genes[i].recur, v.num),
                                                      Gene(v.node, g.genes[i].out, FALSE, v.num + 1)}
  /\ Marks(b.genes) = Marks(g.genes) \cup SplitMarks(g.genes[i], v)
NodeNew(g, v) ==
  v.node \notin ToSet(g.nodes) /\ \A x \in ToSet(g.genes) : x.num # v.num /\ x.num # v.num + 1

LEMMA SplitIs ==
  ASSUME NEW g \in Genome, NEW i \in DOMAIN g.genes, NEW v \in Innovation
  PROVE  /\ SplitOf(g, i, v, Split(g, i, v))
         /\ \A nodes \in Nat, top \in Nat :
              Shape(g, nodes) /\ NodeNew(g, v) /\ nodes <= top /\ v.node < top => Shape(Split(g, i, v), top)
<1> DEFINE gene == g.genes[i]
           x == Gene(gene.in, v.node, gene.recur, v.num)
           y == Gene(v.node, gene.out, FALSE, v.num + 1)
           b == Split(g, i, v)
           f == FlagBaby(g, i, FALSE)
<1>1. g.nodes \in Seq(Nat) /\ g.genes \in Seq(GeneType) /\ gene \in GeneType /\ v.node \in Nat /\ v.num \in Nat
  BY DEF Genome, Innovation
<1>2. /\ x \in GeneType /\ x.in = gene.in /\ x.out = v.node /\ x.recur = gene.recur /\ x.num = v.num
      /\ y \in GeneType /\ y.in = v.node /\ y.out = gene.out /\ y.recur = FALSE /\ y.num = v.num + 1
      /\ Mark(x) = LinkMark(gene.in, v.node, gene.recur, v.num)
      /\ Mark(y) = LinkMark(v.node, gene.out, FALSE, v.num + 1)
  <2> HIDE DEF gene
  <2>0. gene \in GeneType /\ v.num \in Nat
    BY <1>1
  <2>1. gene.in \in Nat /\ gene.out \in Nat /\ gene.recur \in BOOLEAN /\ v.num + 1 \in Nat
    BY <2>0 DEF GeneType
  <2>2. /\ x.in = gene.in /\ x.out = v.node /\ x.recur = gene.recur /\ x.num = v.num
        /\ y.in = v.node /\ y.out = gene.out /\ y.recur = FALSE /\ y.num = v.num + 1
    BY DEF Gene
  <2>3. x \in GeneType
    BY <1>1, <2>1 DEF Gene, GeneType
  <2>4. y \in GeneType
    BY <1>1, <2>1 DEF Gene, GeneType
  <2> HIDE DEF x, y
  <2>5. QED
    BY <2>2, <2>3, <2>4 DEF Mark, LinkMark
<1>3. PICK rest : rest = [g.genes EXCEPT ![i].enable = FALSE]
  OBVIOUS
<1>4. Flagged(g.genes, i, FALSE, rest) /\ rest \in Seq(GeneType) /\ Marks(rest) = Marks(g.genes)
  <2>1. Flagged(g.genes, i, FALSE, [g.genes EXCEPT ![i].enable = FALSE])
    BY <1>1, FlagSet
  <2>2. Flagged(g.genes, i, FALSE, rest)
    BY <1>3, <2>1
  <2>3. QED
    BY <2>2 DEF Flagged
<1>5. f.nodes = g.nodes /\ f.genes = rest /\ \A nodes : Shape(g, nodes) => Shape(f, nodes)
  <2>1. f = [g EXCEPT !.genes = rest]
    BY <1>3, Zenon DEF FlagBaby
  <2>2. \A nodes : Shape(g, nodes) => Shape(f, nodes)
    BY FlagBabyIs
  <2> HIDE DEF f
  <2>3. QED
    BY <2>1, <2>2 DEF Genome
<1>6. b = [nodes |-> node_insert(g.nodes, v.node), genes |-> add_gene(add_gene(rest, x), y)]
  BY <1>3, Zenon DEF Split
<1> DEFINE s == add_gene(rest, x)
           t == add_gene(s, y)
           n == node_insert(g.nodes, v.node)
<1>7. b.nodes = n /\ b.genes = t
  <2> HIDE DEF b, s, x, y
  <2>1. QED
    BY <1>6 DEF s
<1> HIDE DEF x, y, b, f, gene
<1>8. /\ n \in Seq(Nat) /\ ToSet(n) = ToSet(g.nodes) \cup {v.node}
      /\ Ascending(g.nodes) /\ v.node \notin ToSet(g.nodes) => Ascending(n)
  BY <1>1, NodeInserted
<1>9. /\ s \in Seq(GeneType) /\ ToSet(s) = ToSet(rest) \cup {x}
      /\ Sorted(rest) /\ (\A z \in ToSet(rest) : z.num # x.num) => Sorted(s)
  BY <1>2, <1>4, GeneAdded
<1> HIDE DEF s, n
<1>10. /\ t \in Seq(GeneType) /\ ToSet(t) = ToSet(s) \cup {y}
       /\ Sorted(s) /\ (\A z \in ToSet(s) : z.num # y.num) => Sorted(t)
  BY <1>2, <1>9, GeneAdded
<1> HIDE DEF t
<1>11. b \in Genome
  BY <1>6, <1>8, <1>10 DEF Genome, n, t, s
<1>12. Marks(t) = Marks(g.genes) \cup SplitMarks(gene, v)
  <2>1. Marks(s) = Marks(rest) \cup {Mark(x)} /\ Marks(t) = Marks(s) \cup {Mark(y)}
    BY <1>9, <1>10, MarksGrow, ZenonT(60)
  <2>2. QED
    BY <1>2, <1>4, <2>1 DEF SplitMarks
<1>13. SplitOf(g, i, v, b)
  <2>1. ToSet(t) = ToSet(rest) \cup {x, y}
    BY <1>9, <1>10
  <2>2. QED
    BY <1>4, <1>7, <1>8, <1>11, <1>12, <2>1 DEF SplitOf, x, y, gene
<1>14. ASSUME NEW nodes \in Nat, NEW top \in Nat, Shape(g, nodes), NodeNew(g, v), nodes <= top, v.node < top
       PROVE  Shape(b, top)
  <2>1. Shape(f, nodes)
    BY <1>5, <1>14
  <2>2. /\ Ascending(g.nodes) /\ Sorted(rest) /\ Different(rest) /\ NodesOf(rest) \subseteq ToSet(g.nodes)
        /\ \A k \in ToSet(g.nodes) : k < nodes
    BY <1>5, <2>1 DEF Shape
  <2>3. \A z \in ToSet(rest) : z.num # v.num /\ z.num # v.num + 1
    <3>1. ASSUME NEW z \in ToSet(rest)
          PROVE  \E w \in ToSet(g.genes) : w.num = z.num
      <4>1. Mark(z) \in Marks(g.genes)
        BY <1>4 DEF Marks
      <4>2. PICK w \in ToSet(g.genes) : Mark(z) = Mark(w)
        BY <4>1 DEF Marks
      <4>3. QED
        BY <4>2 DEF Mark
    <3>2. QED
      BY <1>14, <3>1 DEF NodeNew
  <2>4. x.num = v.num /\ y.num = v.num + 1 /\ x.num # y.num
    BY <1>1, <1>2
  <2>5. Sorted(s)
    BY <1>9, <2>2, <2>3, <2>4
  <2>6. Sorted(t)
    BY <1>9, <1>10, <2>3, <2>4, <2>5
  <2>7. Ascending(n)
    BY <1>8, <1>14, <2>2 DEF NodeNew
  <2>8. NodesOf(t) \subseteq ToSet(n)
    <3>1. gene.in \in ToSet(g.nodes) /\ gene.out \in ToSet(g.nodes)
      BY <1>1, <1>14 DEF Shape, NodesOf, ToSet, gene
    <3>2. \A z \in ToSet(rest) : z.in \in ToSet(g.nodes) /\ z.out \in ToSet(g.nodes)
      BY <2>2 DEF NodesOf
    <3>3. \A z \in ToSet(t) : z.in \in ToSet(n) /\ z.out \in ToSet(n)
      BY <1>2, <1>8, <1>9, <1>10, <3>1, <3>2
    <3>4. QED
      BY <3>3 DEF NodesOf
  <2>9. Different(t)
    <3>1. \A z \in ToSet(rest) : z.in # v.node /\ z.out # v.node
      BY <1>14, <2>2 DEF NodesOf, NodeNew
    <3>2. v.node # gene.in /\ v.node # gene.out
      BY <1>1, <1>14 DEF Shape, NodesOf, NodeNew, ToSet, gene
    <3>3. \A z \in ToSet(rest) : Link(z) # Link(x) /\ Link(z) # Link(y)
      BY <1>2, <3>1 DEF Link
    <3>4. Link(x) # Link(y)
      BY <1>2, <3>2 DEF Link
    <3>5. ToSet(t) = ToSet(rest) \cup {x, y}
      BY <1>9, <1>10
    <3>6. QED
      BY <2>2, <3>3, <3>4, <3>5 DEF Different
  <2>10. \A k \in ToSet(n) : k < top
    <3>1. \A k \in ToSet(g.nodes) : k \in Nat
      BY <1>1 DEF ToSet
    <3>2. QED
      BY <1>8, <1>14, <2>2, <3>1
  <2>11. QED
    BY <1>7, <2>6, <2>7, <2>8, <2>9, <2>10 DEF Shape
<1>15. QED
  BY <1>13, <1>14 DEF b

-----------------------------------------------------------------------------
(* A link takes its number from a known innovation or is one itself. *)
Numbered(I, next) == \A v \in I : v \in Innovation /\ LastNumber(v) < next
KnownOrNovel(I, in, out, recur, next, v, II, next2) ==
  \/ v \in I /\ SameLink(v, in, out, recur) /\ II = I /\ next2 = next
  \/ (\A w \in I : ~SameLink(w, in, out, recur)) /\ v = NewLink(in, out, next) /\ II = I \cup {v} /\ next2 = next + 1

LEMMA LinkNumbered ==
  ASSUME NEW I, NEW in, NEW out, NEW recur, NEW next \in Nat, NEW known, NEW v,
         known = {w \in I : SameLink(w, in, out, recur)},
         v = IF known = {} THEN NewLink(in, out, next) ELSE CHOOSE w \in known : TRUE
  PROVE  KnownOrNovel(I, in, out, recur, next, v, I \cup {v}, next + (IF known = {} THEN 1 ELSE 0))
<1>1. CASE known = {}
  <2>1. v = NewLink(in, out, next) /\ \A w \in I : ~SameLink(w, in, out, recur)
    BY <1>1
  <2>2. next + (IF known = {} THEN 1 ELSE 0) = next + 1
    BY <1>1
  <2>3. QED
    BY <2>1, <2>2 DEF KnownOrNovel
<1>2. CASE known # {}
  <2>1. v \in known
    BY <1>2
  <2>2. v \in I /\ SameLink(v, in, out, recur) /\ I \cup {v} = I
    BY <2>1
  <2>3. next + (IF known = {} THEN 1 ELSE 0) = next
    BY <1>2
  <2>4. QED
    BY <2>2, <2>3 DEF KnownOrNovel
<1>3. QED
  BY <1>1, <1>2

(* What a genome that gets a link, the innovations and the next number are *)
(* after it.                                                               *)
LinkTyped(g, I, in, out, recur, next, v, II, next2, b) ==
  /\ v \in Innovation /\ v.num \in Nat /\ next2 \in Nat /\ next <= next2 /\ I \subseteq II /\ Numbered(II, next2)
  /\ Linked(g, in, out, recur, v.num, b) /\ Before(b.genes, next2)

LEMMA LinkStepTyped ==
  ASSUME NEW g \in Genome, NEW in \in ToSet(g.nodes), NEW out \in ToSet(g.nodes), NEW recur \in BOOLEAN,
         NEW I, NEW next \in Nat, Numbered(I, next), Before(g.genes, next),
         NEW v, NEW II, NEW next2, KnownOrNovel(I, in, out, recur, next, v, II, next2)
  PROVE  LinkTyped(g, I, in, out, recur, next, v, II, next2, LinkBaby(g, in, out, recur, v.num))
<1> DEFINE b == LinkBaby(g, in, out, recur, v.num)
<1>1. g.nodes \in Seq(Nat) /\ g.genes \in Seq(GeneType)
  BY DEF Genome
<1>2. in \in Nat /\ out \in Nat
  BY <1>1 DEF ToSet
<1>3. v \in Innovation /\ v.type = "NEWLINK" /\ next2 \in Nat /\ next <= next2 /\ v.num < next2
  <2>1. CASE v \in I /\ SameLink(v, in, out, recur) /\ II = I /\ next2 = next
    <3>1. v \in Innovation /\ LastNumber(v) < next /\ v.type = "NEWLINK"
      BY <2>1 DEF Numbered, SameLink
    <3>2. QED
      BY <2>1, <3>1 DEF LastNumber
  <2>2. CASE v = NewLink(in, out, next) /\ next2 = next + 1
    <3>1. v \in Innovation /\ v.num = next /\ v.type = "NEWLINK"
      BY <1>2, <2>2 DEF NewLink, Innovation
    <3>2. QED
      BY <2>2, <3>1
  <2>3. QED
    BY <2>1, <2>2 DEF KnownOrNovel
<1>4. v.num \in Nat /\ LastNumber(v) = v.num
  BY <1>3 DEF Innovation, LastNumber
<1>5. I \subseteq II /\ \A w \in II : w \in I \/ w = v
  BY DEF KnownOrNovel
<1>6. Numbered(II, next2)
  <2>1. ASSUME NEW w \in I
        PROVE  w \in Innovation /\ LastNumber(w) < next2
    <3>1. w \in Innovation /\ LastNumber(w) < next
      BY DEF Numbered
    <3>2. LastNumber(w) \in Nat
      BY <3>1 DEF LastNumber, Innovation
    <3>3. QED
      BY <1>3, <3>1, <3>2
  <2>2. QED
    BY <1>3, <1>4, <1>5, <2>1 DEF Numbered
<1>7. Linked(g, in, out, recur, v.num, b)
  BY <1>4, LinkAdded
<1> HIDE DEF b
<1>8. Before(b.genes, next2)
  <2>1. ToSet(b.genes) = ToSet(g.genes) \cup {Gene(in, out, recur, v.num)}
    BY <1>7 DEF Linked
  <2>2. Gene(in, out, recur, v.num).num = v.num
    BY DEF Gene
  <2>3. ASSUME NEW x \in ToSet(g.genes)
        PROVE  x.num < next2
    <3>1. x.num < next
      BY DEF Before
    <3>2. x \in GeneType
      BY <1>1 DEF ToSet
    <3>3. x.num \in Nat
      BY <3>2 DEF GeneType
    <3>4. QED
      BY <1>3, <3>1, <3>3
  <2>4. QED
    BY <1>3, <2>1, <2>2, <2>3 DEF Before
<1>9. QED
  BY <1>3, <1>4, <1>5, <1>6, <1>7, <1>8 DEF LinkTyped, b

LEMMA LinkStepMarks ==
  ASSUME NEW g \in Genome, NEW in \in ToSet(g.nodes), NEW out \in ToSet(g.nodes), NEW recur \in BOOLEAN,
         NEW I, NEW next \in Nat, Numbered(I, next), Before(g.genes, next),
         NEW v, NEW II, NEW next2, KnownOrNovel(I, in, out, recur, next, v, II, next2),
         NEW M, NEW first \in Nat, first <= next, NEW nodes \in Nat, BookOK(M, I, first, next, nodes),
         Marks(g.genes) \subseteq M, Shape(g, nodes),
         in \in Sensors \/ \A m \in M : m.num = v.num => m.recur = recur,
         out \notin Sensors, in \in Sensors => ~recur,
         \A x \in ToSet(g.genes) : Link(x) # <<in, out, recur>>
  PROVE  /\ BookOK(M \cup {LinkMark(in, out, recur, v.num)}, II, first, next2, nodes)
         /\ Shape(LinkBaby(g, in, out, recur, v.num), nodes)
<1>1. g.nodes \in Seq(Nat) /\ g.genes \in Seq(GeneType)
  BY DEF Genome
<1>2. in \in Nat /\ out \in Nat /\ in < nodes /\ out < nodes
  BY <1>1 DEF ToSet, Shape
<1>3. CASE v \in I /\ SameLink(v, in, out, recur) /\ II = I /\ next2 = next
  <2>1. v \in Innovation
    BY <1>3 DEF Numbered
  <2>2. LinkMark(in, out, recur, v.num) \in M
    BY <1>3, <2>1, KnownLink
  <2>3. M \cup {LinkMark(in, out, recur, v.num)} = M
    BY <2>2
  <2>4. ASSUME NEW x \in ToSet(g.genes)
        PROVE  x.num # v.num
    <3>1. Mark(x) \in M
      BY DEF Marks
    <3>2. x.num = v.num => Mark(x) = LinkMark(in, out, recur, v.num)
      BY <2>2, <3>1 DEF BookOK, Mark, LinkMark
    <3>3. QED
      BY <3>2 DEF Mark, LinkMark, Link
  <2>5. NewIn(g, in, out, recur, v.num)
    BY <2>4 DEF NewIn
  <2>6. v.num \in Nat
    BY <2>1 DEF Innovation
  <2>7. Shape(LinkBaby(g, in, out, recur, v.num), nodes)
    BY <2>5, <2>6, LinkAdded
  <2>8. QED
    BY <1>3, <2>3, <2>7
<1>4. CASE v = NewLink(in, out, next) /\ II = I \cup {v} /\ next2 = next + 1
  <2>1. v.num = next
    BY <1>4 DEF NewLink
  <2>2. \A w \in I : w \in Innovation
    BY DEF Numbered
  <2>3. BookOK(M \cup {LinkMark(in, out, recur, next)}, I \cup {NewLink(in, out, next)}, first, next + 1, nodes)
    BY <1>2, <2>2, NovelLink
  <2>4. ASSUME NEW x \in ToSet(g.genes)
        PROVE  x.num # v.num
    <3>1. x \in GeneType /\ x.num < next
      BY <1>1 DEF ToSet, Before
    <3>2. QED
      BY <2>1, <3>1 DEF GeneType
  <2>5. NewIn(g, in, out, recur, v.num)
    BY <2>4 DEF NewIn
  <2>6. Shape(LinkBaby(g, in, out, recur, v.num), nodes)
    BY <2>1, <2>5, LinkAdded
  <2>7. QED
    BY <1>4, <2>1, <2>3, <2>6
<1>5. QED
  BY <1>3, <1>4 DEF KnownOrNovel

-----------------------------------------------------------------------------
(* Linking a sensor to the outputs, one after the other. *)
SensorState == [genes : Seq(GeneType), innovations : SUBSET Innovation, num : Nat]
Connected(base, sensor, outputs) ==
  FoldLeft(LAMBDA t, output : ConnectSensor(t, sensor, output), base, outputs)

(* One link of a sensor: it is there, or it is added. *)
AlreadyThere(t, sensor, output) == \E x \in ToSet(t.genes) : x.in = sensor /\ x.out = output
Connects(t, sensor, output, u) ==
  \/ AlreadyThere(t, sensor, output) /\ u = t
  \/ /\ ~AlreadyThere(t, sensor, output)
     /\ \E v : /\ KnownOrNovel(t.innovations, sensor, output, FALSE, t.num, v, u.innovations, u.num)
               /\ u.genes = add_gene(t.genes, Gene(sensor, output, FALSE, v.num))

LEMMA ConnectSensorIs ==
  ASSUME NEW t \in SensorState, NEW sensor \in Nat, NEW output \in Nat
  PROVE  /\ Connects(t, sensor, output, ConnectSensor(t, sensor, output))
         /\ ConnectSensor(t, sensor, output) \in SensorState
<1> DEFINE u == ConnectSensor(t, sensor, output)
           there == \E k \in DOMAIN t.genes : t.genes[k].in = sensor /\ t.genes[k].out = output
<1>1. t.genes \in Seq(GeneType) /\ t.innovations \in SUBSET Innovation /\ t.num \in Nat
  BY DEF SensorState
<1>2. there <=> AlreadyThere(t, sensor, output)
  BY DEF AlreadyThere, ToSet
<1>3. CASE there
  <2>1. u = t
    BY <1>3 DEF ConnectSensor
  <2>2. QED
    BY <1>2, <1>3, <2>1 DEF Connects
<1>4. CASE ~there
  <2>1. PICK known : known = {w \in t.innovations : SameLink(w, sensor, output, FALSE)}
    OBVIOUS
  <2>2. PICK v : v = IF known = {} THEN NewLink(sensor, output, t.num) ELSE CHOOSE w \in known : TRUE
    OBVIOUS
  <2> DEFINE num == t.num + (IF known = {} THEN 1 ELSE 0)
             genes == add_gene(t.genes, Gene(sensor, output, FALSE, v.num))
  <2>3. u = [genes |-> genes, innovations |-> t.innovations \cup {v}, num |-> num]
    BY <1>4, <2>1, <2>2 DEF ConnectSensor
  <2>4. KnownOrNovel(t.innovations, sensor, output, FALSE, t.num, v, t.innovations \cup {v}, num)
    BY <1>1, <2>1, <2>2, LinkNumbered
  <2>5. v \in Innovation
    <3>1. CASE known = {}
      BY <1>1, <2>2, <3>1 DEF NewLink, Innovation
    <3>2. CASE known # {}
      <4>1. v \in known
        BY <2>2, <3>2
      <4>2. QED
        BY <1>1, <2>1, <4>1
    <3>3. QED
      BY <3>1, <3>2
  <2>6. genes \in Seq(GeneType)
    <3>1. Gene(sensor, output, FALSE, v.num) \in GeneType
      BY <2>5 DEF Gene, GeneType, Innovation
    <3>2. QED
      BY <1>1, <3>1, GeneAdded
  <2>7. num \in Nat
    BY <1>1
  <2> HIDE DEF num, genes, u, there
  <2>8. u.genes = genes /\ u.innovations = t.innovations \cup {v} /\ u.num = num
    BY <2>3
  <2>9. u \in SensorState
    BY <1>1, <2>3, <2>5, <2>6, <2>7 DEF SensorState
  <2>10. Connects(t, sensor, output, u)
    BY <1>2, <1>4, <2>4, <2>8 DEF Connects, genes
  <2>11. QED
    BY <2>9, <2>10 DEF u
<1>5. QED
  BY <1>3, <1>4

LEMMA ConnectedKeeps ==
  ASSUME NEW sensor \in Nat, NEW outputs \in Seq(Nat), NEW Q \in SUBSET SensorState, NEW base \in Q,
         \A t \in Q : \A output \in ToSet(outputs) : ConnectSensor(t, sensor, output) \in Q
  PROVE  Connected(base, sensor, outputs) \in Q
<1> DEFINE S == DOMAIN outputs
           op == [i \in S |-> [t \in SensorState |-> ConnectSensor(t, sensor, outputs[i])]]
           pick == [s \in SUBSET S |-> Max(s)]
           iter == CHOOSE f : f = [s \in SUBSET S |-> IF s = {} THEN base
                                     ELSE ConnectSensor(f[s \ {Max(s)}], sensor, outputs[Max(s)])]
<1>1. S = 1..Len(outputs) /\ Len(outputs) \in Nat /\ IsFiniteSet(S) /\ S \in SUBSET Nat
  <2>1. S = 1..Len(outputs) /\ Len(outputs) \in Nat
    OBVIOUS
  <2>2. QED
    BY <2>1, FS_Interval
<1>2. \A i \in S : outputs[i] \in Nat /\ outputs[i] \in ToSet(outputs)
  BY DEF ToSet
<1>3. op \in [S -> [SensorState -> SensorState]]
  <2>1. \A i \in S : \A t \in SensorState : ConnectSensor(t, sensor, outputs[i]) \in SensorState
    BY <1>2, ConnectSensorIs
  <2> HIDE DEF S
  <2>2. QED
    BY <2>1
<1>4. \A s \in SUBSET S : s # {} => Max(s) \in s
  <2>1. ASSUME NEW s \in SUBSET S, s # {}
        PROVE  Max(s) \in s
    <3>1. s \in SUBSET Nat /\ IsFiniteSet(s)
      BY <1>1, FS_Subset
    <3>2. \E n \in s : \A m \in s : m <= n
      BY <2>1, <3>1, LargestInSet
    <3>3. \E n \in s : \A m \in s : n >= m
      BY <3>1, <3>2
    <3>4. QED
      BY <3>3 DEF Max
  <2>2. QED
    BY <2>1
<1>5. PICK f \in [SUBSET S -> SensorState] : Folds(S, base, op, pick, f)
  <2> HIDE DEF S, op
  <2>1. \A s \in SUBSET S : s # {} => pick[s] \in s
    BY <1>4
  <2> HIDE DEF pick
  <2>2. CanFold(S, SensorState, base, op, pick)
    BY <1>1, <1>3, <2>1, FoldExists
  <2>3. QED
    BY <2>2 DEF CanFold
<1>6. f = [s \in SUBSET S |-> IF s = {} THEN base
             ELSE ConnectSensor(f[s \ {Max(s)}], sensor, outputs[Max(s)])]
  <2> HIDE DEF S
  <2>1. ASSUME NEW s \in SUBSET S, s # {}
        PROVE  op[pick[s]][f[s \ {pick[s]}]] = ConnectSensor(f[s \ {Max(s)}], sensor, outputs[Max(s)])
    <3>1. pick[s] \in S /\ f[s \ {pick[s]}] \in SensorState /\ pick[s] = Max(s)
      BY <1>4, <2>1
    <3>2. QED
      BY <3>1
  <2> HIDE DEF op, pick
  <2>2. QED
    BY <1>5, <2>1 DEF Folds
<1>7. iter = [s \in SUBSET S |-> IF s = {} THEN base
                ELSE ConnectSensor(iter[s \ {Max(s)}], sensor, outputs[Max(s)])]
  <2> HIDE DEF S
  <2>1. QED
    BY <1>6
<1>8. Connected(base, sensor, outputs) = iter[S]
  BY DEF Connected, FoldLeft, MapThenFoldSet
<1> HIDE DEF iter, S, op, pick
<1> DEFINE P == {s \in SUBSET S : iter[s] \in Q}
<1>9. {} \in P
  BY <1>7
<1>10. ASSUME NEW s \in SUBSET S, s # {}
       PROVE  \E x \in s : s \ {x} \in P => s \in P
  <2>1. Max(s) \in s /\ Max(s) \in S /\ s \ {Max(s)} \in SUBSET S
    BY <1>4, <1>10
  <2>2. iter[s] = ConnectSensor(iter[s \ {Max(s)}], sensor, outputs[Max(s)])
    BY <1>7, <1>10
  <2>3. s \ {Max(s)} \in P => s \in P
    BY <1>2, <2>1, <2>2
  <2>4. QED
    BY <2>1, <2>3
<1>11. P = SUBSET S
  <2> HIDE DEF P
  <2>1. P \in SUBSET (SUBSET S)
    BY DEF P
  <2>2. Hereditary(S, P)
    BY <1>9, <1>10, <2>1 DEF Hereditary
  <2>3. QED
    BY <1>1, <2>2, SetPassedOn
<1>12. QED
  BY <1>8, <1>11

(* What holds after each output: the types, and what the genome and the    *)
(* book are, M being what is in the book before.                           *)
Grown(g, t) == [nodes |-> g.nodes, genes |-> t.genes]
SensorTyped(next, t) ==
  /\ t \in SensorState /\ next <= t.num /\ Numbered(t.innovations, t.num) /\ Before(t.genes, t.num)
SensorMarked(g, M, first, nodes, t) ==
  /\ BookOK(M \cup Marks(t.genes), t.innovations, first, t.num, nodes) /\ Shape(Grown(g, t), nodes)
SensorStep(g, t, sensor, output, v, u) ==
  /\ KnownOrNovel(t.innovations, sensor, output, FALSE, t.num, v, u.innovations, u.num)
  /\ Grown(g, u) = LinkBaby(Grown(g, t), sensor, output, FALSE, v.num)
  /\ ~AlreadyThere(t, sensor, output)

LEMMA SensorStepIs ==
  ASSUME NEW g \in Genome, NEW t \in SensorState, NEW sensor \in Nat, NEW output \in Nat
  PROVE  LET u == ConnectSensor(t, sensor, output)
         IN  u = t \/ \E v : SensorStep(g, t, sensor, output, v, u)
<1> DEFINE u == ConnectSensor(t, sensor, output)
<1>1. Connects(t, sensor, output, u)
  BY ConnectSensorIs
<1> HIDE DEF u
<1>2. CASE u # t
  <2>1. ~AlreadyThere(t, sensor, output)
    BY <1>1, <1>2 DEF Connects
  <2>2. PICK v : /\ KnownOrNovel(t.innovations, sensor, output, FALSE, t.num, v, u.innovations, u.num)
                 /\ u.genes = add_gene(t.genes, Gene(sensor, output, FALSE, v.num))
    BY <1>1, <1>2 DEF Connects
  <2>3. Grown(g, u) = LinkBaby(Grown(g, t), sensor, output, FALSE, v.num)
    <3>1. Grown(g, t).genes = t.genes
      BY DEF Grown
    <3>2. LinkBaby(Grown(g, t), sensor, output, FALSE, v.num) = [Grown(g, t) EXCEPT !.genes = u.genes]
      BY <2>2, <3>1 DEF LinkBaby
    <3>3. PICK new : new = u.genes
      OBVIOUS
    <3>4. LinkBaby(Grown(g, t), sensor, output, FALSE, v.num) = [Grown(g, t) EXCEPT !.genes = new]
      BY <3>2, <3>3
    <3>5. QED
      BY <3>3, <3>4 DEF Grown
  <2>4. SensorStep(g, t, sensor, output, v, u)
    BY <2>1, <2>2, <2>3 DEF SensorStep
  <2>5. QED
    BY <2>4 DEF u
<1>3. QED
  BY <1>2 DEF u

LEMMA SensorStepTyped ==
  ASSUME NEW g \in Genome, NEW sensor \in ToSet(g.nodes), NEW output \in ToSet(g.nodes), NEW next \in Nat,
         NEW t, SensorTyped(next, t)
  PROVE  SensorTyped(next, ConnectSensor(t, sensor, output))
<1> DEFINE u == ConnectSensor(t, sensor, output)
<1>1. g.nodes \in Seq(Nat) /\ t \in SensorState /\ t.num \in Nat /\ t.genes \in Seq(GeneType)
  BY DEF Genome, SensorTyped, SensorState
<1>2. sensor \in Nat /\ output \in Nat
  BY <1>1 DEF ToSet
<1>3. u \in SensorState
  BY <1>1, <1>2, ConnectSensorIs
<1>4. u = t \/ \E v : SensorStep(g, t, sensor, output, v, u)
  BY <1>1, <1>2, SensorStepIs
<1> HIDE DEF u
<1>5. ASSUME NEW v, SensorStep(g, t, sensor, output, v, u)
      PROVE  SensorTyped(next, u)
  <2> DEFINE h == Grown(g, t)
  <2>1. h \in Genome /\ h.nodes = g.nodes /\ h.genes = t.genes
    BY <1>1 DEF Grown, Genome
  <2> HIDE DEF h
  <2>2. KnownOrNovel(t.innovations, sensor, output, FALSE, t.num, v, u.innovations, u.num)
    BY <1>5 DEF SensorStep
  <2>3. Numbered(t.innovations, t.num) /\ Before(h.genes, t.num)
    BY <2>1 DEF SensorTyped
  <2>4. LinkTyped(h, t.innovations, sensor, output, FALSE, t.num, v, u.innovations, u.num,
                  LinkBaby(h, sensor, output, FALSE, v.num))
    BY <1>1, <2>1, <2>2, <2>3, LinkStepTyped
  <2>5. LinkBaby(h, sensor, output, FALSE, v.num).genes = u.genes
    <3>1. LinkBaby(h, sensor, output, FALSE, v.num) = Grown(g, u)
      BY <1>5 DEF SensorStep, h
    <3>2. Grown(g, u).genes = u.genes
      BY DEF Grown
    <3>3. QED
      BY <3>1, <3>2
  <2>6. u.num \in Nat /\ t.num <= u.num /\ Numbered(u.innovations, u.num) /\ Before(u.genes, u.num)
    BY <2>4, <2>5 DEF LinkTyped
  <2>7. next <= t.num
    BY DEF SensorTyped
  <2>8. QED
    BY <1>1, <1>3, <2>6, <2>7 DEF SensorTyped
<1>6. QED
  BY <1>4, <1>5 DEF u

LEMMA SensorStepMarked ==
  ASSUME NEW g \in Genome, NEW sensor \in ToSet(g.nodes), NEW output \in ToSet(g.nodes), NEW next \in Nat,
         NEW first \in Nat, first <= next, NEW nodes \in Nat, NEW M, sensor \in Sensors, output \in Outputs,
         NEW t, SensorTyped(next, t), SensorMarked(g, M, first, nodes, t)
  PROVE  SensorMarked(g, M, first, nodes, ConnectSensor(t, sensor, output))
<1> DEFINE u == ConnectSensor(t, sensor, output)
<1>1. g.nodes \in Seq(Nat) /\ t \in SensorState /\ t.num \in Nat /\ t.genes \in Seq(GeneType)
  BY DEF Genome, SensorTyped, SensorState
<1>2. sensor \in Nat /\ output \in Nat /\ output \notin Sensors
  BY <1>1, GenomeAssumption DEF ToSet
<1>3. u = t \/ \E v : SensorStep(g, t, sensor, output, v, u)
  BY <1>1, <1>2, SensorStepIs
<1> HIDE DEF u
<1>4. ASSUME NEW v, SensorStep(g, t, sensor, output, v, u)
      PROVE  SensorMarked(g, M, first, nodes, u)
  <2> DEFINE h == Grown(g, t)
             b == LinkBaby(h, sensor, output, FALSE, v.num)
             MM == M \cup Marks(t.genes)
  <2>1. h \in Genome /\ h.nodes = g.nodes /\ h.genes = t.genes
    BY <1>1 DEF Grown, Genome
  <2> HIDE DEF h
  <2>2. KnownOrNovel(t.innovations, sensor, output, FALSE, t.num, v, u.innovations, u.num)
    BY <1>4 DEF SensorStep
  <2>3. Numbered(t.innovations, t.num) /\ Before(h.genes, t.num) /\ first <= t.num
    BY <1>1, <2>1 DEF SensorTyped
  <2>4. BookOK(MM, t.innovations, first, t.num, nodes) /\ Marks(h.genes) \subseteq MM /\ Shape(h, nodes)
    BY <2>1 DEF SensorMarked, h
  <2>5. \A x \in ToSet(h.genes) : Link(x) # <<sensor, output, FALSE>>
    BY <1>4, <2>1 DEF SensorStep, AlreadyThere, Link
  <2> HIDE DEF MM
  <2>6. /\ BookOK(MM \cup {LinkMark(sensor, output, FALSE, v.num)}, u.innovations, first, u.num, nodes)
        /\ Shape(b, nodes)
    BY <1>1, <1>2, <2>1, <2>2, <2>3, <2>4, <2>5, LinkStepMarks
  <2>7. Linked(h, sensor, output, FALSE, v.num, b)
    <3>1. LinkTyped(h, t.innovations, sensor, output, FALSE, t.num, v, u.innovations, u.num, b)
      BY <1>1, <2>1, <2>2, <2>3, LinkStepTyped
    <3>2. QED
      BY <3>1 DEF LinkTyped
  <2>8. b = Grown(g, u)
    BY <1>4 DEF SensorStep, h
  <2> HIDE DEF b
  <2>9. b.genes = u.genes
    BY <2>8 DEF Grown
  <2>10. M \cup Marks(u.genes) = MM \cup {LinkMark(sensor, output, FALSE, v.num)}
    BY <2>1, <2>7, <2>9 DEF Linked, MM
  <2>11. QED
    BY <2>6, <2>8, <2>10 DEF SensorMarked
<1>5. QED
  BY <1>3, <1>4 DEF u

(* A sensor is linked to outputs of a genome. *)
LEMMA SensorBaby ==
  ASSUME NEW g \in Genome, NEW sensor \in ToSet(g.nodes), NEW outputs \in Seq(Nat),
         ToSet(outputs) \subseteq ToSet(g.nodes), NEW next \in Nat, NEW I \in SUBSET Innovation,
         Numbered(I, next), Before(g.genes, next), NEW s,
         s = Connected([genes |-> g.genes, innovations |-> I, num |-> next], sensor, outputs)
  PROVE  /\ SensorTyped(next, s)
         /\ \A first \in Nat, nodes \in Nat : \A M :
              /\ first <= next /\ BookOK(M, I, first, next, nodes) /\ Marks(g.genes) \subseteq M /\ Shape(g, nodes)
              /\ sensor \in Sensors /\ ToSet(outputs) \subseteq Outputs
              => SensorMarked(g, M, first, nodes, s)
<1> DEFINE base == [genes |-> g.genes, innovations |-> I, num |-> next]
<1>1. g.nodes \in Seq(Nat) /\ g.genes \in Seq(GeneType) /\ g = [nodes |-> g.nodes, genes |-> g.genes]
  BY DEF Genome
<1>2. sensor \in Nat /\ \A output \in ToSet(outputs) : output \in Nat /\ output \in ToSet(g.nodes)
  <2>1. \A n \in ToSet(g.nodes) : n \in Nat
    BY <1>1 DEF ToSet
  <2>2. QED
    BY <2>1
<1>3. base \in SensorState /\ base.genes = g.genes /\ base.innovations = I /\ base.num = next
  BY <1>1 DEF SensorState
<1> HIDE DEF base
<1>4. SensorTyped(next, base)
  BY <1>3 DEF SensorTyped
<1>5. SensorTyped(next, s)
  <2> DEFINE Q == {t \in SensorState : SensorTyped(next, t)}
  <2>1. \A t \in Q : \A output \in ToSet(outputs) : ConnectSensor(t, sensor, output) \in Q
    <3>1. ASSUME NEW t \in SensorState, SensorTyped(next, t), NEW output \in ToSet(outputs)
          PROVE  SensorTyped(next, ConnectSensor(t, sensor, output)) /\ ConnectSensor(t, sensor, output) \in SensorState
      BY <1>2, <3>1, SensorStepTyped DEF SensorTyped
    <3>2. QED
      BY <3>1
  <2>2. base \in Q
    BY <1>3, <1>4
  <2>3. Q \in SUBSET SensorState /\ (s \in Q => SensorTyped(next, s))
    OBVIOUS
  <2> HIDE DEF Q
  <2>4. s \in Q
    BY <1>2, <2>1, <2>2, <2>3, ConnectedKeeps DEF base
  <2>5. QED
    BY <2>3, <2>4
<1>6. ASSUME NEW first \in Nat, NEW nodes \in Nat, NEW M,
             first <= next, BookOK(M, I, first, next, nodes), Marks(g.genes) \subseteq M, Shape(g, nodes),
             sensor \in Sensors, ToSet(outputs) \subseteq Outputs
      PROVE  SensorMarked(g, M, first, nodes, s)
  <2> DEFINE Q == {t \in SensorState : SensorTyped(next, t) /\ SensorMarked(g, M, first, nodes, t)}
  <2>1. \A t \in Q : \A output \in ToSet(outputs) : ConnectSensor(t, sensor, output) \in Q
    <3>1. ASSUME NEW t \in SensorState, SensorTyped(next, t), SensorMarked(g, M, first, nodes, t),
                 NEW output \in ToSet(outputs)
          PROVE  /\ SensorTyped(next, ConnectSensor(t, sensor, output))
                 /\ ConnectSensor(t, sensor, output) \in SensorState
                 /\ SensorMarked(g, M, first, nodes, ConnectSensor(t, sensor, output))
      <4>1. /\ SensorTyped(next, ConnectSensor(t, sensor, output))
            /\ ConnectSensor(t, sensor, output) \in SensorState
        BY <1>2, <3>1, SensorStepTyped DEF SensorTyped
      <4>2. output \in Outputs /\ output \in ToSet(g.nodes)
        BY <1>2, <1>6
      <4>3. SensorMarked(g, M, first, nodes, ConnectSensor(t, sensor, output))
        BY <1>6, <3>1, <4>2, SensorStepMarked
      <4>4. QED
        BY <4>1, <4>3
    <3>2. QED
      BY <3>1
  <2>2. SensorMarked(g, M, first, nodes, base)
    <3>1. M \cup Marks(g.genes) = M
      BY <1>6
    <3>2. Grown(g, base) = g
      BY <1>1, <1>3 DEF Grown
    <3>3. QED
      BY <1>3, <1>6, <3>1, <3>2 DEF SensorMarked
  <2>3. base \in Q
    BY <1>3, <1>4, <2>2
  <2>4. Q \in SUBSET SensorState /\ (s \in Q => SensorMarked(g, M, first, nodes, s))
    OBVIOUS
  <2> HIDE DEF Q
  <2>5. s \in Q
    BY <1>2, <2>1, <2>3, <2>4, ConnectedKeeps DEF base
  <2>6. QED
    BY <2>4, <2>5
<1>7. QED
  BY <1>5, <1>6

-----------------------------------------------------------------------------
(* The types, action by action. *)
LEMMA BeforeLater ==
  ASSUME NEW genes \in Seq(GeneType), NEW n \in Nat, NEW k \in Nat, n <= k, Before(genes, n)
  PROVE  Before(genes, k)
<1>1. ASSUME NEW x \in ToSet(genes)
      PROVE  x.num < k
  <2>1. x \in GeneType /\ x.num < n
    BY LenProperties, ElementOfSeq DEF ToSet, Before
  <2>2. x.num \in Nat
    BY <2>1 DEF GeneType
  <2>3. QED
    BY <2>1, <2>2
<1>2. QED
  BY <1>1 DEF Before

LEMMA NumberedLater ==
  ASSUME NEW I, NEW n \in Nat, NEW k \in Nat, n <= k, Numbered(I, n)
  PROVE  Numbered(I, k)
<1>1. ASSUME NEW v \in I
      PROVE  v \in Innovation /\ LastNumber(v) < k
  <2>1. v \in Innovation /\ LastNumber(v) < n
    BY DEF Numbered
  <2>2. LastNumber(v) \in Nat
    BY <2>1 DEF LastNumber, Innovation
  <2>3. QED
    BY <2>1, <2>2
<1>2. QED
  BY <1>1 DEF Numbered

LEMMA BornTyped ==
  ASSUME TypeOK, NEW b \in Genome, Born(b), Before(b.genes, cur_innov_num'),
         Numbered(innovations', cur_innov_num'),
         cur_innov_num' \in Nat, cur_innov_num <= cur_innov_num',
         cur_node_id' \in Nat, cur_node_id <= cur_node_id', first_innov_num' = first_innov_num,
         mistaken' \in BOOLEAN, reenabled' \in BOOLEAN, crossed' \in BOOLEAN, gaveup' \in BOOLEAN
  PROVE  TypeOK'
<1>1. ASSUME NEW g \in genomes'
      PROVE  g \in Genome /\ Before(g.genes, cur_innov_num')
  <2>1. CASE g \in genomes
    <3>1. g \in Genome /\ Before(g.genes, cur_innov_num) /\ cur_innov_num \in Nat
      BY <2>1 DEF TypeOK, Below
    <3>2. g.genes \in Seq(GeneType)
      BY <3>1 DEF Genome
    <3>3. QED
      BY <3>1, <3>2, BeforeLater
  <2>2. CASE g = b
    BY <2>2
  <2>3. QED
    BY <2>1, <2>2 DEF Born
<1>2. \A n \in Sensors \cup Outputs : n < cur_node_id'
  BY GenomeAssumption DEF TypeOK
<1>3. births' \in Nat /\ first_innov_num' \in Nat /\ first_innov_num' <= cur_innov_num'
  BY DEF TypeOK, Born
<1>4. QED
  BY <1>1, <1>2, <1>3 DEF TypeOK, Below, Numbered

(* An action is one baby of one genome, with what it adds to the           *)
(* innovations.                                                            *)
NovelNode(gene) ==
  [type |-> "NEWNODE", in |-> gene.in, out |-> gene.out, recur |-> FALSE,
   num |-> cur_innov_num, old |-> gene.num, node |-> cur_node_id]
NodeStep(g, i, v) ==
  /\ i \in DOMAIN g.genes /\ g.genes[i].enable /\ Born(Split(g, i, v)) /\ innovations' = innovations \cup {v}
  /\ \/ /\ v \in innovations /\ SameSplit(v, g.genes[i])
        /\ cur_node_id' = cur_node_id + 0 /\ cur_innov_num' = cur_innov_num + 0
     \/ /\ v = NovelNode(g.genes[i])
        /\ cur_node_id' = cur_node_id + 1 /\ cur_innov_num' = cur_innov_num + 2
  /\ mistaken' = (mistaken \/ v.node \in ToSet(g.nodes))
  /\ UNCHANGED <<first_innov_num, reenabled, crossed, gaveup>>
LEMMA AddNodeIs ==
  ASSUME AddNode
  PROVE  \E g \in genomes : \E i, v : NodeStep(g, i, v)
<1>1. PICK g \in genomes : \E i \in DOMAIN g.genes :
        LET gene  == g.genes[i]
            known == {v \in innovations : SameSplit(v, gene)}
            novel == NovelNode(gene)
            v     == IF known = {} THEN novel ELSE CHOOSE w \in known : TRUE
        IN  /\ gene.enable /\ gene.in \notin Bias
            /\ Born(Split(g, i, v))
            /\ innovations' = innovations \cup {v}
            /\ cur_node_id' = cur_node_id + (IF known = {} THEN 1 ELSE 0)
            /\ cur_innov_num' = cur_innov_num + (IF known = {} THEN SplitNumbers ELSE 0)
            /\ mistaken' = (mistaken \/ v.node \in ToSet(g.nodes))
            /\ UNCHANGED <<first_innov_num, reenabled, crossed, gaveup>>
  BY Zenon DEF AddNode, NovelNode
<1>2. PICK i \in DOMAIN g.genes :
        LET gene  == g.genes[i]
            known == {v \in innovations : SameSplit(v, gene)}
            novel == NovelNode(gene)
            v     == IF known = {} THEN novel ELSE CHOOSE w \in known : TRUE
        IN  /\ gene.enable /\ gene.in \notin Bias
            /\ Born(Split(g, i, v))
            /\ innovations' = innovations \cup {v}
            /\ cur_node_id' = cur_node_id + (IF known = {} THEN 1 ELSE 0)
            /\ cur_innov_num' = cur_innov_num + (IF known = {} THEN SplitNumbers ELSE 0)
            /\ mistaken' = (mistaken \/ v.node \in ToSet(g.nodes))
            /\ UNCHANGED <<first_innov_num, reenabled, crossed, gaveup>>
  BY <1>1
<1>3. PICK known : known = {v \in innovations : SameSplit(v, g.genes[i])}
  OBVIOUS
<1>4. PICK v : v = IF known = {} THEN NovelNode(g.genes[i]) ELSE CHOOSE w \in known : TRUE
  OBVIOUS
<1>5. /\ g.genes[i].enable /\ Born(Split(g, i, v)) /\ innovations' = innovations \cup {v}
      /\ cur_node_id' = cur_node_id + (IF known = {} THEN 1 ELSE 0)
      /\ cur_innov_num' = cur_innov_num + (IF known = {} THEN SplitNumbers ELSE 0)
      /\ mistaken' = (mistaken \/ v.node \in ToSet(g.nodes))
      /\ UNCHANGED <<first_innov_num, reenabled, crossed, gaveup>>
  BY <1>2, <1>3, <1>4, Zenon
<1>6. CASE known = {}
  BY <1>4, <1>5, <1>6 DEF NodeStep, SplitNumbers
<1>7. CASE known # {}
  <2>1. v \in innovations /\ SameSplit(v, g.genes[i])
    BY <1>3, <1>4, <1>7
  <2>2. QED
    BY <1>5, <1>7, <2>1 DEF NodeStep
<1>8. QED
  BY <1>6, <1>7

LEMMA AddNodeTyped ==
  ASSUME TypeOK, AddNode
  PROVE  TypeOK'
<1>0. PICK g \in genomes : \E i, v : NodeStep(g, i, v)
  BY AddNodeIs
<1>1. PICK i, v : NodeStep(g, i, v)
  BY <1>0
<1>2. /\ g \in Genome /\ Before(g.genes, cur_innov_num) /\ g.genes \in Seq(GeneType)
      /\ i \in DOMAIN g.genes /\ g.genes[i] \in GeneType
  BY <1>1 DEF TypeOK, Below, Genome, NodeStep
<1>3. cur_innov_num \in Nat /\ cur_node_id \in Nat /\ Numbered(innovations, cur_innov_num)
  BY DEF TypeOK, Numbered
<1>4. /\ v \in Innovation /\ v.num \in Nat /\ v.type = "NEWNODE"
      /\ cur_node_id' \in Nat /\ cur_node_id <= cur_node_id'
      /\ cur_innov_num' \in Nat /\ cur_innov_num <= cur_innov_num' /\ v.num + 1 < cur_innov_num'
  <2>1. CASE v = NovelNode(g.genes[i]) /\ cur_node_id' = cur_node_id + 1 /\ cur_innov_num' = cur_innov_num + 2
    <3>2. g.genes[i].in \in Nat /\ g.genes[i].out \in Nat /\ g.genes[i].num \in Nat
      BY <1>2 DEF GeneType
    <3>3. v \in Innovation /\ v.num = cur_innov_num /\ v.type = "NEWNODE"
      BY <1>3, <2>1, <3>2 DEF Innovation, NovelNode
    <3>5. QED
      BY <1>3, <2>1, <3>3
  <2>2. CASE v \in innovations /\ SameSplit(v, g.genes[i])
             /\ cur_node_id' = cur_node_id + 0 /\ cur_innov_num' = cur_innov_num + 0
    <3>1. v \in Innovation /\ LastNumber(v) < cur_innov_num /\ v.type = "NEWNODE"
      BY <1>3, <2>2 DEF Numbered, SameSplit
    <3>2. v.num \in Nat /\ v.num + 1 < cur_innov_num
      BY <3>1 DEF LastNumber, Innovation
    <3>3. cur_node_id' = cur_node_id /\ cur_innov_num' = cur_innov_num
      BY <1>3, <2>2
    <3>4. QED
      BY <1>3, <3>1, <3>2, <3>3
  <2>3. QED
    BY <1>1, <2>1, <2>2 DEF NodeStep
<1>5. SplitOf(g, i, v, Split(g, i, v))
  BY <1>2, <1>4, SplitIs
<1>6. Before(Split(g, i, v).genes, cur_innov_num')
  <2> DEFINE b == Split(g, i, v)
  <2>1. ASSUME NEW x \in ToSet(b.genes)
        PROVE  x.num < cur_innov_num'
    <3>1. Mark(x) \in Marks(g.genes) \/ Mark(x) \in SplitMarks(g.genes[i], v)
      BY <1>5 DEF SplitOf, Marks
    <3>2. CASE Mark(x) \in Marks(g.genes)
      <4>1. PICK y \in ToSet(g.genes) : Mark(x) = Mark(y)
        BY <3>2 DEF Marks
      <4>2. Before(g.genes, cur_innov_num')
        BY <1>2, <1>3, <1>4, BeforeLater
      <4>3. QED
        BY <4>1, <4>2 DEF Mark, Before
    <3>3. CASE Mark(x) \in SplitMarks(g.genes[i], v)
      <4>1. x.num = v.num \/ x.num = v.num + 1
        BY <3>3 DEF SplitMarks, LinkMark, Mark
      <4>2. QED
        BY <1>4, <4>1
    <3>4. QED
      BY <3>1, <3>2, <3>3
  <2>2. QED
    BY <2>1 DEF Before
<1>7. Numbered(innovations', cur_innov_num')
  <2>1. Numbered(innovations, cur_innov_num')
    BY <1>3, <1>4, NumberedLater
  <2>2. LastNumber(v) < cur_innov_num'
    BY <1>4 DEF LastNumber
  <2>3. QED
    BY <1>1, <1>4, <2>1, <2>2 DEF Numbered, NodeStep
<1>8. Split(g, i, v) \in Genome
  BY <1>5 DEF SplitOf
<1>9. first_innov_num' = first_innov_num /\ reenabled' \in BOOLEAN /\ crossed' \in BOOLEAN /\ gaveup' \in BOOLEAN
  BY <1>1 DEF TypeOK, NodeStep
<1>10. Born(Split(g, i, v)) /\ mistaken' \in BOOLEAN
  BY <1>1 DEF TypeOK, NodeStep
<1>11. QED
  BY <1>4, <1>6, <1>7, <1>8, <1>9, <1>10, BornTyped

(* N steps, each of which leads from one state to one state.               *)
Steps(B, F, N, w) == w = [k \in 0..N |-> IF k = 0 THEN B ELSE F[k][w[k - 1]]]
CanStep(D, B, F, N) == \E w \in [0..N -> D] : Steps(B, F, N, w)
LEMMA StepsExist ==
  ASSUME NEW D, NEW B \in D, NEW N \in Nat, NEW F \in [1..N -> [D -> D]]
  PROVE  CanStep(D, B, F, N)
<1> DEFINE Part(n, w) == /\ w \in [0..n -> D] /\ w[0] = B
                         /\ \A k \in 1..n : w[k] = F[k][w[k - 1]]
           S == {n \in 0..N : \E w : Part(n, w)}
<1>1. 0 \in S
  <2>1. Part(0, [k \in 0..0 |-> B])
    OBVIOUS
  <2> HIDE DEF Part
  <2>2. (\E w : Part(0, w)) /\ 0 \in 0..N
    BY <2>1
  <2>3. QED
    BY <2>2
<1>2. ASSUME NEW n \in 1..N, n - 1 \in S
      PROVE  n \in S
  <2>1. PICK w : Part(n - 1, w)
    BY <1>2
  <2> DEFINE new == F[n][w[n - 1]]
             u == [k \in 0..n |-> IF k = n THEN new ELSE w[k]]
  <2>2. n \in Nat /\ n - 1 \in 0..(n - 1) /\ 0 # n /\ 0 \in 0..n
    OBVIOUS
  <2>3. w[n - 1] \in D /\ F[n] \in [D -> D]
    BY <2>1, <2>2
  <2>4. new \in D
    BY <2>3
  <2> HIDE DEF new
  <2>5. u \in [0..n -> D]
    <3>1. ASSUME NEW k \in 0..n, k # n
          PROVE  w[k] \in D
      <4>1. k \in 0..(n - 1)
        BY <2>2, <3>1
      <4>2. QED
        BY <2>1, <4>1
    <3>2. QED
      BY <2>4, <3>1
  <2>6. u[0] = B
    BY <2>1, <2>2
  <2>7. ASSUME NEW k \in 1..n
        PROVE  u[k] = F[k][u[k - 1]]
    <3>1. k - 1 \in 0..n /\ k \in 0..n /\ k - 1 # n /\ k \in Int
      BY <2>2
    <3>2. u[k - 1] = w[k - 1]
      BY <3>1
    <3>3. CASE k = n
      <4>1. u[k] = new
        BY <3>1, <3>3
      <4>2. QED
        BY <3>2, <3>3, <4>1 DEF new
    <3>4. CASE k # n
      <4>1. k \in 1..(n - 1)
        BY <2>2, <3>4
      <4>2. u[k] = w[k]
        BY <3>1, <3>4
      <4>3. QED
        BY <2>1, <3>2, <4>1, <4>2
    <3>5. QED
      BY <3>3, <3>4
  <2>8. Part(n, u)
    BY <2>5, <2>6, <2>7
  <2> HIDE DEF Part
  <2>9. (\E w_1 : Part(n, w_1)) /\ n \in 0..N
    BY <2>8
  <2>10. QED
    BY <2>9
<1>3. S = 0..N
  <2> HIDE DEF S
  <2>1. S \in SUBSET (0..N)
    BY DEF S
  <2>2. QED
    BY <1>1, <1>2, <2>1, PassedOn
<1>4. PICK w : Part(N, w)
  BY <1>3, SMTT(40)
<1>5. w = [k \in 0..N |-> IF k = 0 THEN B ELSE F[k][w[k - 1]]]
  BY <1>4
<1>6. QED
  BY <1>4, <1>5 DEF CanStep, Steps

(* A forward link of the network, and a set of nodes that none leads into  *)
(* from outside.                                                           *)
Forward(x) == x.enable /\ ~x.recur
Within(g, S) == \A x \in ToSet(g.genes) : Forward(x) /\ x.out \in S => x.in \in S

(* The nodes that have a forward link to n.                                *)
LEMMA IncomingIs ==
  ASSUME NEW g \in Genome, NEW n
  PROVE  /\ Incoming(g, n) \in Seq(Nat)
         /\ ToSet(Incoming(g, n)) = {x.in : x \in {y \in ToSet(g.genes) : Forward(y) /\ y.out = n}}
<1> DEFINE N == Len(g.genes)
           More(k, s) == IF ForwardTo(g.genes[k], n) THEN Append(s, g.genes[k].in) ELSE s
           F == [k \in 1..N |-> [s \in Seq(Nat) |-> More(k, s)]]
           Fed(k) == {g.genes[j].in : j \in {i \in 1..k : ForwardTo(g.genes[i], n)}}
           ins == CHOOSE f : f = [k \in 0..N |-> IF k = 0 THEN <<>>
                                                 ELSE IF ForwardTo(g.genes[k], n) THEN Append(f[k - 1], g.genes[k].in)
                                                      ELSE f[k - 1]]
<1>1. N \in Nat /\ g.genes \in Seq(GeneType) /\ DOMAIN g.genes = 1..N
  BY LenProperties DEF Genome
<1>2. \A k \in 1..N : g.genes[k] \in GeneType /\ g.genes[k].in \in Nat
  <2>1. \A k \in 1..N : g.genes[k] \in GeneType
    BY <1>1, ElementOfSeq
  <2>2. QED
    BY <2>1 DEF GeneType
<1>3. \A k \in 1..N : \A s \in Seq(Nat) : More(k, s) \in Seq(Nat)
  BY <1>2
<1>4. PICK w \in [0..N -> Seq(Nat)] : Steps(<<>>, F, N, w)
  <2>1. F \in [1..N -> [Seq(Nat) -> Seq(Nat)]]
    <3> HIDE DEF More, N
    <3>1. QED
      BY <1>3
  <2> HIDE DEF F, N
  <2>2. <<>> \in Seq(Nat)
    OBVIOUS
  <2>3. CanStep(Seq(Nat), <<>>, F, N)
    BY <1>1, <2>1, <2>2, StepsExist
  <2>4. QED
    BY <2>3 DEF CanStep
<1>5. w = [k \in 0..N |-> IF k = 0 THEN <<>> ELSE More(k, w[k - 1])]
  <2>1. ASSUME NEW k \in 0..N, k # 0
        PROVE  F[k][w[k - 1]] = More(k, w[k - 1])
    <3>1. k \in 1..N /\ k - 1 \in 0..N
      BY <1>1, <2>1
    <3>2. w[k - 1] \in Seq(Nat)
      BY <3>1
    <3> HIDE DEF More, N
    <3>3. QED
      BY <3>1, <3>2
  <2> HIDE DEF F, More, N
  <2>2. QED
    BY <1>4, <2>1 DEF Steps
<1>6. ins = [k \in 0..N |-> IF k = 0 THEN <<>> ELSE More(k, ins[k - 1])]
  <2> HIDE DEF N
  <2>1. QED
    BY <1>5
<1>7. Incoming(g, n) = ins[N]
  BY DEF Incoming
<1> HIDE DEF ins
<1> DEFINE P == {k \in 0..N : ins[k] \in Seq(Nat) /\ ToSet(ins[k]) = Fed(k)}
<1>8. P = 0..N
  <2>1. 0 \in P
    <3>1. ins[0] = <<>> /\ 0 \in 0..N
      BY <1>1, <1>6
    <3>2. ToSet(<<>>) = {} /\ Fed(0) = {} /\ <<>> \in Seq(Nat)
      BY DEF ToSet
    <3> HIDE DEF Fed, N
    <3>3. QED
      BY <3>1, <3>2
  <2>2. ASSUME NEW k \in 1..N, k - 1 \in P
        PROVE  k \in P
    <3>1. k \in 0..N /\ k # 0 /\ k - 1 \in 0..N
      BY <1>1
    <3>2. ins[k - 1] \in Seq(Nat) /\ ToSet(ins[k - 1]) = Fed(k - 1)
      BY <2>2
    <3>3. ins[k] = More(k, ins[k - 1])
      <4> HIDE DEF More, N
      <4>1. QED
        BY <1>6, <3>1
    <3>4. 1..k = (1..(k - 1)) \cup {k}
      BY <3>1
    <3>5. CASE ForwardTo(g.genes[k], n)
      <4>1. ins[k] = Append(ins[k - 1], g.genes[k].in)
        BY <3>3, <3>5
      <4>2. ToSet(Append(ins[k - 1], g.genes[k].in)) = ToSet(ins[k - 1]) \cup {g.genes[k].in}
        <5>1. PICK s, e : s = ins[k - 1] /\ e = g.genes[k].in
          OBVIOUS
        <5>2. s \in Seq(Nat) /\ e \in Nat
          BY <1>2, <3>2, <5>1
        <5>3. /\ Len(s) \in Nat /\ DOMAIN s = 1..Len(s) /\ DOMAIN Append(s, e) = 1..(Len(s) + 1)
              /\ \A j \in 1..Len(s) : Append(s, e)[j] = s[j]
              /\ Append(s, e)[Len(s) + 1] = e
          BY <5>2, AppendProperties, LenProperties
        <5>4. 1..(Len(s) + 1) = (1..Len(s)) \cup {Len(s) + 1}
          BY <5>3
        <5>5. ToSet(Append(s, e)) = ToSet(s) \cup {e}
          BY <5>3, <5>4 DEF ToSet
        <5>6. QED
          BY <5>1, <5>5
      <4>3. Fed(k) = Fed(k - 1) \cup {g.genes[k].in}
        BY <3>4, <3>5
      <4>4. ins[k] \in Seq(Nat)
        BY <1>2, <3>2, <4>1
      <4> HIDE DEF Fed, N
      <4>5. QED
        BY <3>1, <3>2, <4>1, <4>2, <4>3, <4>4
    <3>6. CASE ~ForwardTo(g.genes[k], n)
      <4>1. ins[k] = ins[k - 1]
        BY <3>3, <3>6
      <4>2. Fed(k) = Fed(k - 1)
        BY <3>4, <3>6
      <4> HIDE DEF Fed, N
      <4>3. QED
        BY <3>1, <3>2, <4>1, <4>2
    <3>7. QED
      BY <3>5, <3>6
  <2>3. P \in SUBSET (0..N)
    OBVIOUS
  <2> HIDE DEF P, N
  <2>4. QED
    BY <1>1, <2>1, <2>2, <2>3, PassedOn
<1>9. ins[N] \in Seq(Nat) /\ ToSet(ins[N]) = Fed(N)
  <2>1. N \in 0..N
    BY <1>1
  <2> HIDE DEF Fed, N
  <2>2. QED
    BY <1>8, <2>1
<1>10. Fed(N) = {x.in : x \in {y \in ToSet(g.genes) : Forward(y) /\ y.out = n}}
  <2>1. ASSUME NEW m
        PROVE  m \in Fed(N) <=> \E x \in ToSet(g.genes) : Forward(x) /\ x.out = n /\ m = x.in
    BY <1>1, SMTT(40) DEF ToSet, Forward, ForwardTo
  <2> HIDE DEF Fed
  <2>2. QED
    BY <2>1
<1>11. QED
  BY <1>7, <1>9, <1>10

(* What is_recur finds is in every set of nodes that has the start and     *)
(* that no link leads into; when it has nothing left to do and found       *)
(* nothing, there is such a set without the end.                           *)
SearchState == [todo : Seq(Nat), found : BOOLEAN]
Finds(g, start, end, s) == s.found => \A S : start \in S /\ Within(g, S) => end \in S
Misses(g, start, end, s) ==
  ~s.found /\ s.todo = <<>> => \E S : start \in S /\ Within(g, S) /\ end \notin S
Avoids(g, end, s, S) == ToSet(s.todo) \subseteq S /\ Within(g, S) /\ end \notin S

LEMMA VisitIs ==
  ASSUME NEW g \in Genome, NEW end \in Nat, NEW s \in SearchState
  PROVE  /\ Visit(g, end, s) \in SearchState
         /\ \A S : ToSet(s.todo) \subseteq S /\ (s.found => end \in S) /\ Within(g, S) =>
              ToSet(Visit(g, end, s).todo) \subseteq S /\ (Visit(g, end, s).found => end \in S)
         /\ ~Visit(g, end, s).found /\ (\E S : Avoids(g, end, Visit(g, end, s), S)) =>
              ~s.found /\ \E S : Avoids(g, end, s, S)
<1> DEFINE t == Visit(g, end, s)
<1>1. s.todo \in Seq(Nat) /\ s.found \in BOOLEAN
  BY DEF SearchState
<1>2. CASE s.todo = <<>>
  <2>1. t = s
    BY <1>2 DEF Visit
  <2> HIDE DEF t
  <2>2. QED
    BY <2>1 DEF t
<1>3. CASE s.todo # <<>>
  <2> DEFINE h == Head(s.todo)
             rest == Tail(s.todo)
  <2>1. h \in Nat /\ rest \in Seq(Nat) /\ ToSet(s.todo) = {h} \cup ToSet(rest)
    <3>1. PICK q : q = s.todo
      OBVIOUS
    <3>2. q \in Seq(Nat) /\ q # <<>>
      BY <1>1, <1>3, <3>1
    <3>3. /\ Head(q) \in Nat /\ Tail(q) \in Seq(Nat) /\ Len(q) \in Nat /\ Len(q) > 0 /\ Len(Tail(q)) = Len(q) - 1
          /\ \A i \in 1..Len(Tail(q)) : Tail(q)[i] = q[i + 1]
          /\ Head(q) = q[1] /\ DOMAIN q = 1..Len(q) /\ DOMAIN Tail(q) = 1..Len(Tail(q))
      BY <3>2, HeadTailProperties, EmptySeq, LenProperties
    <3>4. ASSUME NEW m \in ToSet(q)
          PROVE  m = Head(q) \/ m \in ToSet(Tail(q))
      <4>1. PICK i \in 1..Len(q) : m = q[i]
        BY <3>3, <3>4 DEF ToSet
      <4>2. CASE i # 1
        <5>1. i - 1 \in 1..Len(Tail(q)) /\ (i - 1) + 1 = i
          BY <3>3, <4>2
        <5>2. Tail(q)[i - 1] = q[i]
          BY <3>3, <5>1
        <5>3. QED
          BY <3>3, <4>1, <5>1, <5>2 DEF ToSet
      <4>3. QED
        BY <3>3, <4>1, <4>2
    <3>5. ASSUME NEW m \in ToSet(Tail(q))
          PROVE  m \in ToSet(q)
      <4>1. PICK i \in 1..Len(Tail(q)) : m = Tail(q)[i]
        BY <3>3, <3>5 DEF ToSet
      <4>2. i + 1 \in 1..Len(q) /\ m = q[i + 1]
        BY <3>3, <4>1
      <4>3. QED
        BY <3>3, <4>2 DEF ToSet
    <3>6. Head(q) \in ToSet(q)
      <4>1. 1 \in DOMAIN q
        BY <3>3
      <4>2. QED
        BY <3>3, <4>1 DEF ToSet
    <3>7. ToSet(q) = {Head(q)} \cup ToSet(Tail(q))
      BY <3>4, <3>5, <3>6
    <3>8. QED
      BY <3>1, <3>3, <3>7
  <2> HIDE DEF h, rest
  <2>2. CASE h = end
    <3>1. t = [todo |-> <<>>, found |-> TRUE]
      BY <1>3, <2>2 DEF Visit, h
    <3>2. t.todo = <<>> /\ t.found = TRUE /\ t \in SearchState
      BY <3>1 DEF SearchState
    <3> HIDE DEF t
    <3>3. ToSet(t.todo) = {}
      BY <3>2 DEF ToSet
    <3>4. \A S : ToSet(s.todo) \subseteq S => end \in S
      BY <2>1, <2>2
    <3>5. QED
      BY <3>2, <3>3, <3>4 DEF t
  <2>3. CASE h # end
    <3> DEFINE new == Incoming(g, h)
    <3>1. t = [s EXCEPT !.todo = new \o rest]
      BY <1>3, <2>3 DEF Visit, h, rest
    <3>2. new \in Seq(Nat) /\ ToSet(new) = {x.in : x \in {y \in ToSet(g.genes) : Forward(y) /\ y.out = h}}
      BY IncomingIs
    <3> HIDE DEF new
    <3>3. new \o rest \in Seq(Nat) /\ ToSet(new \o rest) = ToSet(new) \cup ToSet(rest)
      <4>1. PICK a, b : a = new /\ b = rest
        OBVIOUS
      <4>2. a \in Seq(Nat) /\ b \in Seq(Nat)
        BY <2>1, <3>2, <4>1
      <4>3. /\ a \o b \in Seq(Nat) /\ Len(a) \in Nat /\ Len(b) \in Nat /\ Len(a \o b) = Len(a) + Len(b)
            /\ \A i \in 1..(Len(a) + Len(b)) : (a \o b)[i] = IF i <= Len(a) THEN a[i] ELSE b[i - Len(a)]
            /\ DOMAIN a = 1..Len(a) /\ DOMAIN b = 1..Len(b) /\ DOMAIN (a \o b) = 1..Len(a \o b)
        BY <4>2, ConcatProperties, LenProperties
      <4>4. ASSUME NEW m \in ToSet(a \o b)
            PROVE  m \in ToSet(a) \cup ToSet(b)
        <5>1. PICK i \in 1..(Len(a) + Len(b)) : m = (a \o b)[i]
          BY <4>3, <4>4 DEF ToSet
        <5>2. CASE i <= Len(a)
          <6>1. i \in DOMAIN a /\ m = a[i]
            BY <4>3, <5>1, <5>2
          <6>2. QED
            BY <6>1 DEF ToSet
        <5>3. CASE ~(i <= Len(a))
          <6>1. i - Len(a) \in DOMAIN b /\ m = b[i - Len(a)]
            BY <4>3, <5>1, <5>3
          <6>2. QED
            BY <6>1 DEF ToSet
        <5>4. QED
          BY <5>2, <5>3
      <4>5. ASSUME NEW m \in ToSet(a)
            PROVE  m \in ToSet(a \o b)
        <5>1. PICK i \in 1..Len(a) : m = a[i]
          BY <4>3, <4>5 DEF ToSet
        <5>2. i \in DOMAIN (a \o b) /\ m = (a \o b)[i]
          BY <4>3, <5>1
        <5>3. QED
          BY <5>2 DEF ToSet
      <4>6. ASSUME NEW m \in ToSet(b)
            PROVE  m \in ToSet(a \o b)
        <5>1. PICK i \in 1..Len(b) : m = b[i]
          BY <4>3, <4>6 DEF ToSet
        <5>2. /\ i + Len(a) \in 1..(Len(a) + Len(b)) /\ ~(i + Len(a) <= Len(a)) /\ (i + Len(a)) - Len(a) = i
          BY <4>3, <5>1
        <5>3. i + Len(a) \in DOMAIN (a \o b) /\ m = (a \o b)[i + Len(a)]
          BY <4>3, <5>1, <5>2
        <5>4. QED
          BY <5>3 DEF ToSet
      <4>7. QED
        BY <4>1, <4>3, <4>4, <4>5, <4>6
    <3>4. t.todo = new \o rest /\ t.found = s.found /\ t \in SearchState
      BY <3>1, <3>3 DEF SearchState
    <3> HIDE DEF t
    <3>5. ASSUME NEW S, ToSet(s.todo) \subseteq S, Within(g, S)
          PROVE  ToSet(t.todo) \subseteq S
      <4>1. h \in S /\ ToSet(rest) \subseteq S
        BY <2>1, <3>5
      <4>2. ToSet(new) \subseteq S
        BY <3>2, <3>5, <4>1 DEF Within
      <4>3. QED
        BY <3>3, <3>4, <4>1, <4>2
    <3>6. ASSUME NEW S, Avoids(g, end, t, S)
          PROVE  Avoids(g, end, s, S \cup {h})
      <4>1. ToSet(new) \subseteq S /\ ToSet(rest) \subseteq S /\ Within(g, S) /\ end \notin S
        BY <3>3, <3>4, <3>6 DEF Avoids
      <4>2. ToSet(s.todo) \subseteq S \cup {h} /\ end \notin S \cup {h}
        BY <2>1, <2>3, <4>1
      <4>3. Within(g, S \cup {h})
        BY <3>2, <4>1 DEF Within
      <4>4. QED
        BY <4>2, <4>3 DEF Avoids
    <3>7. s.found = FALSE \/ s.found = TRUE
      BY <1>1
    <3>8. QED
      BY <3>4, <3>5, <3>6, <3>7 DEF t
  <2>4. QED
    BY <2>2, <2>3
<1>4. QED
  BY <1>2, <1>3

LEMMA SearchResult ==
  ASSUME NEW g \in Genome, NEW start \in Nat, NEW end \in Nat
  PROVE  /\ Search(g, start, end) \in SearchState
         /\ Finds(g, start, end, Search(g, start, end)) /\ Misses(g, start, end, Search(g, start, end))
<1> DEFINE N == Len(g.nodes) * Len(g.nodes)
           B == [todo |-> <<start>>, found |-> FALSE]
           F == [k \in 1..N |-> [s \in SearchState |-> Visit(g, end, s)]]
           visited == CHOOSE f : f = [k \in 0..N |-> IF k = 0 THEN B ELSE Visit(g, end, f[k - 1])]
<1>1. N \in Nat
  <2>1. Len(g.nodes) \in Nat
    BY LenProperties DEF Genome
  <2>2. QED
    BY <2>1
<1>2. B \in SearchState /\ B.todo = <<start>> /\ B.found = FALSE /\ ToSet(B.todo) = {start}
  BY DEF SearchState, ToSet
<1>3. PICK w \in [0..N -> SearchState] : Steps(B, F, N, w)
  <2>1. F \in [1..N -> [SearchState -> SearchState]]
    <3> HIDE DEF N
    <3>1. QED
      BY VisitIs
  <2> HIDE DEF F, N, B
  <2>2. CanStep(SearchState, B, F, N)
    BY <1>1, <1>2, <2>1, StepsExist
  <2>3. QED
    BY <2>2 DEF CanStep
<1>4. w = [k \in 0..N |-> IF k = 0 THEN B ELSE Visit(g, end, w[k - 1])]
  <2>1. ASSUME NEW k \in 0..N, k # 0
        PROVE  F[k][w[k - 1]] = Visit(g, end, w[k - 1])
    <3>1. k \in 1..N /\ k - 1 \in 0..N
      BY <1>1, <2>1
    <3>2. w[k - 1] \in SearchState
      BY <3>1
    <3> HIDE DEF N
    <3>3. QED
      BY <3>1, <3>2
  <2> HIDE DEF F, N, B
  <2>2. QED
    BY <1>3, <2>1 DEF Steps
<1>5. visited = [k \in 0..N |-> IF k = 0 THEN B ELSE Visit(g, end, visited[k - 1])]
  <2> HIDE DEF N, B
  <2>1. QED
    BY <1>4
<1>6. Search(g, start, end) = visited[N]
  BY DEF Search
<1> HIDE DEF visited, B
<1>7. visited[0] = B /\ \A k \in 1..N : visited[k] = Visit(g, end, visited[k - 1])
  <2>1. 0 \in 0..N /\ \A k \in 1..N : k \in 0..N /\ k # 0
    BY <1>1
  <2> HIDE DEF N
  <2>2. QED
    BY <1>5, <2>1
<1> HIDE DEF F
<1> DEFINE T == {k \in 0..N : visited[k] \in SearchState}
<1>8. T = 0..N
  <2>1. 0 \in T
    BY <1>1, <1>2, <1>7
  <2>2. ASSUME NEW k \in 1..N, k - 1 \in T
        PROVE  k \in T
    <3>1. k \in 0..N /\ visited[k - 1] \in SearchState
      BY <1>1, <2>2
    <3>2. QED
      BY <1>7, <3>1, VisitIs
  <2>3. T \in SUBSET (0..N)
    OBVIOUS
  <2> HIDE DEF T, N
  <2>4. QED
    BY <1>1, <2>1, <2>2, <2>3, PassedOn
<1>9. \A k \in 0..N : visited[k] \in SearchState
  <2> HIDE DEF N
  <2>1. QED
    BY <1>8
<1> HIDE DEF T
<1>10. N \in 0..N /\ 0 \in 0..N /\ \A k \in 1..N : k \in 0..N /\ k - 1 \in 0..N
  BY <1>1
<1> HIDE DEF N
<1>11. ASSUME NEW S, start \in S, Within(g, S), visited[N].found
       PROVE  end \in S
  <2> DEFINE P == {k \in 0..N : ToSet(visited[k].todo) \subseteq S /\ (visited[k].found => end \in S)}
  <2>1. 0 \in P
    BY <1>2, <1>7, <1>10, <1>11
  <2>2. ASSUME NEW k \in 1..N, k - 1 \in P
        PROVE  k \in P
    <3>1. visited[k - 1] \in SearchState /\ visited[k] = Visit(g, end, visited[k - 1]) /\ k \in 0..N
      BY <1>7, <1>9, <1>10
    <3>2. QED
      BY <1>11, <2>2, <3>1, VisitIs
  <2>3. P \in SUBSET (0..N)
    OBVIOUS
  <2>4. P = 0..N
    <3> HIDE DEF P
    <3>1. QED
      BY <1>1, <2>1, <2>2, <2>3, PassedOn
  <2>5. N \in P
    <3> HIDE DEF P
    <3>1. QED
      BY <1>10, <2>4
  <2>6. QED
    BY <1>11, <2>5
<1>12. ASSUME ~visited[N].found, visited[N].todo = <<>>
       PROVE  \E S : start \in S /\ Within(g, S) /\ end \notin S
  <2> DEFINE Leads(s) == ~s.found /\ \E S : Avoids(g, end, s, S)
             P == {k \in 0..N : Leads(visited[N - k])}
  <2>1. Leads(visited[N])
    <3>1. ToSet(visited[N].todo) = {}
      BY <1>12 DEF ToSet
    <3>2. Avoids(g, end, visited[N], {})
      BY <3>1 DEF Avoids, Within
    <3>3. QED
      BY <1>12, <3>2
  <2>2. ASSUME NEW k \in 1..N, Leads(visited[N - (k - 1)])
        PROVE  Leads(visited[N - k])
    <3>1. N - k \in 0..N /\ N - (k - 1) \in 1..N /\ (N - (k - 1)) - 1 = N - k
      BY <1>1
    <3>2. PICK s \in SearchState : s = visited[N - k]
      BY <1>9, <3>1
    <3>3. visited[N - (k - 1)] = Visit(g, end, s)
      BY <1>7, <3>1, <3>2
    <3>4. ~Visit(g, end, s).found /\ \E S : Avoids(g, end, Visit(g, end, s), S)
      BY <2>2, <3>3
    <3>5. Leads(s)
      BY <3>4, VisitIs
    <3> HIDE DEF Leads
    <3>6. QED
      BY <3>2, <3>5
  <2> HIDE DEF Leads
  <2>3. 0 \in P
    <3>1. N - 0 = N
      BY <1>1
    <3>2. QED
      BY <1>10, <2>1, <3>1
  <2>4. \A k \in 1..N : k - 1 \in P => k \in P
    BY <1>10, <2>2
  <2>5. P \in SUBSET (0..N)
    OBVIOUS
  <2>6. P = 0..N
    <3> HIDE DEF P
    <3>1. QED
      BY <1>1, <2>3, <2>4, <2>5, PassedOn
  <2>7. N \in P
    <3> HIDE DEF P
    <3>1. QED
      BY <1>10, <2>6
  <2>8. Leads(B)
    <3>1. N - N = 0
      BY <1>1
    <3>2. QED
      BY <1>7, <2>7, <3>1
  <2>9. PICK S : Avoids(g, end, B, S)
    BY <2>8 DEF Leads
  <2>10. QED
    BY <1>2, <2>9 DEF Avoids
<1>13. QED
  BY <1>6, <1>9, <1>10, <1>11, <1>12 DEF Finds, Misses

LinkStep(g, in, out, recur, v) ==
  /\ in \in ToSet(g.nodes) /\ out \in ToSet(g.nodes) /\ recur = is_recur(g, in, out).found
  /\ gaveup' = (gaveup \/ is_recur(g, in, out).todo # <<>>)
  /\ out \notin Sensors /\ \A x \in ToSet(g.genes) : Link(x) # <<in, out, recur>>
  /\ Born(LinkBaby(g, in, out, recur, v.num))
  /\ KnownOrNovel(innovations, in, out, recur, cur_innov_num, v, innovations', cur_innov_num')
  /\ mistaken' = (mistaken \/ \E h \in genomes : \E x \in ToSet(h.genes) : x.num = v.num /\ x.recur # recur)
  /\ UNCHANGED <<cur_node_id, first_innov_num, reenabled, crossed>>
LEMMA AddLinkIs ==
  ASSUME AddLink, cur_innov_num \in Nat
  PROVE  \E g \in genomes : \E in, out, recur, v : LinkStep(g, in, out, recur, v)
<1> DEFINE Body(g, in, out, search, recur) ==
             LET known == {v \in innovations : SameLink(v, in, out, recur)}
                 v     == IF known = {} THEN NewLink(in, out, cur_innov_num) ELSE CHOOSE w \in known : TRUE
             IN  /\ out \notin Sensors
                 /\ \A x \in Genes(g) : Link(x) # <<in, out, recur>>
                 /\ Born([g EXCEPT !.genes = add_gene(@, Gene(in, out, recur, v.num))])
                 /\ innovations' = innovations \cup {v}
                 /\ cur_innov_num' = cur_innov_num + (IF known = {} THEN 1 ELSE 0)
                 /\ mistaken' = (mistaken \/ \E h \in genomes : \E x \in Genes(h) : x.num = v.num /\ x.recur # recur)
                 /\ gaveup' = (gaveup \/ search.todo # <<>>)
                 /\ UNCHANGED <<cur_node_id, first_innov_num, reenabled, crossed>>
<1>0. PICK g \in genomes : \E in, out \in ToSet(g.nodes) :
                               Body(g, in, out, is_recur(g, in, out), is_recur(g, in, out).found)
  BY Zenon DEF AddLink
<1>1. PICK in, out, search, recur :
        /\ in \in ToSet(g.nodes) /\ out \in ToSet(g.nodes)
        /\ search = is_recur(g, in, out) /\ recur = search.found /\ Body(g, in, out, search, recur)
  <2> HIDE DEF Body
  <2>1. QED
    BY <1>0
<1>2. PICK known : known = {v \in innovations : SameLink(v, in, out, recur)}
  OBVIOUS
<1>3. PICK v : v = IF known = {} THEN NewLink(in, out, cur_innov_num) ELSE CHOOSE w \in known : TRUE
  OBVIOUS
<1>4. /\ out \notin Sensors
      /\ \A x \in Genes(g) : Link(x) # <<in, out, recur>>
      /\ Born([g EXCEPT !.genes = add_gene(@, Gene(in, out, recur, v.num))])
      /\ innovations' = innovations \cup {v}
      /\ cur_innov_num' = cur_innov_num + (IF known = {} THEN 1 ELSE 0)
      /\ mistaken' = (mistaken \/ \E h \in genomes : \E x \in Genes(h) : x.num = v.num /\ x.recur # recur)
      /\ gaveup' = (gaveup \/ search.todo # <<>>)
      /\ UNCHANGED <<cur_node_id, first_innov_num, reenabled, crossed>>
  BY <1>1, <1>2, <1>3, Zenon
<1>5. KnownOrNovel(innovations, in, out, recur, cur_innov_num, v, innovations', cur_innov_num')
  <2>1. KnownOrNovel(innovations, in, out, recur, cur_innov_num, v, innovations \cup {v},
                     cur_innov_num + (IF known = {} THEN 1 ELSE 0))
    BY <1>2, <1>3, LinkNumbered
  <2>2. QED
    BY <1>4, <2>1
<1>6. Born(LinkBaby(g, in, out, recur, v.num))
  BY <1>4, Zenon DEF LinkBaby
<1>7. /\ out \notin Sensors /\ \A x \in ToSet(g.genes) : Link(x) # <<in, out, recur>>
      /\ mistaken' = (mistaken \/ \E h \in genomes : \E x \in ToSet(h.genes) : x.num = v.num /\ x.recur # recur)
      /\ gaveup' = (gaveup \/ search.todo # <<>>)
      /\ UNCHANGED <<cur_node_id, first_innov_num, reenabled, crossed>>
  BY <1>4, Zenon DEF Genes
<1>8. LinkStep(g, in, out, recur, v)
  BY <1>1, <1>5, <1>6, <1>7, Zenon DEF LinkStep
<1>9. QED
  BY <1>8

LEMMA AddLinkTyped ==
  ASSUME TypeOK, AddLink
  PROVE  TypeOK'
<1>1. PICK g \in genomes : \E in, out, recur, v : LinkStep(g, in, out, recur, v)
  BY AddLinkIs DEF TypeOK
<1>2. PICK in, out, recur, v : LinkStep(g, in, out, recur, v)
  BY <1>1
<1>3. g \in Genome /\ Before(g.genes, cur_innov_num)
  BY DEF TypeOK, Below
<1>4. cur_innov_num \in Nat /\ cur_node_id \in Nat /\ Numbered(innovations, cur_innov_num)
  BY DEF TypeOK, Numbered
<1>5. /\ in \in ToSet(g.nodes) /\ out \in ToSet(g.nodes) /\ recur \in BOOLEAN
      /\ KnownOrNovel(innovations, in, out, recur, cur_innov_num, v, innovations', cur_innov_num')
  <2>1. \A n \in ToSet(g.nodes) : n \in Nat
    BY <1>3, LenProperties, ElementOfSeq DEF Genome, ToSet
  <2>2. in \in ToSet(g.nodes) /\ out \in ToSet(g.nodes) /\ recur = is_recur(g, in, out).found
    BY <1>2 DEF LinkStep
  <2>3. recur \in BOOLEAN
    BY <1>3, <2>1, <2>2, SearchResult DEF is_recur, SearchState
  <2>4. QED
    BY <1>2, <2>2, <2>3 DEF LinkStep
<1> DEFINE b == LinkBaby(g, in, out, recur, v.num)
<1>6. LinkTyped(g, innovations, in, out, recur, cur_innov_num, v, innovations', cur_innov_num', b)
  BY <1>3, <1>4, <1>5, LinkStepTyped
<1>7. /\ Born(b) /\ cur_node_id' = cur_node_id /\ first_innov_num' = first_innov_num
      /\ mistaken' \in BOOLEAN /\ reenabled' \in BOOLEAN /\ crossed' \in BOOLEAN /\ gaveup' \in BOOLEAN
  BY <1>2 DEF LinkStep, TypeOK
<1> HIDE DEF b
<1>8. /\ b \in Genome /\ Before(b.genes, cur_innov_num') /\ Numbered(innovations', cur_innov_num')
      /\ cur_innov_num' \in Nat /\ cur_innov_num <= cur_innov_num'
  BY <1>6 DEF LinkTyped, Linked
<1>9. QED
  BY <1>4, <1>7, <1>8, BornTyped

SensorsLinked(g, sensor, outputs, s) ==
  /\ sensor \in Sensors /\ sensor \in ToSet(g.nodes)
  /\ outputs \in Seq(Nat) /\ ToSet(outputs) = ToSet(g.nodes) \cap Outputs
  /\ s = Connected([genes |-> g.genes, innovations |-> innovations, num |-> cur_innov_num], sensor, outputs)
  /\ Born(Grown(g, s)) /\ innovations' = s.innovations /\ cur_innov_num' = s.num
  /\ UNCHANGED <<cur_node_id, history>>
LEMMA AddSensorIs ==
  ASSUME TypeOK, AddSensor
  PROVE  \E g \in genomes : \E sensor, outputs, s : SensorsLinked(g, sensor, outputs, s)
<1>1. PICK g \in genomes : \E sensor \in OpenSensors(g) :
        LET outputs == Nodes(ToSet(g.nodes) \cap Outputs)
            s == FoldLeft(LAMBDA t, output : ConnectSensor(t, sensor, output),
                          [genes |-> g.genes, innovations |-> innovations, num |-> cur_innov_num], outputs)
        IN  /\ Born([g EXCEPT !.genes = s.genes])
            /\ innovations' = s.innovations
            /\ cur_innov_num' = s.num
            /\ UNCHANGED <<cur_node_id, history>>
  BY Zenon DEF AddSensor
<1>2. PICK sensor \in OpenSensors(g) :
        LET outputs == Nodes(ToSet(g.nodes) \cap Outputs)
            s == FoldLeft(LAMBDA t, output : ConnectSensor(t, sensor, output),
                          [genes |-> g.genes, innovations |-> innovations, num |-> cur_innov_num], outputs)
        IN  /\ Born([g EXCEPT !.genes = s.genes])
            /\ innovations' = s.innovations
            /\ cur_innov_num' = s.num
            /\ UNCHANGED <<cur_node_id, history>>
  BY <1>1, Zenon
<1>3. PICK outputs : outputs = Nodes(ToSet(g.nodes) \cap Outputs)
  OBVIOUS
<1>4. PICK s : s = Connected([genes |-> g.genes, innovations |-> innovations, num |-> cur_innov_num], sensor, outputs)
  OBVIOUS
<1>5. /\ Born([g EXCEPT !.genes = s.genes]) /\ innovations' = s.innovations /\ cur_innov_num' = s.num
      /\ UNCHANGED <<cur_node_id, history>>
  BY <1>2, <1>3, <1>4, Zenon DEF Connected
<1>6. g \in Genome /\ g.nodes \in Seq(Nat)
  BY DEF TypeOK, Genome
<1>7. [g EXCEPT !.genes = s.genes] = Grown(g, s)
  <2>1. PICK new : new = s.genes
    OBVIOUS
  <2>2. [g EXCEPT !.genes = new] = [nodes |-> g.nodes, genes |-> new]
    BY <1>6 DEF Genome
  <2>3. QED
    BY <2>1, <2>2 DEF Grown
<1>8. ASSUME NEW S, IsFiniteSet(S), S \subseteq Nat
      PROVE  Nodes(ToSet(g.nodes) \cap S) \in Seq(Nat) /\ ToSet(Nodes(ToSet(g.nodes) \cap S)) = ToSet(g.nodes) \cap S
  <2>1. ToSet(g.nodes) \cap S \in SUBSET Nat /\ IsFiniteSet(ToSet(g.nodes) \cap S)
    BY <1>8, FS_Subset
  <2>2. QED
    BY <2>1, NodesInOrder
<1>9. sensor \in ToSet(Nodes(ToSet(g.nodes) \cap Sensors))
  <2>1. PICK sensors : sensors = Nodes(ToSet(g.nodes) \cap Sensors)
    OBVIOUS
  <2>2. sensor \in {sensors[k] : k \in {j \in DOMAIN sensors : j % 2 = 0}} \/ sensor \in ToSet(sensors)
    BY <2>1 DEF OpenSensors
  <2>3. sensor \in ToSet(sensors)
    BY <2>2 DEF ToSet
  <2>4. QED
    BY <2>1, <2>3
<1>10. sensor \in Sensors /\ sensor \in ToSet(g.nodes) /\ outputs \in Seq(Nat) /\ ToSet(outputs) = ToSet(g.nodes) \cap Outputs
  BY <1>3, <1>8, <1>9, GenomeAssumption
<1>11. SensorsLinked(g, sensor, outputs, s)
  BY <1>4, <1>5, <1>7, <1>10 DEF SensorsLinked
<1>12. QED
  BY <1>11

LEMMA AddSensorTyped ==
  ASSUME TypeOK, AddSensor
  PROVE  TypeOK'
<1>1. PICK g \in genomes : \E sensor, outputs, s : SensorsLinked(g, sensor, outputs, s)
  BY AddSensorIs
<1>2. PICK sensor, outputs, s : SensorsLinked(g, sensor, outputs, s)
  BY <1>1
<1>3. g \in Genome /\ Before(g.genes, cur_innov_num) /\ g.nodes \in Seq(Nat)
  BY DEF TypeOK, Below, Genome
<1>4. /\ cur_innov_num \in Nat /\ cur_node_id \in Nat /\ Numbered(innovations, cur_innov_num)
      /\ innovations \in SUBSET Innovation
  BY DEF TypeOK, Numbered
<1>5. /\ sensor \in ToSet(g.nodes) /\ outputs \in Seq(Nat) /\ ToSet(outputs) \subseteq ToSet(g.nodes)
      /\ s = Connected([genes |-> g.genes, innovations |-> innovations, num |-> cur_innov_num], sensor, outputs)
  BY <1>2 DEF SensorsLinked
<1>6. SensorTyped(cur_innov_num, s)
  BY <1>3, <1>4, <1>5, SensorBaby
<1>7. s.genes \in Seq(GeneType) /\ s.num \in Nat
  BY <1>6 DEF SensorTyped, SensorState
<1>8. /\ Grown(g, s) \in Genome /\ Grown(g, s).genes = s.genes
  BY <1>3, <1>7 DEF Grown, Genome
<1>9. /\ Born(Grown(g, s)) /\ innovations' = s.innovations /\ cur_innov_num' = s.num /\ cur_node_id' = cur_node_id
      /\ first_innov_num' = first_innov_num
      /\ mistaken' \in BOOLEAN /\ reenabled' \in BOOLEAN /\ crossed' \in BOOLEAN /\ gaveup' \in BOOLEAN
  BY <1>2 DEF SensorsLinked, history, TypeOK
<1>10. /\ Before(Grown(g, s).genes, cur_innov_num') /\ Numbered(innovations', cur_innov_num')
       /\ cur_innov_num' \in Nat /\ cur_innov_num <= cur_innov_num'
  BY <1>6, <1>7, <1>8, <1>9 DEF SensorTyped
<1>11. QED
  BY <1>4, <1>8, <1>9, <1>10, BornTyped

(* A gene is enabled or disabled. *)
Flips(g, i, e) ==
  /\ i \in DOMAIN g.genes /\ e \in BOOLEAN /\ Born(FlagBaby(g, i, e))
  /\ e => reenabled'
  /\ reenabled => reenabled'
  /\ reenabled' \in BOOLEAN
  /\ UNCHANGED <<innovations, cur_node_id, cur_innov_num, first_innov_num, mistaken, crossed, gaveup>>
LEMMA FlipIs ==
  ASSUME TypeOK, ToggleEnable \/ GeneReenable
  PROVE  \E g \in genomes : \E i, e : Flips(g, i, e)
<1>1. CASE ToggleEnable
  <2>0. PICK g \in genomes : \E i \in DOMAIN g.genes :
               /\ Born([g EXCEPT !.genes[i].enable = ~@])
               /\ reenabled' = (reenabled \/ ~g.genes[i].enable)
               /\ UNCHANGED <<innovations, cur_node_id, cur_innov_num, first_innov_num, mistaken, crossed, gaveup>>
    BY <1>1, Zenon DEF ToggleEnable
  <2>1. PICK i \in DOMAIN g.genes :
               /\ Born([g EXCEPT !.genes[i].enable = ~@])
               /\ reenabled' = (reenabled \/ ~g.genes[i].enable)
               /\ UNCHANGED <<innovations, cur_node_id, cur_innov_num, first_innov_num, mistaken, crossed, gaveup>>
    BY <2>0
  <2>2. g.genes[i] \in GeneType /\ g.genes[i].enable \in BOOLEAN
    <3>1. g.genes \in Seq(GeneType)
      BY DEF TypeOK, Genome
    <3>2. g.genes[i] \in GeneType
      BY <3>1
    <3>3. QED
      BY <3>2 DEF GeneType
  <2>3. PICK e \in BOOLEAN : e = ~g.genes[i].enable
    BY <2>2
  <2>4. Born(FlagBaby(g, i, e))
    <3>1. FlagBaby(g, i, e) = [g EXCEPT !.genes[i].enable = ~@]
      BY <2>3, Zenon DEF FlagBaby
    <3>2. QED
      BY <2>1, <3>1
  <2>5. Flips(g, i, e)
    BY <2>1, <2>2, <2>3, <2>4 DEF Flips, TypeOK
  <2>6. QED
    BY <2>5
<1>2. CASE GeneReenable
  <2>0. PICK g \in genomes : \E i \in DOMAIN g.genes :
               /\ Born([g EXCEPT !.genes[i].enable = TRUE]) /\ reenabled' = TRUE
               /\ UNCHANGED <<innovations, cur_node_id, cur_innov_num, first_innov_num, mistaken, crossed, gaveup>>
    BY <1>2, Zenon DEF GeneReenable
  <2>1. PICK i \in DOMAIN g.genes :
               /\ Born([g EXCEPT !.genes[i].enable = TRUE]) /\ reenabled' = TRUE
               /\ UNCHANGED <<innovations, cur_node_id, cur_innov_num, first_innov_num, mistaken, crossed, gaveup>>
    BY <2>0
  <2>2. Born(FlagBaby(g, i, TRUE))
    BY <2>1, Zenon DEF FlagBaby
  <2>3. Flips(g, i, TRUE)
    BY <2>1, <2>2 DEF Flips
  <2>4. QED
    BY <2>3
<1>3. QED
  BY <1>1, <1>2

LEMMA FlipTyped ==
  ASSUME TypeOK, ToggleEnable \/ GeneReenable
  PROVE  TypeOK'
<1>1. PICK g \in genomes : \E i, e : Flips(g, i, e)
  BY FlipIs
<1>2. PICK i, e : Flips(g, i, e)
  BY <1>1
<1>3. g \in Genome /\ Before(g.genes, cur_innov_num)
  BY DEF TypeOK, Below
<1>4. cur_innov_num \in Nat /\ cur_node_id \in Nat /\ Numbered(innovations, cur_innov_num)
  BY DEF TypeOK, Numbered
<1> DEFINE b == FlagBaby(g, i, e)
<1>5. b \in Genome /\ Flagged(g.genes, i, e, b.genes)
  BY <1>2, <1>3, FlagBabyIs DEF Flips
<1>6. /\ Born(b) /\ innovations' = innovations /\ cur_node_id' = cur_node_id /\ cur_innov_num' = cur_innov_num
      /\ first_innov_num' = first_innov_num
      /\ mistaken' \in BOOLEAN /\ reenabled' \in BOOLEAN /\ crossed' \in BOOLEAN /\ gaveup' \in BOOLEAN
  BY <1>2 DEF Flips, TypeOK
<1> HIDE DEF b
<1>7. Before(b.genes, cur_innov_num)
  BY <1>3, <1>5 DEF Flagged, Before, ToSet
<1>8. QED
  BY <1>4, <1>5, <1>6, <1>7, BornTyped

(* Two genomes are mated. *)
LEMMA FiniteNodes ==
  ASSUME NEW genes \in Seq(GeneType)
  PROVE  IsFiniteSet(NodesOf(genes)) /\ NodesOf(genes) \in SUBSET Nat
<1>1. DOMAIN genes = 1..Len(genes) /\ Len(genes) \in Nat /\ \A k \in DOMAIN genes : genes[k] \in GeneType
  BY LenProperties, ElementOfSeq
<1>2. IsFiniteSet(DOMAIN genes)
  BY <1>1, FS_Interval
<1>3. IsFiniteSet({x.in : x \in ToSet(genes)})
  <2> DEFINE T == {x.in : x \in ToSet(genes)}
             f == [k \in DOMAIN genes |-> genes[k].in]
  <2>1. f \in Surjection(DOMAIN genes, T)
    BY DEF Surjection, ToSet
  <2> HIDE DEF f, T
  <2>2. IsFiniteSet(T)
    BY <1>2, <2>1, FS_Surjection
  <2>3. QED
    BY <2>2 DEF T
<1>4. IsFiniteSet({x.out : x \in ToSet(genes)})
  <2> DEFINE T == {x.out : x \in ToSet(genes)}
             f == [k \in DOMAIN genes |-> genes[k].out]
  <2>1. f \in Surjection(DOMAIN genes, T)
    BY DEF Surjection, ToSet
  <2> HIDE DEF f, T
  <2>2. IsFiniteSet(T)
    BY <1>2, <2>1, FS_Surjection
  <2>3. QED
    BY <2>2 DEF T
<1>5. IsFiniteSet(NodesOf(genes))
  BY <1>3, <1>4, FS_Union DEF NodesOf
<1>6. \A x \in ToSet(genes) : x.in \in Nat /\ x.out \in Nat
  BY <1>1 DEF ToSet, GeneType
<1>7. QED
  BY <1>5, <1>6 DEF NodesOf

Mating(p1, p2, genes, S) ==
  /\ Baby(p1, p2, genes) /\ S \in SUBSET Nat /\ IsFiniteSet(S)
  /\ NodesOf(genes) \subseteq S /\ S \subseteq NodesOf(genes) \cup Sensors \cup Outputs
  /\ Born([nodes |-> Nodes(S), genes |-> genes])
  /\ reenabled' = (reenabled \/ Reenabled(genes, p1, p2))
  /\ crossed' \in BOOLEAN
  /\ UNCHANGED <<innovations, cur_node_id, cur_innov_num, first_innov_num, mistaken, gaveup>>
MatingBoth(mom, dad, b, genes) ==
  /\ b \in BOOLEAN /\ Mating(mom.genes, dad.genes, genes, BabyNodes(dad, genes))
  /\ TookBetter(mom.genes, dad.genes, b, genes) /\ crossed' = crossed

LEMMA MateMultipointIs ==
  ASSUME TypeOK, MateMultipoint
  PROVE  \E mom, dad \in genomes : \E b, genes : MatingBoth(mom, dad, b, genes)
<1>1. PICK mom \in genomes, dad \in genomes, b \in BOOLEAN, avg \in BOOLEAN :
        \E genes \in Multipoint(mom.genes, dad.genes, b, avg) :
          /\ Born([nodes |-> Nodes(BabyNodes(dad, genes)), genes |-> genes])
          /\ reenabled' = (reenabled \/ Reenabled(genes, mom.genes, dad.genes))
          /\ UNCHANGED <<innovations, cur_node_id, cur_innov_num, first_innov_num, mistaken, crossed, gaveup>>
  BY Zenon DEF MateMultipoint
<1>2. PICK genes \in Multipoint(mom.genes, dad.genes, b, avg) :
          /\ Born([nodes |-> Nodes(BabyNodes(dad, genes)), genes |-> genes])
          /\ reenabled' = (reenabled \/ Reenabled(genes, mom.genes, dad.genes))
          /\ UNCHANGED <<innovations, cur_node_id, cur_innov_num, first_innov_num, mistaken, crossed, gaveup>>
  BY <1>1
<1>3. /\ mom.genes \in Seq(GeneType) /\ dad.genes \in Seq(GeneType) /\ Below(mom.genes) /\ Below(dad.genes)
      /\ cur_innov_num \in Nat /\ dad.nodes \in Seq(Nat) /\ crossed \in BOOLEAN
  BY DEF TypeOK, Genome
<1>4. Baby(mom.genes, dad.genes, genes) /\ TookBetter(mom.genes, dad.genes, b, genes)
  BY <1>3, MultipointGenes
<1>5. genes \in Seq(GeneType)
  BY <1>4 DEF Baby
<1>6. IsFiniteSet(Sensors \cup Outputs) /\ Sensors \cup Outputs \subseteq Nat
  BY GenomeAssumption, FS_Union
<1> DEFINE S == BabyNodes(dad, genes)
<1>7. /\ S \in SUBSET Nat /\ IsFiniteSet(S)
      /\ NodesOf(genes) \subseteq S /\ S \subseteq NodesOf(genes) \cup Sensors \cup Outputs
  <2>1. IsFiniteSet(NodesOf(genes)) /\ NodesOf(genes) \in SUBSET Nat
    BY <1>5, FiniteNodes
  <2>2. IsFiniteSet(ToSet(dad.nodes) \cap (Sensors \cup Outputs))
    BY <1>6, FS_Subset
  <2>3. IsFiniteSet(S)
    BY <2>1, <2>2, FS_Union DEF BabyNodes
  <2>4. QED
    BY <1>6, <2>1, <2>3 DEF BabyNodes
<1> HIDE DEF S
<1>8. Mating(mom.genes, dad.genes, genes, S)
  BY <1>2, <1>3, <1>4, <1>7 DEF Mating, S
<1>9. MatingBoth(mom, dad, b, genes)
  BY <1>2, <1>4, <1>8 DEF MatingBoth, S
<1>10. QED
  BY <1>9

LEMMA MateSinglepointIs ==
  ASSUME TypeOK, MateSinglepoint
  PROVE  crossed' = TRUE /\ \E mom, dad \in genomes : \E genes : Mating(mom.genes, dad.genes, genes, NodesOf(genes))
<1> DEFINE Body(p1, p2, genes) ==
             /\ Born([nodes |-> Nodes(NodesOf(genes)), genes |-> genes])
             /\ reenabled' = (reenabled \/ Reenabled(genes, p1, p2))
             /\ crossed' = TRUE
             /\ UNCHANGED <<innovations, cur_node_id, cur_innov_num, first_innov_num, mistaken, gaveup>>
<1>1. PICK mom \in genomes, dad \in genomes :
        LET momFirst == Len(mom.genes) < Len(dad.genes)
            p1 == IF momFirst THEN mom.genes ELSE dad.genes
            p2 == IF momFirst THEN dad.genes ELSE mom.genes
        IN  \E crosspoint \in 0..Len(p1) - 1 : \E genes \in Singlepoint(p1, p2, crosspoint) : Body(p1, p2, genes)
  BY Zenon DEF MateSinglepoint
<1>2. PICK g \in genomes, h \in genomes :
        \E crosspoint \in 0..Len(g.genes) - 1 : \E genes \in Singlepoint(g.genes, h.genes, crosspoint) :
          Body(g.genes, h.genes, genes)
  <2> HIDE DEF Body
  <2>1. CASE Len(mom.genes) < Len(dad.genes)
    BY <1>1, <2>1
  <2>2. CASE ~(Len(mom.genes) < Len(dad.genes))
    BY <1>1, <2>2
  <2>3. QED
    BY <2>1, <2>2
<1>3. PICK crosspoint \in 0..Len(g.genes) - 1 : \E genes \in Singlepoint(g.genes, h.genes, crosspoint) :
        Body(g.genes, h.genes, genes)
  <2> HIDE DEF Body
  <2>1. QED
    BY <1>2
<1>4. PICK genes \in Singlepoint(g.genes, h.genes, crosspoint) : Body(g.genes, h.genes, genes)
  BY <1>3
<1>5. /\ g.genes \in Seq(GeneType) /\ h.genes \in Seq(GeneType) /\ Below(g.genes) /\ Below(h.genes)
      /\ cur_innov_num \in Nat
  BY DEF TypeOK, Genome
<1>6. crosspoint \in Int
  OBVIOUS
<1>7. Baby(g.genes, h.genes, genes)
  BY <1>5, <1>6, SinglepointGenes
<1>8. genes \in Seq(GeneType)
  BY <1>7 DEF Baby
<1>9. IsFiniteSet(NodesOf(genes)) /\ NodesOf(genes) \in SUBSET Nat
  BY <1>8, FiniteNodes
<1>10. Mating(g.genes, h.genes, genes, NodesOf(genes))
  BY <1>4, <1>7, <1>9 DEF Mating
<1>11. QED
  BY <1>4, <1>10

LEMMA MatingTyped ==
  ASSUME TypeOK, NEW mom \in genomes, NEW dad \in genomes, NEW genes, NEW S, Mating(mom.genes, dad.genes, genes, S)
  PROVE  TypeOK'
<1>1. /\ genes \in Seq(GeneType) /\ Before(genes, cur_innov_num) /\ Nodes(S) \in Seq(Nat)
  BY NodesInOrder DEF Mating, Baby, Kept, Below
<1> DEFINE b == [nodes |-> Nodes(S), genes |-> genes]
<1>2. b \in Genome /\ b.genes = genes
  BY <1>1 DEF Genome
<1>3. /\ Born(b) /\ innovations' = innovations /\ cur_node_id' = cur_node_id /\ cur_innov_num' = cur_innov_num
      /\ first_innov_num' = first_innov_num
      /\ mistaken' \in BOOLEAN /\ reenabled' \in BOOLEAN /\ crossed' \in BOOLEAN /\ gaveup' \in BOOLEAN
  <2>1. Reenabled(genes, mom.genes, dad.genes) \in BOOLEAN
    BY DEF Reenabled
  <2>2. QED
    BY <2>1 DEF Mating, TypeOK
<1>4. cur_innov_num \in Nat /\ cur_node_id \in Nat /\ Numbered(innovations, cur_innov_num)
  BY DEF TypeOK, Numbered
<1> HIDE DEF b
<1>5. QED
  BY <1>1, <1>2, <1>3, <1>4, BornTyped

LEMMA EpochTyped ==
  ASSUME TypeOK, Epoch
  PROVE  TypeOK'
<1>1. /\ genomes' \subseteq genomes /\ innovations' = {} /\ first_innov_num' = cur_innov_num
      /\ UNCHANGED <<cur_node_id, cur_innov_num, births, mistaken, reenabled, crossed, gaveup>>
  BY DEF Epoch
<1>2. QED
  BY <1>1 DEF TypeOK, Below

(* The starter genome: a gene for each of its links, numbered from 1. *)
StarterGenes(genes) ==
  /\ genes \in Seq(GeneType) /\ DOMAIN genes = DOMAIN StarterLinks /\ Len(genes) = Len(StarterLinks)
  /\ \A k \in DOMAIN genes :
       /\ StarterLinks[k][1] \in Sensors /\ StarterLinks[k][2] \in Outputs
       /\ genes[k].in = StarterLinks[k][1] /\ genes[k].out = StarterLinks[k][2]
       /\ genes[k].recur = FALSE /\ genes[k].num = k /\ genes[k].enable = TRUE
LEMMA StarterIs ==
  /\ Starter \in Genome /\ StarterGenes(Starter.genes)
  /\ ToSet(Starter.nodes) = Sensors \cup Outputs /\ Ascending(Starter.nodes)
<1> DEFINE genes == [k \in 1..Len(StarterLinks) |-> Gene(StarterLinks[k][1], StarterLinks[k][2], FALSE, k)]
           nodes == Nodes(Sensors \cup Outputs)
<1>1. StarterLinks \in Seq(Sensors \X Outputs) /\ Len(StarterLinks) \in Nat /\ DOMAIN StarterLinks = 1..Len(StarterLinks)
  BY GenomeAssumption, LenProperties
<1>2. ASSUME NEW k \in DOMAIN StarterLinks
      PROVE  StarterLinks[k][1] \in Sensors /\ StarterLinks[k][2] \in Outputs
  <2>1. StarterLinks[k] \in Sensors \X Outputs
    BY <1>1, ElementOfSeq
  <2>2. QED
    BY <2>1
<1>3. Sensors \subseteq Nat /\ Outputs \subseteq Nat /\ IsFiniteSet(Sensors \cup Outputs)
  BY GenomeAssumption, FS_Union
<1>4. nodes \in Seq(Nat) /\ ToSet(nodes) = Sensors \cup Outputs /\ Ascending(nodes)
  BY <1>3, NodesInOrder
<1>5. ASSUME NEW k \in DOMAIN StarterLinks
      PROVE  /\ genes[k] \in GeneType /\ genes[k].in = StarterLinks[k][1] /\ genes[k].out = StarterLinks[k][2]
             /\ genes[k].recur = FALSE /\ genes[k].num = k /\ genes[k].enable = TRUE
  <2>1. k \in Nat /\ genes[k] = Gene(StarterLinks[k][1], StarterLinks[k][2], FALSE, k)
    BY <1>1
  <2>2. StarterLinks[k][1] \in Nat /\ StarterLinks[k][2] \in Nat
    BY <1>2, <1>3
  <2>3. Gene(StarterLinks[k][1], StarterLinks[k][2], FALSE, k) \in GeneType
    BY <2>1, <2>2 DEF Gene, GeneType
  <2> HIDE DEF genes
  <2>4. QED
    BY <2>1, <2>3 DEF Gene
<1>6. genes \in Seq(GeneType) /\ DOMAIN genes = DOMAIN StarterLinks /\ Len(genes) = Len(StarterLinks)
  <2>1. DOMAIN genes = 1..Len(StarterLinks) /\ genes \in [1..Len(StarterLinks) -> GeneType]
    BY <1>1, <1>5
  <2> HIDE DEF genes
  <2>2. genes \in Seq(GeneType)
    <3>1. PICK n \in Nat : n = Len(StarterLinks)
      BY <1>1
    <3>2. genes \in [1..n -> GeneType]
      BY <2>1, <3>1
    <3>3. QED
      BY <3>2, SeqDef
  <2>3. QED
    BY <1>1, <2>1, <2>2, LenProperties
<1>7. StarterGenes(genes)
  <2> HIDE DEF genes
  <2>1. QED
    BY <1>2, <1>5, <1>6 DEF StarterGenes
<1>8. Starter = [nodes |-> nodes, genes |-> genes]
  BY DEF Starter
<1> HIDE DEF nodes, genes
<1>9. Starter \in Genome /\ Starter.nodes = nodes /\ Starter.genes = genes
  BY <1>4, <1>6, <1>8 DEF Genome
<1>10. QED
  BY <1>4, <1>7, <1>9

LEMMA InitTyped ==
  ASSUME Init
  PROVE  TypeOK
<1>1. Starter \in Genome /\ StarterGenes(Starter.genes)
  BY StarterIs
<1>2. Len(Starter.genes) \in Nat /\ DOMAIN Starter.genes = 1..Len(Starter.genes)
  BY <1>1, LenProperties DEF StarterGenes
<1>3. cur_innov_num \in Nat /\ Before(Starter.genes, cur_innov_num)
  <2>1. cur_innov_num = Len(Starter.genes) + 1
    BY DEF Init
  <2>2. \A k \in DOMAIN Starter.genes : Starter.genes[k].num < cur_innov_num
    BY <1>1, <1>2, <2>1 DEF StarterGenes
  <2>3. QED
    BY <1>2, <2>1, <2>2 DEF Before, ToSet
<1>4. cur_node_id \in Nat /\ \A n \in Sensors \cup Outputs : n < cur_node_id
  <2>1. Sensors \cup Outputs \in SUBSET Nat /\ IsFiniteSet(Sensors \cup Outputs) /\ Sensors \cup Outputs # {}
    BY GenomeAssumption, FS_Union
  <2>2. Largest(Sensors \cup Outputs) \in Sensors \cup Outputs /\ \A m \in Sensors \cup Outputs : m <= Largest(Sensors \cup Outputs)
    BY <2>1, LargestInSet
  <2>3. cur_node_id = Largest(Sensors \cup Outputs) + 1
    BY DEF Init
  <2>4. QED
    BY <2>1, <2>2, <2>3
<1>5. \A g \in genomes : g \in Genome /\ Below(g.genes)
  BY <1>1, <1>3 DEF Init, Below
<1>6. innovations = {} /\ first_innov_num = cur_innov_num /\ births = 0
      /\ mistaken = FALSE /\ reenabled = FALSE /\ crossed = FALSE /\ gaveup = FALSE
  BY DEF Init
<1>7. first_innov_num \in Nat /\ first_innov_num <= cur_innov_num /\ births \in Nat
  BY <1>3, <1>6
<1>8. \A v \in innovations : v \in Innovation /\ LastNumber(v) < cur_innov_num
  BY <1>6
<1>9. QED
  BY <1>3, <1>4, <1>5, <1>6, <1>7, <1>8 DEF TypeOK

LEMMA NextTyped ==
  ASSUME TypeOK, [Next]_vars
  PROVE  TypeOK'
<1>1. CASE AddNode
  BY <1>1, AddNodeTyped
<1>2. CASE AddLink
  BY <1>2, AddLinkTyped
<1>3. CASE AddSensor
  BY <1>3, AddSensorTyped
<1>4. CASE ToggleEnable \/ GeneReenable
  BY <1>4, FlipTyped
<1>5. CASE MateMultipoint
  <2>1. PICK mom \in genomes, dad \in genomes : \E b, genes : MatingBoth(mom, dad, b, genes)
    BY <1>5, MateMultipointIs
  <2>2. PICK b, genes : MatingBoth(mom, dad, b, genes)
    BY <2>1
  <2>3. QED
    BY <2>2, MatingTyped DEF MatingBoth
<1>6. CASE MateSinglepoint
  <2>1. PICK mom \in genomes, dad \in genomes : \E genes : Mating(mom.genes, dad.genes, genes, NodesOf(genes))
    BY <1>6, MateSinglepointIs
  <2>2. PICK genes : Mating(mom.genes, dad.genes, genes, NodesOf(genes))
    BY <2>1
  <2>3. QED
    BY <2>2, MatingTyped
<1>7. CASE Epoch
  BY <1>7, EpochTyped
<1>8. CASE UNCHANGED vars
  BY <1>8 DEF vars, history, TypeOK, Below
<1>9. QED
  BY <1>1, <1>2, <1>3, <1>4, <1>5, <1>6, <1>7, <1>8 DEF Next, Reproduce

(* Genomes are sequences of genes and nodes whose numbers were given out:  *)
(* every gene's number, and every innovation's, is below the next one of   *)
(* Population, and the node numbers go on above the starter's nodes.       *)
THEOREM TypeCorrect == Spec => []TypeOK
<1>1. Init => TypeOK
  BY InitTyped
<1>2. TypeOK /\ [Next]_vars => TypeOK'
  BY NextTyped
<1>3. QED
  BY <1>1, <1>2, PTL DEF Spec

-----------------------------------------------------------------------------
(* Nodes of the interface. *)
Interface(g) == Sensors \cup Outputs \subseteq ToSet(g.nodes)
LEMMA BornInterface ==
  ASSUME InterfaceKept, NEW b, Born(b), crossed' = crossed,
         (\A g \in genomes : Interface(g)) => Interface(b)
  PROVE  InterfaceKept'
BY DEF InterfaceKept, Interface, Born

LEMMA NextInterface ==
  ASSUME TypeOK, InterfaceKept, [Next]_vars
  PROVE  InterfaceKept'
<1>1. CASE AddNode
  <2>1. PICK g \in genomes : \E i, v : NodeStep(g, i, v)
    BY <1>1, AddNodeIs
  <2>2. PICK i, v : NodeStep(g, i, v)
    BY <2>1
  <2>3. v.node \in Nat /\ g.nodes \in Seq(Nat)
    <3>1. \A w \in innovations : w.node \in Nat
      BY DEF TypeOK, Innovation
    <3>2. NovelNode(g.genes[i]).node = cur_node_id
      BY DEF NovelNode
    <3>3. g.nodes \in Seq(Nat) /\ cur_node_id \in Nat
      BY DEF TypeOK, Genome
    <3>4. QED
      BY <2>2, <3>1, <3>2, <3>3 DEF NodeStep
  <2>4. Split(g, i, v).nodes = node_insert(g.nodes, v.node)
    BY DEF Split
  <2>5. ToSet(g.nodes) \subseteq ToSet(Split(g, i, v).nodes)
    BY <2>3, <2>4, NodeInserted
  <2>6. Born(Split(g, i, v)) /\ crossed' = crossed
    BY <2>2 DEF NodeStep
  <2>7. QED
    BY <2>5, <2>6, BornInterface DEF Interface
<1>2. CASE AddLink
  <2>1. PICK g \in genomes : \E in, out, recur, v : LinkStep(g, in, out, recur, v)
    BY <1>2, AddLinkIs DEF TypeOK
  <2>2. PICK in, out, recur, v : LinkStep(g, in, out, recur, v)
    BY <2>1
  <2>3. g \in Genome
    BY DEF TypeOK
  <2>4. LinkBaby(g, in, out, recur, v.num).nodes = g.nodes
    BY <2>3 DEF LinkBaby, Genome
  <2>5. Born(LinkBaby(g, in, out, recur, v.num)) /\ crossed' = crossed
    BY <2>2 DEF LinkStep
  <2>6. QED
    BY <2>4, <2>5, BornInterface DEF Interface
<1>3. CASE AddSensor
  <2>1. PICK g \in genomes : \E sensor, outputs, s : SensorsLinked(g, sensor, outputs, s)
    BY <1>3, AddSensorIs
  <2>2. PICK s : Born(Grown(g, s)) /\ crossed' = crossed
    BY <2>1 DEF SensorsLinked, history
  <2>3. Grown(g, s).nodes = g.nodes
    BY DEF Grown
  <2>4. QED
    BY <2>2, <2>3, BornInterface DEF Interface
<1>4. CASE ToggleEnable \/ GeneReenable
  <2>1. PICK g \in genomes : \E i, e : Flips(g, i, e)
    BY <1>4, FlipIs
  <2>2. PICK i, e : Flips(g, i, e)
    BY <2>1
  <2>3. g \in Genome
    BY DEF TypeOK
  <2>4. FlagBaby(g, i, e).nodes = g.nodes
    BY <2>2, <2>3, FlagBabyIs DEF Flips
  <2>5. Born(FlagBaby(g, i, e)) /\ crossed' = crossed
    BY <2>2 DEF Flips
  <2>6. QED
    BY <2>4, <2>5, BornInterface DEF Interface
<1>5. CASE MateMultipoint
  <2>1. PICK mom \in genomes, dad \in genomes : \E b, genes : MatingBoth(mom, dad, b, genes)
    BY <1>5, MateMultipointIs
  <2>2. PICK b, genes : MatingBoth(mom, dad, b, genes)
    BY <2>1
  <2> DEFINE S == BabyNodes(dad, genes)
  <2>3. S \in SUBSET Nat /\ IsFiniteSet(S) /\ Born([nodes |-> Nodes(S), genes |-> genes]) /\ crossed' = crossed
    BY <2>2 DEF MatingBoth, Mating
  <2>4. Interface(dad) => Sensors \cup Outputs \subseteq S
    BY DEF Interface, BabyNodes
  <2> HIDE DEF S
  <2>5. Interface(dad) => Interface([nodes |-> Nodes(S), genes |-> genes])
    <3>1. ToSet(Nodes(S)) = S
      BY <2>3, NodesInOrder
    <3>2. [nodes |-> Nodes(S), genes |-> genes].nodes = Nodes(S)
      OBVIOUS
    <3>3. QED
      BY <2>4, <3>1, <3>2 DEF Interface
  <2>6. QED
    BY <2>3, <2>5, BornInterface
<1>6. CASE MateSinglepoint
  BY <1>6, MateSinglepointIs DEF InterfaceKept
<1>7. CASE Epoch
  BY <1>7 DEF Epoch, InterfaceKept
<1>8. CASE UNCHANGED vars
  BY <1>8 DEF vars, history, InterfaceKept
<1>9. QED
  BY <1>1, <1>2, <1>3, <1>4, <1>5, <1>6, <1>7, <1>8 DEF Next, Reproduce

(* A genome has all sensors and all outputs, linked or not, as long as no  *)
(* genome was made by mate_singlepoint.                                    *)
THEOREM InterfaceKeptHolds == Spec => []InterfaceKept
<1>1. Init => InterfaceKept
  BY StarterIs DEF Init, InterfaceKept
<1>2. TypeOK /\ InterfaceKept /\ [Next]_vars => InterfaceKept'
  BY NextInterface
<1>3. QED
  BY <1>1, <1>2, TypeCorrect, PTL DEF Spec

-----------------------------------------------------------------------------
(* The book and the form of the genomes, action by action. *)
TheBook == BookOK(Book(genomes), innovations, first_innov_num, cur_innov_num, cur_node_id)

LEMMA BornMarked ==
  ASSUME TypeOK, MarkInv, ~mistaken, NEW b, Born(b), cur_node_id' \in Nat, cur_node_id <= cur_node_id',
         BookOK(Book(genomes) \cup Marks(b.genes), innovations', first_innov_num', cur_innov_num', cur_node_id'),
         Shape(b, cur_node_id')
  PROVE  MarkInv'
<1>1. genomes' = genomes \cup {b}
  BY DEF Born
<1>2. Book(genomes') = Book(genomes) \cup Marks(b.genes)
  BY <1>1, BookGrows
<1>3. ASSUME NEW g \in genomes
      PROVE  Shape(g, cur_node_id')
  <2>1. Shape(g, cur_node_id) /\ g.nodes \in Seq(Nat) /\ cur_node_id \in Nat
    BY DEF MarkInv, TypeOK, Genome
  <2>2. \A n \in ToSet(g.nodes) : n \in Nat
    BY <2>1 DEF ToSet
  <2>3. QED
    BY <2>1, <2>2 DEF Shape
<1>4. \A g \in genomes' : Shape(g, cur_node_id')
  BY <1>1, <1>3
<1>5. QED
  BY <1>2, <1>4 DEF MarkInv

LEMMA NodeStepMarked ==
  ASSUME TypeOK, MarkInv, ~mistaken, NEW g \in genomes, NEW i, NEW v, NodeStep(g, i, v), v.node \notin ToSet(g.nodes)
  PROVE  /\ MarkInv' /\ SplitOf(g, i, v, Split(g, i, v)) /\ v \in Innovation /\ SameSplit(v, g.genes[i])
         /\ Mark(g.genes[i]) \in Book(genomes) /\ g.genes[i] \in GeneType
<1>0. /\ TheBook /\ Shape(g, cur_node_id) /\ g \in Genome /\ g.nodes \in Seq(Nat) /\ g.genes \in Seq(GeneType)
      /\ Before(g.genes, cur_innov_num)
      /\ cur_node_id \in Nat /\ cur_innov_num \in Nat /\ first_innov_num \in Nat /\ first_innov_num <= cur_innov_num
      /\ \A n \in Sensors \cup Outputs : n < cur_node_id
      /\ \A w \in innovations : w \in Innovation /\ LastNumber(w) < cur_innov_num
  BY DEF MarkInv, TheBook, TypeOK, Genome, Below
<1> DEFINE gene == g.genes[i]
<1>1. i \in DOMAIN g.genes /\ gene \in GeneType /\ gene \in ToSet(g.genes)
  BY <1>0 DEF NodeStep, ToSet
<1>2. Mark(gene) \in Book(genomes) /\ Marks(g.genes) \subseteq Book(genomes)
  BY <1>1, InBook
<1>3. Born(Split(g, i, v)) /\ first_innov_num' = first_innov_num /\ innovations' = innovations \cup {v}
  BY DEF NodeStep
<1> HIDE DEF gene
<1>4. CASE v \in innovations /\ SameSplit(v, gene)
           /\ cur_node_id' = cur_node_id + 0 /\ cur_innov_num' = cur_innov_num + 0
  <2>1. v \in Innovation /\ cur_node_id' = cur_node_id /\ cur_innov_num' = cur_innov_num /\ innovations' = innovations
    BY <1>0, <1>3, <1>4
  <2>2. SplitMarks(gene, v) \subseteq Book(genomes)
    BY <1>0, <1>1, <1>2, <1>4, KnownSplit DEF TheBook
  <2>3. v.node < cur_node_id
    BY <1>0, <1>4 DEF TheBook, BookOK, Added, AddedNode, SameSplit
  <2>4. NodeNew(g, v)
    <3>1. ASSUME NEW x \in ToSet(g.genes), x.num = v.num \/ x.num = v.num + 1
          PROVE  FALSE
      <4>1. Mark(x) \in Book(genomes) /\ Mark(x).num = x.num
        BY <1>2 DEF Marks, Mark
      <4>2. LinkMark(gene.in, v.node, gene.recur, v.num) \in Book(genomes)
            /\ LinkMark(v.node, gene.out, FALSE, v.num + 1) \in Book(genomes)
        BY <2>2 DEF SplitMarks
      <4>3. \A m, n \in Book(genomes) : m.num = n.num => m = n
        BY <1>0 DEF TheBook, BookOK
      <4>4. x.num = v.num => Mark(x) = LinkMark(gene.in, v.node, gene.recur, v.num)
        BY <4>1, <4>2, <4>3 DEF LinkMark
      <4>5. x.num = v.num + 1 => Mark(x) = LinkMark(v.node, gene.out, FALSE, v.num + 1)
        BY <4>1, <4>2, <4>3 DEF LinkMark
      <4>6. x.in = v.node \/ x.out = v.node
        BY <3>1, <4>4, <4>5 DEF Mark, LinkMark
      <4>7. x.in \in ToSet(g.nodes) /\ x.out \in ToSet(g.nodes)
        BY <1>0 DEF Shape, NodesOf
      <4>8. QED
        BY <4>6, <4>7
    <3>2. QED
      BY <3>1 DEF NodeNew
  <2>5. SplitOf(g, i, v, Split(g, i, v)) /\ Shape(Split(g, i, v), cur_node_id)
    BY <1>0, <1>1, <2>1, <2>3, <2>4, SplitIs
  <2>6. Book(genomes) \cup Marks(Split(g, i, v).genes) = Book(genomes)
    BY <1>2, <2>2, <2>5 DEF SplitOf, gene
  <2>7. MarkInv'
    <3>1. BookOK(Book(genomes) \cup Marks(Split(g, i, v).genes), innovations', first_innov_num', cur_innov_num', cur_node_id')
      BY <1>0, <1>3, <2>1, <2>6, Zenon DEF TheBook
    <3>2. cur_node_id' \in Nat /\ cur_node_id <= cur_node_id' /\ Shape(Split(g, i, v), cur_node_id')
      BY <1>0, <2>1, <2>5
    <3>3. QED
      BY <1>3, <3>1, <3>2, BornMarked
  <2>8. QED
    BY <1>1, <1>2, <1>4, <2>1, <2>5, <2>7 DEF gene
<1>5. CASE v = NovelNode(gene) /\ cur_node_id' = cur_node_id + 1 /\ cur_innov_num' = cur_innov_num + 2
  <2>1. v \in Innovation /\ SameSplit(v, gene) /\ v.num = cur_innov_num /\ v.node = cur_node_id
    BY <1>0, <1>1, <1>5 DEF NovelNode, Innovation, SameSplit, GeneType
  <2>2. BookOK(Book(genomes) \cup SplitMarks(gene, v), innovations \cup {v}, first_innov_num,
               cur_innov_num + 2, cur_node_id + 1)
    BY <1>0, <1>1, <1>2, <2>1, NovelSplit DEF TheBook
  <2>3. NodeNew(g, v)
    <3>1. ASSUME NEW x \in ToSet(g.genes)
          PROVE  x.num # v.num /\ x.num # v.num + 1
      <4>1. x \in GeneType /\ x.num < cur_innov_num
        BY <1>0, ElementOfSeq, LenProperties DEF ToSet, Before
      <4>2. x.num \in Nat
        BY <4>1 DEF GeneType
      <4>3. QED
        BY <1>0, <2>1, <4>1, <4>2
    <3>2. QED
      BY <3>1 DEF NodeNew
  <2>4. cur_node_id' \in Nat /\ cur_node_id <= cur_node_id' /\ v.node < cur_node_id'
    BY <1>0, <1>5, <2>1
  <2>5. SplitOf(g, i, v, Split(g, i, v)) /\ Shape(Split(g, i, v), cur_node_id')
    BY <1>0, <1>1, <2>1, <2>3, <2>4, SplitIs
  <2>6. Book(genomes) \cup Marks(Split(g, i, v).genes) = Book(genomes) \cup SplitMarks(gene, v)
    BY <1>2, <2>5 DEF SplitOf, gene
  <2>7. MarkInv'
    BY <1>3, <1>5, <2>2, <2>4, <2>5, <2>6, BornMarked
  <2>8. QED
    BY <1>1, <1>2, <2>1, <2>5, <2>7 DEF gene
<1>6. QED
  BY <1>4, <1>5 DEF NodeStep, gene

(* The nodes that feed a node are within every set of nodes that has it    *)
(* and that no link leads into from outside.                               *)
IsFeeding(g, n, N, fed) ==
  fed = [k \in 0..N |->
           IF k = 0 THEN {n}
           ELSE fed[k - 1] \cup {x.in : x \in {y \in {z \in Genes(g) : z.enable /\ ~z.recur} : y.out \in fed[k - 1]}}]

LEMMA FeedingSteps ==
  ASSUME NEW g \in Genome, NEW n \in Nat
  PROVE  \E fed : fed \in [0..Len(g.nodes) -> SUBSET Nat] /\ IsFeeding(g, n, Len(g.nodes), fed)
                  /\ Feeding(g, n) = fed[Len(g.nodes)]
<1> DEFINE N == Len(g.nodes)
           forward == {x \in Genes(g) : x.enable /\ ~x.recur}
           F == [m \in Nat |-> {m} \cup {x.in : x \in {y \in forward : y.out = m}}]
           Step(S) == S \cup {x.in : x \in {y \in forward : y.out \in S}}
           fed == CHOOSE f : f = [k \in 0..N |-> IF k = 0 THEN {n} ELSE Step(f[k - 1])]
<1>1. N \in Nat /\ g.genes \in Seq(GeneType)
  BY LenProperties DEF Genome
<1>2. ASSUME NEW x \in forward
      PROVE  x.in \in Nat /\ x.out \in Nat
  <2>1. x \in GeneType
    BY <1>1, ElementOfSeq, LenProperties DEF Genes, ToSet
  <2>2. QED
    BY <2>1 DEF GeneType
<1>3. F \in [Nat -> SUBSET Nat]
  <2> HIDE DEF forward
  <2>1. QED
    BY <1>2
<1> HIDE DEF forward
<1>4. PICK w : Walks(Nat, {n}, F, N, w)
  <2> HIDE DEF F, N
  <2>1. CanWalk(Nat, {n}, F, N)
    BY <1>1, <1>3, WalkExists
  <2>2. QED
    BY <2>1 DEF CanWalk
<1>5. w \in [0..N -> SUBSET Nat]
  BY <1>4 DEF Walks
<1>6. w = [k \in 0..N |-> IF k = 0 THEN {n} ELSE Step(w[k - 1])]
  <2>1. ASSUME NEW S \in SUBSET Nat
        PROVE  UNION {F[s] : s \in S} = Step(S)
    <3>1. \A s \in S : F[s] = {s} \cup {x.in : x \in {y \in forward : y.out = s}}
      OBVIOUS
    <3>2. UNION {F[s] : s \in S} = UNION {{s} \cup {x.in : x \in {y \in forward : y.out = s}} : s \in S}
      <4> HIDE DEF F
      <4>1. QED
        BY <3>1
    <3>3. ASSUME NEW m
          PROVE  m \in UNION {{s} \cup {x.in : x \in {y \in forward : y.out = s}} : s \in S} <=> m \in Step(S)
      <4>1. m \in UNION {{s} \cup {x.in : x \in {y \in forward : y.out = s}} : s \in S}
            <=> \E s \in S : m = s \/ \E x \in forward : x.out = s /\ m = x.in
        <5> DEFINE Feed(s) == {s} \cup {x.in : x \in {y \in forward : y.out = s}}
        <5>1. \A s \in S : m \in Feed(s) <=> (m = s \/ \E x \in forward : x.out = s /\ m = x.in)
          OBVIOUS
        <5> HIDE DEF Feed
        <5>2. m \in UNION {Feed(s) : s \in S} <=> \E s \in S : m \in Feed(s)
          OBVIOUS
        <5>3. m \in UNION {Feed(s) : s \in S}
              <=> \E s \in S : m = s \/ \E x \in forward : x.out = s /\ m = x.in
          BY <5>1, <5>2
        <5>4. QED
          BY <5>3 DEF Feed
      <4>2. m \in Step(S) <=> m \in S \/ \E x \in forward : x.out \in S /\ m = x.in
        OBVIOUS
      <4> HIDE DEF Step
      <4>3. QED
        BY <4>1, <4>2
    <3> HIDE DEF Step, F
    <3>4. QED
      BY <3>2, <3>3
  <2>2. ASSUME NEW k \in 0..N, k # 0
        PROVE  UNION {F[s] : s \in w[k - 1]} = Step(w[k - 1])
    <3>1. k - 1 \in 0..N
      BY <1>1, <2>2
    <3>2. w[k - 1] \in SUBSET Nat
      BY <1>5, <3>1
    <3> HIDE DEF Step, F
    <3>3. QED
      BY <2>1, <3>2
  <2> HIDE DEF Step, F, N
  <2>3. QED
    BY <1>4, <2>2 DEF Walks
<1>7. fed = [k \in 0..N |-> IF k = 0 THEN {n} ELSE Step(fed[k - 1])]
  <2> HIDE DEF Step, N
  <2>1. QED
    BY <1>6
<1>8. Feeding(g, n) = fed[N]
  BY DEF Feeding, forward
<1> HIDE DEF fed
<1>9. IsFeeding(g, n, N, fed)
  BY <1>7 DEF IsFeeding, forward
<1> DEFINE P == {k \in 0..N : fed[k] \in SUBSET Nat}
<1>10. P = 0..N
  <2>1. 0 \in P
    BY <1>1, <1>7
  <2>2. ASSUME NEW k \in 1..N, k - 1 \in P
        PROVE  k \in P
    <3>1. k \in 0..N /\ k # 0
      BY <1>1
    <3>2. fed[k] = Step(fed[k - 1])
      BY <1>7, <3>1
    <3>3. fed[k - 1] \in SUBSET Nat
      BY <2>2
    <3>4. QED
      BY <1>2, <3>1, <3>2, <3>3
  <2>3. P \in SUBSET (0..N)
    OBVIOUS
  <2> HIDE DEF P, N
  <2>4. QED
    BY <1>1, <2>1, <2>2, <2>3, PassedOn
<1>11. fed \in [0..N -> SUBSET Nat]
  <2>1. \A k \in 0..N : fed[k] \in SUBSET Nat
    BY <1>10
  <2> HIDE DEF P
  <2>2. QED
    BY <1>7, <2>1
<1>12. QED
  BY <1>8, <1>9, <1>11

LEMMA FeedingWithin ==
  ASSUME NEW g \in Genome, NEW n \in Nat
  PROVE  /\ Feeding(g, n) \in SUBSET Nat /\ n \in Feeding(g, n)
         /\ \A S : n \in S /\ Within(g, S) => Feeding(g, n) \subseteq S
<1> DEFINE N == Len(g.nodes)
<1>1. N \in Nat
  BY LenProperties DEF Genome
<1>2. PICK fed : fed \in [0..N -> SUBSET Nat] /\ IsFeeding(g, n, N, fed) /\ Feeding(g, n) = fed[N]
  BY FeedingSteps
<1>3. ASSUME NEW S, n \in S, Within(g, S)
      PROVE  fed[N] \subseteq S
  <2> DEFINE P == {k \in 0..N : fed[k] \subseteq S}
  <2>1. 0 \in P
    BY <1>1, <1>2, <1>3 DEF IsFeeding
  <2>2. ASSUME NEW k \in 1..N, k - 1 \in P
        PROVE  k \in P
    <3>0. k \in 0..N /\ k # 0
      BY <1>1
    <3>1. fed[k] = fed[k - 1] \cup {x.in : x \in {y \in {z \in Genes(g) : z.enable /\ ~z.recur} : y.out \in fed[k - 1]}}
      <4> HIDE DEF N, P
      <4>1. QED
        BY <1>2, <3>0 DEF IsFeeding
    <3>2. fed[k - 1] \subseteq S
      BY <2>2
    <3>3. \A x \in Genes(g) : x.enable /\ ~x.recur /\ x.out \in fed[k - 1] => x.in \in S
      BY <1>3, <3>2 DEF Within, Forward, Genes
    <3>4. fed[k] \subseteq S
      BY <3>1, <3>2, <3>3
    <3>5. QED
      BY <1>1, <3>4
  <2>3. P \in SUBSET (0..N)
    OBVIOUS
  <2> HIDE DEF P, N
  <2>4. P = 0..N
    BY <1>1, <2>1, <2>2, <2>3, PassedOn
  <2>5. N \in 0..N
    BY <1>1
  <2>6. QED
    BY <2>4, <2>5 DEF P
<1>4. n \in fed[N]
  <2> DEFINE P == {k \in 0..N : n \in fed[k]}
  <2>1. 0 \in P
    BY <1>1, <1>2 DEF IsFeeding
  <2>2. ASSUME NEW k \in 1..N, k - 1 \in P
        PROVE  k \in P
    <3>1. fed[k - 1] \subseteq fed[k]
      BY <1>1, <1>2, SMTT(40) DEF IsFeeding
    <3>2. QED
      BY <1>1, <2>2, <3>1
  <2>3. P \in SUBSET (0..N)
    OBVIOUS
  <2> HIDE DEF P, N
  <2>4. P = 0..N
    BY <1>1, <2>1, <2>2, <2>3, PassedOn
  <2>5. N \in 0..N
    BY <1>1
  <2>6. QED
    BY <2>4, <2>5 DEF P
<1>5. fed[N] \in SUBSET Nat
  BY <1>1, <1>2
<1>6. QED
  BY <1>2, <1>3, <1>4, <1>5

LEMMA LinkStepKeepsBook ==
  ASSUME TypeOK, MarkInv, ~mistaken, NEW g \in genomes, NEW in, NEW out, NEW recur, NEW v,
         LinkStep(g, in, out, recur, v), ~mistaken'
  PROVE  /\ MarkInv' /\ Linked(g, in, out, recur, v.num, LinkBaby(g, in, out, recur, v.num))
         /\ in \in Nat /\ out \in Nat /\ recur \in BOOLEAN
<1>0. /\ TheBook /\ Shape(g, cur_node_id) /\ g \in Genome /\ g.nodes \in Seq(Nat) /\ g.genes \in Seq(GeneType)
      /\ Before(g.genes, cur_innov_num)
      /\ cur_node_id \in Nat /\ cur_innov_num \in Nat /\ first_innov_num \in Nat /\ first_innov_num <= cur_innov_num
      /\ Numbered(innovations, cur_innov_num)
  BY DEF MarkInv, TheBook, TypeOK, Genome, Below, Numbered
<1>1. /\ in \in ToSet(g.nodes) /\ out \in ToSet(g.nodes) /\ out \notin Sensors /\ recur = is_recur(g, in, out).found
      /\ \A x \in ToSet(g.genes) : Link(x) # <<in, out, recur>>
      /\ KnownOrNovel(innovations, in, out, recur, cur_innov_num, v, innovations', cur_innov_num')
      /\ Born(LinkBaby(g, in, out, recur, v.num))
      /\ cur_node_id' = cur_node_id /\ first_innov_num' = first_innov_num
  BY DEF LinkStep
<1>2. in \in Nat /\ out \in Nat /\ recur \in BOOLEAN
  <2>1. \A n \in ToSet(g.nodes) : n \in Nat
    BY <1>0, LenProperties, ElementOfSeq DEF ToSet
  <2>2. QED
    BY <1>0, <1>1, <2>1, SearchResult DEF is_recur, SearchState
<1>3. \A m \in Book(genomes) : m.num = v.num => m.recur = recur
  <2>1. \A h \in genomes : \A x \in ToSet(h.genes) : x.num = v.num => x.recur = recur
    BY DEF LinkStep
  <2>2. ASSUME NEW m \in Book(genomes)
        PROVE  \E h \in genomes : \E x \in ToSet(h.genes) : m = Mark(x)
    BY DEF Book, Marks
  <2>3. QED
    BY <2>1, <2>2 DEF Mark
<1>4. in \in Sensors => ~recur
  <2>1. SUFFICES ASSUME in \in Sensors
                 PROVE  ~recur
    OBVIOUS
  <2>2. Within(g, {in})
    <3>1. ASSUME NEW x \in ToSet(g.genes)
          PROVE  x.out \notin Sensors
      <4>1. Mark(x) \in Book(genomes) /\ Mark(x).out = x.out
        BY InBook DEF Mark
      <4>2. QED
        BY <1>0, <4>1 DEF TheBook, BookOK, Entry
    <3>2. QED
      BY <2>1, <3>1 DEF Within
  <2>3. QED
    BY <1>0, <1>1, <1>2, <2>1, <2>2, SearchResult DEF is_recur, Finds
<1>5. Marks(g.genes) \subseteq Book(genomes)
  BY DEF Book
<1> DEFINE b == LinkBaby(g, in, out, recur, v.num)
<1>6. /\ BookOK(Book(genomes) \cup {LinkMark(in, out, recur, v.num)}, innovations', first_innov_num, cur_innov_num',
                cur_node_id)
      /\ Shape(b, cur_node_id)
  <2>1. PICK M, II, next2 : M = Book(genomes) /\ II = innovations' /\ next2 = cur_innov_num'
    OBVIOUS
  <2>2. /\ BookOK(M, innovations, first_innov_num, cur_innov_num, cur_node_id) /\ Marks(g.genes) \subseteq M
        /\ \A m \in M : m.num = v.num => m.recur = recur
        /\ KnownOrNovel(innovations, in, out, recur, cur_innov_num, v, II, next2)
    BY <1>0, <1>1, <1>3, <1>5, <2>1 DEF TheBook
  <2>3. /\ BookOK(M \cup {LinkMark(in, out, recur, v.num)}, II, first_innov_num, next2, cur_node_id)
        /\ Shape(LinkBaby(g, in, out, recur, v.num), cur_node_id)
    <3>1. /\ g \in Genome /\ in \in ToSet(g.nodes) /\ out \in ToSet(g.nodes) /\ recur \in BOOLEAN
          /\ cur_innov_num \in Nat /\ Numbered(innovations, cur_innov_num) /\ Before(g.genes, cur_innov_num)
          /\ first_innov_num \in Nat /\ first_innov_num <= cur_innov_num /\ cur_node_id \in Nat
          /\ Shape(g, cur_node_id) /\ out \notin Sensors /\ (in \in Sensors => ~recur)
          /\ \A x \in ToSet(g.genes) : Link(x) # <<in, out, recur>>
          /\ in \in Sensors \/ \A m \in M : m.num = v.num => m.recur = recur
      BY <1>0, <1>1, <1>2, <1>4, <2>2
    <3>2. QED
      BY <2>2, <3>1, LinkStepMarks, ZenonT(60)
  <2>4. QED
    BY <2>1, <2>3
<1>7. Linked(g, in, out, recur, v.num, b)
  <2>1. LinkTyped(g, innovations, in, out, recur, cur_innov_num, v, innovations', cur_innov_num', b)
    BY <1>0, <1>1, <1>2, LinkStepTyped
  <2>2. QED
    BY <2>1 DEF LinkTyped
<1>8. Book(genomes) \cup Marks(b.genes) = Book(genomes) \cup {LinkMark(in, out, recur, v.num)}
  BY <1>5, <1>7 DEF Linked
<1>9. Born(b)
  BY <1>1
<1> HIDE DEF b
<1>10. BookOK(Book(genomes) \cup Marks(b.genes), innovations', first_innov_num', cur_innov_num', cur_node_id')
  BY <1>1, <1>6, <1>8
<1>11. cur_node_id' \in Nat /\ cur_node_id <= cur_node_id' /\ Shape(b, cur_node_id')
  BY <1>0, <1>1, <1>6
<1>12. MarkInv'
  BY <1>9, <1>10, <1>11, BornMarked
<1>13. QED
  BY <1>2, <1>7, <1>12 DEF b

LEMMA SensorKeepsBook ==
  ASSUME TypeOK, MarkInv, ~mistaken, NEW g \in genomes, NEW sensor, NEW outputs, NEW s,
         SensorsLinked(g, sensor, outputs, s)
  PROVE  MarkInv'
<1>0. /\ TheBook /\ Shape(g, cur_node_id) /\ g \in Genome /\ Before(g.genes, cur_innov_num)
      /\ cur_node_id \in Nat /\ cur_innov_num \in Nat /\ first_innov_num \in Nat /\ first_innov_num <= cur_innov_num
      /\ Numbered(innovations, cur_innov_num) /\ innovations \in SUBSET Innovation
  BY DEF MarkInv, TheBook, TypeOK, Genome, Below, Numbered
<1>1. /\ sensor \in ToSet(g.nodes) /\ outputs \in Seq(Nat) /\ ToSet(outputs) \subseteq ToSet(g.nodes)
      /\ s = Connected([genes |-> g.genes, innovations |-> innovations, num |-> cur_innov_num], sensor, outputs)
      /\ sensor \in Sensors /\ ToSet(outputs) \subseteq Outputs
      /\ Born(Grown(g, s)) /\ innovations' = s.innovations /\ cur_innov_num' = s.num /\ cur_node_id' = cur_node_id
      /\ first_innov_num' = first_innov_num
  BY DEF SensorsLinked, history
<1>2. Marks(g.genes) \subseteq Book(genomes)
  BY DEF Book
<1>3. \A first \in Nat, nodes \in Nat : \A M :
        /\ first <= cur_innov_num /\ BookOK(M, innovations, first, cur_innov_num, nodes) /\ Marks(g.genes) \subseteq M
        /\ Shape(g, nodes) /\ sensor \in Sensors /\ ToSet(outputs) \subseteq Outputs
        => SensorMarked(g, M, first, nodes, s)
  BY <1>0, <1>1, SensorBaby
<1>4. SensorMarked(g, Book(genomes), first_innov_num, cur_node_id, s)
  BY <1>0, <1>1, <1>2, <1>3 DEF TheBook
<1>5. Grown(g, s).genes = s.genes
  BY DEF Grown
<1>6. /\ innovations' = s.innovations /\ first_innov_num' = first_innov_num /\ cur_innov_num' = s.num
      /\ cur_node_id' = cur_node_id /\ cur_node_id' \in Nat /\ cur_node_id <= cur_node_id'
  BY <1>0, <1>1
<1>7. PICK b : b = Grown(g, s)
  OBVIOUS
<1>8. Born(b) /\ b.genes = s.genes
  BY <1>1, <1>5, <1>7
<1>9. BookOK(Book(genomes) \cup Marks(b.genes), innovations', first_innov_num', cur_innov_num', cur_node_id')
  BY <1>4, <1>6, <1>8, Zenon DEF SensorMarked
<1>10. Shape(b, cur_node_id')
  BY <1>4, <1>6, <1>7, Zenon DEF SensorMarked
<1>11. QED
  BY <1>6, <1>8, <1>9, <1>10, BornMarked

LEMMA FlipKeepsBook ==
  ASSUME TypeOK, MarkInv, ~mistaken, NEW g \in genomes, NEW i, NEW e, Flips(g, i, e)
  PROVE  /\ MarkInv' /\ Flagged(g.genes, i, e, FlagBaby(g, i, e).genes) /\ FlagBaby(g, i, e).nodes = g.nodes
         /\ FlagBaby(g, i, e) \in Genome
<1> DEFINE b == FlagBaby(g, i, e)
<1>1. /\ b \in Genome /\ b.nodes = g.nodes /\ Flagged(g.genes, i, e, b.genes)
      /\ \A nodes : Shape(g, nodes) => Shape(b, nodes)
  BY FlagBabyIs DEF TypeOK, Flips
<1>2. Born(b) /\ innovations' = innovations /\ cur_node_id' = cur_node_id /\ cur_innov_num' = cur_innov_num
      /\ first_innov_num' = first_innov_num
  BY DEF Flips
<1> HIDE DEF b
<1>3. Book(genomes) \cup Marks(b.genes) = Book(genomes)
  <2>1. Marks(b.genes) \subseteq Book(genomes)
    BY <1>1 DEF Flagged, Book
  <2>2. QED
    BY <2>1
<1>4. TheBook /\ Shape(b, cur_node_id) /\ cur_node_id \in Nat
  BY <1>1 DEF MarkInv, TheBook, TypeOK
<1>5. BookOK(Book(genomes) \cup Marks(b.genes), innovations', first_innov_num', cur_innov_num', cur_node_id')
  BY <1>2, <1>3, <1>4, Zenon DEF TheBook
<1>6. Shape(b, cur_node_id') /\ cur_node_id' \in Nat /\ cur_node_id <= cur_node_id'
  BY <1>2, <1>4
<1>7. MarkInv'
  BY <1>2, <1>5, <1>6, BornMarked
<1>8. QED
  BY <1>1, <1>7 DEF b

(* Genes of the same number are the same in all genomes. *)
LEMMA BookAgrees ==
  ASSUME TheBook, NEW g \in genomes, NEW h \in genomes
  PROVE  Agree(g.genes, h.genes)
<1>1. ASSUME NEW x \in ToSet(g.genes), NEW y \in ToSet(h.genes), x.num = y.num
      PROVE  Mark(x) = Mark(y)
  <2>1. Mark(x) \in Book(genomes) /\ Mark(y) \in Book(genomes)
    BY InBook
  <2>2. Mark(x).num = Mark(y).num
    BY <1>1 DEF Mark
  <2>3. QED
    BY <2>1, <2>2 DEF TheBook, BookOK
<1>2. QED
  BY <1>1 DEF Agree

LEMMA MatingKeepsBook ==
  ASSUME TypeOK, MarkInv, ~mistaken, NEW mom \in genomes, NEW dad \in genomes, NEW genes, NEW S,
         Mating(mom.genes, dad.genes, genes, S)
  PROVE  MarkInv' /\ Marks(genes) \subseteq Book(genomes)
<1>0. /\ TheBook /\ Shape(mom, cur_node_id) /\ Shape(dad, cur_node_id) /\ cur_node_id \in Nat
      /\ \A n \in Sensors \cup Outputs : n < cur_node_id
  BY DEF MarkInv, TheBook, TypeOK
<1>1. /\ Kept(mom.genes, dad.genes, genes) /\ Sorted(genes) /\ S \in SUBSET Nat /\ IsFiniteSet(S)
      /\ NodesOf(genes) \subseteq S /\ S \subseteq NodesOf(genes) \cup Sensors \cup Outputs
      /\ Born([nodes |-> Nodes(S), genes |-> genes])
      /\ innovations' = innovations /\ cur_node_id' = cur_node_id /\ cur_innov_num' = cur_innov_num
      /\ first_innov_num' = first_innov_num
  BY <1>0 DEF Mating, Baby, Shape
<1>2. Marks(genes) \subseteq Book(genomes)
  <2>1. Marks(genes) \subseteq Marks(mom.genes) \cup Marks(dad.genes)
    BY <1>0, <1>1, BookAgrees DEF Kept
  <2>2. QED
    BY <2>1 DEF Book
<1>3. ASSUME NEW n \in S
      PROVE  n < cur_node_id
  <2>1. CASE n \in NodesOf(genes)
    <3>1. PICK x \in ToSet(genes) : n = x.in \/ n = x.out
      BY <2>1 DEF NodesOf
    <3>2. Mark(x) \in Book(genomes) /\ (n = Mark(x).in \/ n = Mark(x).out)
      BY <1>2, <3>1 DEF Marks, Mark
    <3>3. Entry(Mark(x), cur_innov_num, cur_node_id)
      BY <1>0, <3>2 DEF TheBook, BookOK
    <3>4. QED
      BY <3>2, <3>3 DEF Entry
  <2>2. QED
    BY <1>0, <1>1, <2>1
<1>4. PICK b : b = [nodes |-> Nodes(S), genes |-> genes]
  OBVIOUS
<1>5. b.nodes = Nodes(S) /\ b.genes = genes /\ Born(b)
  BY <1>1, <1>4
<1>6. Ascending(b.nodes) /\ ToSet(b.nodes) = S
  BY <1>1, <1>5, NodesInOrder
<1>7. Shape(b, cur_node_id)
  BY <1>1, <1>3, <1>5, <1>6 DEF Shape, Kept
<1>8. Book(genomes) \cup Marks(b.genes) = Book(genomes)
  BY <1>2, <1>5
<1>9. BookOK(Book(genomes) \cup Marks(b.genes), innovations', first_innov_num', cur_innov_num', cur_node_id')
  BY <1>0, <1>1, <1>8, Zenon DEF TheBook
<1>10. Shape(b, cur_node_id') /\ cur_node_id' \in Nat /\ cur_node_id <= cur_node_id'
  BY <1>0, <1>1, <1>7
<1>11. QED
  BY <1>2, <1>5, <1>9, <1>10, BornMarked

LEMMA EpochKeepsBook ==
  ASSUME TypeOK, MarkInv, ~mistaken, Epoch
  PROVE  MarkInv' /\ Book(genomes') \subseteq Book(genomes)
<1>0. /\ TheBook /\ \A g \in genomes : Shape(g, cur_node_id)
      /\ cur_innov_num \in Nat
  BY DEF MarkInv, TheBook, TypeOK
<1>1. /\ genomes' \subseteq genomes /\ innovations' = {} /\ first_innov_num' = cur_innov_num
      /\ cur_node_id' = cur_node_id /\ cur_innov_num' = cur_innov_num
  BY DEF Epoch
<1>2. Book(genomes') \subseteq Book(genomes)
  BY <1>1 DEF Book
<1>3. ASSUME NEW m \in Book(genomes), m.num >= cur_innov_num
      PROVE  FALSE
  <2>1. m.num \in Nat /\ m.num < cur_innov_num
    BY <1>0 DEF TheBook, BookOK, Entry, MarkType
  <2>2. QED
    BY <1>0, <1>3, <2>1
<1>4. BookOK(Book(genomes'), innovations', first_innov_num', cur_innov_num', cur_node_id')
  <2>1. PICK M : M = Book(genomes')
    OBVIOUS
  <2>2. BookOK(M, {}, cur_innov_num, cur_innov_num, cur_node_id)
    BY <1>0, <1>2, <1>3, <2>1 DEF TheBook, BookOK
  <2>3. QED
    BY <1>1, <2>1, <2>2, Zenon
<1>5. \A g \in genomes' : Shape(g, cur_node_id')
  BY <1>0, <1>1
<1>6. QED
  BY <1>2, <1>4, <1>5 DEF MarkInv

LEMMA InitKeepsBook ==
  ASSUME Init
  PROVE  MarkInv /\ Book(genomes) = Marks(Starter.genes)
<1> DEFINE genes == Starter.genes
<1>1. /\ Starter \in Genome /\ StarterGenes(genes) /\ ToSet(Starter.nodes) = Sensors \cup Outputs
      /\ Ascending(Starter.nodes)
  BY StarterIs
<1>2. TypeOK /\ genomes = {Starter} /\ innovations = {} /\ first_innov_num = cur_innov_num
  BY InitTyped DEF Init
<1>3. /\ genes \in Seq(GeneType) /\ DOMAIN genes = 1..Len(genes) /\ Len(genes) \in Nat
      /\ \A x \in ToSet(genes) : x \in GeneType /\ x.num < cur_innov_num
      /\ cur_innov_num \in Nat /\ cur_node_id \in Nat /\ \A n \in Sensors \cup Outputs : n < cur_node_id
  <2>1. Starter.genes \in Seq(GeneType) /\ Before(Starter.genes, cur_innov_num)
    BY <1>1, <1>2 DEF Genome, TypeOK, Below
  <2>2. DOMAIN Starter.genes = 1..Len(Starter.genes) /\ Len(Starter.genes) \in Nat
    BY <2>1, LenProperties
  <2>3. \A x \in ToSet(Starter.genes) : x \in GeneType
    BY <2>1, <2>2, ElementOfSeq DEF ToSet
  <2>4. QED
    BY <1>2, <2>1, <2>2, <2>3 DEF TypeOK, Before
<1>4. Book(genomes) = Marks(genes)
  BY <1>2 DEF Book
<1> HIDE DEF genes
<1>5. ASSUME NEW m \in Marks(genes)
      PROVE  \E k \in DOMAIN genes : /\ m = Mark(genes[k]) /\ m \in MarkType /\ Entry(m, cur_innov_num, cur_node_id)
                                     /\ m.num = k
  <2>1. PICK k \in DOMAIN genes : m = Mark(genes[k]) /\ genes[k] \in ToSet(genes)
    BY DEF Marks, ToSet
  <2>2. genes[k] \in GeneType /\ genes[k].num < cur_innov_num
    BY <1>3, <2>1
  <2>3. m \in MarkType /\ m.num = genes[k].num /\ m.in = genes[k].in /\ m.out = genes[k].out /\ m.recur = genes[k].recur
    BY <2>1, <2>2 DEF Mark, MarkType, GeneType
  <2>4. m.in \in Sensors /\ m.out \in Outputs /\ ~m.recur /\ m.num = k
    BY <1>1, <2>3 DEF StarterGenes, genes
  <2>5. m.out \notin Sensors
    <3>1. m.out \in Nat
      BY <2>3 DEF MarkType
    <3>2. \A s \in Sensors : s < m.out
      BY <2>4, GenomeAssumption
    <3>3. QED
      BY <3>1, <3>2
  <2>6. Entry(m, cur_innov_num, cur_node_id)
    BY <1>3, <2>2, <2>3, <2>4, <2>5 DEF Entry
  <2>7. QED
    BY <2>1, <2>3, <2>4, <2>6
<1>6. ASSUME NEW m \in Marks(genes), m.num >= first_innov_num
      PROVE  FALSE
  <2>1. m.num \in Nat /\ m.num < cur_innov_num
    BY <1>5 DEF Entry, MarkType
  <2>2. QED
    BY <1>2, <1>3, <1>6, <2>1
<1>7. BookOK(Marks(genes), {}, first_innov_num, cur_innov_num, cur_node_id)
  BY <1>5, <1>6 DEF BookOK
<1>8. Sorted(genes)
  BY <1>1, <1>3 DEF StarterGenes, Sorted, genes
<1>9. Different(genes)
  <2>1. ASSUME NEW j \in DOMAIN genes, NEW k \in DOMAIN genes, Link(genes[j]) = Link(genes[k])
        PROVE  j = k
    <3>1. StarterLinks[j][1] = StarterLinks[k][1] /\ StarterLinks[j][2] = StarterLinks[k][2]
      BY <1>1, <2>1 DEF Link, StarterGenes, genes
    <3>2. j \in DOMAIN StarterLinks /\ k \in DOMAIN StarterLinks
      BY <1>1 DEF StarterGenes, genes
    <3>3. StarterLinks[j] \in Sensors \X Outputs /\ StarterLinks[k] \in Sensors \X Outputs
      BY <3>2, GenomeAssumption, ElementOfSeq, LenProperties
    <3>4. StarterLinks[j] = StarterLinks[k]
      BY <3>1, <3>3
    <3>5. QED
      BY <3>2, <3>4, GenomeAssumption
  <2>2. QED
    BY <2>1 DEF Different, ToSet
<1>10. NodesOf(genes) \subseteq Sensors \cup Outputs
  <2>1. \A x \in ToSet(genes) : x.in \in Sensors /\ x.out \in Outputs
    BY <1>1 DEF StarterGenes, ToSet, genes
  <2>2. QED
    BY <2>1 DEF NodesOf
<1>11. Shape(Starter, cur_node_id)
  BY <1>1, <1>3, <1>8, <1>9, <1>10 DEF Shape, genes
<1>12. QED
  BY <1>2, <1>4, <1>7, <1>11 DEF MarkInv, genes

LEMMA NextMarked ==
  ASSUME TypeOK, MarkInv, [Next]_vars
  PROVE  MarkInv'
<1> SUFFICES ASSUME ~mistaken'
             PROVE  MarkInv'
  BY DEF MarkInv
<1>1. CASE AddNode
  <2>1. PICK g \in genomes : \E i, v : NodeStep(g, i, v)
    BY <1>1, AddNodeIs
  <2>2. PICK i, v : NodeStep(g, i, v)
    BY <2>1
  <2>3. ~mistaken /\ v.node \notin ToSet(g.nodes)
    BY <2>2 DEF NodeStep
  <2>4. QED
    BY <2>2, <2>3, NodeStepMarked
<1>2. CASE AddLink
  <2>1. PICK g \in genomes : \E in, out, recur, v : LinkStep(g, in, out, recur, v)
    BY <1>2, AddLinkIs DEF TypeOK
  <2>2. PICK in, out, recur, v : LinkStep(g, in, out, recur, v)
    BY <2>1
  <2>3. ~mistaken
    BY <2>2 DEF LinkStep
  <2>4. QED
    BY <2>2, <2>3, LinkStepKeepsBook
<1>3. CASE AddSensor
  <2>1. PICK g \in genomes : \E sensor, outputs, s : SensorsLinked(g, sensor, outputs, s)
    BY <1>3, AddSensorIs
  <2>2. PICK sensor, outputs, s : SensorsLinked(g, sensor, outputs, s)
    BY <2>1
  <2>3. ~mistaken
    BY <2>2 DEF SensorsLinked, history
  <2>4. QED
    BY <2>2, <2>3, SensorKeepsBook
<1>4. CASE ToggleEnable \/ GeneReenable
  <2>1. PICK g \in genomes : \E i, e : Flips(g, i, e)
    BY <1>4, FlipIs
  <2>2. PICK i, e : Flips(g, i, e)
    BY <2>1
  <2>3. ~mistaken
    BY <2>2 DEF Flips
  <2>4. QED
    BY <2>2, <2>3, FlipKeepsBook
<1>5. CASE MateMultipoint
  <2>1. PICK mom \in genomes, dad \in genomes : \E b, genes : MatingBoth(mom, dad, b, genes)
    BY <1>5, MateMultipointIs
  <2>2. PICK b, genes : MatingBoth(mom, dad, b, genes)
    BY <2>1
  <2>3. Mating(mom.genes, dad.genes, genes, BabyNodes(dad, genes)) /\ ~mistaken
    BY <2>2 DEF MatingBoth, Mating
  <2>4. QED
    BY <2>3, MatingKeepsBook
<1>6. CASE MateSinglepoint
  <2>1. PICK mom \in genomes, dad \in genomes : \E genes : Mating(mom.genes, dad.genes, genes, NodesOf(genes))
    BY <1>6, MateSinglepointIs
  <2>2. PICK genes : Mating(mom.genes, dad.genes, genes, NodesOf(genes))
    BY <2>1
  <2>3. ~mistaken
    BY <2>2 DEF Mating
  <2>4. QED
    BY <2>2, <2>3, MatingKeepsBook
<1>7. CASE Epoch
  <2>1. ~mistaken
    BY <1>7 DEF Epoch
  <2>2. QED
    BY <1>7, <2>1, EpochKeepsBook
<1>8. CASE UNCHANGED vars
  BY <1>8 DEF vars, history, MarkInv
<1>9. QED
  BY <1>1, <1>2, <1>3, <1>4, <1>5, <1>6, <1>7, <1>8 DEF Next, Reproduce

(* As long as no innovation was mistaken: every gene of a genome is in the *)
(* book, where a number is given to one link; and a genome has its nodes   *)
(* and genes in order, no link twice, and a node for each end of a link.   *)
THEOREM BookKept == Spec => []MarkInv
<1>1. Init => MarkInv
  BY InitKeepsBook
<1>2. TypeOK /\ MarkInv /\ [Next]_vars => MarkInv'
  BY NextMarked
<1>3. QED
  BY <1>1, <1>2, TypeCorrect, PTL DEF Spec

(* Genome::verify has nothing to complain of, for every population, every  *)
(* number of births and every order of mutations and matings, as long as   *)
(* no innovation was mistaken.                                             *)
THEOREM GenomesVerifyHolds == Spec => []GenomesVerify
<1>1. ASSUME TypeOK, MarkInv
      PROVE  GenomesVerify
  <2>1. ASSUME ~mistaken, NEW g \in genomes, NEW i \in DOMAIN g.genes, NEW j \in DOMAIN g.genes, i < j
        PROVE  g.genes[i].num < g.genes[j].num /\ Link(g.genes[i]) # Link(g.genes[j])
    <3>1. Sorted(g.genes) /\ Different(g.genes)
      BY <2>1, <1>1 DEF MarkInv, Shape
    <3>2. g.genes[i].num < g.genes[j].num
      BY <2>1, <3>1 DEF Sorted
    <3>3. g.genes[i].num \in Nat /\ g.genes[j].num \in Nat
      <4>1. g.genes \in Seq(GeneType)
        BY <1>1 DEF TypeOK, Genome
      <4>2. \A k \in DOMAIN g.genes : g.genes[k] \in GeneType
        BY <4>1, LenProperties, ElementOfSeq
      <4>3. QED
        BY <4>2 DEF GeneType
    <3>4. Link(g.genes[i]) = Link(g.genes[j]) => g.genes[i].num = g.genes[j].num
      BY <3>1 DEF Different, ToSet
    <3>5. QED
      BY <3>2, <3>3, <3>4
  <2>2. ASSUME ~mistaken, NEW g \in genomes
        PROVE  (\A i, j \in DOMAIN g.nodes : i < j => g.nodes[i] < g.nodes[j]) /\ NodesOf(g.genes) \subseteq ToSet(g.nodes)
    BY <1>1, <2>2 DEF MarkInv, Shape, Ascending
  <2>3. QED
    BY <2>1, <2>2 DEF GenomesVerify
<1>2. QED
  BY <1>1, TypeCorrect, BookKept, PTL

-----------------------------------------------------------------------------
(* Ranks of the forward links.  A genome whose forward links can be ranked *)
(* has no cycle.                                                           *)
LEMMA AcyclicNotCyclic ==
  ASSUME NEW g \in Genome, Acyclic(g.genes)
  PROVE  ~Cyclic(g)
<1> SUFFICES ASSUME NEW x \in Genes(g), x.enable, ~x.recur, x.out \in Feeding(g, x.in)
             PROVE  FALSE
  BY DEF Cyclic
<1>1. PICK rank \in [Nat -> Nat] : Ranked(g.genes, rank)
  BY DEF Acyclic
<1>2. \A y \in ToSet(g.genes) : y.in \in Nat /\ y.out \in Nat
  <2>1. g.genes \in Seq(GeneType)
    BY DEF Genome
  <2>2. \A y \in ToSet(g.genes) : y \in GeneType
    BY <2>1, LenProperties, ElementOfSeq DEF ToSet
  <2>3. QED
    BY <2>2 DEF GeneType
<1>3. x \in ToSet(g.genes) /\ x.in \in Nat /\ x.out \in Nat /\ rank[x.in] \in Nat /\ rank[x.out] \in Nat
  BY <1>2 DEF Genes
<1> DEFINE S == {m \in Nat : rank[m] <= rank[x.in]}
<1>4. Within(g, S)
  <2>1. ASSUME NEW y \in ToSet(g.genes), Forward(y), y.out \in S
        PROVE  y.in \in S
    <3>1. rank[y.in] < rank[y.out] /\ rank[y.in] \in Nat /\ rank[y.out] \in Nat /\ y.in \in Nat
      BY <1>1, <1>2, <2>1 DEF Ranked, Forward
    <3>2. rank[y.out] <= rank[x.in]
      BY <2>1
    <3>3. QED
      BY <1>3, <3>1, <3>2
  <2> HIDE DEF S
  <2>2. QED
    BY <2>1 DEF Within
<1>5. x.in \in S
  BY <1>3
<1> HIDE DEF S
<1>6. x.out \in S
  BY <1>3, <1>4, <1>5, FeedingWithin
<1>7. rank[x.in] < rank[x.out]
  BY <1>1, <1>3 DEF Ranked
<1>8. QED
  BY <1>3, <1>6, <1>7 DEF S

(* A link from a set of nodes that no link leads into, out of the set. *)
LEMMA LinkRanked ==
  ASSUME NEW g \in Genome, Acyclic(g.genes), NEW S, Within(g, S), NEW genes, NEW x \in GeneType,
         ToSet(genes) = ToSet(g.genes) \cup {x}, x.in \in S, x.out \notin S
  PROVE  Acyclic(genes)
<1>1. PICK rank \in [Nat -> Nat] : Ranked(g.genes, rank)
  BY DEF Acyclic
<1>2. \A y \in ToSet(g.genes) : y.in \in Nat /\ y.out \in Nat
  <2>1. g.genes \in Seq(GeneType)
    BY DEF Genome
  <2>2. \A y \in ToSet(g.genes) : y \in GeneType
    BY <2>1, LenProperties, ElementOfSeq DEF ToSet
  <2>3. QED
    BY <2>2 DEF GeneType
<1>3. x.in \in Nat /\ x.out \in Nat /\ rank[x.in] \in Nat /\ rank[x.out] \in Nat
  BY DEF GeneType
<1> DEFINE above == rank[x.in] + 1
           new == [m \in Nat |-> IF m \in S THEN rank[m] ELSE rank[m] + above]
<1>4. above \in Nat
  BY <1>3
<1>5. \A m \in Nat : rank[m] \in Nat /\ (m \in S => new[m] = rank[m]) /\ (m \notin S => new[m] = rank[m] + above)
  OBVIOUS
<1>6. new \in [Nat -> Nat]
  <2> HIDE DEF above
  <2>1. QED
    BY <1>4
<1>7. new[x.in] < new[x.out]
  <2>1. new[x.in] = rank[x.in] /\ new[x.out] = rank[x.out] + above
    BY <1>3, <1>5
  <2>2. QED
    BY <1>3, <2>1
<1>8. ASSUME NEW y \in ToSet(g.genes), y.enable, ~y.recur
      PROVE  new[y.in] < new[y.out]
  <2>1. /\ rank[y.in] < rank[y.out] /\ rank[y.in] \in Nat /\ rank[y.out] \in Nat /\ y.in \in Nat /\ y.out \in Nat
        /\ y.out \in S => y.in \in S
    BY <1>1, <1>2, <1>8 DEF Ranked, Within, Forward
  <2> HIDE DEF new, above
  <2>2. QED
    BY <1>4, <1>5, <2>1
<1> HIDE DEF new
<1>9. Ranked(genes, new)
  BY <1>7, <1>8 DEF Ranked
<1>10. QED
  BY <1>6, <1>9 DEF Acyclic

(* A gene that is split by a node the genome did not have. *)
LEMMA SplitRanked ==
  ASSUME NEW g \in Genome, Acyclic(g.genes), NEW i \in DOMAIN g.genes, g.genes[i].enable, NEW v \in Innovation,
         NodesOf(g.genes) \subseteq ToSet(g.nodes), v.node \notin ToSet(g.nodes),
         NEW rest, Flagged(g.genes, i, FALSE, rest), NEW genes,
         ToSet(genes) = ToSet(rest) \cup {Gene(g.genes[i].in, v.node, g.genes[i].recur, v.num),
                                          Gene(v.node, g.genes[i].out, FALSE, v.num + 1)}
  PROVE  Acyclic(genes)
<1>1. PICK rank \in [Nat -> Nat] : Ranked(g.genes, rank)
  BY DEF Acyclic
<1>2. \A y \in ToSet(g.genes) : y \in GeneType /\ y.in \in Nat /\ y.out \in Nat /\ y.in # v.node /\ y.out # v.node
  <2>1. g.genes \in Seq(GeneType)
    BY DEF Genome
  <2>2. \A y \in ToSet(g.genes) : y \in GeneType
    BY <2>1, LenProperties, ElementOfSeq DEF ToSet
  <2>3. QED
    BY <2>2 DEF GeneType, NodesOf
<1> DEFINE gene == g.genes[i]
<1>3. gene \in ToSet(g.genes) /\ gene \in GeneType /\ gene.enable
  BY <1>2 DEF ToSet
<1> HIDE DEF gene
<1>4. /\ gene.in \in Nat /\ gene.out \in Nat /\ gene.in # v.node /\ gene.out # v.node /\ v.node \in Nat
      /\ rank[gene.in] \in Nat /\ rank[gene.out] \in Nat
  BY <1>2, <1>3 DEF Innovation
<1>5. ASSUME NEW y \in ToSet(rest), y.enable
      PROVE  y \in ToSet(g.genes)
  <2>1. PICK k \in DOMAIN g.genes : y = rest[k]
    BY DEF Flagged, ToSet
  <2>2. rest[i].enable = FALSE
    <3>1. rest[i] = [gene EXCEPT !.enable = FALSE]
      BY DEF Flagged, gene
    <3>2. QED
      BY <1>3, <3>1 DEF GeneType
  <2>3. k # i
    BY <1>5, <2>1, <2>2
  <2>4. QED
    BY <2>1, <2>3 DEF Flagged, ToSet
<1>6. ASSUME NEW new \in [Nat -> Nat], \A y \in ToSet(g.genes) : y.enable /\ ~y.recur => new[y.in] < new[y.out],
             gene.recur \/ new[gene.in] < new[v.node], new[v.node] < new[gene.out]
      PROVE  Acyclic(genes)
  <2>1. ASSUME NEW y \in ToSet(genes), y.enable, ~y.recur
        PROVE  new[y.in] < new[y.out]
    <3>1. CASE y \in ToSet(rest)
      BY <1>5, <1>6, <2>1, <3>1
    <3>2. CASE y = Gene(gene.in, v.node, gene.recur, v.num)
      BY <1>6, <2>1, <3>2 DEF Gene
    <3>3. CASE y = Gene(v.node, gene.out, FALSE, v.num + 1)
      BY <1>6, <2>1, <3>3 DEF Gene
    <3>4. QED
      BY <2>1, <3>1, <3>2, <3>3 DEF gene
  <2>2. QED
    BY <2>1 DEF Acyclic, Ranked
<1>7. CASE gene.recur
  <2> DEFINE new == [m \in Nat |-> IF m = v.node THEN 0 ELSE rank[m] + 1]
  <2>1. /\ new \in [Nat -> Nat] /\ new[v.node] = 0
        /\ \A m \in Nat : m # v.node => new[m] = rank[m] + 1 /\ rank[m] \in Nat
    BY <1>4
  <2> HIDE DEF new
  <2>2. ASSUME NEW y \in ToSet(g.genes), y.enable, ~y.recur
        PROVE  new[y.in] < new[y.out]
    BY <1>1, <1>2, <2>1, <2>2 DEF Ranked
  <2>3. new[v.node] < new[gene.out]
    BY <1>4, <2>1
  <2>4. QED
    BY <1>6, <1>7, <2>1, <2>2, <2>3
<1>8. CASE ~gene.recur
  <2> DEFINE new == [m \in Nat |-> IF m = v.node THEN rank[gene.in] + rank[gene.in] + 1 ELSE rank[m] + rank[m]]
  <2>1. /\ new \in [Nat -> Nat] /\ new[v.node] = rank[gene.in] + rank[gene.in] + 1
        /\ \A m \in Nat : m # v.node => new[m] = rank[m] + rank[m] /\ rank[m] \in Nat
    BY <1>4
  <2> HIDE DEF new
  <2>2. ASSUME NEW y \in ToSet(g.genes), y.enable, ~y.recur
        PROVE  new[y.in] < new[y.out]
    <3>1. rank[y.in] < rank[y.out] /\ rank[y.in] \in Nat /\ rank[y.out] \in Nat
      BY <1>1, <1>2, <2>2 DEF Ranked
    <3>2. new[y.in] = rank[y.in] + rank[y.in] /\ new[y.out] = rank[y.out] + rank[y.out]
      BY <1>2, <2>1
    <3>3. QED
      BY <3>1, <3>2
  <2>3. rank[gene.in] < rank[gene.out]
    BY <1>1, <1>3, <1>8 DEF Ranked
  <2>4. new[gene.in] = rank[gene.in] + rank[gene.in] /\ new[gene.out] = rank[gene.out] + rank[gene.out]
    BY <1>4, <2>1
  <2>5. new[gene.in] < new[v.node]
    BY <1>4, <2>1, <2>4
  <2>6. new[v.node] < new[gene.out]
    BY <1>4, <2>1, <2>3, <2>4
  <2>7. QED
    BY <1>6, <2>1, <2>2, <2>5, <2>6
<1>9. QED
  BY <1>7, <1>8

-----------------------------------------------------------------------------
(* A link is added: the book of forward links, and the nodes of the        *)
(* generation.                                                             *)
AllComplete(g, I) == \A v \in I : Complete(g, v)

(* A link whose number is new has no recent namesake: one that was added   *)
(* as a link would have been matched, one that came with a node is in      *)
(* every genome that has the node.                                         *)
LEMMA NoNamesake ==
  ASSUME NEW g \in Genome, NEW in, NEW out \in ToSet(g.nodes), in \in ToSet(g.nodes), NEW I, NEW next,
         Numbered(I, next), NEW M, NEW first, NEW nodes, BookOK(M, I, first, next, nodes), Marks(g.genes) \subseteq M,
         AllComplete(g, I), \A w \in I : ~SameLink(w, in, out, FALSE),
         \A x \in ToSet(g.genes) : Link(x) # <<in, out, FALSE>>,
         NEW n \in M, Recent(n, first), n.in = in, n.out = out
  PROVE  FALSE
<1>1. n \in MarkType /\ n.recur = FALSE /\ n.num >= first
  BY DEF BookOK, Recent, MarkType
<1>2. PICK w \in I : Names(w, n)
  BY <1>1 DEF BookOK
<1>3. w \in Innovation
  BY DEF Numbered
<1>4. ASSUME Has(g.genes, n.num)
      PROVE  FALSE
  <2>1. PICK x \in ToSet(g.genes) : x.num = n.num
    BY <1>4 DEF Has
  <2>2. Mark(x) \in M /\ Mark(x).num = n.num
    BY <2>1 DEF Marks, Mark
  <2>3. Mark(x) = n
    BY <2>2 DEF BookOK
  <2>4. x.in = in /\ x.out = out /\ x.recur = FALSE
    BY <1>1, <2>3 DEF Mark
  <2>5. QED
    BY <2>1, <2>4 DEF Link
<1>5. CASE w.type = "NEWLINK" /\ n.num = w.num /\ n.in = w.in /\ n.out = w.out
  BY <1>3, <1>5 DEF SameLink, Innovation
<1>6. CASE w.type = "NEWNODE" /\ n.num = w.num /\ n.in = w.in /\ n.out = w.node
  BY <1>4, <1>6 DEF AllComplete, Complete
<1>7. CASE w.type = "NEWNODE" /\ n.num = w.num + 1 /\ n.in = w.node /\ n.out = w.out
  BY <1>4, <1>7 DEF AllComplete, Complete
<1>8. QED
  BY <1>2, <1>5, <1>6, <1>7 DEF Names

PureBook(M, first) == Unique(M, first) /\ NoLoop(M)
LinkPure(I, in, out, recur, v, II, M, first, b) ==
  /\ PureBook(M \cup {LinkMark(in, out, recur, v.num)}, first) /\ AllComplete(b, II)
  /\ \A w \in II : w \in I \/ w.type = "NEWLINK"
LEMMA LinkStepPure ==
  ASSUME NEW g \in Genome, NEW in \in ToSet(g.nodes), NEW out \in ToSet(g.nodes), NEW recur \in BOOLEAN,
         NEW I, NEW next \in Nat, Numbered(I, next),
         NEW v, NEW II, NEW next2, KnownOrNovel(I, in, out, recur, next, v, II, next2),
         NEW M, NEW first \in Nat, NEW nodes, BookOK(M, I, first, next, nodes), Marks(g.genes) \subseteq M,
         in \in Sensors \/ \A m \in M : m.num = v.num => m.recur = recur,
         \A x \in ToSet(g.genes) : Link(x) # <<in, out, recur>>,
         PureBook(M, first), AllComplete(g, I), in = out => recur,
         NEW b, Linked(g, in, out, recur, v.num, b)
  PROVE  LinkPure(I, in, out, recur, v, II, M, first, b)
<1> USE DEF LinkPure
<1> DEFINE new == LinkMark(in, out, recur, v.num)
<1>1. new.num = v.num /\ new.in = in /\ new.out = out /\ new.recur = recur
  BY DEF LinkMark
<1>2. \A w \in II : w \in I \/ w.type = "NEWLINK"
  BY DEF KnownOrNovel, NewLink
<1>3. AllComplete(b, II)
  <2>1. ASSUME NEW w \in II, w.type = "NEWNODE", w.node \in ToSet(b.nodes)
        PROVE  Has(b.genes, w.num) /\ Has(b.genes, w.num + 1)
    <3>1. w \in I /\ w.node \in ToSet(g.nodes)
      BY <1>2, <2>1 DEF Linked
    <3>2. Has(g.genes, w.num) /\ Has(g.genes, w.num + 1)
      BY <2>1, <3>1 DEF AllComplete, Complete
    <3>3. QED
      BY <3>2 DEF Has, Linked
  <2>2. QED
    BY <2>1 DEF AllComplete, Complete
<1>4. CASE v \in I /\ SameLink(v, in, out, recur)
  <2>1. v \in Innovation
    BY <1>4 DEF Numbered
  <2>2. new \in M
    BY <1>4, <2>1, KnownLink
  <2> HIDE DEF new
  <2>3. M \cup {new} = M
    BY <2>2
  <2>4. QED
    BY <1>2, <1>3, <2>3 DEF new
<1>5. CASE \A w \in I : ~SameLink(w, in, out, recur)
  <2> HIDE DEF new
  <2>1. ASSUME NEW n \in M, Recent(n, first), Recent(new, first), n.in = in, n.out = out
        PROVE  FALSE
    <3>1. recur = FALSE
      BY <1>1, <2>1 DEF Recent
    <3>2. QED
      BY <1>5, <2>1, <3>1, NoNamesake
  <2>2. Unique(M \cup {new}, first)
    BY <1>1, <2>1 DEF Unique, PureBook
  <2>3. NoLoop(M \cup {new})
    BY <1>1 DEF NoLoop, PureBook
  <2>4. QED
    BY <1>2, <1>3, <2>2, <2>3 DEF PureBook, new
<1>6. QED
  BY <1>4, <1>5 DEF KnownOrNovel

(* What holds of a birth holds of the population. *)
LEMMA BornPure ==
  ASSUME TypeOK, MarkInv, PureInv, Pure, NEW b, Born(b), PureBook(Book(genomes) \cup Marks(b.genes), first_innov_num'),
         Acyclic(b.genes), AllComplete(b, innovations'), \A g \in genomes : AllComplete(g, innovations')
  PROVE  PureInv'
<1>1. genomes' = genomes \cup {b}
  BY DEF Born
<1>2. Book(genomes') = Book(genomes) \cup Marks(b.genes)
  BY <1>1, BookGrows
<1>3. \A g \in genomes : Acyclic(g.genes)
  BY DEF PureInv
<1>4. \A g \in genomes' : Acyclic(g.genes) /\ \A v \in innovations' : Complete(g, v)
  BY <1>1, <1>3 DEF AllComplete
<1>5. QED
  BY <1>2, <1>4 DEF PureInv, PureBook

LEMMA LinkKeepsPure ==
  ASSUME TypeOK, MarkInv, PureInv, Pure, NEW g \in genomes, NEW in, NEW out, NEW recur, NEW v,
         LinkStep(g, in, out, recur, v), ~mistaken', ~gaveup'
  PROVE  PureInv'
<1> DEFINE b == LinkBaby(g, in, out, recur, v.num)
<1>0. ~mistaken
  BY DEF Pure
<1>1. /\ TheBook /\ Shape(g, cur_node_id) /\ g \in Genome /\ g.genes \in Seq(GeneType)
      /\ cur_innov_num \in Nat /\ first_innov_num \in Nat /\ Numbered(innovations, cur_innov_num)
      /\ PureBook(Book(genomes), first_innov_num) /\ Acyclic(g.genes) /\ v.num \in Nat
      /\ \A h \in genomes : AllComplete(h, innovations)
  <2>1. v.num \in Nat
    <3>1. KnownOrNovel(innovations, in, out, recur, cur_innov_num, v, innovations', cur_innov_num')
      BY DEF LinkStep
    <3>2. CASE v \in innovations
      BY <3>2 DEF TypeOK, Innovation
    <3>3. CASE v = NewLink(in, out, cur_innov_num)
      BY <3>3 DEF NewLink, TypeOK
    <3>4. QED
      BY <3>1, <3>2, <3>3 DEF KnownOrNovel
  <2>2. QED
    BY <1>0, <2>1 DEF MarkInv, TheBook, TypeOK, Genome, Numbered, PureInv, PureBook, AllComplete
<1>2. /\ in \in ToSet(g.nodes) /\ out \in ToSet(g.nodes)
      /\ \A x \in ToSet(g.genes) : Link(x) # <<in, out, recur>>
      /\ KnownOrNovel(innovations, in, out, recur, cur_innov_num, v, innovations', cur_innov_num')
      /\ Born(b) /\ first_innov_num' = first_innov_num
  BY DEF LinkStep
<1>3. Linked(g, in, out, recur, v.num, b) /\ in \in Nat /\ out \in Nat /\ recur \in BOOLEAN
  BY <1>0, LinkStepKeepsBook
<1> HIDE DEF b
<1>4. recur = Search(g, in, out).found /\ (gaveup \/ Search(g, in, out).todo # <<>>) = FALSE
  BY DEF LinkStep, is_recur
<1>5. ~recur => \E S : in \in S /\ Within(g, S) /\ out \notin S
  BY <1>1, <1>3, <1>4, SearchResult DEF Misses
<1>6. in = out => recur
  BY <1>5
<1>7. \A m \in Book(genomes) : m.num = v.num => m.recur = recur
  <2>1. \A h \in genomes : \A x \in ToSet(h.genes) : x.num = v.num => x.recur = recur
    BY DEF LinkStep
  <2>2. ASSUME NEW m \in Book(genomes)
        PROVE  \E h \in genomes : \E x \in ToSet(h.genes) : m = Mark(x)
    BY DEF Book, Marks
  <2>3. QED
    BY <2>1, <2>2 DEF Mark
<1>8. Marks(g.genes) \subseteq Book(genomes)
  BY DEF Book
<1>9. /\ PureBook(Book(genomes) \cup {LinkMark(in, out, recur, v.num)}, first_innov_num)
      /\ AllComplete(b, innovations') /\ \A w \in innovations' : w \in innovations \/ w.type = "NEWLINK"
  <2>1. BookOK(Book(genomes), innovations, first_innov_num, cur_innov_num, cur_node_id) /\ AllComplete(g, innovations)
    BY <1>1 DEF TheBook
  <2>2. PICK M, II, next2 : M = Book(genomes) /\ II = innovations' /\ next2 = cur_innov_num'
    OBVIOUS
  <2>3. LinkPure(innovations, in, out, recur, v, II, M, first_innov_num, b)
    <3>1. /\ BookOK(M, innovations, first_innov_num, cur_innov_num, cur_node_id) /\ Marks(g.genes) \subseteq M
          /\ \A m \in M : m.num = v.num => m.recur = recur
          /\ KnownOrNovel(innovations, in, out, recur, cur_innov_num, v, II, next2)
          /\ PureBook(M, first_innov_num)
      BY <1>1, <1>2, <1>7, <1>8, <2>1, <2>2
    <3>2. /\ g \in Genome /\ in \in ToSet(g.nodes) /\ out \in ToSet(g.nodes) /\ recur \in BOOLEAN
          /\ cur_innov_num \in Nat /\ first_innov_num \in Nat /\ Numbered(innovations, cur_innov_num)
          /\ \A x \in ToSet(g.genes) : Link(x) # <<in, out, recur>>
          /\ in = out => recur
          /\ Linked(g, in, out, recur, v.num, b) /\ AllComplete(g, innovations)
          /\ in \in Sensors \/ \A m \in M : m.num = v.num => m.recur = recur
      BY <1>1, <1>2, <1>3, <1>6, <2>1, <3>1
    <3>3. QED
      BY <3>1, <3>2, LinkStepPure
  <2>4. QED
    BY <2>2, <2>3 DEF LinkPure
<1>10. Book(genomes) \cup {LinkMark(in, out, recur, v.num)} = Book(genomes) \cup Marks(b.genes)
  BY <1>3, <1>8 DEF Linked
<1>11. \A h \in genomes : AllComplete(h, innovations')
  BY <1>1, <1>9 DEF AllComplete, Complete
<1>12. Acyclic(b.genes)
  <2> DEFINE x == Gene(in, out, recur, v.num)
  <2>1. ToSet(b.genes) = ToSet(g.genes) \cup {x}
    BY <1>3 DEF Linked
  <2>2. x \in GeneType /\ x.in = in /\ x.out = out /\ x.recur = recur
    BY <1>1, <1>3 DEF Gene, GeneType
  <2> HIDE DEF x
  <2>3. CASE recur
    <3>1. PICK rank \in [Nat -> Nat] : Ranked(g.genes, rank)
      BY <1>1 DEF Acyclic
    <3>2. Ranked(b.genes, rank)
      BY <2>1, <2>2, <2>3, <3>1 DEF Ranked
    <3>3. QED
      BY <3>2 DEF Acyclic
  <2>4. CASE ~recur
    <3>1. PICK S : in \in S /\ Within(g, S) /\ out \notin S
      BY <1>5, <2>4
    <3>2. QED
      BY <1>1, <2>1, <2>2, <3>1, LinkRanked
  <2>5. QED
    BY <2>3, <2>4
<1>13. PureBook(Book(genomes) \cup Marks(b.genes), first_innov_num')
  BY <1>2, <1>9, <1>10, Zenon
<1>14. QED
  BY <1>2, <1>9, <1>11, <1>12, <1>13, BornPure

LEMMA FlipKeepsPure ==
  ASSUME TypeOK, MarkInv, PureInv, Pure, NEW g \in genomes, NEW i, NEW e, Flips(g, i, e), ~reenabled'
  PROVE  PureInv'
<1> DEFINE b == FlagBaby(g, i, e)
<1>0. ~mistaken
  BY DEF Pure
<1>1. Flagged(g.genes, i, e, b.genes) /\ b.nodes = g.nodes
  BY <1>0, FlipKeepsBook
<1>2. /\ Born(b) /\ innovations' = innovations /\ first_innov_num' = first_innov_num /\ ~e /\ i \in DOMAIN g.genes
  BY DEF Flips
<1> HIDE DEF b
<1>3. /\ PureBook(Book(genomes), first_innov_num) /\ Acyclic(g.genes) /\ \A h \in genomes : AllComplete(h, innovations)
      /\ \A y \in ToSet(g.genes) : y \in GeneType
  <2>1. g.genes \in Seq(GeneType)
    BY DEF TypeOK, Genome
  <2>2. \A y \in ToSet(g.genes) : y \in GeneType
    BY <2>1, LenProperties, ElementOfSeq DEF ToSet
  <2>3. QED
    BY <2>2 DEF PureInv, PureBook, AllComplete
<1>4. Book(genomes) \cup Marks(b.genes) = Book(genomes)
  BY <1>1 DEF Flagged, Book
<1>5. Acyclic(b.genes)
  <2>1. PICK rank \in [Nat -> Nat] : Ranked(g.genes, rank)
    BY <1>3 DEF Acyclic
  <2>2. ASSUME NEW y \in ToSet(b.genes), y.enable
        PROVE  y \in ToSet(g.genes)
    <3>1. PICK k \in DOMAIN g.genes : y = b.genes[k]
      BY <1>1 DEF Flagged, ToSet
    <3>2. b.genes[i] = [g.genes[i] EXCEPT !.enable = e] /\ g.genes[i] \in GeneType
      BY <1>1, <1>2, <1>3 DEF Flagged, ToSet
    <3>3. b.genes[i].enable = e
      BY <3>2 DEF GeneType
    <3>4. k # i
      BY <1>2, <2>2, <3>1, <3>3
    <3>5. QED
      BY <1>1, <3>1, <3>4 DEF Flagged, ToSet
  <2>3. Ranked(b.genes, rank)
    BY <2>1, <2>2 DEF Ranked
  <2>4. QED
    BY <2>3 DEF Acyclic
<1>6. AllComplete(b, innovations)
  <2>1. ASSUME NEW n, Has(g.genes, n)
        PROVE  Has(b.genes, n)
    <3>1. PICK k \in DOMAIN g.genes : g.genes[k].num = n
      BY <2>1 DEF Has, ToSet
    <3>2. k \in DOMAIN b.genes /\ b.genes[k].num = n
      BY <1>1, <3>1 DEF Flagged
    <3>3. QED
      BY <3>2 DEF Has, ToSet
  <2>2. QED
    BY <1>1, <1>3, <2>1 DEF AllComplete, Complete
<1>7. PureBook(Book(genomes) \cup Marks(b.genes), first_innov_num')
  BY <1>2, <1>3, <1>4, Zenon
<1>8. QED
  BY <1>2, <1>3, <1>5, <1>6, <1>7, BornPure

LEMMA EpochKeepsPure ==
  ASSUME TypeOK, MarkInv, PureInv, Pure, Epoch
  PROVE  PureInv'
<1>0. ~mistaken
  BY DEF Pure
<1>1. /\ genomes' \subseteq genomes /\ innovations' = {} /\ first_innov_num' = cur_innov_num /\ cur_innov_num \in Nat
      /\ TheBook /\ NoLoop(Book(genomes)) /\ \A g \in genomes : Acyclic(g.genes)
  BY <1>0 DEF Epoch, TypeOK, MarkInv, TheBook, PureInv
<1>2. Book(genomes') \subseteq Book(genomes)
  BY <1>0, EpochKeepsBook
<1>3. ASSUME NEW m \in Book(genomes)
      PROVE  ~(m.num >= cur_innov_num)
  <2>1. m.num \in Nat /\ m.num < cur_innov_num
    BY <1>1 DEF TheBook, BookOK, Entry, MarkType
  <2>2. QED
    BY <1>1, <2>1
<1>4. Unique(Book(genomes'), first_innov_num')
  BY <1>1, <1>2, <1>3 DEF Unique, Recent
<1>5. NoLoop(Book(genomes'))
  BY <1>1, <1>2 DEF NoLoop
<1>6. QED
  BY <1>1, <1>4, <1>5 DEF PureInv

LEMMA InitPure ==
  ASSUME Init
  PROVE  PureInv
<1>1. TypeOK /\ MarkInv /\ TheBook /\ Book(genomes) = Marks(Starter.genes)
  BY InitTyped, InitKeepsBook DEF Init, MarkInv, TheBook
<1>2. genomes = {Starter} /\ innovations = {} /\ first_innov_num = cur_innov_num /\ cur_innov_num \in Nat
  BY <1>1 DEF Init, TypeOK
<1>3. \A x \in ToSet(Starter.genes) : x.in \in Sensors /\ x.out \in Outputs
  BY StarterIs DEF StarterGenes, ToSet
<1>4. \A m \in Book(genomes) : m.in \in Sensors /\ m.out \notin Sensors /\ ~(m.num >= cur_innov_num)
  <2>1. ASSUME NEW m \in Book(genomes)
        PROVE  m.out \notin Sensors /\ ~(m.num >= cur_innov_num)
    <3>1. m.num \in Nat /\ m.num < cur_innov_num /\ m.out \notin Sensors
      BY <1>1 DEF TheBook, BookOK, Entry, MarkType
    <3>2. QED
      BY <1>2, <3>1
  <2>2. ASSUME NEW m \in Book(genomes)
        PROVE  m.in \in Sensors
    BY <1>1, <1>3 DEF Marks, Mark
  <2>3. QED
    BY <2>1, <2>2
<1>5. Unique(Book(genomes), first_innov_num) /\ NoLoop(Book(genomes))
  BY <1>2, <1>4 DEF Unique, Recent, NoLoop
<1>6. Acyclic(Starter.genes)
  <2> DEFINE rank == [n \in Nat |-> IF n \in Sensors THEN 0 ELSE 1]
  <2>1. ASSUME NEW x \in ToSet(Starter.genes)
        PROVE  rank[x.in] < rank[x.out]
    <3>1. x.in \in Sensors /\ x.out \in Outputs /\ Sensors \subseteq Nat /\ Outputs \subseteq Nat
      BY <1>3, GenomeAssumption
    <3>2. Mark(x) \in Book(genomes) /\ Mark(x).out = x.out
      BY <1>2, InBook DEF Mark
    <3>3. x.out \notin Sensors
      BY <1>4, <3>2
    <3>4. rank[x.in] = 0 /\ rank[x.out] = 1
      BY <3>1, <3>3
    <3>5. QED
      BY <3>4
  <2>2. rank \in [Nat -> Nat]
    OBVIOUS
  <2> HIDE DEF rank
  <2>3. QED
    BY <2>1, <2>2 DEF Acyclic, Ranked
<1>7. QED
  BY <1>2, <1>5, <1>6 DEF PureInv

(* A split.  Two innovations of one node are one. *)
LEMMA NodeKeepsPure ==
  ASSUME TypeOK, MarkInv, PureInv, Pure, NEW g \in genomes, NEW i, NEW v, NodeStep(g, i, v), v.node \notin ToSet(g.nodes)
  PROVE  PureInv'
<1> DEFINE gene == g.genes[i]
           b == Split(g, i, v)
<1>0. ~mistaken
  BY DEF Pure
<1>1. /\ SplitOf(g, i, v, b) /\ v \in Innovation /\ SameSplit(v, gene) /\ Mark(gene) \in Book(genomes)
      /\ gene \in GeneType
  BY <1>0, NodeStepMarked
<1>2. /\ TheBook /\ Shape(g, cur_node_id) /\ g \in Genome /\ \A h \in genomes : Shape(h, cur_node_id)
      /\ PureBook(Book(genomes), first_innov_num) /\ Acyclic(g.genes) /\ \A h \in genomes : AllComplete(h, innovations)
      /\ \A w \in innovations : w \in Innovation
      /\ cur_node_id \in Nat
  BY <1>0 DEF MarkInv, TheBook, TypeOK, PureInv, PureBook, AllComplete
<1>3. /\ i \in DOMAIN g.genes /\ gene.enable /\ Born(b) /\ innovations' = innovations \cup {v}
      /\ first_innov_num' = first_innov_num
      /\ (v \in innovations /\ SameSplit(v, gene)) \/ v = NovelNode(gene)
  BY DEF NodeStep
<1> HIDE DEF gene, b
<1>4. Acyclic(b.genes)
  <2>1. PICK rest : /\ Flagged(g.genes, i, FALSE, rest)
                    /\ ToSet(b.genes) = ToSet(rest) \cup {Gene(g.genes[i].in, v.node, g.genes[i].recur, v.num),
                                                          Gene(v.node, g.genes[i].out, FALSE, v.num + 1)}
    BY <1>1 DEF SplitOf
  <2>2. g.genes[i].enable /\ NodesOf(g.genes) \subseteq ToSet(g.nodes)
    BY <1>2, <1>3 DEF gene, Shape
  <2>3. QED
    BY <1>1, <1>2, <1>3, <2>1, <2>2, SplitRanked
<1>5. /\ b.genes \in Seq(GeneType) /\ ToSet(b.nodes) = ToSet(g.nodes) \cup {v.node}
      /\ Marks(b.genes) = Marks(g.genes) \cup SplitMarks(gene, v)
  BY <1>1 DEF SplitOf, Genome, gene
<1>6. Has(b.genes, v.num) /\ Has(b.genes, v.num + 1)
  <2>1. ASSUME NEW m \in Marks(b.genes)
        PROVE  Has(b.genes, m.num)
    BY DEF Marks, Mark, Has
  <2>2. /\ LinkMark(gene.in, v.node, gene.recur, v.num) \in Marks(b.genes)
        /\ LinkMark(v.node, gene.out, FALSE, v.num + 1) \in Marks(b.genes)
    BY <1>5 DEF SplitMarks
  <2>3. QED
    BY <2>1, <2>2 DEF LinkMark
<1>7. ASSUME NEW n, Has(g.genes, n)
      PROVE  Has(b.genes, n)
  <2>1. PICK x \in ToSet(g.genes) : x.num = n
    BY <1>7 DEF Has
  <2>2. Mark(x) \in Marks(b.genes) /\ Mark(x).num = n
    BY <1>5, <2>1 DEF Marks, Mark
  <2>3. QED
    BY <2>2 DEF Marks, Mark, Has
<1>8. ASSUME NEW w \in innovations, w.type = "NEWNODE", w.node = v.node
      PROVE  w.num = v.num
  <2>1. AddedNode(w, Book(genomes), cur_node_id) /\ w.num \in Nat
    BY <1>2, <1>8 DEF TheBook, BookOK, Added, Innovation
  <2>2. CASE v = NovelNode(gene)
    <3>1. v.node = cur_node_id /\ w.node < cur_node_id
      BY <2>1, <2>2 DEF NovelNode, AddedNode
    <3>2. QED
      BY <1>2, <1>8, <3>1
  <2>3. CASE v \in innovations /\ SameSplit(v, gene)
    <3>1. AddedNode(v, Book(genomes), cur_node_id) /\ v.num \in Nat
      BY <1>2, <2>3 DEF TheBook, BookOK, Added, Innovation, SameSplit
    <3>2. (\E m \in Book(genomes) : m.num = v.num /\ m.out = v.node) /\ \E m \in Book(genomes) : m.num = w.num /\ m.out = w.node
      BY <2>1, <3>1 DEF AddedNode
    <3>3. v.num >= w.num /\ w.num >= v.num
      BY <1>8, <2>1, <3>1, <3>2 DEF AddedNode
    <3>4. QED
      BY <2>1, <3>1, <3>3
  <2>4. QED
    BY <1>3, <2>2, <2>3
<1>9. AllComplete(b, innovations')
  <2>1. ASSUME NEW w \in innovations, w.type = "NEWNODE", w.node \in ToSet(b.nodes)
        PROVE  Has(b.genes, w.num) /\ Has(b.genes, w.num + 1)
    <3>1. CASE w.node = v.node
      BY <1>6, <1>8, <2>1, <3>1
    <3>2. CASE w.node \in ToSet(g.nodes)
      <4>1. Has(g.genes, w.num) /\ Has(g.genes, w.num + 1)
        BY <1>2, <2>1, <3>2 DEF AllComplete, Complete
      <4>2. QED
        BY <1>7, <4>1
    <3>3. QED
      BY <1>5, <2>1, <3>1, <3>2
  <2>2. QED
    BY <1>3, <1>6, <2>1 DEF AllComplete, Complete
<1>10. ASSUME NEW h \in genomes
       PROVE  AllComplete(h, innovations')
  <2>1. CASE v \in innovations
    <3>1. innovations' = innovations
      BY <1>3, <2>1
    <3>2. QED
      BY <1>2, <3>1
  <2>2. CASE v = NovelNode(gene)
    <3>1. v.node = cur_node_id
      BY <2>2 DEF NovelNode
    <3>2. cur_node_id \notin ToSet(h.nodes)
      <4>1. \A n \in ToSet(h.nodes) : n < cur_node_id
        BY <1>2 DEF Shape
      <4>2. QED
        BY <1>2, <4>1
    <3>3. QED
      BY <1>2, <1>3, <3>1, <3>2 DEF AllComplete, Complete
  <2>3. QED
    BY <1>3, <2>1, <2>2
<1>11. PureBook(Book(genomes) \cup SplitMarks(gene, v), first_innov_num)
  <2>1. CASE v \in innovations /\ SameSplit(v, gene)
    <3>1. SplitMarks(gene, v) \subseteq Book(genomes)
      BY <1>1, <1>2, <2>1, KnownSplit DEF TheBook
    <3>2. Book(genomes) \cup SplitMarks(gene, v) = Book(genomes)
      BY <3>1
    <3>3. QED
      BY <1>2, <3>2
  <2>2. CASE v = NovelNode(gene)
    <3> DEFINE x == LinkMark(gene.in, v.node, gene.recur, v.num)
               y == LinkMark(v.node, gene.out, FALSE, v.num + 1)
    <3>1. v.node = cur_node_id
      BY <2>2 DEF NovelNode
    <3>2. \A m \in Book(genomes) : m.in # v.node /\ m.out # v.node
      <4>1. \A m \in Book(genomes) : m.in < cur_node_id /\ m.out < cur_node_id
        BY <1>2 DEF TheBook, BookOK, Entry
      <4>2. QED
        BY <1>2, <3>1, <4>1
    <3>3. Mark(gene).in = gene.in /\ Mark(gene).out = gene.out
      BY DEF Mark
    <3>4. gene.in # v.node /\ gene.out # v.node
      BY <1>1, <3>2, <3>3
    <3>5. x.in = gene.in /\ x.out = v.node /\ y.in = v.node /\ y.out = gene.out
      BY DEF LinkMark
    <3>6. SplitMarks(gene, v) = {x, y}
      BY DEF SplitMarks
    <3> HIDE DEF x, y
    <3>7. Unique(Book(genomes) \cup {x, y}, first_innov_num)
      BY <1>2, <3>2, <3>4, <3>5 DEF PureBook, Unique
    <3>8. NoLoop(Book(genomes) \cup {x, y})
      BY <1>2, <3>2, <3>4, <3>5 DEF PureBook, NoLoop
    <3>9. QED
      BY <3>6, <3>7, <3>8 DEF PureBook
  <2>3. QED
    BY <1>3, <2>1, <2>2
<1>12. Book(genomes) \cup SplitMarks(gene, v) = Book(genomes) \cup Marks(b.genes)
  BY <1>5 DEF Book
<1>13. PureBook(Book(genomes) \cup Marks(b.genes), first_innov_num')
  BY <1>3, <1>11, <1>12, Zenon
<1>14. QED
  BY <1>3, <1>4, <1>9, <1>10, <1>13, BornPure

(* Linking a sensor, one output after the other: nothing leads into it. *)
SensorPure(g, I, M, first, t) ==
  /\ PureBook(M \cup Marks(t.genes), first) /\ Acyclic(t.genes) /\ AllComplete(Grown(g, t), t.innovations)
  /\ \A w \in t.innovations : w \in I \/ w.type = "NEWLINK"
LEMMA SensorStepPure ==
  ASSUME NEW g \in Genome, NEW sensor \in ToSet(g.nodes), NEW output \in ToSet(g.nodes), NEW next \in Nat,
         NEW first \in Nat, first <= next, NEW nodes \in Nat, NEW M, sensor \in Sensors, output \in Outputs, NEW I,
         NEW t, SensorTyped(next, t), SensorMarked(g, M, first, nodes, t), SensorPure(g, I, M, first, t)
  PROVE  SensorPure(g, I, M, first, ConnectSensor(t, sensor, output))
<1> DEFINE u == ConnectSensor(t, sensor, output)
<1>1. g.nodes \in Seq(Nat) /\ t \in SensorState /\ t.num \in Nat /\ t.genes \in Seq(GeneType)
  BY DEF Genome, SensorTyped, SensorState
<1>2. sensor \in Nat /\ output \in Nat /\ output \notin Sensors
  BY <1>1, GenomeAssumption DEF ToSet
<1>3. u = t \/ \E v : SensorStep(g, t, sensor, output, v, u)
  BY <1>1, <1>2, SensorStepIs
<1> HIDE DEF u
<1>4. ASSUME NEW v, SensorStep(g, t, sensor, output, v, u)
      PROVE  SensorPure(g, I, M, first, u)
  <2> DEFINE h == Grown(g, t)
             b == LinkBaby(h, sensor, output, FALSE, v.num)
             MM == M \cup Marks(t.genes)
             x == Gene(sensor, output, FALSE, v.num)
  <2>1. h \in Genome /\ h.nodes = g.nodes /\ h.genes = t.genes
    BY <1>1 DEF Grown, Genome
  <2>2. b = Grown(g, u)
    BY <1>4 DEF SensorStep
  <2>3. KnownOrNovel(t.innovations, sensor, output, FALSE, t.num, v, u.innovations, u.num)
        /\ Numbered(t.innovations, t.num)
    BY <1>4 DEF SensorStep, SensorTyped
  <2>4. BookOK(MM, t.innovations, first, t.num, nodes) /\ PureBook(MM, first)
    BY DEF SensorMarked, SensorPure
  <2>5. AllComplete(h, t.innovations) /\ Acyclic(t.genes) /\ \A w \in t.innovations : w \in I \/ w.type = "NEWLINK"
    BY DEF SensorPure
  <2> HIDE DEF h
  <2>6. \A y \in ToSet(h.genes) : Link(y) # <<sensor, output, FALSE>>
    BY <1>4, <2>1 DEF SensorStep, AlreadyThere, Link
  <2>7. Linked(h, sensor, output, FALSE, v.num, b) /\ v.num \in Nat
    <3>1. LinkTyped(h, t.innovations, sensor, output, FALSE, t.num, v, u.innovations, u.num, b)
      BY <1>1, <2>1, <2>3, LinkStepTyped DEF SensorTyped
    <3>2. QED
      BY <3>1 DEF LinkTyped
  <2> HIDE DEF b, MM
  <2>8. Marks(h.genes) \subseteq MM
    BY <2>1 DEF MM
  <2>9. /\ PureBook(MM \cup {LinkMark(sensor, output, FALSE, v.num)}, first) /\ AllComplete(b, u.innovations)
        /\ \A w \in u.innovations : w \in t.innovations \/ w.type = "NEWLINK"
    <3>1. sensor \in ToSet(h.nodes) /\ output \in ToSet(h.nodes) /\ sensor # output
      BY <1>2, <2>1
    <3>2. PICK II, next2, recur : II = u.innovations /\ next2 = u.num /\ recur = FALSE
      OBVIOUS
    <3>3. /\ KnownOrNovel(t.innovations, sensor, output, recur, t.num, v, II, next2)
          /\ \A y \in ToSet(h.genes) : Link(y) # <<sensor, output, recur>>
          /\ Linked(h, sensor, output, recur, v.num, b)
          /\ (sensor = output => recur) /\ recur \in BOOLEAN
      BY <2>3, <2>6, <2>7, <3>1, <3>2, Zenon
    <3>4. PICK I1, next1 : I1 = t.innovations /\ next1 = t.num
      OBVIOUS
    <3>5. /\ h \in Genome /\ next1 \in Nat /\ Numbered(I1, next1) /\ BookOK(MM, I1, first, next1, nodes)
          /\ Marks(h.genes) \subseteq MM /\ PureBook(MM, first) /\ AllComplete(h, I1)
          /\ KnownOrNovel(I1, sensor, output, recur, next1, v, II, next2)
          /\ sensor \in Sensors \/ \A m \in MM : m.num = v.num => m.recur = recur
      BY <1>1, <2>1, <2>3, <2>4, <2>5, <2>8, <3>3, <3>4
    <3>6. LinkPure(I1, sensor, output, recur, v, II, MM, first, b)
      BY <3>1, <3>3, <3>5, LinkStepPure
    <3>7. QED
      BY <3>2, <3>4, <3>6, Zenon DEF LinkPure
  <2>10. b.genes = u.genes
    BY <2>2 DEF Grown
  <2>11. M \cup Marks(u.genes) = MM \cup {LinkMark(sensor, output, FALSE, v.num)}
    BY <2>1, <2>7, <2>10 DEF Linked, MM
  <2>12. Acyclic(u.genes)
    <3>1. Within(h, {sensor})
      <4>1. ASSUME NEW y \in ToSet(h.genes)
            PROVE  y.out # sensor
        <5>1. Mark(y) \in MM /\ Mark(y).out = y.out
          BY <2>8 DEF Marks, Mark
        <5>2. Entry(Mark(y), t.num, nodes)
          BY <2>4, <5>1 DEF BookOK
        <5>3. QED
          BY <5>1, <5>2 DEF Entry
      <4>2. QED
        BY <4>1 DEF Within
    <3>2. x \in GeneType /\ x.in = sensor /\ x.out = output
      BY <1>2, <2>7 DEF Gene, GeneType
    <3>3. ToSet(u.genes) = ToSet(h.genes) \cup {x}
      BY <2>7, <2>10 DEF Linked
    <3> HIDE DEF x
    <3>4. x.in \in {sensor} /\ x.out \notin {sensor}
      BY <1>2, <3>2
    <3>5. QED
      BY <2>1, <2>5, <3>1, <3>2, <3>3, <3>4, LinkRanked
  <2>13. PureBook(M \cup Marks(u.genes), first) /\ AllComplete(Grown(g, u), u.innovations)
    BY <2>2, <2>9, <2>11, Zenon
  <2>14. QED
    BY <2>5, <2>9, <2>12, <2>13 DEF SensorPure
<1>5. QED
  BY <1>3, <1>4 DEF u

LEMMA SensorKeepsPure ==
  ASSUME TypeOK, MarkInv, PureInv, Pure, NEW g \in genomes, NEW sensor, NEW outputs, NEW s,
         SensorsLinked(g, sensor, outputs, s)
  PROVE  PureInv'
<1> DEFINE base == [genes |-> g.genes, innovations |-> innovations, num |-> cur_innov_num]
           M == Book(genomes)
<1>0. ~mistaken
  BY DEF Pure
<1>1. /\ BookOK(M, innovations, first_innov_num, cur_innov_num, cur_node_id) /\ Shape(g, cur_node_id) /\ g \in Genome
      /\ Before(g.genes, cur_innov_num) /\ g.genes \in Seq(GeneType) /\ g.nodes \in Seq(Nat)
      /\ g = [nodes |-> g.nodes, genes |-> g.genes]
      /\ cur_node_id \in Nat /\ cur_innov_num \in Nat /\ first_innov_num \in Nat /\ first_innov_num <= cur_innov_num
      /\ Numbered(innovations, cur_innov_num) /\ innovations \in SUBSET Innovation
      /\ PureBook(M, first_innov_num) /\ Acyclic(g.genes) /\ \A h \in genomes : AllComplete(h, innovations)
  BY <1>0 DEF MarkInv, TypeOK, Genome, Below, Numbered, PureInv, PureBook, AllComplete
<1>2. /\ sensor \in ToSet(g.nodes) /\ outputs \in Seq(Nat) /\ ToSet(outputs) \subseteq ToSet(g.nodes)
      /\ s = Connected(base, sensor, outputs)
      /\ sensor \in Sensors /\ ToSet(outputs) \subseteq Outputs
      /\ Born(Grown(g, s)) /\ innovations' = s.innovations /\ first_innov_num' = first_innov_num
  BY DEF SensorsLinked, history
<1>3. base \in SensorState /\ base.genes = g.genes /\ base.innovations = innovations /\ base.num = cur_innov_num
  BY <1>1 DEF SensorState
<1>4. Marks(g.genes) \subseteq M
  BY DEF Book
<1> HIDE DEF base, M
<1>5. \A output \in ToSet(outputs) : output \in Nat /\ output \in ToSet(g.nodes) /\ output \in Outputs
  <2>1. \A n \in ToSet(g.nodes) : n \in Nat
    BY <1>1 DEF ToSet
  <2>2. QED
    BY <1>2, <2>1
<1> DEFINE P(t) == /\ SensorTyped(cur_innov_num, t) /\ SensorMarked(g, M, first_innov_num, cur_node_id, t)
                   /\ SensorPure(g, innovations, M, first_innov_num, t)
           Q == {t \in SensorState : P(t)}
<1>6. base \in Q
  <2>1. Grown(g, base) = g /\ M \cup Marks(g.genes) = M
    BY <1>1, <1>3, <1>4 DEF Grown
  <2>2. SensorTyped(cur_innov_num, base)
    BY <1>1, <1>3 DEF SensorTyped
  <2>3. SensorMarked(g, M, first_innov_num, cur_node_id, base)
    BY <1>1, <1>3, <2>1 DEF SensorMarked
  <2>4. SensorPure(g, innovations, M, first_innov_num, base)
    BY <1>1, <1>3, <2>1 DEF SensorPure
  <2>5. QED
    BY <1>3, <2>2, <2>3, <2>4
<1>7. ASSUME NEW t \in Q, NEW output \in ToSet(outputs)
      PROVE  ConnectSensor(t, sensor, output) \in Q
  <2>1. P(t)
    OBVIOUS
  <2>2. SensorTyped(cur_innov_num, ConnectSensor(t, sensor, output))
    BY <1>1, <1>2, <1>5, <2>1, SensorStepTyped
  <2>3. SensorMarked(g, M, first_innov_num, cur_node_id, ConnectSensor(t, sensor, output))
    BY <1>1, <1>2, <1>5, <2>1, SensorStepMarked
  <2>4. SensorPure(g, innovations, M, first_innov_num, ConnectSensor(t, sensor, output))
    BY <1>1, <1>2, <1>5, <2>1, SensorStepPure
  <2>5. ConnectSensor(t, sensor, output) \in SensorState
    BY <2>2 DEF SensorTyped
  <2>6. QED
    BY <2>2, <2>3, <2>4, <2>5
<1>8. P(s)
  <2>1. Q \in SUBSET SensorState /\ (s \in Q => P(s)) /\ sensor \in Nat
    BY <1>1, <1>2 DEF ToSet
  <2> HIDE DEF P, Q
  <2>2. s \in Q
    BY <1>2, <1>6, <1>7, <2>1, ConnectedKeeps
  <2>3. QED
    BY <2>1, <2>2
<1>9. PICK b : b = Grown(g, s)
  OBVIOUS
<1>10. b.genes = s.genes /\ Born(b)
  BY <1>2, <1>9 DEF Grown
<1>11. PureBook(Book(genomes) \cup Marks(b.genes), first_innov_num')
  BY <1>2, <1>8, <1>10, Zenon DEF SensorPure, M
<1>12. Acyclic(b.genes) /\ AllComplete(b, innovations')
  BY <1>2, <1>8, <1>9, <1>10, Zenon DEF SensorPure
<1>13. \A h \in genomes : AllComplete(h, innovations')
  BY <1>1, <1>2, <1>8 DEF SensorPure, AllComplete, Complete
<1>14. QED
  BY <1>10, <1>11, <1>12, <1>13, BornPure

(* Mating: the baby takes its genes from the better parent, or like those, *)
(* and of a node of the generation both genes: the older one conflicts     *)
(* with none, the other only if the gene that was split led back.          *)
LEMMA BetterTaken ==
  ASSUME NEW M, NEW I, NEW first, NEW next, NEW nodes, BookOK(M, I, first, next, nodes), NoLoop(M),
         NEW better, Different(better), Marks(better) \subseteq M, NEW genes, From(better, genes), Marks(genes) \subseteq M,
         \A c \in ToSet(better) : Taken(genes, c),
         NEW v \in I, v \in Innovation, v.type = "NEWNODE", Has(better, v.num), Has(better, v.num + 1)
  PROVE  Has(genes, v.num) /\ Has(genes, v.num + 1)
<1>1. AddedNode(v, M, nodes) /\ v.num \in Nat /\ \A m, n \in M : m.num = n.num => m = n
  BY DEF BookOK, Added, Innovation
<1>2. PICK x \in M, y \in M, z \in M :
        /\ x.num = v.num /\ x.in = v.in /\ x.out = v.node /\ x.recur = z.recur
        /\ y.num = v.num + 1 /\ y.in = v.node /\ y.out = v.out /\ ~y.recur
        /\ z.num = v.old /\ z.in = v.in /\ z.out = v.out
  BY <1>1 DEF AddedNode
<1>3. PICK c1 \in ToSet(better), c2 \in ToSet(better) : c1.num = v.num /\ c2.num = v.num + 1
  BY DEF Has
<1>4. Mark(c1) = x /\ Mark(c2) = y
  <2>1. Mark(c1) \in M /\ Mark(c2) \in M /\ Mark(c1).num = c1.num /\ Mark(c2).num = c2.num
    BY DEF Marks, Mark
  <2>2. QED
    BY <1>1, <1>2, <1>3, <2>1
<1>5. /\ c1.in = v.in /\ c1.out = v.node /\ c1.recur = z.recur
      /\ c2.in = v.node /\ c2.out = v.out
  BY <1>2, <1>4 DEF Mark
<1>6. ASSUME NEW c \in ToSet(better), NEW g \in ToSet(genes), g.num < c.num, Link(g) = Link(c)
      PROVE  ~(c.num \in Nat)
  <2>1. PICK d \in ToSet(better) : d.num = g.num
    BY DEF From, Has
  <2>2. Mark(d) = Mark(g)
    <3>1. Mark(d) \in M /\ Mark(g) \in M /\ Mark(d).num = Mark(g).num
      BY <2>1 DEF Marks, Mark
    <3>2. QED
      BY <1>1, <3>1
  <2>3. Link(d) = Link(c)
    BY <1>6, <2>2 DEF Mark, Link
  <2>4. d.num = c.num
    BY <2>3 DEF Different
  <2>5. QED
    BY <1>6, <2>1, <2>4
<1>7. ASSUME NEW g \in ToSet(genes), g.in = v.node \/ g.out = v.node
      PROVE  g.num >= v.num
  <2>1. Mark(g) \in M /\ (Mark(g).in = v.node \/ Mark(g).out = v.node) /\ Mark(g).num = g.num
    BY <1>7 DEF Marks, Mark
  <2>2. QED
    BY <1>1, <2>1 DEF AddedNode
<1>8. \A g \in ToSet(genes) : g.num \in Nat
  <2>1. ASSUME NEW g \in ToSet(genes)
        PROVE  g.num \in Nat
    <3>1. Mark(g) \in M /\ Mark(g).num = g.num
      BY DEF Marks, Mark
    <3>2. Mark(g) \in MarkType
      BY <3>1 DEF BookOK
    <3>3. QED
      BY <3>1, <3>2 DEF MarkType
  <2>2. QED
    BY <2>1
<1>9. Has(genes, v.num)
  <2> SUFFICES ASSUME NEW g \in ToSet(genes), g.num < c1.num, Clash(g, c1)
               PROVE  FALSE
    BY <1>3 DEF Taken
  <2>1. c1.num \in Nat /\ g.num \in Nat
    BY <1>1, <1>3, <1>8
  <2>2. g.in = c1.out
    BY <1>6, <2>1 DEF Clash
  <2>3. g.num >= v.num
    BY <1>5, <1>7, <2>2
  <2>4. QED
    BY <1>3, <2>1, <2>3
<1>10. Has(genes, v.num + 1)
  <2> SUFFICES ASSUME NEW g \in ToSet(genes), g.num < c2.num, Clash(g, c2)
               PROVE  FALSE
    BY <1>3 DEF Taken
  <2>1. c2.num \in Nat /\ g.num \in Nat
    BY <1>1, <1>3, <1>8
  <2>2. g.in = c2.out /\ g.out = c2.in /\ ~g.recur
    BY <1>6, <2>1 DEF Clash
  <2>3. g.num >= v.num
    BY <1>5, <1>7, <2>2
  <2>4. g.num = v.num
    BY <1>1, <1>3, <2>1, <2>3
  <2>5. Mark(g) = x
    <3>1. Mark(g) \in M /\ Mark(g).num = v.num
      BY <2>4 DEF Marks, Mark
    <3>2. QED
      BY <1>1, <1>2, <3>1
  <2>6. x.in = v.out /\ ~x.recur
    BY <1>5, <2>2, <2>5 DEF Mark
  <2>7. z.in = z.out /\ ~z.recur
    BY <1>2, <2>6
  <2>8. QED
    BY <2>7 DEF NoLoop
<1>11. QED
  BY <1>9, <1>10

LEMMA MateKeepsPure ==
  ASSUME TypeOK, MarkInv, PureInv, Pure, NEW mom \in genomes, NEW dad \in genomes, NEW b, NEW genes,
         MatingBoth(mom, dad, b, genes), ~reenabled'
  PROVE  PureInv'
<1> DEFINE M == Book(genomes)
           S == BabyNodes(dad, genes)
<1>0. ~mistaken
  BY DEF Pure
<1>1. /\ BookOK(M, innovations, first_innov_num, cur_innov_num, cur_node_id)
      /\ \A g \in genomes : /\ Shape(g, cur_node_id) /\ Acyclic(g.genes) /\ AllComplete(g, innovations)
                            /\ Marks(g.genes) \subseteq M
      /\ PureBook(M, first_innov_num) /\ \A w \in innovations : w \in Innovation
  BY <1>0 DEF MarkInv, PureInv, PureBook, AllComplete, Book, TypeOK
<1>2. /\ b \in BOOLEAN /\ Mating(mom.genes, dad.genes, genes, S) /\ TookBetter(mom.genes, dad.genes, b, genes)
      /\ ~Reenabled(genes, mom.genes, dad.genes)
  BY DEF MatingBoth, Mating
<1>3. /\ S \in SUBSET Nat /\ IsFiniteSet(S) /\ Born([nodes |-> Nodes(S), genes |-> genes])
      /\ innovations' = innovations /\ first_innov_num' = first_innov_num
  BY <1>2 DEF Mating
<1>4. Marks(genes) \subseteq M
  BY <1>0, <1>2, MatingKeepsBook
<1>5. Alike(mom.genes, dad.genes)
  <2>1. Agree(mom.genes, dad.genes)
    BY <1>1, BookAgrees DEF TheBook
  <2>2. QED
    BY <1>1, <2>1 DEF Alike, Shape
<1>6. PICK g \in genomes : g \in {mom, dad} /\ g.genes = Better(mom.genes, dad.genes, b)
  BY <1>2 DEF Better
<1>7. From(g.genes, genes) /\ \A c \in ToSet(g.genes) : Taken(genes, c)
  BY <1>2, <1>5, <1>6 DEF TookBetter
<1>8. S = NodesOf(genes) \cup (ToSet(dad.nodes) \cap (Sensors \cup Outputs))
  BY DEF BabyNodes
<1> HIDE DEF M, S
<1>9. PICK baby : baby = [nodes |-> Nodes(S), genes |-> genes]
  OBVIOUS
<1>10. baby.genes = genes /\ ToSet(baby.nodes) = S /\ Born(baby)
  BY <1>3, <1>9, NodesInOrder
<1>11. ASSUME NEW x \in ToSet(genes)
       PROVE  \E y \in ToSet(g.genes) : Mark(x) = Mark(y) /\ x.num = y.num
  <2>1. PICK y \in ToSet(g.genes) : y.num = x.num
    BY <1>7 DEF From, Has
  <2>2. Mark(x) \in M /\ Mark(y) \in M /\ Mark(x).num = Mark(y).num
    BY <1>1, <1>4, <2>1 DEF Marks, Mark
  <2>3. QED
    BY <1>1, <2>1, <2>2 DEF BookOK
<1>12. Acyclic(genes)
  <2>1. PICK rank \in [Nat -> Nat] : Ranked(g.genes, rank)
    BY <1>1 DEF Acyclic
  <2>2. ASSUME NEW x \in ToSet(genes), x.enable, ~x.recur
        PROVE  rank[x.in] < rank[x.out]
    <3>1. PICK y \in ToSet(g.genes) : Mark(x) = Mark(y) /\ x.num = y.num
      BY <1>11
    <3>2. y.enable
      BY <1>2, <1>6, <2>2, <3>1 DEF Reenabled
    <3>3. x.in = y.in /\ x.out = y.out /\ x.recur = y.recur
      BY <3>1 DEF Mark
    <3>4. QED
      BY <2>1, <2>2, <3>2, <3>3 DEF Ranked
  <2>3. QED
    BY <2>1, <2>2 DEF Acyclic, Ranked
<1>13. AllComplete(baby, innovations)
  <2>1. ASSUME NEW w \in innovations, w.type = "NEWNODE", w.node \in S
        PROVE  Has(genes, w.num) /\ Has(genes, w.num + 1)
    <3>1. w.node \notin Sensors \cup Outputs
      BY <1>1, <2>1 DEF BookOK, Added, AddedNode
    <3>2. PICK x \in ToSet(genes) : w.node = x.in \/ w.node = x.out
      BY <1>8, <2>1, <3>1 DEF NodesOf
    <3>3. PICK y \in ToSet(g.genes) : w.node = y.in \/ w.node = y.out
      BY <1>11, <3>2 DEF Mark
    <3>4. w.node \in ToSet(g.nodes)
      BY <1>1, <3>3 DEF Shape, NodesOf
    <3>5. Has(g.genes, w.num) /\ Has(g.genes, w.num + 1)
      BY <1>1, <2>1, <3>4 DEF AllComplete, Complete
    <3>6. Different(g.genes) /\ Marks(g.genes) \subseteq M /\ NoLoop(M) /\ w \in Innovation
      BY <1>1 DEF Shape, PureBook
    <3>7. QED
      BY <1>1, <1>4, <1>7, <2>1, <3>5, <3>6, BetterTaken
  <2>2. QED
    BY <1>10, <2>1 DEF AllComplete, Complete
<1>14. PureBook(Book(genomes) \cup Marks(baby.genes), first_innov_num')
  <2>1. M \cup Marks(genes) = M
    BY <1>4
  <2>2. QED
    BY <1>1, <1>3, <1>10, <2>1, Zenon DEF M
<1>15. Acyclic(baby.genes) /\ AllComplete(baby, innovations') /\ \A h \in genomes : AllComplete(h, innovations')
  BY <1>1, <1>3, <1>10, <1>12, <1>13
<1>16. QED
  BY <1>10, <1>14, <1>15, BornPure

LEMMA NextPure ==
  ASSUME TypeOK, MarkInv, PureInv, [Next]_vars
  PROVE  PureInv'
<1> SUFFICES ASSUME Pure'
             PROVE  PureInv'
  BY DEF PureInv
<1>0. ~mistaken' /\ ~reenabled' /\ ~crossed' /\ ~gaveup'
  BY DEF Pure
<1>1. CASE AddNode
  <2>1. PICK g \in genomes : \E i, v : NodeStep(g, i, v)
    BY <1>1, AddNodeIs
  <2>2. PICK i, v : NodeStep(g, i, v)
    BY <2>1
  <2>3. Pure /\ v.node \notin ToSet(g.nodes)
    BY <1>0, <2>2 DEF NodeStep, Pure
  <2>4. QED
    BY <2>2, <2>3, NodeKeepsPure
<1>2. CASE AddLink
  <2>1. PICK g \in genomes : \E in, out, recur, v : LinkStep(g, in, out, recur, v)
    BY <1>2, AddLinkIs DEF TypeOK
  <2>2. PICK in, out, recur, v : LinkStep(g, in, out, recur, v)
    BY <2>1
  <2>3. Pure
    BY <1>0, <2>2 DEF LinkStep, Pure
  <2>4. QED
    BY <1>0, <2>2, <2>3, LinkKeepsPure
<1>3. CASE AddSensor
  <2>1. PICK g \in genomes : \E sensor, outputs, s : SensorsLinked(g, sensor, outputs, s)
    BY <1>3, AddSensorIs
  <2>2. PICK sensor, outputs, s : SensorsLinked(g, sensor, outputs, s)
    BY <2>1
  <2>3. Pure
    BY <1>0, <2>2 DEF SensorsLinked, history, Pure
  <2>4. QED
    BY <2>2, <2>3, SensorKeepsPure
<1>4. CASE ToggleEnable \/ GeneReenable
  <2>1. PICK g \in genomes : \E i, e : Flips(g, i, e)
    BY <1>4, FlipIs
  <2>2. PICK i, e : Flips(g, i, e)
    BY <2>1
  <2>3. Pure
    BY <1>0, <2>2 DEF Flips, Pure
  <2>4. QED
    BY <1>0, <2>2, <2>3, FlipKeepsPure
<1>5. CASE MateMultipoint
  <2>1. PICK mom \in genomes, dad \in genomes : \E b, genes : MatingBoth(mom, dad, b, genes)
    BY <1>5, MateMultipointIs
  <2>2. PICK b, genes : MatingBoth(mom, dad, b, genes)
    BY <2>1
  <2>3. Pure
    BY <1>0, <2>2 DEF MatingBoth, Mating, Pure
  <2>4. QED
    BY <1>0, <2>2, <2>3, MateKeepsPure
<1>6. CASE MateSinglepoint
  BY <1>0, <1>6, MateSinglepointIs
<1>7. CASE Epoch
  <2>1. Pure
    BY <1>0, <1>7 DEF Epoch, Pure
  <2>2. QED
    BY <1>7, <2>1, EpochKeepsPure
<1>8. CASE UNCHANGED vars
  BY <1>8 DEF vars, history, PureInv, Pure
<1>9. QED
  BY <1>1, <1>2, <1>3, <1>4, <1>5, <1>6, <1>7, <1>8 DEF Next, Reproduce

(* As long as no innovation was mistaken, no gene enabled again, no genome *)
(* cut and no search of is_recur given up: a forward link of the           *)
(* generation has one number, the enabled forward links of a genome can be *)
(* ranked, and a genome that has a node of the generation has both the     *)
(* genes the node came with.                                               *)
THEOREM PureKept == Spec => []PureInv
<1>1. Init => PureInv
  BY InitPure
<1>2. TypeOK /\ MarkInv /\ PureInv /\ [Next]_vars => PureInv'
  BY NextPure
<1>3. QED
  BY <1>1, <1>2, TypeCorrect, BookKept, PTL DEF Spec

(* Searches that come to their end are enough: the enabled links that are  *)
(* not marked recurrent form no cycle in any genome, until is_recur gives  *)
(* a search up at its threshold, a gene is enabled again, a genome is cut  *)
(* or an innovation mistaken.                                              *)
THEOREM ForwardAcyclicHolds == Spec => []ForwardAcyclic
<1>1. TypeOK /\ PureInv => ForwardAcyclic
  BY AcyclicNotCyclic DEF TypeOK, PureInv, Pure, ForwardAcyclic
<1>2. QED
  BY <1>1, TypeCorrect, PureKept, PTL

(* Historical marking: in all genomes and generations an innovation number *)
(* names one link, and a forward link that is added in one generation, to  *)
(* whichever genomes, has one number, as long as none of the things has    *)
(* happened that let forward links form a cycle.                           *)
THEOREM NumbersNameLinksHolds == Spec => []NumbersNameLinks
<1>1. ASSUME MarkInv, PureInv
      PROVE  NumbersNameLinks
  <2> SUFFICES ASSUME ~mistaken, NEW g \in genomes, NEW h \in genomes, NEW x \in ToSet(g.genes), NEW y \in ToSet(h.genes)
               PROVE  /\ x.num = y.num => Link(x) = Link(y)
                      /\ ~crossed /\ ~reenabled /\ ~gaveup
                         /\ ~x.recur /\ x.num >= first_innov_num /\ y.num >= first_innov_num =>
                           (Link(x) = Link(y) => x.num = y.num)
    BY DEF NumbersNameLinks, Genes
  <2>1. Mark(x) \in Book(genomes) /\ Mark(y) \in Book(genomes)
    BY InBook
  <2>2. /\ Mark(x).num = x.num /\ Mark(x).in = x.in /\ Mark(x).out = x.out /\ Mark(x).recur = x.recur
        /\ Mark(y).num = y.num /\ Mark(y).in = y.in /\ Mark(y).out = y.out /\ Mark(y).recur = y.recur
    BY DEF Mark
  <2>3. x.num = y.num => Link(x) = Link(y)
    <3>1. x.num = y.num => Mark(x) = Mark(y)
      BY <1>1, <2>1, <2>2 DEF MarkInv, BookOK
    <3>2. QED
      BY <2>2, <3>1 DEF Link
  <2>4. ASSUME ~crossed, ~reenabled, ~gaveup, ~x.recur, x.num >= first_innov_num, y.num >= first_innov_num, Link(x) = Link(y)
        PROVE  x.num = y.num
    <3>1. x.in = y.in /\ x.out = y.out /\ x.recur = y.recur
      BY <2>4 DEF Link
    <3>2. Unique(Book(genomes), first_innov_num)
      BY <1>1, <2>4 DEF PureInv, Pure
    <3>3. Recent(Mark(x), first_innov_num) /\ Recent(Mark(y), first_innov_num)
      BY <2>2, <2>4, <3>1 DEF Recent
    <3>4. Mark(x) = Mark(y)
      BY <2>1, <2>2, <3>1, <3>2, <3>3 DEF Unique
    <3>5. QED
      BY <2>2, <3>4
  <2>5. QED
    BY <2>3, <2>4
<1>2. QED
  BY <1>1, BookKept, PureKept, PTL
=============================================================================
