------------------------------ MODULE NeatGenome ------------------------------
(***************************************************************************)
(* The genomes of the NEAT library (genome.cpp, innovation.cpp, the calls  *)
(* of Species::reproduce): a genome is a sequence of genes, sorted by      *)
(* innovation number, each a link between two nodes.  Mutations add nodes  *)
(* and links and take their numbers from the innovations of the            *)
(* generation, so that the same mutation in two genomes gets the same      *)
(* number; mating lines two genomes up by these numbers.                   *)
(*                                                                         *)
(* Weights and traits are left out: no gene is added or lost for them.     *)
(* A node is its number, which tells its place (sensor, bias, output).     *)
(* Babies of the generation may be parents in it: reproduce puts them into *)
(* species that have not reproduced yet.                                   *)
(***************************************************************************)
EXTENDS Integers, Sequences, FiniteSets, SequencesExt

CONSTANTS
  Sensors, Bias, Outputs,    \* nodes of the starter genome
  StarterLinks,              \* its links, pairs of nodes, in the order of the file
  MaxBirths,                 \* bound: babies of a run
  MaxPopulation              \* bound: genomes at a time

ASSUME GenomeAssumption ==
  /\ Sensors \subseteq Nat /\ IsFiniteSet(Sensors) /\ Bias \subseteq Sensors
  /\ Outputs \subseteq Nat /\ IsFiniteSet(Outputs) /\ Outputs # {}
  /\ \A s \in Sensors, o \in Outputs : s < o
  /\ StarterLinks \in Seq(Sensors \X Outputs)
  /\ \A i, j \in DOMAIN StarterLinks : StarterLinks[i] = StarterLinks[j] => i = j
  /\ MaxBirths \in Nat /\ MaxPopulation \in Nat \ {0}

VARIABLES
  genomes,                   \* the genomes of the population, [nodes, genes]
  innovations,               \* what was added in this generation
  cur_node_id, cur_innov_num,
  births,
  first_innov_num,           \* history: cur_innov_num when the generation began
  mistaken,                  \* history: a matched innovation was another one, see AddNode, AddLink
  reenabled,                 \* history: a disabled gene was enabled again
  crossed,                   \* history: mate_singlepoint was used
  gaveup                     \* history: is_recur gave up a search

history == <<first_innov_num, mistaken, reenabled, crossed, gaveup>>
vars == <<genomes, innovations, cur_node_id, cur_innov_num, births, history>>

-----------------------------------------------------------------------------
(* Genes and nodes. *)
Link(gene) == <<gene.in, gene.out, gene.recur>>
Genes(g) == ToSet(g.genes)
Largest(S) == CHOOSE n \in S : \A m \in S : m <= n
Gene(in, out, recur, num) == [in |-> in, out |-> out, recur |-> recur, num |-> num, enable |-> TRUE]

\* faulty variant: a gene is put at the end
AppendGene(genes, gene) == Append(genes, gene)
add_gene(genes, gene) ==
  InsertAt(genes, 1 + Cardinality({k \in DOMAIN genes : \A j \in 1..k : genes[j].num < gene.num}), gene)

node_insert(nodes, n) ==
  InsertAt(nodes, 1 + Cardinality({k \in DOMAIN nodes : \A j \in 1..k : nodes[j] < n}), n)

Nodes(S) == FoldSet(LAMBDA n, nodes : node_insert(nodes, n), <<>>, S)

Starter ==
  [nodes |-> Nodes(Sensors \cup Outputs),
   genes |-> [k \in 1..Len(StarterLinks) |-> Gene(StarterLinks[k][1], StarterLinks[k][2], FALSE, k)]]

Init ==
  /\ genomes = {Starter}
  /\ innovations = {}
  /\ cur_node_id = Largest(Sensors \cup Outputs) + 1
  /\ cur_innov_num = Len(Starter.genes) + 1
  /\ births = 0
  /\ first_innov_num = cur_innov_num
  /\ mistaken = FALSE /\ reenabled = FALSE /\ crossed = FALSE /\ gaveup = FALSE

Born(g) ==
  /\ births' = births + 1
  /\ genomes' = genomes \cup {g}
  /\ Cardinality(genomes') <= MaxPopulation

-----------------------------------------------------------------------------
(* mutate_add_node splits an enabled gene that does not come from a bias.  *)

\* faulty variant: the second gene of a split takes no number
OneNumber == 1
SplitNumbers == 2
SameSplit(v, gene) == v.type = "NEWNODE" /\ v.in = gene.in /\ v.out = gene.out /\ v.old = gene.num

Split(g, i, v) ==
  LET gene == g.genes[i]
      rest == [g.genes EXCEPT ![i].enable = FALSE]
  IN  [nodes |-> node_insert(g.nodes, v.node),
       genes |-> add_gene(add_gene(rest, Gene(gene.in, v.node, gene.recur, v.num)),
                          Gene(v.node, gene.out, FALSE, v.num + 1))]

AddNode ==
  \E g \in genomes : \E i \in DOMAIN g.genes :
    LET gene  == g.genes[i]
        known == {v \in innovations : SameSplit(v, gene)}
        novel == [type |-> "NEWNODE", in |-> gene.in, out |-> gene.out, recur |-> FALSE,
                  num |-> cur_innov_num, old |-> gene.num, node |-> cur_node_id]
        v     == IF known = {} THEN novel ELSE CHOOSE w \in known : TRUE
    IN  /\ gene.enable /\ gene.in \notin Bias
        /\ Born(Split(g, i, v))
        /\ innovations' = innovations \cup {v}
        /\ cur_node_id' = cur_node_id + (IF known = {} THEN 1 ELSE 0)
        /\ cur_innov_num' = cur_innov_num + (IF known = {} THEN SplitNumbers ELSE 0)
        /\ mistaken' = (mistaken \/ v.node \in ToSet(g.nodes))
        /\ UNCHANGED <<first_innov_num, reenabled, crossed, gaveup>>

-----------------------------------------------------------------------------
(* mutate_add_link. *)

(* The network of a genome has its enabled genes.  is_recur goes back from *)
(* the link's start along those that are not recurrent, in the order of    *)
(* the genes and depth first, and looks for the link's end.  No node is    *)
(* marked: one that is reached twice is searched twice.  After as many     *)
(* visits as the square of the number of nodes it gives up, and the link   *)
(* counts as a forward one.                                                *)
ForwardTo(gene, n) == gene.enable /\ ~gene.recur /\ gene.out = n

Incoming(g, n) ==
  LET ins[k \in 0..Len(g.genes)] ==
        IF k = 0 THEN <<>>
        ELSE IF ForwardTo(g.genes[k], n) THEN Append(ins[k - 1], g.genes[k].in) ELSE ins[k - 1]
  IN  ins[Len(g.genes)]

Visit(g, end, s) ==
  IF s.todo = <<>> THEN s
  ELSE IF Head(s.todo) = end THEN [todo |-> <<>>, found |-> TRUE]
  ELSE [s EXCEPT !.todo = Incoming(g, Head(@)) \o Tail(@)]

Search(g, start, end) ==
  LET thresh == Len(g.nodes) * Len(g.nodes)
      visited[k \in 0..thresh] ==
        IF k = 0 THEN [todo |-> <<start>>, found |-> FALSE] ELSE Visit(g, end, visited[k - 1])
  IN  visited[thresh]

\* faulty variant: it looks for the start in what feeds the end
IsRecurBackwards(g, in, out) == Search(g, out, in)
is_recur(g, in, out) == Search(g, in, out)

SameLink(v, in, out, recur) == v.type = "NEWLINK" /\ v.in = in /\ v.out = out /\ v.recur = recur

(* The constructor that is called leaves recur_flag false: a recurrent     *)
(* link never matches an innovation, and a forward one may match that of a *)
(* recurrent link.                                                         *)
NewLink(in, out, num) ==
  [type |-> "NEWLINK", in |-> in, out |-> out, recur |-> FALSE, num |-> num, old |-> 0, node |-> 0]

AddLink ==
  \E g \in genomes : \E in, out \in ToSet(g.nodes) :
    LET search == is_recur(g, in, out)
        recur == search.found
        known == {v \in innovations : SameLink(v, in, out, recur)}
        v     == IF known = {} THEN NewLink(in, out, cur_innov_num) ELSE CHOOSE w \in known : TRUE
    IN  /\ out \notin Sensors
        /\ \A x \in Genes(g) : Link(x) # <<in, out, recur>>
        /\ Born([g EXCEPT !.genes = add_gene(@, Gene(in, out, recur, v.num))])
        /\ innovations' = innovations \cup {v}
        /\ cur_innov_num' = cur_innov_num + (IF known = {} THEN 1 ELSE 0)
        /\ mistaken' = (mistaken \/ \E h \in genomes : \E x \in Genes(h) : x.num = v.num /\ x.recur # recur)
        /\ gaveup' = (gaveup \/ search.todo # <<>>)
        /\ UNCHANGED <<cur_node_id, first_innov_num, reenabled, crossed>>

-----------------------------------------------------------------------------
(* mutate_add_sensor links a sensor to all outputs it is not linked to.    *)
(* It means to leave out the sensors that are linked to all of them, but   *)
(* counts the genes of every sensor: when they are as many as the outputs, *)
(* each second sensor is left out.  With an odd number of sensors the loop *)
(* then runs past the end of its vector: any sensor, if it goes on.        *)
OpenSensors(g) ==
  LET sensors == Nodes(ToSet(g.nodes) \cap Sensors)
      Second  == {sensors[k] : k \in {j \in DOMAIN sensors : j % 2 = 0}}
  IN  IF Cardinality({k \in DOMAIN g.genes : g.genes[k].out \in Outputs})
           = Cardinality(ToSet(g.nodes) \cap Outputs) /\ Len(sensors) % 2 = 0
      THEN Second ELSE ToSet(sensors)

ConnectSensor(s, sensor, output) ==
  LET known == {v \in s.innovations : SameLink(v, sensor, output, FALSE)}
      v     == IF known = {} THEN NewLink(sensor, output, s.num) ELSE CHOOSE w \in known : TRUE
  IN  IF \E k \in DOMAIN s.genes : s.genes[k].in = sensor /\ s.genes[k].out = output THEN s
      ELSE [genes |-> add_gene(s.genes, Gene(sensor, output, FALSE, v.num)),
            innovations |-> s.innovations \cup {v},
            num |-> s.num + (IF known = {} THEN 1 ELSE 0)]

AddSensor ==
  \E g \in genomes : \E sensor \in OpenSensors(g) :
    LET outputs == Nodes(ToSet(g.nodes) \cap Outputs)
        s == FoldLeft(LAMBDA t, output : ConnectSensor(t, sensor, output),
                      [genes |-> g.genes, innovations |-> innovations, num |-> cur_innov_num], outputs)
    IN  /\ Born([g EXCEPT !.genes = s.genes])
        /\ innovations' = s.innovations
        /\ cur_innov_num' = s.num
        /\ UNCHANGED <<cur_node_id, history>>

-----------------------------------------------------------------------------
(* mutate_toggle_enable and mutate_gene_reenable. *)
AnotherLeaves(g, i) ==
  \E x \in Genes(g) : x.in = g.genes[i].in /\ x.enable /\ x.num # g.genes[i].num

ToggleEnable ==
  \E g \in genomes : \E i \in DOMAIN g.genes :
    /\ g.genes[i].enable => AnotherLeaves(g, i)
    /\ Born([g EXCEPT !.genes[i].enable = ~@])
    /\ reenabled' = (reenabled \/ ~g.genes[i].enable)
    /\ UNCHANGED <<innovations, cur_node_id, cur_innov_num, first_innov_num, mistaken, crossed, gaveup>>

GeneReenable ==
  \E g \in genomes : \E i \in DOMAIN g.genes :
    /\ ~g.genes[i].enable /\ \A j \in 1..i - 1 : g.genes[j].enable
    /\ Born([g EXCEPT !.genes[i].enable = TRUE])
    /\ reenabled' = TRUE
    /\ UNCHANGED <<innovations, cur_node_id, cur_innov_num, first_innov_num, mistaken, crossed, gaveup>>

-----------------------------------------------------------------------------
(* Mating.  The two parents are walked through by innovation number; s has *)
(* the places, the genes of the baby and, in mate_multipoint, the pending  *)
(* wish to disable a gene: a gene that is skipped leaves it to the next.   *)
NumAt(genes, k) == IF k > Len(genes) THEN cur_innov_num ELSE genes[k].num

Conflict(genes, c) ==
  \E x \in ToSet(genes) : \/ Link(x) = Link(c)
                          \/ x.in = c.out /\ x.out = c.in /\ ~x.recur /\ ~c.recur

Inherit(s, c) ==
  IF Conflict(s.genes, c) THEN s
  ELSE [s EXCEPT !.genes = Append(@, [c EXCEPT !.enable = @ /\ ~s.disable]), !.disable = FALSE]

Coin(x, y) == IF x.enable /\ y.enable THEN {FALSE} ELSE BOOLEAN
Average(x, y, Enable) ==
  {[in |-> a.in, out |-> b.out, recur |-> c.recur, num |-> x.num, enable |-> e] :
     a \in {x, y}, b \in {x, y}, c \in {x, y}, e \in Enable}

(* mate_multipoint, and mate_multipoint_avg: matching genes from either or *)
(* averaged, the others only from the better parent.                       *)
Matching(s, x, y, avg) ==
  IF avg THEN {Inherit(s, c) : c \in Average(x, y, {~d : d \in Coin(x, y)})}
  ELSE {Inherit([s EXCEPT !.disable = @ \/ d], c) : c \in {x, y}, d \in Coin(x, y)}

MultipointStep(p1, p2, p1better, avg, s) ==
  LET n1 == NumAt(p1, s.i)
      n2 == NumAt(p2, s.j)
      t  == [s EXCEPT !.i = IF n1 <= n2 /\ s.i <= Len(p1) THEN @ + 1 ELSE @,
                      !.j = IF n2 <= n1 /\ s.j <= Len(p2) THEN @ + 1 ELSE @]
  IN  CASE n1 = n2 /\ s.i > Len(p1) -> {s}
        [] n1 = n2 /\ s.i <= Len(p1) -> Matching(t, p1[s.i], p2[s.j], avg)
        [] n1 < n2 -> {IF p1better THEN Inherit(t, p1[s.i]) ELSE t}
        [] n2 < n1 -> {IF p1better THEN t ELSE Inherit(t, p2[s.j])}

Multipoint(p1, p2, p1better, avg) ==
  LET walk[k \in 0..Len(p1) + Len(p2)] ==
        IF k = 0 THEN {[i |-> 1, j |-> 1, genes |-> <<>>, disable |-> FALSE]}
        ELSE UNION {MultipointStep(p1, p2, p1better, avg, s) : s \in walk[k - 1]}
  IN  {s.genes : s \in walk[Len(p1) + Len(p2)]}

NodesOf(genes) == {x.in : x \in ToSet(genes)} \cup {x.out : x \in ToSet(genes)}

\* faulty variant: the nodes without a gene are forgotten
LinkedNodes(dad, genes) == NodesOf(genes)
BabyNodes(dad, genes) == NodesOf(genes) \cup (ToSet(dad.nodes) \cap (Sensors \cup Outputs))

Reenabled(genes, p1, p2) ==
  \E x \in ToSet(genes), y \in ToSet(p1) \cup ToSet(p2) : x.num = y.num /\ x.enable /\ ~y.enable

MateMultipoint ==
  \E mom, dad \in genomes : \E p1better, avg \in BOOLEAN :
  \E genes \in Multipoint(mom.genes, dad.genes, p1better, avg) :
    /\ Born([nodes |-> Nodes(BabyNodes(dad, genes)), genes |-> genes])
    /\ reenabled' = (reenabled \/ Reenabled(genes, mom.genes, dad.genes))
    /\ UNCHANGED <<innovations, cur_node_id, cur_innov_num, first_innov_num, mistaken, crossed, gaveup>>

(* mate_singlepoint: up to the crosspoint the genes of p1, the smaller     *)
(* one, after it those of p2; past the crosspoint p1 stays where it is     *)
(* while p2 is ahead of it.                                                *)
SinglepointStep(p1, p2, crosspoint, s) ==
  LET x  == p1[s.i]
      y  == p2[s.j]
      n1 == NumAt(p1, s.i)
      n2 == NumAt(p2, s.j)
      on1 == [s EXCEPT !.i = @ + 1, !.count = @ + 1]
      on2 == [s EXCEPT !.j = @ + 1]
      on  == [on1 EXCEPT !.j = @ + 1]
  IN  CASE s.j > Len(p2) -> {s}
        [] s.j <= Len(p2) /\ s.i > Len(p1) -> {Inherit(on2, y)}
        [] s.j <= Len(p2) /\ s.i <= Len(p1) /\ n1 = n2 ->
             IF s.count < crosspoint THEN {Inherit(on, x)}
             ELSE IF s.count > crosspoint THEN {Inherit(on, y)}
             ELSE {Inherit(on, c) : c \in Average(x, y, {x.enable /\ y.enable})}
        [] s.j <= Len(p2) /\ s.i <= Len(p1) /\ n1 < n2 ->
             IF s.count < crosspoint THEN {Inherit(on1, x)} ELSE {Inherit(on2, y)}
        [] s.j <= Len(p2) /\ s.i <= Len(p1) /\ n2 < n1 -> {on2}

Singlepoint(p1, p2, crosspoint) ==
  LET walk[k \in 0..Len(p1) + Len(p2)] ==
        IF k = 0 THEN {[i |-> 1, j |-> 1, count |-> 0, genes |-> <<>>, disable |-> FALSE]}
        ELSE UNION {SinglepointStep(p1, p2, crosspoint, s) : s \in walk[k - 1]}
  IN  {s.genes : s \in walk[Len(p1) + Len(p2)]}

MateSinglepoint ==
  \E mom, dad \in genomes :
    LET momFirst == Len(mom.genes) < Len(dad.genes)
        p1 == IF momFirst THEN mom.genes ELSE dad.genes
        p2 == IF momFirst THEN dad.genes ELSE mom.genes
    IN  \E crosspoint \in 0..Len(p1) - 1 : \E genes \in Singlepoint(p1, p2, crosspoint) :
          /\ Born([nodes |-> Nodes(NodesOf(genes)), genes |-> genes])
          /\ reenabled' = (reenabled \/ Reenabled(genes, p1, p2))
          /\ crossed' = TRUE
          /\ UNCHANGED <<innovations, cur_node_id, cur_innov_num, first_innov_num, mistaken, gaveup>>

-----------------------------------------------------------------------------
(* The end of Population::epoch: the innovations are forgotten; any of the *)
(* genomes make up the next generation.                                    *)
Epoch ==
  /\ genomes' \in SUBSET genomes \ {{}}
  /\ innovations' = {}
  /\ first_innov_num' = cur_innov_num
  /\ UNCHANGED <<cur_node_id, cur_innov_num, births, mistaken, reenabled, crossed, gaveup>>

Reproduce == births < MaxBirths /\ (\/ AddNode \/ AddLink \/ AddSensor
                                     \/ ToggleEnable \/ GeneReenable
                                     \/ MateMultipoint \/ MateSinglepoint)
Next == Reproduce \/ Epoch

Spec == Init /\ [][Next]_vars

-----------------------------------------------------------------------------
(* Historical marking: one innovation number is one link, in all genomes   *)
(* and generations, and a forward link that is added in one generation     *)
(* gets one number, whichever genomes it is added to.  The second is       *)
(* claimed until mate_singlepoint has separated a node from the genes it   *)
(* came with, or the forward links may have a cycle, for the reasons that  *)
(* ForwardAcyclic excludes: in a cycle a node may be linked to itself, and *)
(* when that link is split mating keeps only one of the two genes, so that *)
(* the other is added as a new one.                                        *)
NumbersNameLinks ==
  ~mistaken =>
    \A g, h \in genomes : \A x \in Genes(g), y \in Genes(h) :
      /\ x.num = y.num => Link(x) = Link(y)
      /\ ~crossed /\ ~reenabled /\ ~gaveup
         /\ ~x.recur /\ x.num >= first_innov_num /\ y.num >= first_innov_num =>
           (Link(x) = Link(y) => x.num = y.num)

(* What Genome::verify looks for, and what lining two genomes up by their  *)
(* numbers rests on: genes and nodes are in order, none is there twice,    *)
(* and each gene has its nodes.  Claimed until an innovation is mistaken:  *)
(* a gene that is split, enabled and split again within one generation     *)
(* gives the genome the node it has, a forward link may get the number of  *)
(* a recurrent one.                                                        *)
GenomesVerify ==
  ~mistaken =>
    \A g \in genomes :
      /\ \A i, j \in DOMAIN g.nodes : i < j => g.nodes[i] < g.nodes[j]
      /\ \A i, j \in DOMAIN g.genes :
           i < j => g.genes[i].num < g.genes[j].num /\ Link(g.genes[i]) # Link(g.genes[j])
      /\ NodesOf(g.genes) \subseteq ToSet(g.nodes)

(* The network of a genome has a place for every sensor and every output   *)
(* of the starter genome, linked or not, so that a controller can load its *)
(* readings.  Claimed without mate_singlepoint, which keeps linked nodes   *)
(* only.                                                                   *)
InterfaceKept == ~crossed => \A g \in genomes : Sensors \cup Outputs \subseteq ToSet(g.nodes)

(* The nodes that feed n through forward links of the network.             *)
Feeding(g, n) ==
  LET forward == {x \in Genes(g) : x.enable /\ ~x.recur}
      fed[k \in 0..Len(g.nodes)] ==
        IF k = 0 THEN {n} ELSE LET S == fed[k - 1] IN S \cup {x.in : x \in {y \in forward : y.out \in S}}
  IN  fed[Len(g.nodes)]

Cyclic(g) == \E x \in Genes(g) : x.enable /\ ~x.recur /\ x.out \in Feeding(g, x.in)

(* As long as every search of is_recur came to its end, the links that are *)
(* not marked recurrent form no cycle.  The code does not promise more: a  *)
(* search that is given up lets any link pass as a forward one, and its    *)
(* comments say that a loop does not matter.  Nor is it claimed once a     *)
(* gene that was disabled is enabled, which is_recur did not see, once     *)
(* mate_singlepoint joins the links of two genomes, or once a link that is *)
(* recurrent in one parent has got the number of a forward link.           *)
ForwardAcyclic ==
  ~mistaken /\ ~reenabled /\ ~crossed /\ ~gaveup => \A g \in genomes : ~Cyclic(g)
=============================================================================
