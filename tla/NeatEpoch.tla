------------------------------- MODULE NeatEpoch -------------------------------
(***************************************************************************)
(* One generation of the NEAT library (Population::epoch and Species):     *)
(* fitness is adjusted and shared inside each species, offspring are       *)
(* counted out to the species, species stagnate, are obliterated or give   *)
(* babies away, the worst die, the parents reproduce one baby at a time    *)
(* into the species that babies fit, and the old generation is removed.    *)
(*                                                                         *)
(* A genome is a number; the difference of two genomes is their            *)
(* compatibility.  Fitness is a whole number, and what is computed from it *)
(* is kept exact: a share of the offspring is a numerator over the total   *)
(* of all numerators.  What rounding in double precision may do to a share *)
(* that is exactly whole is a choice.  age_significance is 1.              *)
(***************************************************************************)
EXTENDS Integers, SequencesExt, FiniteSetsExt

CONSTANTS
  pop_size, dropoff_age, compat_threshold,
  survival_thresh, elitism_percentage,   \* in percent
  Stolen,                                \* values of the parameter babies_stolen
  Genomes,                               \* what a mutated or mated genome can be
  Populations,                           \* genomes of the population a run starts with
  Fitnesses,                             \* results of an experiment
  Ages,                                  \* pairs of a species' age and age_of_last_improvement
  Records,                               \* pairs of highest_fitness and highest_last_changed
  Generations                            \* generations looked at, each from its start to its end

ASSUME EpochAssumption ==
  /\ pop_size \in Nat \ {0} /\ dropoff_age \in Nat /\ compat_threshold \in Nat \ {0}
  /\ survival_thresh \in 0..100 /\ elitism_percentage \in 0..100
  /\ Stolen \subseteq Nat /\ Fitnesses \subseteq Int /\ Genomes \subseteq Int
  /\ Ages \subseteq Nat \X Nat /\ Records \subseteq Int \X Nat /\ Generations \subseteq Nat
  /\ \A p \in Populations : p \in Seq(Int) /\ Len(p) = pop_size

VARIABLES phase, generation, species, last_species, babies_stolen,
          highest_fitness, highest_last_changed,
          turn,      \* reproduce: species at work, babies made, elite clones made, champ_done
          seen       \* history of the generation, see Nothing

epochVars == <<phase, generation, species, last_species, babies_stolen, highest_fitness,
               highest_last_changed, turn, seen>>

Organism(g) == [genome |-> g, fitness |-> 0, share |-> 0, super |-> 0,
                eliminate |-> FALSE, old |-> FALSE]
NewSpecies(id, o, novel) ==    \* room: the capacity of the vector organisms, at least
  [id |-> id, room |-> 0, age |-> 1, improved |-> 0, record |-> 0, obliterate |-> FALSE,
   novel |-> novel, expected |-> 0, organisms |-> <<o>>]

-----------------------------------------------------------------------------
(* The species a genome belongs to: the first one whose first organism it  *)
(* is compatible with, or a new one.                                       *)
Compatible(g, h) == g - h < compat_threshold /\ h - g < compat_threshold
First(s) == s.organisms[1]
Hosts(all, g) == {i \in DOMAIN all : Compatible(g, First(all[i]).genome)}

AddToSpecies(all, o, id, novel) ==
  IF Hosts(all, o.genome) = {} THEN Append(all, NewSpecies(id, o, novel))
  ELSE [all EXCEPT ![Min(Hosts(all, o.genome))].organisms = Append(@, o)]

speciate(genomes) ==
  FoldLeft(LAMBDA all, g : AddToSpecies(all, Organism(g), Len(all) + 1, FALSE), <<>>, genomes)

Aged(all, ages) ==
  [i \in DOMAIN all |-> [all[i] EXCEPT !.age = ages[i][1], !.improved = ages[i][2]]]

\* faulty variant: elitism starts after the champion
IdleSecond == [at |-> 0, count |-> 0, curChamp |-> 2, champ_done |-> FALSE]
Idle == [at |-> 0, count |-> 0, curChamp |-> 1, champ_done |-> FALSE]

(* flagged: the species flagged as the worst, 0 for none; best: the genome *)
(* of the best organism, kept: whether its species has to clone it;        *)
(* halved: delta coding of a single species; clone: what the species at    *)
(* work took for one of its elite.                                         *)
Nothing == [flagged |-> 0, best |-> 0, kept |-> FALSE, halved |-> FALSE, clone |-> "parent",
            parents |-> 0, guests |-> 0, supers |-> 0]

(* A population some generations after its start. *)
EpochInit ==
        /\ phase = "evaluate" /\ generation \in Generations /\ babies_stolen \in Stolen
        /\ \E p \in Populations :
             LET all == speciate(p)
             IN  /\ last_species = Len(all)
                 /\ \E ages \in [DOMAIN all -> Ages] : species = Aged(all, ages)
        /\ \E r \in Records : highest_fitness = r[1] /\ highest_last_changed = r[2]
        /\ turn = Idle /\ seen = Nothing

Organisms(all) == UNION {{i} \X DOMAIN all[i].organisms : i \in DOMAIN all}

(* launchNEAT evaluates every organism; epoch is called with the result. *)
Evaluate ==
  /\ phase = "evaluate" /\ generation \in Generations
  /\ \E f \in [Organisms(species) -> Fitnesses] :
       species' = [i \in DOMAIN species |->
         [species[i] EXCEPT !.organisms = [j \in DOMAIN @ |-> [@[j] EXCEPT !.fitness = f[<<i, j>>]]]]]
  /\ phase' = "adjust"
  /\ UNCHANGED <<generation, last_species, babies_stolen, highest_fitness, highest_last_changed,
                 turn, seen>>

-----------------------------------------------------------------------------
(* The species to obliterate every 30 generations.  The list is sorted by  *)
(* orig_fitness, which every organism of a new generation has at 0: it     *)
(* keeps the order of the species.                                         *)
Old(i) == species[i].age >= 20
ToFlag == IF \E i \in DOMAIN species : Old(i)
          THEN Max({i \in DOMAIN species : Old(i)}) ELSE 1

Lowest(s) == Min({0} \cup {s.organisms[j].fitness : j \in DOMAIN s.organisms})

Stagnant(s) == s.age - s.improved + 1 >= dropoff_age \/ s.obliterate

NumParents(n) == Max({1, (survival_thresh * n) \div 100})

(* The members of a finite set in the order of a relation, those of a      *)
(* sequence at some of its places, and the places in the order of falling  *)
(* fitness, where equals keep their order.                                 *)
InOrder(S, before) ==
  [k \in 1..Cardinality(S) |->
     CHOOSE x \in S : Cardinality({y \in S : <<y, x>> \in before}) = k - 1]

At(seq, places) ==
  LET order == InOrder(places, {p \in places \X places : p[1] < p[2]})
  IN  [k \in DOMAIN order |-> seq[order[k]]]

Better(f, i, j) == f[i] > f[j] \/ (f[i] = f[j] /\ i < j)
Ranking(f) == InOrder(DOMAIN f, {p \in (DOMAIN f) \X (DOMAIN f) : Better(f, p[1], p[2])})

Ranked(os) ==
  LET order == Ranking([j \in DOMAIN os |-> os[j].fitness])
  IN  [k \in DOMAIN os |-> os[order[k]]]

(* share is a hundred times the adjusted fitness, before it is divided by  *)
(* the number of organisms of the species.                                 *)
adjust_fitness(s) ==
  LET ranked == Ranked(s.organisms)
      n      == Len(ranked)
      share(o) == (IF Stagnant(s) THEN o.fitness ELSE 100 * o.fitness) - 100 * Lowest(s)
      top    == ranked[1].fitness
  IN  [s EXCEPT
        !.organisms = [j \in 1..n |-> [ranked[j] EXCEPT
                          !.share = share(ranked[j]), !.eliminate = j > NumParents(n), !.old = TRUE]],
        !.improved = IF top > s.record THEN s.age ELSE @,
        !.record   = IF top > s.record THEN top ELSE @]

Adjust ==
  /\ phase = "adjust"
  /\ LET flag == generation % 30 = 0
     IN  /\ species' = [i \in DOMAIN species |->
              adjust_fitness([species[i] EXCEPT !.obliterate = @ \/ (flag /\ i = ToFlag)])]
         /\ seen' = [Nothing EXCEPT !.flagged = IF flag THEN species[ToFlag].id ELSE 0,
                                    !.halved = seen.halved]
  /\ phase' = "count"
  /\ UNCHANGED <<generation, last_species, babies_stolen, highest_fitness, highest_last_changed,
                 turn>>

-----------------------------------------------------------------------------
(* Counting offspring.  An organism expects the part of the population its *)
(* adjusted fitness is of all adjusted fitness; whole parts are given, and *)
(* fractions are skimmed until they make more than one.                    *)
Sizes(all) == FoldLeft(LAMBDA n, s : n * Len(s.organisms), 1, all)
Shares(s) == [j \in DOMAIN s.organisms |-> s.organisms[j].share]
SpeciesWeight(all, s) == SumFunction(Shares(s)) * (Sizes(all) \div Len(s.organisms))
TotalWeight(all) == SumFunction([i \in DOMAIN all |-> SpeciesWeight(all, all[i])])
SizeOf(all) == SumFunction([i \in DOMAIN all |-> Len(all[i].organisms)])

\* faulty variant: the fractions of a species are dropped
NoSkim(skim, total, up) == 0
Skimmed(skim, total, up) == IF skim > total \/ (up /\ skim = total) THEN 1 ELSE 0

(* down, up: where rounding turns a share or a skim that is exactly whole. *)
CountOne(acc, part, total, down, up) ==
  LET lower == down /\ part % total = 0 /\ part > 0
      int   == part \div total - (IF lower THEN 1 ELSE 0)
      skim  == acc.skim + (IF lower THEN total ELSE part % total)
  IN  [expected |-> acc.expected + int + Skimmed(skim, total, up),
       skim     |-> skim - total * Skimmed(skim, total, up)]

count_offspring(all, s, skim, down, up) ==
  LET total == TotalWeight(all)
      size  == SizeOf(all)
      unit  == Sizes(all) \div Len(s.organisms)
  IN  FoldLeft(LAMBDA acc, o : CountOne(acc, o.share * unit * size, total, down, up),
               [expected |-> 0, skim |-> skim], s.organisms)

CountNext(acc, s, all, down, up) ==
  LET c == count_offspring(all, s, acc.skim, down, up)
  IN  [skim |-> c.skim, counts |-> Append(acc.counts, c.expected)]

CountAll(all, down, up) ==
  FoldLeft(LAMBDA acc, s : CountNext(acc, s, all, down, up),
           [skim |-> 0, counts |-> <<>>], all).counts

MostExpected(counts) ==
  Max({i \in DOMAIN counts : \A j \in DOMAIN counts : counts[i] >= counts[j]})

(* One baby that rounding lost goes to the species that expects the most;  *)
(* if more are missing that species gets the whole population.             *)
MakeUp(all, counts) ==
  LET most == MostExpected(counts)
  IN  CASE SumFunction(counts) >= SizeOf(all) -> counts
        [] SumFunction(counts) + 1 = SizeOf(all) -> [counts EXCEPT ![most] = @ + 1]
        [] OTHER -> [i \in DOMAIN counts |-> IF i = most THEN SizeOf(all) ELSE 0]

WithExpected(all, counts) == [i \in DOMAIN all |-> [all[i] EXCEPT !.expected = counts[i]]]

Count ==
  /\ phase = "count"
  /\ \E down, up \in BOOLEAN :
       species' = WithExpected(species,
                    MakeUp(species, IF TotalWeight(species) = 0
                                    THEN [i \in DOMAIN species |-> 0]
                                    ELSE CountAll(species, down, up)))
  /\ phase' = "share"
  /\ UNCHANGED <<generation, last_species, babies_stolen, highest_fitness, highest_last_changed,
                 turn, seen>>
-----------------------------------------------------------------------------
(* The species by the fitness of their first organism, the best one now.   *)
Order == Ranking([i \in DOMAIN species |-> First(species[i]).fitness])

Super(all, i, n) == [all EXCEPT ![i].organisms[1].super = n, ![i].expected = n,
                                ![i].improved = all[i].age]
Half == pop_size \div 2

(* Delta coding: the two best species share the next generation.  A single *)
(* species gets the other half only.                                       *)
DeltaCoding(all, order) ==
  IF Len(order) = 1
  THEN [Super(all, 1, pop_size) EXCEPT ![1].expected = pop_size - Half]
  ELSE LET two == Super(Super(all, order[1], Half), order[2], pop_size - Half)
       IN  [i \in DOMAIN all |-> IF i \in {order[1], order[2]} THEN two[i]
                                 ELSE [all[i] EXCEPT !.expected = 0]]

(* Babies stolen from the worst species that are old enough ...            *)
Steal(acc, i) ==
  LET s    == acc.all[i]
      want == babies_stolen - acc.stolen
      some == IF s.expected - 1 >= want THEN want ELSE s.expected - 1
  IN  IF want > 0 /\ s.age > 5 /\ s.expected > 2
      THEN [all |-> [acc.all EXCEPT ![i].expected = @ - some], stolen |-> acc.stolen + some]
      ELSE acc

(* ... go to the champions of the best species still improving: a fifth, a *)
(* fifth, a tenth, then three each.                                        *)
Fifth(acc) == acc.stage < 3 /\ acc.stolen >= babies_stolen \div 5
Tenth(acc) == ~Fifth(acc) /\ acc.stage < 4 /\ acc.stolen >= babies_stolen \div 10
Gift(acc) == CASE Fifth(acc) -> babies_stolen \div 5
               [] Tenth(acc) -> babies_stolen \div 10
               [] OTHER -> Min({3, acc.stolen})

Give(acc, i) ==
  IF acc.all[i].age - acc.all[i].improved > dropoff_age THEN acc
  ELSE [all    |-> [acc.all EXCEPT ![i].expected = @ + Gift(acc),
                                   ![i].organisms[1].super = Gift(acc)],
        stolen |-> acc.stolen - Gift(acc),
        stage  |-> IF Fifth(acc) THEN acc.stage + 1 ELSE 4]

\* faulty variant: what no species took is given to nobody
KeepRest(acc, first) == acc.all
GiveRest(acc, first) ==
  [acc.all EXCEPT ![first].expected = @ + acc.stolen, ![first].organisms[1].super = @ + acc.stolen]

StolenBabies(all, order) ==
  LET taken == FoldLeft(Steal, [all |-> all, stolen |-> 0], Reverse(Tail(order)))
      given == FoldLeft(Give, [all |-> taken.all, stolen |-> taken.stolen, stage |-> 1], order)
  IN  GiveRest(given, order[1])

Share ==
  /\ phase = "share"
  /\ LET order  == Order
         top    == First(species[order[1]])
         record == top.fitness > highest_fitness
         still  == IF record THEN 0 ELSE highest_last_changed + 1
         delta  == still >= dropoff_age + 5
         all    == CASE delta -> DeltaCoding(species, order)
                     [] ~delta /\ babies_stolen > 0 -> StolenBabies(species, order)
                     [] OTHER -> species
         champ  == all[order[1]]
     IN  /\ species' = all
         /\ highest_fitness' = IF record THEN top.fitness ELSE highest_fitness
         /\ highest_last_changed' = IF delta THEN 0 ELSE still
         /\ seen' = [seen EXCEPT !.best = top.genome,
                                 !.halved = IF delta THEN Len(order) = 1 ELSE @,
                                 !.kept = IF First(champ).super = 0 THEN champ.expected > 5
                                          ELSE First(champ).super <= champ.expected]
  /\ phase' = "kill"
  /\ UNCHANGED <<generation, last_species, babies_stolen, turn>>

(* The organisms marked for death are removed; no fitness is read again.   *)
Kill ==
  /\ phase = "kill"
  /\ species' = [i \in DOMAIN species |->
       [species[i] EXCEPT
          !.room = Len(species[i].organisms),
          !.organisms = LET left == At(@, {j \in DOMAIN @ : ~@[j].eliminate})
                        IN  [j \in DOMAIN left |-> [left[j] EXCEPT !.fitness = 0, !.share = 0]]]]
  /\ phase' = "reproduce"
  /\ UNCHANGED <<generation, last_species, babies_stolen, highest_fitness, highest_last_changed,
                 turn, seen>>

-----------------------------------------------------------------------------
(* reproduce, one species after the other; species made meanwhile come     *)
(* last and expect no offspring.                                           *)
AtWork == species[turn.at]
NbElitist == (elitism_percentage * AtWork.expected) \div 100
Done == IF turn.at = 0 THEN TRUE ELSE turn.count = AtWork.expected

NextSpecies ==
  /\ phase = "reproduce" /\ Done /\ turn.at < Len(species)
  /\ LET next == species[turn.at + 1]
         old  == Cardinality({j \in DOMAIN next.organisms : next.organisms[j].old})
     IN  /\ turn' = [Idle EXCEPT !.at = turn.at + 1]
         /\ species' = [species EXCEPT ![turn.at + 1].room = Max({@, Len(next.organisms)})]
         /\ seen' = [seen EXCEPT !.clone = "parent", !.parents = old,
                                 !.guests = Len(next.organisms) - old, !.supers = First(next).super]
  /\ UNCHANGED <<phase, generation, last_species, babies_stolen, highest_fitness, highest_last_changed>>

(* The end of every round: the baby joins the species it fits.             *)
AddBaby(all, g) ==
  /\ species' = AddToSpecies(all, Organism(g), last_species + 1, TRUE)
  /\ last_species' = last_species + (IF Hosts(all, g) = {} THEN 1 ELSE 0)
  /\ UNCHANGED <<phase, generation, babies_stolen, highest_fitness, highest_last_changed>>

Working == phase = "reproduce" /\ turn.at > 0 /\ turn.count < AtWork.expected

(* Offspring of a super champ: all but the last one are mutated.           *)
SuperBaby ==
  /\ Working /\ First(AtWork).super > 0
  /\ \E g \in IF First(AtWork).super = 1 THEN {First(AtWork).genome} ELSE Genomes :
       AddBaby([species EXCEPT ![turn.at].organisms[1].super = @ - 1], g)
  /\ turn' = [turn EXCEPT !.count = @ + 1]
  /\ UNCHANGED seen

Elite == ~turn.champ_done /\ AtWork.expected > 5

\* faulty variant: one round too many
LastEliteLate == turn.count = NbElitist
LastElite == turn.count = NbElitist - 1

(* curChamp points into the vector of organisms.  Past its end, or once    *)
(* the vector may have moved, anything can be found there.                 *)
Clones == CASE elitism_percentage = 0 -> {First(AtWork)}
            [] elitism_percentage > 0 /\ turn.curChamp <= Len(AtWork.organisms)
                                      /\ Len(AtWork.organisms) <= AtWork.room ->
                 {AtWork.organisms[turn.curChamp]}
            [] OTHER -> {Organism(g) : g \in Genomes}

EliteBaby ==
  /\ Working /\ First(AtWork).super = 0 /\ Elite
  /\ \E mom \in Clones :
       /\ AddBaby(species, mom.genome)
       /\ seen' = [seen EXCEPT !.clone = IF mom.old THEN @ ELSE "no parent"]
  /\ turn' = [turn EXCEPT !.count = @ + 1, !.curChamp = @ + 1,
                          !.champ_done = elitism_percentage = 0 \/ LastElite]

(* Mutation of any member of the species, or mating of two members or of   *)
(* one with the first organism of another species: any genome may come of  *)
(* it.  A species of one only mutates.                                     *)
Ordinary == Working /\ First(AtWork).super = 0 /\ ~Elite

MutatedBaby ==
  /\ Ordinary
  /\ \E g \in Genomes : AddBaby(species, g)
  /\ turn' = [turn EXCEPT !.count = @ + 1]
  /\ UNCHANGED seen

MatedBaby ==
  /\ Ordinary /\ Len(AtWork.organisms) > 1
  /\ \E g \in Genomes : AddBaby(species, g)
  /\ turn' = [turn EXCEPT !.count = @ + 1]
  /\ UNCHANGED seen

(* The old generation goes, and every species that is empty then.          *)
Young(s) == {j \in DOMAIN s.organisms : ~s.organisms[j].old}

Rebuild ==
  /\ phase = "reproduce" /\ Done /\ turn.at = Len(species)
  /\ LET young == [i \in DOMAIN species |->
           [species[i] EXCEPT !.organisms = At(@, Young(species[i])),
                              !.age = IF species[i].novel THEN @ ELSE @ + 1,
                              !.novel = FALSE]]
     IN  species' = At(young, {i \in DOMAIN species : Young(species[i]) # {}})
  /\ phase' = "evaluate" /\ generation' = generation + 1 /\ turn' = Idle
  /\ UNCHANGED <<last_species, babies_stolen, highest_fitness, highest_last_changed, seen>>

EpochNext ==
        \/ Evaluate \/ Adjust \/ Count \/ Share \/ Kill
        \/ NextSpecies \/ SuperBaby \/ EliteBaby \/ MutatedBaby \/ MatedBaby
        \/ Rebuild

EpochSpec == EpochInit /\ [][EpochNext]_epochVars
-----------------------------------------------------------------------------
OrganismType == [genome : Int, fitness : Int, share : Nat, super : Nat,
                 eliminate : BOOLEAN, old : BOOLEAN]
SpeciesType ==
  [id : Nat, room : Nat, age : Nat, improved : Nat, record : Int, obliterate : BOOLEAN,
   novel : BOOLEAN, expected : Nat, organisms : Seq(OrganismType) \ {<<>>}]

EpochTypeOK ==
  /\ phase \in {"evaluate", "adjust", "count", "share", "kill", "reproduce"}
  /\ generation \in Nat /\ last_species \in Nat /\ babies_stolen \in Nat
  /\ species \in Seq(SpeciesType) \ {<<>>}
  /\ highest_fitness \in Int /\ highest_last_changed \in Nat
  /\ turn \in [at : 0..Len(species), count : Nat, curChamp : Nat \ {0}, champ_done : BOOLEAN]
  /\ seen \in [flagged : Nat, best : Int, kept : BOOLEAN, halved : BOOLEAN,
               clone : {"parent", "no parent"}, parents : Nat, guests : Nat, supers : Nat]

(* The population keeps its size: what the species expect together is the  *)
(* population, however the counts were rounded, made up, stolen or coded,  *)
(* and the next generation is that many.  A single species under delta     *)
(* coding is left with half of it.                                         *)
Expected(all) == SumFunction([i \in DOMAIN all |-> all[i].expected])
Whole == IF seen.halved THEN pop_size - Half ELSE pop_size
SizeKept == /\ phase \in {"share", "kill", "reproduce"} => Expected(species) = Whole
            /\ phase = "evaluate" => SizeOf(species) = Whole

(* Every species is given its share of the offspring: less than one baby   *)
(* is lost, and no more than one gained and one made up for.               *)
FairShare ==
  phase = "share" =>
    LET total == TotalWeight(species)
    IN  total > 0 => \A i \in DOMAIN species :
          LET given == species[i].expected * total
              due   == SizeOf(species) * SpeciesWeight(species, species[i])
          IN  due - total <= given /\ given <= due + 2 * total

(* The genome of the best organism is in the next generation if its        *)
(* species may have more than five babies or is to clone it last.          *)
BestKept == phase = "evaluate" /\ seen.kept =>
  \E i \in DOMAIN species : \E j \in DOMAIN species[i].organisms :
    species[i].organisms[j].genome = seen.best

(* The elite of a species are cloned from its parents, if it has enough of *)
(* them, no super champ, and no baby of an earlier species.                *)
EliteOfParents ==
  phase = "reproduce" /\ seen.clone # "parent" =>
    NbElitist > seen.parents \/ seen.guests > 0 \/ seen.supers > 0
=============================================================================
