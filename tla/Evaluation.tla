----------------------------- MODULE Evaluation -----------------------------
(***************************************************************************)
(* What launchNEAT (NEAT/experiments.cpp) needs from the function that     *)
(* evaluates a population, however the work is distributed: a population   *)
(* for which an evaluation is due is replaced only after each organism has *)
(* received, once, the fitness of its own genome, and all of them were     *)
(* tried on the same random seeds.                                         *)
(***************************************************************************)
EXTENDS Naturals

CONSTANT PopSizes   \* numbers of organisms a population can have

VARIABLES age,      \* how many populations there have been
          fitness,  \* the fitness of each organism of the population
          due,      \* the population is to be evaluated
          seeds     \* how many vectors of seeds have been drawn

vars == <<age, fitness, due, seeds>>

(* A fitness is known by the genome that earned it, the seeds it was       *)
(* tried on, and whether every run counted.                                *)
Results(a, o, s) == [genome : {<<a, o>>}, seeds : {s}, all : BOOLEAN]
Unknown == [genome |-> <<0, 0>>, seeds |-> 0, all |-> FALSE]

Unevaluated(n) == [o \in 0..(n-1) |-> Unknown]
Fresh == \A o \in DOMAIN fitness : fitness[o] = Unknown
Evaluated == \A o \in DOMAIN fitness : fitness[o] # Unknown

Init == age = 0 /\ fitness = Unevaluated(0) /\ due = FALSE /\ seeds = 0

DrawSeeds ==
  /\ due /\ Fresh
  /\ seeds' = seeds + 1
  /\ UNCHANGED <<age, fitness, due>>

Store(o) ==
  /\ due /\ fitness[o] = Unknown
  /\ \E r \in Results(age, o, seeds) : fitness' = [fitness EXCEPT ![o] = r]
  /\ UNCHANGED <<age, due, seeds>>

(* The first population of a run, or the next generation. *)
Populate ==
  /\ due => Evaluated
  /\ age' = age + 1
  /\ \E n \in PopSizes : fitness' = Unevaluated(n)
  /\ due' \in BOOLEAN
  /\ UNCHANGED seeds

(* The end of a run deletes the population. *)
Discard ==
  /\ due => Evaluated
  /\ fitness' = Unevaluated(0)
  /\ UNCHANGED <<age, due, seeds>>

Next == DrawSeeds \/ Populate \/ Discard \/ \E o \in DOMAIN fitness : Store(o)

Spec == Init /\ [][Next]_vars
=============================================================================
