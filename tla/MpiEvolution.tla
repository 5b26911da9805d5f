---------------------------- MODULE MpiEvolution ----------------------------
(***************************************************************************)
(* The evolution of a population (EvoTof/src): launchNEAT drives the       *)
(* generations, and every population is evaluated either in the process    *)
(* itself or by children spawned over MPI (evolution.cpp, scheduler.cpp).  *)
(* All messages carry the same tag, so a child knows what it receives only *)
(* by the order of arrival, and the parent takes answers from any child    *)
(* and knows whose they are only by their source and the current group.    *)
(*                                                                         *)
(* A genome is the pair <<population, organism>> it was printed from; the  *)
(* vector of seeds of one evaluation is its number.                        *)
(***************************************************************************)
EXTENDS Naturals, Sequences

CONSTANTS g_nbProcess,       \* processes asked for; parallel above 1
          PopSizes,          \* sizes NEAT may give to a population
          num_runs, num_gens, num_runs_per_gen, num_runs_post_eval

ASSUME ParametersAssumption ==
  /\ g_nbProcess \in Nat /\ PopSizes \subseteq Nat
  /\ num_runs \in Nat /\ num_gens \in Nat
  /\ num_runs_per_gen \in Nat /\ num_runs_post_eval \in Nat

Ranks == IF g_nbProcess > 1 THEN 0..(g_nbProcess - 1) ELSE {}

VARIABLES
  pc,                       \* where the parent is
  run, g, age, seeds,       \* loops of launchNEAT, populations, seed vectors
  size, fitness,            \* the population
  base, j, item, waiting,   \* the group, its child, the message; Send not over
  child, got,               \* where each child is, and what it has read
  toChild, toParent         \* messages under way

neatVars == <<run, g, age, seeds, size, fitness>>
groupVars == <<base, j, item, waiting>>
childVars == <<child, got, toChild, toParent>>
vars == <<pc, neatVars, groupVars, childVars>>

Results(a, o, s) == [genome : {<<a, o>>}, seeds : {s}, all : BOOLEAN]
Unknown == [genome |-> <<0, 0>>, seeds |-> 0, all |-> FALSE]
Unevaluated(n) == [o \in 0..(n-1) |-> Unknown]

(* How often each genome is tried in the current call of the evaluation.   *)
Runs == IF g <= num_gens THEN num_runs_per_gen ELSE num_runs_post_eval

-----------------------------------------------------------------------------
(* launchNEAT *)
Populate ==
  /\ age' = age + 1
  /\ size' \in PopSizes
  /\ fitness' = Unevaluated(size')

(* The next run, or the end of the program: in parallel the children are   *)
(* told to stop, otherwise there is nothing left to do.                    *)
NextRun ==
  /\ pc = "run"
  /\ \/ /\ run <= num_runs
        /\ Populate
        /\ g' = 1
        /\ pc' = "evaluate"
     \/ /\ run > num_runs
        /\ pc' = IF g_nbProcess > 1 THEN "quit" ELSE "done"
        /\ UNCHANGED <<g, age, size, fitness>>
  /\ j' = 0
  /\ UNCHANGED <<run, seeds, base, item, waiting, childVars>>

(* The evaluation returns at once when no runs are asked for. *)
Evaluate ==
  /\ pc = "evaluate"
  /\ base' = 0 /\ j' = 0 /\ item' = 0
  /\ \/ /\ Runs = 0 /\ pc' = "evaluated" /\ UNCHANGED seeds
     \/ /\ Runs > 0
        /\ seeds' = seeds + 1
        /\ pc' = IF size = 0 THEN "evaluated" ELSE IF g_nbProcess > 1 THEN "send" ELSE "try"
  /\ UNCHANGED <<run, g, age, size, fitness, waiting, childVars>>

(* After each generation the next population, after the last one the end   *)
(* of the run.                                                             *)
Evolve ==
  /\ pc = "evaluated"
  /\ \/ /\ g <= num_gens
        /\ Populate
        /\ g' = g + 1
        /\ pc' = "evaluate"
        /\ UNCHANGED run
     \/ /\ g > num_gens
        /\ size' = 0 /\ fitness' = Unevaluated(0)
        /\ run' = run + 1
        /\ pc' = "run"
        /\ UNCHANGED <<g, age>>
  /\ UNCHANGED <<seeds, groupVars, childVars>>

(* launchARGoSAndEvaluate: one organism after the other; what a run throws *)
(* ends the process.                                                       *)
\* faulty variant: the last organism is left out
LastLeftOut == j + 2 >= size
LastTried == j + 1 = size

Try ==
  /\ pc = "try"
  /\ \/ /\ fitness' = [fitness EXCEPT ![j] = [genome |-> <<age, j>>, seeds |-> seeds, all |-> TRUE]]
        /\ j' = j + 1
        /\ pc' = IF LastTried THEN "evaluated" ELSE "try"
     \/ /\ pc' = "aborted"
        /\ UNCHANGED <<fitness, j>>
  /\ UNCHANGED <<run, g, age, seeds, size, base, item, waiting, childVars>>

-----------------------------------------------------------------------------
(* launchARGoSInParallelAndEvaluate: groups of g_nbProcess organisms, the  *)
(* last one possibly smaller; first three messages to each child, then as  *)
(* many answers from whichever child is first.                             *)
GroupSize == IF size - base < g_nbProcess THEN size - base ELSE g_nbProcess

Cont == [kind |-> "cont", of |-> <<0, 0>>]
Stop == [kind |-> "stop", of |-> <<0, 0>>]
Seeds == [kind |-> "seeds", of |-> <<seeds, 0>>]
Genome(c) == [kind |-> "genome", of |-> <<age, base + c>>]
\* faulty variant: the genome overtakes the seeds
GenomeFirst(c) == <<Cont, Genome(c), Seeds>>
Feed(c) == <<Cont, Seeds, Genome(c)>>

Send(c, m) == toChild' = [toChild EXCEPT ![c] = Append(@, m)]

NextItem == (item + 1) % 3

SendItem ==
  /\ pc = "send" /\ j < GroupSize /\ ~waiting
  /\ Send(j, Feed(j)[item + 1])
  /\ waiting' = TRUE
  /\ UNCHANGED <<pc, neatVars, base, j, item, child, got, toParent>>

(* MPI_Send may return once the message is copied, or only when it is      *)
(* received.                                                               *)
SendReturns ==
  /\ waiting
  /\ waiting' = FALSE
  /\ item' = IF pc = "send" THEN NextItem ELSE 0
  /\ j' = IF item' = 0 THEN j + 1 ELSE j
  /\ UNCHANGED <<pc, neatVars, base, childVars>>

AllSent ==
  /\ pc = "send" /\ j = GroupSize
  /\ pc' = "recv"
  /\ j' = 0
  /\ UNCHANGED <<neatVars, base, item, waiting, childVars>>

\* faulty variant: the answers are taken in the order of the children
InOrder(c) == base + j
OrganismOf(c) == base + c

Receive(c) ==
  /\ pc = "recv" /\ j < GroupSize
  /\ toParent[c] # <<>>
  /\ fitness' = [fitness EXCEPT ![OrganismOf(c)] = Head(toParent[c])]
  /\ toParent' = [toParent EXCEPT ![c] = Tail(@)]
  /\ j' = j + 1
  /\ UNCHANGED <<pc, run, g, age, seeds, size, base, item, waiting, child, got, toChild>>

\* faulty variant: the number of groups is rounded down
FullGroups == base + 2 * g_nbProcess <= size
MoreGroups == base + GroupSize < size
\* faulty variant: every group starts over
SameGroup == base
NextBase == base + GroupSize

NextGroup ==
  /\ pc = "recv" /\ j = GroupSize
  /\ pc' = IF MoreGroups THEN "send" ELSE "evaluated"
  /\ base' = NextBase
  /\ j' = 0
  /\ UNCHANGED <<neatVars, item, waiting, childVars>>

(* main, after launchNEAT *)
SendStop ==
  /\ pc = "quit" /\ j < g_nbProcess /\ ~waiting
  /\ Send(j, Stop)
  /\ waiting' = TRUE
  /\ UNCHANGED <<pc, neatVars, base, j, item, child, got, toParent>>

(* MPI_Finalize is collective over the parent and its children. *)
ChildrenEnded == \A c \in Ranks : child[c] = "end"

Finalize ==
  /\ pc = "quit" /\ j = g_nbProcess
  /\ ChildrenEnded
  /\ pc' = "done"
  /\ UNCHANGED <<neatVars, groupVars, childVars>>

-----------------------------------------------------------------------------
(* scheduler.cpp: what a child does with a message depends only on where   *)
(* it is; a message of another kind would be taken for the expected one.   *)
Expected(c) == CASE child[c] = "cont"  -> {"cont", "stop"}
                 [] child[c] = "seeds" -> {"seeds"}
                 [] OTHER              -> {"genome"}

RecvCont(c) ==
  /\ child[c] = "cont" /\ toChild[c] # <<>>
  /\ toChild' = [toChild EXCEPT ![c] = Tail(@)]
  /\ child' = [child EXCEPT ![c] = IF Head(toChild[c]).kind = "stop" THEN "end" ELSE "seeds"]
  /\ UNCHANGED <<pc, neatVars, groupVars, got, toParent>>

RecvSeeds(c) ==
  /\ child[c] = "seeds" /\ toChild[c] # <<>>
  /\ toChild' = [toChild EXCEPT ![c] = Tail(@)]
  /\ got' = [got EXCEPT ![c].seeds = Head(toChild[c]).of[1]]
  /\ child' = [child EXCEPT ![c] = "genome"]
  /\ UNCHANGED <<pc, neatVars, groupVars, toParent>>

RecvGenome(c) ==
  /\ child[c] = "genome" /\ toChild[c] # <<>>
  /\ toChild' = [toChild EXCEPT ![c] = Tail(@)]
  /\ got' = [got EXCEPT ![c].genome = Head(toChild[c]).of]
  /\ child' = [child EXCEPT ![c] = "experiment"]
  /\ UNCHANGED <<pc, neatVars, groupVars, toParent>>

(* An exception in a run is caught, and what the runs before it scored is  *)
(* divided by the number of all runs and sent.                             *)
Experiment(c) ==
  /\ child[c] = "experiment"
  /\ \E all \in BOOLEAN :
       toParent' = [toParent EXCEPT ![c] =
                      Append(@, [genome |-> got[c].genome, seeds |-> got[c].seeds, all |-> all])]
  /\ child' = [child EXCEPT ![c] = "sending"]
  /\ UNCHANGED <<pc, neatVars, groupVars, got, toChild>>

AnswerReturns(c) ==
  /\ child[c] = "sending"
  /\ child' = [child EXCEPT ![c] = "cont"]
  /\ UNCHANGED <<pc, neatVars, groupVars, got, toChild, toParent>>

-----------------------------------------------------------------------------
Init ==
  /\ pc = "run"
  /\ run = 1 /\ g = 1 /\ age = 0 /\ seeds = 0
  /\ size = 0 /\ fitness = Unevaluated(0)
  /\ base = 0 /\ j = 0 /\ item = 0 /\ waiting = FALSE
  /\ child = [c \in Ranks |-> "cont"]
  /\ got = [c \in Ranks |-> [seeds |-> 0, genome |-> <<0, 0>>]]
  /\ toChild = [c \in Ranks |-> <<>>]
  /\ toParent = [c \in Ranks |-> <<>>]

Ended == pc \in {"done", "aborted"}
Terminated == Ended /\ UNCHANGED vars

Parent == NextRun \/ Evaluate \/ Evolve \/ Try \/ SendItem \/ AllSent \/ NextGroup
          \/ SendStop \/ Finalize
Child(c) == RecvCont(c) \/ RecvSeeds(c) \/ RecvGenome(c) \/ Experiment(c)

Next == \/ Parent
        \/ SendReturns
        \/ \E c \in Ranks : Receive(c) \/ Child(c) \/ AnswerReturns(c)
        \/ Terminated

(* Every process runs; a Send is only sure to return when its message has  *)
(* been received.                                                          *)
Fairness ==
  /\ WF_vars(Parent)
  /\ WF_vars(waiting /\ toChild[j] = <<>> /\ SendReturns)
  /\ \A c \in Ranks : /\ WF_vars(Receive(c)) /\ WF_vars(Child(c))
                      /\ WF_vars(toParent[c] = <<>> /\ AnswerReturns(c))

Spec == Init /\ [][Next]_vars
FairSpec == Spec /\ Fairness
-----------------------------------------------------------------------------
Messages == [kind : {"cont", "stop", "seeds", "genome"}, of : Nat \X Nat]
Fitness == [genome : Nat \X Nat, seeds : Nat, all : BOOLEAN]

TypeOK ==
  /\ pc \in {"run", "evaluate", "evaluated", "try", "send", "recv", "quit", "done", "aborted"}
  /\ run \in Nat /\ g \in Nat /\ age \in Nat /\ seeds \in Nat /\ size \in Nat
  /\ fitness \in [0..(size-1) -> Fitness]
  /\ base \in Nat /\ j \in Nat /\ item \in 0..2 /\ waiting \in BOOLEAN
  /\ child \in [Ranks -> {"cont", "seeds", "genome", "experiment", "sending", "end"}]
  /\ got \in [Ranks -> [seeds : Nat, genome : Nat \X Nat]]
  /\ toChild \in [Ranks -> Seq(Messages)]
  /\ toParent \in [Ranks -> Seq(Fitness)]

(* Whatever order the children answer in, a fitness stored in the          *)
(* population is that of the organism's own genome, in this population     *)
(* and on the seeds of this evaluation.                                    *)
OwnFitness ==
  \A o \in 0..(size-1) : fitness[o] # Unknown =>
    fitness[o].genome = <<age, o>> /\ fitness[o].seeds = seeds

(* With one tag for everything, a child still never takes a message for    *)
(* one of another kind.                                                    *)
NeverMisread ==
  \A c \in DOMAIN child : (child[c] \notin {"experiment", "sending", "end"} /\ toChild[c] # <<>>) =>
    Head(toChild[c]).kind \in Expected(c)

(* When the program is over no message is left unread. *)
NothingLeft ==
  pc = "done" => \A c \in Ranks : toChild[c] = <<>> /\ toParent[c] = <<>>

(* The program comes to an end, whichever way MPI_Send works. *)
Termination == <>Ended

(* launchNEAT gets what it needs from the evaluation. *)
Promise == INSTANCE Evaluation WITH due <- Runs > 0 /\ age > 0
PromiseKept == Promise!Spec
=============================================================================
