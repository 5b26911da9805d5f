------------------------- MODULE MpiEvolutionProofs -------------------------
(***************************************************************************)
(* For every number of children, of organisms, of runs and of generations: *)
(* every fitness lands on its own organism, no child misreads a message,   *)
(* and the evaluation keeps the promise of module Evaluation.              *)
(***************************************************************************)
EXTENDS MpiEvolution, FiniteSets, FiniteSetTheorems, SequenceTheorems, TLAPS

Organisms == 0..(size-1)

(* The population: which organisms have their fitness at each point of the *)
(* evaluation.                                                             *)
Answered == {c \in Ranks : c < GroupSize /\ fitness[base + c] # Unknown}

Scores ==
  \A o \in Organisms : fitness[o] # Unknown => fitness[o] \in Results(age, o, seeds)

Progress ==
  /\ pc \in {"evaluate", "evaluated", "try", "send", "recv"} => age > 0
  /\ pc \in {"run", "quit", "done"} => size = 0
  /\ pc = "evaluate" => \A o \in Organisms : fitness[o] = Unknown
  /\ pc = "evaluated" => \A o \in Organisms : fitness[o] = Unknown <=> Runs = 0
  /\ pc = "try" => /\ Runs > 0 /\ j < size
                   /\ \A o \in Organisms : fitness[o] = Unknown <=> o >= j

GroupProgress ==
  /\ pc \in {"send", "recv"} =>
       /\ Runs > 0 /\ base < size /\ g_nbProcess > 1
       /\ \A o \in Organisms : /\ o < base => fitness[o] # Unknown
                               /\ o >= base + GroupSize => fitness[o] = Unknown
  /\ pc = "send" => /\ j <= GroupSize
                    /\ j = GroupSize => item = 0
                    /\ \A o \in Organisms : o >= base => fitness[o] = Unknown
  /\ pc = "recv" => item = 0 /\ Cardinality(Answered) = j
  /\ pc = "quit" => g_nbProcess > 1 /\ j <= g_nbProcess
  /\ waiting => (pc = "send" /\ j < GroupSize) \/ (pc = "quit" /\ j < g_nbProcess)

(* A child that works on the group: how many of its three messages have    *)
(* been posted, and what it has read of them.                              *)
Posted(c) ==
  IF pc = "send"
  THEN IF c < j THEN 3 ELSE IF c = j THEN (IF waiting THEN item + 1 ELSE item) ELSE 0
  ELSE IF pc = "recv" /\ c < GroupSize /\ fitness[base + c] = Unknown THEN 3 ELSE 0

Unread(c, n) == SubSeq(Feed(c), n + 1, Posted(c))

Reading(c) ==
  /\ toParent[c] = <<>>
  /\ \/ child[c] \in {"cont", "sending"} /\ toChild[c] = Unread(c, 0)
     \/ child[c] = "seeds" /\ Posted(c) >= 1 /\ toChild[c] = Unread(c, 1)
     \/ child[c] = "genome" /\ Posted(c) >= 2 /\ toChild[c] = Unread(c, 2) /\ got[c].seeds = seeds
     \/ /\ child[c] = "experiment" /\ Posted(c) = 3 /\ toChild[c] = <<>>
        /\ got[c] = [seeds |-> seeds, genome |-> <<age, base + c>>]

Answering(c) ==
  /\ child[c] \in {"cont", "sending"} /\ Posted(c) = 3 /\ toChild[c] = <<>>
  /\ \E r \in Results(age, base + c, seeds) : toParent[c] = <<r>>

(* A child that is told to stop. *)
Stopped(c) == c < j \/ (c = j /\ waiting)
Stopping(c) ==
  /\ toParent[c] = <<>>
  /\ \/ child[c] \in {"cont", "sending"} /\ toChild[c] = IF Stopped(c) THEN <<Stop>> ELSE <<>>
     \/ child[c] = "end" /\ Stopped(c) /\ toChild[c] = <<>>

Children ==
  /\ pc \notin {"quit", "done"} => \A c \in Ranks : Reading(c) \/ Answering(c)
  /\ pc = "quit" => \A c \in Ranks : Stopping(c)
  /\ pc = "done" => \A c \in Ranks : child[c] = "end" /\ toChild[c] = <<>> /\ toParent[c] = <<>>

Inv == TypeOK /\ Scores /\ Progress /\ GroupProgress /\ Children

-----------------------------------------------------------------------------
(* What is left of a child's three messages when one is read or posted. *)
LEMMA FeedParts ==
  ASSUME NEW f \in Seq(Messages), Len(f) = 3, NEW n \in 0..3, NEW k \in n..3
  PROVE  /\ SubSeq(f, n + 1, k) \in Seq(Messages)
         /\ n = k => SubSeq(f, n + 1, k) = <<>>
         /\ n < k => /\ SubSeq(f, n + 1, k) # <<>>
                     /\ Head(SubSeq(f, n + 1, k)) = f[n + 1]
                     /\ Tail(SubSeq(f, n + 1, k)) = SubSeq(f, n + 2, k)
         /\ k < 3 => Append(SubSeq(f, n + 1, k), f[k + 1]) = SubSeq(f, n + 1, k + 1)
<1> DEFINE s == SubSeq(f, n + 1, k)
<1>1. \A i \in 1..3 : f[i] \in Messages
  BY ElementOfSeq
<1>2. /\ s \in Seq(Messages)
      /\ Len(s) = k - n
      /\ \A i \in 1..(k - n) : s[i] = f[n + i]
  <2>1. \A i \in (n + 1)..k : f[i] \in Messages
    BY <1>1
  <2>2. QED
    BY <2>1, SubSeqProperties, n + 1 \in Int, k \in Int, k - (n + 1) + 1 = k - n
<1>3. n = k => s = <<>>
  BY SubSeqEmpty, n + 1 \in Int, k \in Int
<1>4. n < k => /\ s # <<>>
               /\ Head(s) = f[n + 1]
               /\ Tail(s) = SubSeq(f, n + 2, k)
  <2> SUFFICES ASSUME n < k
               PROVE  s # <<>> /\ Head(s) = f[n + 1] /\ Tail(s) = SubSeq(f, n + 2, k)
    OBVIOUS
  <2>1. n + 1 \in 1..Len(f) /\ k \in (n + 1)..Len(f) /\ n + 1 + 1 = n + 2
    OBVIOUS
  <2>2. Head(s) = f[n + 1] /\ Tail(s) = SubSeq(f, n + 2, k)
    BY <2>1, HeadTailOfSubSeq
  <2>3. s # <<>>
    <3> HIDE DEF s
    <3>1. QED
      BY <1>2
  <2>4. QED
    BY <2>2, <2>3
<1>5. k < 3 => Append(s, f[k + 1]) = SubSeq(f, n + 1, k + 1)
  <2> SUFFICES ASSUME k < 3
               PROVE  Append(s, f[k + 1]) = SubSeq(f, n + 1, k + 1)
    OBVIOUS
  <2> DEFINE t == SubSeq(f, n + 1, k + 1)
  <2>1. /\ t \in Seq(Messages)
        /\ Len(t) = k + 1 - n
        /\ \A i \in 1..(k + 1 - n) : t[i] = f[n + i]
    <3>1. \A i \in (n + 1)..(k + 1) : f[i] \in Messages
      BY <1>1
    <3>2. QED
      BY <3>1, SubSeqProperties, n + 1 \in Int, k + 1 \in Int, k + 1 - (n + 1) + 1 = k + 1 - n
  <2>2. /\ Append(s, f[k + 1]) \in Seq(Messages)
        /\ Len(Append(s, f[k + 1])) = k + 1 - n
        /\ \A i \in 1..(k - n) : Append(s, f[k + 1])[i] = s[i]
        /\ Append(s, f[k + 1])[k - n + 1] = f[k + 1]
    BY <1>1, <1>2, AppendProperties
  <2>3. \A i \in 1..(k + 1 - n) : Append(s, f[k + 1])[i] = t[i]
    BY <1>2, <2>1, <2>2
  <2>4. QED
    BY <2>1, <2>2, <2>3, SeqEqual
<1>6. QED
  BY <1>2, <1>3, <1>4, <1>5

(* A fitness that is stored is never the one of an organism that waits. *)
LEMMA ResultsAreKnown ==
  ASSUME NEW a \in Nat, a > 0, NEW o \in Nat, NEW s \in Nat
  PROVE  Unknown \notin Results(a, o, s) /\ Results(a, o, s) \subseteq Fitness
BY DEF Unknown, Results, Fitness

LEMMA ResultOfRun ==
  ASSUME NEW a, NEW o, NEW s, NEW all \in BOOLEAN
  PROVE  [genome |-> <<a, o>>, seeds |-> s, all |-> all] \in Results(a, o, s)
BY DEF Results

LEMMA FeedType ==
  ASSUME TypeOK, NEW c \in Nat
  PROVE  Feed(c) \in Seq(Messages) /\ Len(Feed(c)) = 3
<1>1. Cont \in Messages /\ Seeds \in Messages /\ Genome(c) \in Messages
  BY DEF TypeOK, Cont, Seeds, Genome, Messages
<1>2. QED
  BY <1>1 DEF Feed

LEMMA RanksAreNats == Ranks \subseteq Nat
BY ParametersAssumption DEF Ranks

LEMMA GroupSizeType ==
  ASSUME TypeOK, base <= size
  PROVE  GroupSize \in Nat /\ GroupSize <= g_nbProcess /\ base + GroupSize <= size
BY ParametersAssumption DEF TypeOK, GroupSize

LEMMA UnevaluatedType ==
  ASSUME NEW n \in Nat
  PROVE  Unevaluated(n) \in [0..(n-1) -> Fitness]
BY DEF Unevaluated, Unknown, Fitness

-----------------------------------------------------------------------------
LEMMA TypeStep == TypeOK /\ [Next]_vars => TypeOK'
<1> SUFFICES ASSUME TypeOK, [Next]_vars
             PROVE  TypeOK'
  OBVIOUS
<1> USE DEF neatVars, groupVars, childVars
<1>1. ASSUME Populate
      PROVE  age' \in Nat /\ size' \in Nat /\ fitness' \in [0..(size'-1) -> Fitness]
  <2>1. age' \in Nat /\ size' \in Nat
    BY <1>1, ParametersAssumption DEF Populate, TypeOK
  <2>2. QED
    BY <1>1, <2>1, UnevaluatedType DEF Populate
<1>2. CASE NextRun
  <2>1. /\ age' \in Nat /\ size' \in Nat /\ fitness' \in [0..(size'-1) -> Fitness] /\ g' \in Nat
        /\ pc' \in {"evaluate", "quit", "done"} /\ j' = 0
    BY <1>1, <1>2 DEF NextRun, TypeOK
  <2>2. UNCHANGED <<run, seeds, base, item, waiting, childVars>>
    BY <1>2 DEF NextRun
  <2>3. QED
    BY <2>1, <2>2 DEF TypeOK
<1>3. CASE Evaluate
  BY <1>3 DEF Evaluate, TypeOK
<1>4. CASE Evolve
  <2>1. /\ age' \in Nat /\ size' \in Nat /\ fitness' \in [0..(size'-1) -> Fitness]
        /\ g' \in Nat /\ run' \in Nat /\ pc' \in {"evaluate", "run"}
    <3>1. g \in Nat /\ run \in Nat /\ age \in Nat
      BY DEF TypeOK
    <3>2. CASE Populate
      BY <1>1, <1>4, <3>1, <3>2 DEF Evolve
    <3>3. CASE size' = 0 /\ fitness' = Unevaluated(0) /\ UNCHANGED <<g, age>>
      <4>1. Unevaluated(0) \in [0..(0-1) -> Fitness]
        BY UnevaluatedType
      <4>2. fitness' \in [0..(size'-1) -> Fitness]
        BY <3>3, <4>1
      <4>3. QED
        BY <1>4, <3>1, <3>3, <4>2 DEF Evolve
    <3>4. QED
      BY <1>4, <3>2, <3>3 DEF Evolve
  <2>2. UNCHANGED <<seeds, groupVars, childVars>>
    BY <1>4 DEF Evolve
  <2>3. QED
    BY <2>1, <2>2 DEF TypeOK
<1>5. CASE Try
  <2>1. fitness' \in [0..(size-1) -> Fitness]
    <3>1. j \in Nat /\ age \in Nat /\ seeds \in Nat
      BY DEF TypeOK
    <3>2. [genome |-> <<age, j>>, seeds |-> seeds, all |-> TRUE] \in Fitness
      BY <3>1 DEF Fitness
    <3>3. fitness \in [0..(size-1) -> Fitness]
      BY DEF TypeOK
    <3>4. QED
      BY <1>5, <3>2, <3>3 DEF Try
  <2>2. j' \in Nat /\ pc' \in {"evaluated", "try", "aborted"}
    BY <1>5 DEF Try, TypeOK
  <2>3. UNCHANGED <<run, g, age, seeds, size, base, item, waiting, childVars>>
    BY <1>5 DEF Try
  <2>4. QED
    BY <2>1, <2>2, <2>3 DEF TypeOK
<1>6. ASSUME NEW m \in Messages, Send(j, m)
      PROVE  toChild' \in [Ranks -> Seq(Messages)]
  <2>1. toChild \in [Ranks -> Seq(Messages)]
    BY DEF TypeOK
  <2>2. j \in Ranks => Append(toChild[j], m) \in Seq(Messages)
    BY <2>1, AppendProperties
  <2>3. QED
    BY <1>6, <2>1, <2>2 DEF Send
<1>7. CASE SendItem
  <2>1. Feed(j)[item + 1] \in Messages
    BY FeedType, ElementOfSeq DEF TypeOK
  <2>2. toChild' \in [Ranks -> Seq(Messages)]
    BY <1>6, <1>7, <2>1 DEF SendItem
  <2>3. QED
    BY <1>7, <2>2 DEF SendItem, TypeOK
<1>8. CASE SendReturns
  <2>1. item' \in 0..2
    BY <1>8 DEF SendReturns, NextItem, TypeOK
  <2>2. QED
    <3>1. waiting' \in BOOLEAN
      BY <1>8, Zenon DEF SendReturns
    <3>2. j' \in Nat
      <4>1. j' = j + 1 \/ j' = j
        BY <1>8 DEF SendReturns
      <4>2. QED
        BY <4>1 DEF TypeOK
    <3>3. UNCHANGED <<pc, neatVars, base, childVars>>
      BY <1>8 DEF SendReturns
    <3>4. QED
      BY <2>1, <3>1, <3>2, <3>3 DEF TypeOK
<1>9. CASE AllSent
  BY <1>9 DEF AllSent, TypeOK
<1>10. CASE NextGroup
  <2>1. base' \in Nat
    BY <1>10, ParametersAssumption DEF NextGroup, NextBase, GroupSize, TypeOK
  <2>2. QED
    BY <1>10, <2>1 DEF NextGroup, TypeOK
<1>11. CASE SendStop
  <2>1. Stop \in Messages
    BY DEF Stop, Messages
  <2>2. toChild' \in [Ranks -> Seq(Messages)]
    BY <1>6, <1>11, <2>1 DEF SendStop
  <2>3. QED
    BY <1>11, <2>2 DEF SendStop, TypeOK
<1>12. CASE Finalize
  BY <1>12 DEF Finalize, TypeOK
<1>13. ASSUME NEW c \in Ranks, Receive(c)
       PROVE  TypeOK'
  <2>1. Head(toParent[c]) \in Fitness /\ Tail(toParent[c]) \in Seq(Fitness)
    BY <1>13 DEF Receive, TypeOK
  <2>2. fitness' \in [0..(size-1) -> Fitness] /\ toParent' \in [Ranks -> Seq(Fitness)]
    BY <1>13, <2>1 DEF Receive, TypeOK
  <2>3. j' \in Nat
    BY <1>13 DEF Receive, TypeOK
  <2>4. UNCHANGED <<pc, run, g, age, seeds, size, base, item, waiting, child, got, toChild>>
    BY <1>13 DEF Receive
  <2>5. QED
    BY <2>2, <2>3, <2>4 DEF TypeOK
<1>14. ASSUME NEW c \in Ranks, Child(c) \/ AnswerReturns(c)
       PROVE  TypeOK'
  <2>1. toChild[c] # <<>> => /\ Head(toChild[c]).of \in Nat \X Nat
                             /\ Tail(toChild[c]) \in Seq(Messages)
    <3>1. toChild[c] # <<>> => Head(toChild[c]) \in Messages /\ Tail(toChild[c]) \in Seq(Messages)
      BY DEF TypeOK
    <3>2. QED
      BY <3>1 DEF Messages
  <2>2. toChild' \in [Ranks -> Seq(Messages)]
    BY <1>14, <2>1 DEF Child, RecvCont, RecvSeeds, RecvGenome, Experiment, AnswerReturns, TypeOK
  <2>3. child' \in [Ranks -> {"cont", "seeds", "genome", "experiment", "sending", "end"}]
    BY <1>14 DEF Child, RecvCont, RecvSeeds, RecvGenome, Experiment, AnswerReturns, TypeOK
  <2>4. got' \in [Ranks -> [seeds : Nat, genome : Nat \X Nat]]
    <3>1. got \in [Ranks -> [seeds : Nat, genome : Nat \X Nat]]
      BY DEF TypeOK
    <3>2. CASE RecvSeeds(c)
      <4>1. got' = [got EXCEPT ![c].seeds = Head(toChild[c]).of[1]] /\ toChild[c] # <<>>
        BY <3>2 DEF RecvSeeds
      <4>2. Head(toChild[c]).of[1] \in Nat
        BY <2>1, <4>1
      <4>3. QED
        BY <3>1, <4>1, <4>2
    <3>3. CASE RecvGenome(c)
      <4>1. got' = [got EXCEPT ![c].genome = Head(toChild[c]).of] /\ toChild[c] # <<>>
        BY <3>3 DEF RecvGenome
      <4>2. QED
        BY <2>1, <3>1, <4>1
    <3>4. CASE UNCHANGED got
      BY <3>1, <3>4
    <3>5. QED
      BY <1>14, <3>2, <3>3, <3>4 DEF Child, RecvCont, Experiment, AnswerReturns
  <2>5. toParent' \in [Ranks -> Seq(Fitness)]
    <3>1. toParent \in [Ranks -> Seq(Fitness)]
      BY DEF TypeOK
    <3>2. CASE Experiment(c)
      <4>1. PICK all \in BOOLEAN :
              toParent' = [toParent EXCEPT ![c] =
                Append(@, [genome |-> got[c].genome, seeds |-> got[c].seeds, all |-> all])]
        BY <3>2 DEF Experiment
      <4>2. [genome |-> got[c].genome, seeds |-> got[c].seeds, all |-> all] \in Fitness
        BY DEF TypeOK, Fitness
      <4>3. QED
        BY <3>1, <4>1, <4>2
    <3>3. CASE UNCHANGED toParent
      BY <3>1, <3>3
    <3>4. QED
      BY <1>14, <3>2, <3>3 DEF Child, RecvCont, RecvSeeds, RecvGenome, AnswerReturns
  <2>6. UNCHANGED <<pc, neatVars, groupVars>>
    BY <1>14 DEF Child, RecvCont, RecvSeeds, RecvGenome, Experiment, AnswerReturns
  <2>7. QED
    BY <2>2, <2>3, <2>4, <2>5, <2>6 DEF TypeOK
<1>15. CASE UNCHANGED vars
  BY <1>15 DEF vars, TypeOK
<1>16. QED
  BY <1>2, <1>3, <1>4, <1>5, <1>7, <1>8, <1>9, <1>10, <1>11, <1>12, <1>13, <1>14, <1>15
     DEF Next, Parent, Terminated

-----------------------------------------------------------------------------
(* When the answers of the group are counted, all of it has answered. *)
LEMMA AnsweredIsFinite ==
  ASSUME TypeOK, pc \in {"send", "recv"}, GroupProgress
  PROVE  /\ IsFiniteSet(Answered) /\ Cardinality(Answered) \in Nat
         /\ Cardinality(Answered) = GroupSize => Answered = 0..(GroupSize - 1)
<1>1. GroupSize \in Nat /\ GroupSize > 0 /\ g_nbProcess > 1 /\ GroupSize <= g_nbProcess
  BY ParametersAssumption DEF TypeOK, GroupProgress, GroupSize
<1>2. IsFiniteSet(0..(GroupSize - 1)) /\ Cardinality(0..(GroupSize - 1)) = GroupSize
  BY <1>1, FS_Interval
<1>3. Answered \in SUBSET (0..(GroupSize - 1))
  BY <1>1, ParametersAssumption DEF Answered, Ranks
<1>4. QED
  BY <1>2, <1>3, FS_Subset, FS_CardinalityType

(* An answer in the parent's hands belongs to an organism that waits. *)
LEMMA AnswerIsOwn ==
  ASSUME Inv, NEW c \in Ranks, pc = "recv", toParent[c] # <<>>
  PROVE  /\ c < GroupSize /\ base + c \in Organisms /\ fitness[base + c] = Unknown
         /\ child[c] \in {"cont", "sending"} /\ toChild[c] = <<>> /\ Tail(toParent[c]) = <<>>
         /\ Head(toParent[c]) \in Results(age, base + c, seeds)
<1>1. Answering(c)
  BY DEF Inv, Children, Reading
<1>2. c < GroupSize /\ fitness[base + c] = Unknown
  BY <1>1 DEF Answering, Posted
<1>3. base + c \in Organisms
  <2>1. base \in Nat /\ size \in Nat /\ c \in Nat /\ base < size
    BY RanksAreNats DEF Inv, GroupProgress, TypeOK
  <2>2. GroupSize \in Nat /\ base + GroupSize <= size
    BY <2>1, GroupSizeType DEF Inv
  <2>3. QED
    BY <1>2, <2>1, <2>2 DEF Organisms
<1>4. PICK r \in Results(age, base + c, seeds) : toParent[c] = <<r>>
  BY <1>1 DEF Answering
<1>5. Head(<<r>>) = r /\ Tail(<<r>>) = <<>>
  OBVIOUS
<1>6. QED
  BY <1>1, <1>2, <1>3, <1>4, <1>5 DEF Answering

LEMMA FreshPopulation ==
  ASSUME NEW n \in Nat, NEW o \in 0..(n-1)
  PROVE  Unevaluated(n)[o] = Unknown
BY DEF Unevaluated

LEMMA PopulationStep ==
  Inv /\ [Next]_vars => Scores' /\ Progress' /\ GroupProgress'
<1> SUFFICES ASSUME Inv, [Next]_vars
             PROVE  Scores' /\ Progress' /\ GroupProgress'
  OBVIOUS
<1> USE DEF neatVars, groupVars, childVars
<1>0. /\ TypeOK /\ TypeOK'
      /\ age \in Nat /\ seeds \in Nat /\ size \in Nat /\ base \in Nat /\ j \in Nat /\ g_nbProcess \in Nat
      /\ g \in Nat
  BY TypeStep, ParametersAssumption DEF Inv, TypeOK
<1>1. ASSUME Populate
      PROVE  size' \in Nat /\ age' > 0 /\ \A o \in Organisms' : fitness'[o] = Unknown
  <2>1. size' \in Nat /\ age' > 0 /\ fitness' = Unevaluated(size')
    BY <1>0, <1>1, ParametersAssumption DEF Populate
  <2>2. QED
    BY <2>1, FreshPopulation DEF Organisms
<1>2. CASE NextRun
  <2>1. ~waiting
    BY <1>2 DEF NextRun, Inv, GroupProgress
  <2>2. CASE Populate /\ pc' = "evaluate"
    BY <1>1, <1>2, <2>1, <2>2 DEF NextRun, Scores, Progress, GroupProgress
  <2>3. CASE pc' \in {"quit", "done"} /\ UNCHANGED <<g, age, size, fitness>>
    BY <1>0, <1>2, <2>1, <2>3 DEF NextRun, Inv, Scores, Progress, GroupProgress, Organisms
  <2>4. QED
    BY <1>2, <2>2, <2>3 DEF NextRun
<1>3. CASE Evaluate
  <2>1. /\ ~waiting /\ UNCHANGED <<g, age, size, fitness, waiting>>
        /\ \A o \in Organisms : fitness[o] = Unknown
        /\ base' = 0 /\ j' = 0 /\ item' = 0 /\ age > 0
    BY <1>3 DEF Evaluate, Inv, GroupProgress, Progress
  <2>2. Runs' = Runs /\ Organisms' = Organisms
    BY <2>1 DEF Runs, Organisms
  <2>3. Scores'
    BY <2>1, <2>2 DEF Scores
  <2>4. Runs \in Nat
    BY ParametersAssumption DEF Runs
  <2>5. CASE pc' = "evaluated"
    <3>1. Runs = 0 \/ size = 0
      BY <1>3, <2>5 DEF Evaluate
    <3>2. QED
      BY <2>1, <2>2, <2>3, <2>5, <3>1 DEF Progress, GroupProgress, Organisms
  <2>6. CASE pc' = "try"
    <3>1. Runs > 0 /\ size > 0
      BY <1>0, <1>3, <2>6 DEF Evaluate
    <3>2. QED
      BY <2>1, <2>2, <2>3, <2>6, <3>1 DEF Progress, GroupProgress, Organisms
  <2>7. CASE pc' = "send"
    <3>1. Runs > 0 /\ size > 0 /\ g_nbProcess > 1
      BY <1>0, <1>3, <2>7 DEF Evaluate
    <3>2. GroupSize' > 0
      BY <1>0, <2>1, <3>1 DEF GroupSize
    <3>3. ~waiting'
      BY <2>1, Zenon
    <3>4. \A o \in Organisms : o >= base' /\ ~(o < base')
      BY <1>0, <2>1 DEF Organisms
    <3>5. Progress'
      BY <2>1, <2>2, <2>7 DEF Progress
    <3>6. \A o \in Organisms' : fitness'[o] = Unknown
      BY <2>1, <2>2
    <3>7. pc' = "send" /\ base' < size' /\ Runs' > 0 /\ 0 <= GroupSize' /\ j' = 0 /\ item' = 0
      <4>1. GroupSize' \in Int
        BY <1>0, <2>1 DEF GroupSize
      <4>2. QED
        BY <1>0, <2>1, <2>2, <2>7, <3>1, <3>2, <4>1
    <3>8. \A o \in Organisms' : o < base' => fitness'[o] # Unknown
      BY <2>2, <3>4
    <3>9. GroupProgress'
      BY <3>1, <3>3, <3>6, <3>7, <3>8 DEF GroupProgress
    <3>10. QED
      BY <2>3, <3>5, <3>9
  <2>8. QED
    BY <1>3, <2>5, <2>6, <2>7 DEF Evaluate
<1>4. CASE Evolve
  <2>1. ~waiting
    BY <1>4 DEF Evolve, Inv, GroupProgress
  <2>2. CASE Populate /\ pc' = "evaluate"
    BY <1>1, <1>4, <2>1, <2>2 DEF Evolve, Scores, Progress, GroupProgress
  <2>3. CASE size' = 0 /\ pc' = "run"
    BY <1>4, <2>1, <2>3 DEF Evolve, Scores, Progress, GroupProgress, Organisms
  <2>4. QED
    BY <1>4, <2>2, <2>3 DEF Evolve
<1>5. CASE Try
  <2>1. /\ ~waiting /\ Runs > 0 /\ age > 0 /\ j < size
        /\ \A o \in Organisms : fitness[o] = Unknown <=> o >= j
        /\ UNCHANGED <<g, age, seeds, size, base, item, waiting>>
    BY <1>5 DEF Try, Inv, GroupProgress, Progress
  <2>2. Runs' = Runs /\ Organisms' = Organisms
    BY <2>1 DEF Runs, Organisms
  <2>3. CASE pc' = "aborted" /\ UNCHANGED <<fitness, j>>
    BY <2>1, <2>2, <2>3 DEF Scores, Progress, GroupProgress, Inv
  <2>4. CASE pc' # "aborted"
    <3> DEFINE r == [genome |-> <<age, j>>, seeds |-> seeds, all |-> TRUE]
    <3>1. fitness' = [fitness EXCEPT ![j] = r] /\ j' = j + 1
          /\ pc' = IF LastTried THEN "evaluated" ELSE "try"
      BY <1>5, <2>4 DEF Try
    <3>2. r \in Results(age, j, seeds) /\ r # Unknown
      <4>1. r \in Results(age, j, seeds)
        BY ResultOfRun, Zenon
      <4>2. age > 0 /\ j \in Nat /\ seeds \in Nat /\ age \in Nat
        BY <1>0, <2>1
      <4>3. Unknown \notin Results(age, j, seeds)
        BY <4>2, ResultsAreKnown
      <4> HIDE DEF r
      <4>4. QED
        BY <4>1, <4>3
    <3>3. \A o \in Organisms : fitness'[o] = IF o = j THEN r ELSE fitness[o]
      BY <1>0, <3>1 DEF TypeOK, Organisms
    <3>4. Scores'
      BY <2>1, <2>2, <3>2, <3>3 DEF Scores, Inv
    <3>5. \A o \in Organisms : fitness'[o] = Unknown <=> o >= j + 1
      BY <1>0, <2>1, <3>2, <3>3 DEF Organisms
    <3>6. CASE LastTried
      <4>1. \A o \in Organisms : fitness'[o] # Unknown
        BY <1>0, <3>5, <3>6 DEF Organisms, LastTried
      <4>2. QED
        BY <2>1, <2>2, <3>1, <3>4, <3>6, <4>1 DEF Progress, GroupProgress
    <3>7. CASE ~LastTried
      <4>1. j + 1 < size
        BY <1>0, <2>1, <3>7 DEF LastTried
      <4>2. QED
        BY <2>1, <2>2, <3>1, <3>4, <3>5, <3>7, <4>1 DEF Progress, GroupProgress
    <3>8. QED
      BY <3>6, <3>7
  <2>5. QED
    BY <1>5, <2>3, <2>4 DEF Try
<1>6. ASSUME UNCHANGED <<neatVars, base>>
      PROVE  Scores' /\ Organisms' = Organisms /\ Runs' = Runs /\ GroupSize' = GroupSize
             /\ Answered' = Answered
  BY <1>6 DEF Inv, Scores, Organisms, Runs, GroupSize, Answered
<1>7. CASE SendItem \/ SendStop
  <2>1. /\ UNCHANGED <<pc, neatVars, base, j, item>>
        /\ (pc = "send" /\ j < GroupSize) \/ (pc = "quit" /\ j < g_nbProcess)
    BY <1>7 DEF SendItem, SendStop
  <2>2. QED
    BY <1>6, <2>1 DEF Inv, Progress, GroupProgress
<1>8. CASE SendReturns
  <2>1. /\ UNCHANGED <<pc, neatVars, base>> /\ ~waiting'
        /\ j' = IF item' = 0 THEN j + 1 ELSE j
        /\ (pc = "send" /\ j < GroupSize) \/ (pc = "quit" /\ j < g_nbProcess)
    BY <1>8 DEF SendReturns, Inv, GroupProgress
  <2>2. GroupSize \in Int
    BY <1>0 DEF GroupSize
  <2>3. CASE pc = "send"
    BY <1>0, <1>6, <2>1, <2>2, <2>3 DEF Inv, Progress, GroupProgress
  <2>4. CASE pc = "quit"
    BY <1>0, <1>6, <2>1, <2>4 DEF Inv, Progress, GroupProgress
  <2>5. QED
    BY <2>1, <2>3, <2>4
<1>9. CASE AllSent
  <2>1. /\ UNCHANGED <<neatVars, base, item, waiting>> /\ ~waiting /\ item = 0
        /\ pc = "send" /\ pc' = "recv" /\ j' = 0 /\ age > 0
        /\ Runs > 0 /\ base < size /\ g_nbProcess > 1
        /\ \A o \in Organisms : /\ o < base => fitness[o] # Unknown
                                /\ o >= base => fitness[o] = Unknown
    <3>1. /\ UNCHANGED <<neatVars, base, item, waiting>>
          /\ pc = "send" /\ pc' = "recv" /\ j' = 0 /\ j = GroupSize
      BY <1>9 DEF AllSent
    <3>2. GroupSize \in Nat
      BY <1>0, <3>1, GroupSizeType DEF Inv, GroupProgress
    <3>3. ~(j < GroupSize)
      BY <3>1, <3>2
    <3>4. QED
      BY <3>1, <3>3 DEF Inv, GroupProgress, Progress
  <2>2. GroupSize \in Nat /\ base + GroupSize <= size
    BY <1>0, <2>1, GroupSizeType
  <2>3. Answered = {}
    <3>1. \A c \in Ranks : c < GroupSize => base + c \in Organisms /\ base + c >= base
      BY <1>0, <2>2, RanksAreNats DEF Organisms
    <3>2. QED
      BY <2>1, <3>1 DEF Answered
  <2>4. Cardinality(Answered) = 0
    BY <2>3, FS_EmptySet
  <2>5. QED
    BY <1>0, <1>6, <2>1, <2>2, <2>4 DEF Progress, GroupProgress, Organisms
<1>10. CASE NextGroup
  <2>1. /\ UNCHANGED <<neatVars, item, waiting>> /\ ~waiting /\ item = 0
        /\ j' = 0 /\ base' = base + GroupSize /\ age > 0
        /\ Runs > 0 /\ base < size /\ g_nbProcess > 1
        /\ \A o \in Organisms : /\ o < base => fitness[o] # Unknown
                                /\ o >= base + GroupSize => fitness[o] = Unknown
        /\ pc = "recv" /\ pc' = IF MoreGroups THEN "send" ELSE "evaluated"
    BY <1>10 DEF NextGroup, NextBase, Inv, GroupProgress, Progress
  <2>2. GroupSize \in Nat /\ base + GroupSize <= size
    BY <1>0, <2>1, GroupSizeType
  <2>3. Answered = 0..(GroupSize - 1)
    BY <1>0, <1>10, AnsweredIsFinite DEF NextGroup, Inv, GroupProgress
  <2>4. \A o \in Organisms : o < base + GroupSize => fitness[o] # Unknown
    <3>1. \A c \in 0..(GroupSize - 1) : fitness[base + c] # Unknown
      BY <2>3 DEF Answered
    <3>2. \A o \in Organisms : base <= o /\ o < base + GroupSize =>
             o - base \in 0..(GroupSize - 1) /\ base + (o - base) = o
      BY <1>0, <2>2 DEF Organisms
    <3>3. \A o \in Organisms : base <= o /\ o < base + GroupSize => fitness[o] # Unknown
      BY <3>1, <3>2
    <3>4. QED
      BY <1>0, <2>1, <3>3 DEF Organisms
  <2>5. Scores' /\ Organisms' = Organisms /\ Runs' = Runs
    BY <2>1 DEF Inv, Scores, Organisms, Runs
  <2>6. CASE MoreGroups
    <3>1. base' < size /\ GroupSize' > 0
      BY <1>0, <2>1, <2>2, <2>6 DEF MoreGroups, GroupSize
    <3>2. GroupSize' \in Nat
      BY <1>0, <2>1, <2>2, <3>1 DEF GroupSize
    <3>3. \A o \in Organisms : o >= base' + GroupSize' => o >= base'
      <4>1. base' \in Nat
        BY <1>0, <2>1, <2>2
      <4>2. \A o \in Organisms : o \in Int
        BY DEF Organisms
      <4>3. QED
        BY <3>2, <4>1, <4>2
    <3>4. \A o \in Organisms : o >= base' => fitness[o] = Unknown
      BY <2>1
    <3>5. fitness' = fitness /\ ~waiting'
      BY <2>1, Zenon
    <3>6. Progress'
      BY <2>1, <2>6 DEF Progress
    <3>7. 0 <= GroupSize'
      BY <3>2
    <3>8. GroupProgress'
      BY <2>1, <2>4, <2>5, <2>6, <3>1, <3>3, <3>4, <3>5, <3>7 DEF GroupProgress
    <3>9. QED
      BY <2>5, <3>6, <3>8
  <2>7. CASE ~MoreGroups
    <3>1. \A o \in Organisms : fitness[o] # Unknown
      BY <1>0, <2>2, <2>4, <2>7 DEF MoreGroups, Organisms
    <3>2. QED
      BY <2>1, <2>5, <2>7, <3>1 DEF Progress, GroupProgress
  <2>8. QED
    BY <2>6, <2>7
<1>11. CASE Finalize
  <2>1. UNCHANGED <<neatVars, base, waiting>> /\ pc' = "done" /\ pc = "quit" /\ j = g_nbProcess
    BY <1>11 DEF Finalize
  <2>2. QED
    BY <1>0, <1>6, <2>1 DEF Inv, Progress, GroupProgress
<1>12. ASSUME NEW c \in Ranks, Receive(c)
       PROVE  Scores' /\ Progress' /\ GroupProgress'
  <2> DEFINE o1 == base + c
             r == Head(toParent[c])
  <2>1. /\ c < GroupSize /\ o1 \in Organisms /\ fitness[o1] = Unknown
        /\ r \in Results(age, o1, seeds)
    BY <1>12, AnswerIsOwn DEF Receive
  <2>2. /\ fitness' = [fitness EXCEPT ![o1] = r] /\ j' = j + 1 /\ pc = "recv" /\ j < GroupSize
        /\ UNCHANGED <<pc, g, age, seeds, size, base, item, waiting>>
    BY <1>12 DEF Receive, OrganismOf
  <2>3. /\ Runs > 0 /\ base < size /\ g_nbProcess > 1 /\ ~waiting /\ item = 0 /\ age > 0
        /\ \A o \in Organisms : /\ o < base => fitness[o] # Unknown
                                /\ o >= base + GroupSize => fitness[o] = Unknown
        /\ Cardinality(Answered) = j
    BY <2>2 DEF Inv, Progress, GroupProgress
  <2>4. o1 \in Nat /\ c \in Nat /\ o1 < base + GroupSize /\ GroupSize \in Nat
    BY <1>0, <2>1, <2>3, GroupSizeType, RanksAreNats
  <2>5. r # Unknown
    BY <1>0, <2>1, <2>3, <2>4, ResultsAreKnown
  <2>6. \A o \in Organisms : fitness'[o] = IF o = o1 THEN r ELSE fitness[o]
    BY <1>0, <2>2 DEF TypeOK, Organisms
  <2>7. Organisms' = Organisms /\ Runs' = Runs /\ GroupSize' = GroupSize
    BY <2>2 DEF Organisms, Runs, GroupSize
  <2>8. Scores'
    BY <2>1, <2>2, <2>6, <2>7 DEF Scores, Inv
  <2>9. Answered' = Answered \cup {c} /\ c \notin Answered
    <3>1. \A d \in Ranks : d < GroupSize => base + d \in Organisms
      BY <1>0, <2>3, <2>4, GroupSizeType, RanksAreNats DEF Organisms
    <3>2. \A d \in Ranks : d < GroupSize =>
            (fitness'[base + d] # Unknown <=> d = c \/ fitness[base + d] # Unknown)
      <4> SUFFICES ASSUME NEW d \in Ranks, d < GroupSize
                   PROVE  fitness'[base + d] # Unknown <=> d = c \/ fitness[base + d] # Unknown
        OBVIOUS
      <4>1. base + d \in Organisms /\ (base + d = o1 <=> d = c)
        BY <1>0, <2>4, <3>1, RanksAreNats
      <4>2. fitness'[base + d] = IF d = c THEN r ELSE fitness[base + d]
        BY <2>6, <4>1
      <4>3. QED
        BY <2>5, <4>2
    <3>3. QED
      BY <2>1, <2>2, <2>7, <3>2 DEF Answered
  <2>10. Cardinality(Answered') = j + 1
    BY <1>0, <2>2, <2>3, <2>9, AnsweredIsFinite, FS_AddElement DEF Inv
  <2>11. \A o \in Organisms : /\ o < base => fitness'[o] # Unknown
                              /\ o >= base + GroupSize => fitness'[o] = Unknown
    BY <1>0, <2>3, <2>4, <2>5, <2>6 DEF Organisms
  <2>12. QED
    BY <2>2, <2>3, <2>7, <2>8, <2>10, <2>11 DEF Progress, GroupProgress
<1>13. ASSUME NEW c \in Ranks, Child(c) \/ AnswerReturns(c)
       PROVE  Scores' /\ Progress' /\ GroupProgress'
  <2>1. UNCHANGED <<pc, neatVars, groupVars>>
    BY <1>13 DEF Child, RecvCont, RecvSeeds, RecvGenome, Experiment, AnswerReturns
  <2>2. QED
    BY <1>6, <2>1 DEF Inv, Progress, GroupProgress
<1>14. CASE UNCHANGED vars
  BY <1>6, <1>14 DEF vars, Inv, Progress, GroupProgress
<1>15. QED
  BY <1>2, <1>3, <1>4, <1>5, <1>7, <1>8, <1>9, <1>10, <1>11, <1>12, <1>13, <1>14
     DEF Next, Parent, Terminated

-----------------------------------------------------------------------------
(* The children. Between two groups all of them are idle. *)
Idle(c) == child[c] \in {"cont", "sending"} /\ toChild[c] = <<>> /\ toParent[c] = <<>>

Kept(c) == <<age, seeds, base, child[c], got[c], toChild[c], toParent[c], Posted(c)>>

LEMMA PostedType ==
  ASSUME TypeOK, NEW c \in Ranks
  PROVE  Posted(c) \in 0..3
<1>1. item \in 0..2
  BY DEF TypeOK
<1>2. item + 1 \in 0..3 /\ item \in 0..3
  BY <1>1
<1>3. QED
  BY <1>2 DEF Posted

LEMMA UnreadParts ==
  ASSUME TypeOK, NEW c \in Nat, NEW n \in 0..3, Posted(c) \in n..3
  PROVE  /\ Unread(c, n) \in Seq(Messages)
         /\ n = Posted(c) => Unread(c, n) = <<>>
         /\ n < Posted(c) => /\ Unread(c, n) # <<>>
                             /\ Head(Unread(c, n)) = Feed(c)[n + 1]
                             /\ Tail(Unread(c, n)) = Unread(c, n + 1)
<1>1. Feed(c) \in Seq(Messages) /\ Len(Feed(c)) = 3
  BY FeedType
<1>2. n + 1 + 1 = n + 2
  OBVIOUS
<1>3. QED
  BY <1>1, <1>2, FeedParts DEF Unread

(* The message that is posted next comes last. *)
LEMMA PostedNext ==
  ASSUME TypeOK, NEW c \in Nat, NEW n \in 0..3, Posted(c) \in n..2,
         Posted(c)' = Posted(c) + 1, Feed(c)' = Feed(c)
  PROVE  Append(Unread(c, n), Feed(c)[Posted(c) + 1]) = Unread(c, n)'
<1>1. Feed(c) \in Seq(Messages) /\ Len(Feed(c)) = 3
  BY FeedType
<1>2. Posted(c) \in n..3 /\ Posted(c) < 3
  OBVIOUS
<1>3. Append(SubSeq(Feed(c), n + 1, Posted(c)), Feed(c)[Posted(c) + 1])
        = SubSeq(Feed(c), n + 1, Posted(c) + 1)
  BY <1>1, <1>2, FeedParts
<1>4. QED
  BY <1>3 DEF Unread

LEMMA IdleBetween ==
  ASSUME TypeOK, NEW c \in Ranks, Posted(c) = 0, Reading(c) \/ Answering(c)
  PROVE  Idle(c)
<1>1. Unread(c, 0) = <<>>
  BY UnreadParts, RanksAreNats
<1>2. QED
  BY <1>1 DEF Reading, Answering, Idle

LEMMA StillIdle ==
  ASSUME TypeOK', NEW c \in Ranks, Posted(c)' = 0, Idle(c)'
  PROVE  Reading(c)'
<1>1. age' \in Nat /\ seeds' \in Nat /\ base' \in Nat /\ c \in Nat
  BY RanksAreNats DEF TypeOK
<1>2. Cont' \in Messages /\ Seeds' \in Messages /\ Genome(c)' \in Messages
  BY <1>1 DEF Cont, Seeds, Genome, Messages
<1>3. Feed(c)' \in Seq(Messages) /\ Len(Feed(c)') = 3
  BY <1>2 DEF Feed
<1>4. SubSeq(Feed(c)', 0 + 1, 0) = <<>>
  BY <1>3, FeedParts
<1>5. Unread(c, 0)' = <<>>
  BY <1>4 DEF Unread
<1>6. QED
  BY <1>5 DEF Reading, Idle

LEMMA Untouched ==
  ASSUME NEW c, UNCHANGED Kept(c), Reading(c) \/ Answering(c)
  PROVE  Reading(c)' \/ Answering(c)'
<1>1. UNCHANGED <<age, seeds, base, child[c], got[c], toChild[c], toParent[c], Posted(c)>>
  BY DEF Kept
<1>2. Feed(c)' = Feed(c)
  BY <1>1 DEF Feed, Cont, Seeds, Genome
<1>3. Unread(c, 0)' = Unread(c, 0) /\ Unread(c, 1)' = Unread(c, 1) /\ Unread(c, 2)' = Unread(c, 2)
  BY <1>1, <1>2 DEF Unread
<1>4. CASE Reading(c)
  BY <1>1, <1>3, <1>4 DEF Reading
<1>5. CASE Answering(c)
  BY <1>1, <1>5 DEF Answering
<1>6. QED
  BY <1>4, <1>5

(* Steps that leave every child idle. *)
LEMMA QuietStep ==
  ASSUME Inv, TypeOK', GroupProgress',
         NextRun \/ Evaluate \/ Evolve \/ Try \/ NextGroup
  PROVE  Children'
<1> USE DEF childVars
<1>1. /\ pc \in {"run", "evaluate", "evaluated", "try", "recv"}
      /\ UNCHANGED childVars
  BY DEF NextRun, Evaluate, Evolve, Try, NextGroup
<1>2. \A c \in Ranks : Posted(c) = 0
  <2>1. CASE pc = "recv"
    <3>1. j = GroupSize
      BY <2>1 DEF NextRun, Evaluate, Evolve, Try, NextGroup
    <3>2. Answered = 0..(GroupSize - 1)
      BY <2>1, <3>1, AnsweredIsFinite DEF Inv, GroupProgress
    <3>3. \A c \in Ranks : c < GroupSize => c \in Answered
      <4>1. GroupSize \in Nat
        BY <2>1, GroupSizeType, SMTT(40) DEF Inv, GroupProgress, TypeOK
      <4>2. QED
        BY <3>2, <4>1, RanksAreNats
    <3>4. QED
      BY <2>1, <3>3 DEF Posted, Answered
  <2>2. QED
    BY <1>1, <2>1 DEF Posted
<1>3. \A c \in Ranks : Idle(c)
  BY <1>1, <1>2, IdleBetween DEF Inv, Children
<1>4. \A c \in Ranks : Idle(c)'
  BY <1>1, <1>3 DEF Idle
<1>5. ~waiting
  BY <1>1 DEF Inv, GroupProgress
<1>6. ~waiting'
  BY <1>5, Zenon DEF NextRun, Evaluate, Evolve, Try, NextGroup, groupVars
<1>7. CASE pc' = "quit"
  <2>1. j' = 0
    BY <1>1, <1>7 DEF NextRun, Evaluate, Evolve, Try, NextGroup
  <2>2. \A c \in Ranks : ~Stopped(c)'
    BY <1>6, <2>1, RanksAreNats DEF Stopped
  <2>3. \A c \in Ranks : Stopping(c)'
    BY <1>4, <2>2 DEF Stopping, Idle
  <2>4. QED
    BY <1>7, <2>3 DEF Children
<1>8. CASE pc' = "done"
  <2>1. ~(g_nbProcess > 1)
    BY <1>1, <1>8 DEF NextRun, Evaluate, Evolve, Try, NextGroup
  <2>2. Ranks = {}
    BY <2>1 DEF Ranks
  <2>3. QED
    BY <1>8, <2>2 DEF Children
<1>9. CASE pc' \notin {"quit", "done"}
  <2>1. \A c \in Ranks : Posted(c)' = 0
    <3>1. CASE pc' = "send"
      <4>1. j' = 0 /\ item' = 0
        BY <1>1, <3>1 DEF NextRun, Evaluate, Evolve, Try, NextGroup, Inv, GroupProgress
      <4>2. QED
        BY <1>6, <3>1, <4>1, RanksAreNats DEF Posted
    <3>2. CASE pc' # "send"
      <4>1. pc' # "recv"
        BY <3>2 DEF NextRun, Evaluate, Evolve, Try, NextGroup
      <4>2. QED
        BY <3>2, <4>1 DEF Posted
    <3>3. QED
      BY <3>1, <3>2
  <2>2. \A c \in Ranks : Reading(c)'
    BY <1>4, <2>1, StillIdle
  <2>3. QED
    BY <1>9, <2>2 DEF Children
<1>10. QED
  BY <1>7, <1>8, <1>9

(* Steps of the parent while it distributes a group. *)
LEMMA DistributionStep ==
  ASSUME Inv, TypeOK', SendItem \/ (SendReturns /\ pc = "send") \/ AllSent
  PROVE  Children'
<1> USE DEF neatVars
<1>1. /\ pc = "send" /\ pc' \in {"send", "recv"}
      /\ UNCHANGED <<age, seeds, base, size, fitness, child, got, toParent>>
  BY DEF SendItem, SendReturns, AllSent, childVars
<1>2. /\ TypeOK /\ base < size
      /\ \A o \in Organisms : o >= base => fitness[o] = Unknown
      /\ \A c \in Ranks : Reading(c) \/ Answering(c)
  BY <1>1 DEF Inv, GroupProgress, Children
<1>3. /\ j \in Nat /\ item \in 0..2 /\ base \in Nat /\ size \in Nat
      /\ GroupSize \in Nat /\ base + GroupSize <= size /\ GroupSize' = GroupSize
  BY <1>1, <1>2, GroupSizeType DEF TypeOK, GroupSize
<1>4. SUFFICES \A c \in Ranks : Reading(c)' \/ Answering(c)'
  BY <1>1 DEF Children
<1>5. ASSUME NEW c \in Ranks, SendItem, c = j
      PROVE  Reading(c)'
  <2>1. /\ toChild' = [toChild EXCEPT ![c] = Append(@, Feed(c)[item + 1])]
        /\ UNCHANGED <<pc, j, item>>
    BY <1>5 DEF SendItem, Send
  <2>2. ~waiting /\ waiting'
    BY <1>5, Zenon DEF SendItem
  <2>3. Posted(c) = item
    BY <1>1, <1>3, <1>5, <2>2 DEF Posted
  <2>4. Posted(c)' = item + 1
    BY <1>1, <1>3, <1>5, <2>1, <2>2 DEF Posted
  <2>5. Feed(c)' = Feed(c)
    BY <1>1 DEF Feed, Cont, Seeds, Genome
  <2>6. toChild'[c] = Append(toChild[c], Feed(c)[Posted(c) + 1])
    BY <1>2, <2>1, <2>3 DEF TypeOK
  <2>7. \A n \in 0..item : toChild[c] = Unread(c, n) => toChild'[c] = Unread(c, n)'
    <3>1. SUFFICES ASSUME NEW n \in 0..item, toChild[c] = Unread(c, n)
                   PROVE  toChild'[c] = Unread(c, n)'
      OBVIOUS
    <3>2. n \in 0..3 /\ Posted(c) \in n..2
      BY <1>3, <2>3
    <3>3. QED
      BY <1>2, <1>3, <2>3, <2>4, <2>5, <2>6, <3>1, <3>2, <1>5, PostedNext
  <2>8. item + 1 >= item /\ item + 1 \in Nat /\ item # 3 /\ 0 \in 0..item
    BY <1>3
  <2>9. Reading(c)
    BY <1>2, <2>3, <2>8 DEF Answering
  <2>10. item >= 1 => 1 \in 0..item
    BY <1>3
  <2>11. item >= 2 => 2 \in 0..item
    BY <1>3
  <2>12. CASE child[c] \in {"cont", "sending"} /\ toChild[c] = Unread(c, 0)
    BY <1>1, <2>7, <2>8, <2>9, <2>12 DEF Reading
  <2>13. CASE child[c] = "seeds" /\ item >= 1 /\ toChild[c] = Unread(c, 1)
    <3>1. toChild'[c] = Unread(c, 1)' /\ Posted(c)' >= 1
      BY <1>3, <2>4, <2>7, <2>10, <2>13
    <3>2. QED
      BY <1>1, <2>9, <2>13, <3>1 DEF Reading
  <2>14. CASE child[c] = "genome" /\ item >= 2 /\ toChild[c] = Unread(c, 2) /\ got[c].seeds = seeds
    <3>1. toChild'[c] = Unread(c, 2)' /\ Posted(c)' >= 2
      BY <1>3, <2>4, <2>7, <2>11, <2>14
    <3>2. QED
      BY <1>1, <2>9, <2>14, <3>1 DEF Reading
  <2>15. QED
    BY <2>3, <2>8, <2>9, <2>12, <2>13, <2>14 DEF Reading
<1>6. ASSUME NEW c \in Ranks, ~(SendItem /\ c = j)
      PROVE  Posted(c)' = Posted(c) /\ toChild'[c] = toChild[c]
  <2>1. c \in Nat
    BY RanksAreNats
  <2>2. CASE SendItem
    <3>1. UNCHANGED <<pc, j, item>> /\ c # j
      BY <1>6, <2>2 DEF SendItem
    <3>2. toChild'[c] = toChild[c]
      BY <1>2, <2>2, <3>1 DEF SendItem, Send, TypeOK
    <3>3. QED
      BY <1>1, <3>1, <3>2 DEF Posted
  <2>3. CASE SendReturns
    <3>1. waiting /\ ~waiting'
      BY <2>3, Zenon DEF SendReturns
    <3>2. /\ item' = (item + 1) % 3 /\ j' = IF item' = 0 THEN j + 1 ELSE j
          /\ pc' = "send" /\ toChild' = toChild
      BY <1>1, <2>3 DEF SendReturns, NextItem, childVars
    <3>3. CASE item = 2
      <4>1. item' = 0 /\ j' = j + 1
        BY <3>2, <3>3
      <4>2. QED
        BY <1>1, <1>3, <2>1, <3>1, <3>2, <3>3, <4>1 DEF Posted
    <3>4. CASE item # 2
      <4>1. item' = item + 1 /\ j' = j
        BY <1>3, <3>2, <3>4
      <4>2. QED
        BY <1>1, <1>3, <2>1, <3>1, <3>2, <4>1 DEF Posted
    <3>5. QED
      BY <3>3, <3>4
  <2>4. CASE AllSent
    <3>1. pc' = "recv" /\ j = GroupSize /\ toChild' = toChild /\ fitness' = fitness /\ ~(j < GroupSize)
      BY <1>1, <1>3, <2>4 DEF AllSent, childVars
    <3>2. ~waiting /\ item = 0
      BY <1>1, <3>1 DEF Inv, GroupProgress
    <3>3. c < GroupSize => fitness[base + c] = Unknown
      BY <1>2, <1>3, <2>1 DEF Organisms
    <3>4. CASE c < j
      BY <1>1, <1>3, <3>1, <3>3, <3>4 DEF Posted
    <3>5. CASE ~(c < j)
      BY <1>1, <1>3, <3>1, <3>2, <3>5 DEF Posted
    <3>6. QED
      BY <3>4, <3>5
  <2>5. QED
    BY <2>2, <2>3, <2>4
<1>7. ASSUME NEW c \in Ranks, ~(SendItem /\ c = j)
      PROVE  Reading(c)' \/ Answering(c)'
  BY <1>1, <1>2, <1>6, <1>7, Untouched DEF Kept
<1>8. QED
  BY <1>5, <1>7

(* Steps of one child. *)
LEMMA ChildStep ==
  ASSUME Inv, TypeOK', NEW k \in Ranks, Child(k) \/ AnswerReturns(k)
  PROVE  Children'
<1> USE DEF neatVars, groupVars
<1>1. /\ UNCHANGED <<pc, neatVars, groupVars>>
      /\ \A c \in Ranks : c # k =>
           UNCHANGED <<child[c], got[c], toChild[c], toParent[c]>>
  BY DEF Inv, TypeOK, Child, RecvCont, RecvSeeds, RecvGenome, Experiment, AnswerReturns
<1>2. TypeOK /\ k \in Nat
  BY RanksAreNats DEF Inv
<1>3. CASE pc = "done"
  <2>1. \A c \in Ranks : child[c] = "end"
    BY <1>3 DEF Inv, Children
  <2>2. QED
    BY <2>1 DEF Child, RecvCont, RecvSeeds, RecvGenome, Experiment, AnswerReturns
<1>4. CASE pc = "quit"
  <2>1. Stopped(k)' = Stopped(k) /\ Stop' = Stop
    BY <1>1 DEF Stopped, Stop
  <2>2. \A c \in Ranks : Stopping(c)
    BY <1>4 DEF Inv, Children
  <2>3. Stopping(k)'
    <3>1. child[k] \in {"cont", "sending"} /\ toParent[k] = <<>>
          /\ toChild[k] = IF Stopped(k) THEN <<Stop>> ELSE <<>>
      BY <2>2 DEF Stopping, Child, RecvCont, RecvSeeds, RecvGenome, Experiment, AnswerReturns
    <3>2. CASE RecvCont(k)
      <4>1. toChild[k] = <<Stop>> /\ Stopped(k)
        BY <3>1, <3>2 DEF RecvCont
      <4>2. Head(<<Stop>>).kind = "stop" /\ Tail(<<Stop>>) = <<>>
        BY DEF Stop
      <4>3. child'[k] = "end" /\ toChild'[k] = <<>> /\ toParent' = toParent
        BY <1>2, <3>2, <4>1, <4>2 DEF RecvCont, TypeOK
      <4>4. QED
        BY <2>1, <3>1, <4>1, <4>3 DEF Stopping
    <3>3. CASE AnswerReturns(k)
      <4>1. child'[k] = "cont" /\ toChild' = toChild /\ toParent' = toParent
        BY <1>2, <3>3 DEF AnswerReturns, TypeOK
      <4>2. QED
        BY <2>1, <3>1, <4>1 DEF Stopping
    <3>4. QED
      BY <3>1, <3>2, <3>3 DEF Child, RecvSeeds, RecvGenome, Experiment
  <2>4. \A c \in Ranks : c # k => Stopping(c)'
    BY <1>1, <2>1, <2>2 DEF Stopping, Stopped
  <2>5. QED
    BY <1>1, <1>4, <2>3, <2>4 DEF Children
<1>5. CASE pc \notin {"quit", "done"}
  <2>1. \A c \in Ranks : Reading(c) \/ Answering(c)
    BY <1>5 DEF Inv, Children
  <2>2. Posted(k) \in 0..3 /\ Feed(k)' = Feed(k)
    BY <1>1, <1>2, PostedType DEF Feed, Cont, Seeds, Genome
  <2>3. \A c \in Ranks : Posted(c)' = Posted(c)
    BY <1>1 DEF Posted, GroupSize
  <2>4. /\ Unread(k, 0)' = Unread(k, 0) /\ Unread(k, 1)' = Unread(k, 1)
        /\ Unread(k, 2)' = Unread(k, 2)
    BY <2>2, <2>3 DEF Unread
  <2>5. /\ Feed(k)[1] = Cont /\ Feed(k)[2] = Seeds /\ Feed(k)[3] = Genome(k)
        /\ Cont.kind = "cont" /\ Seeds.of[1] = seeds /\ Genome(k).of = <<age, base + k>>
    BY DEF Feed, Cont, Seeds, Genome
  <2>6. CASE RecvCont(k)
    <3>1. child[k] = "cont" /\ toChild[k] # <<>>
      BY <2>6 DEF RecvCont
    <3>2. Reading(k) /\ toChild[k] = Unread(k, 0) /\ toParent[k] = <<>>
      BY <2>1, <3>1 DEF Reading, Answering
    <3>3. Posted(k) \in 1..3
      BY <1>2, <2>2, <3>1, <3>2, UnreadParts
    <3>4. Head(toChild[k]) = Cont /\ Tail(toChild[k]) = Unread(k, 1)
      BY <1>2, <2>5, <3>2, <3>3, UnreadParts
    <3>5. child'[k] = "seeds" /\ toChild'[k] = Unread(k, 1) /\ toParent' = toParent
      BY <1>2, <2>5, <2>6, <3>4 DEF RecvCont, TypeOK
    <3>6. Reading(k)'
      BY <2>3, <2>4, <3>2, <3>3, <3>5 DEF Reading
    <3>7. QED
      BY <1>1, <1>5, <2>1, <2>3, <3>6, Untouched DEF Kept, Children
  <2>7. CASE RecvSeeds(k)
    <3>1. child[k] = "seeds" /\ toChild[k] # <<>>
      BY <2>7 DEF RecvSeeds
    <3>2. Reading(k) /\ toChild[k] = Unread(k, 1) /\ toParent[k] = <<>> /\ Posted(k) >= 1
      BY <2>1, <3>1 DEF Reading, Answering
    <3>3. Posted(k) \in 1..3
      BY <2>2, <3>2
    <3>4. Posted(k) \in 2..3
      BY <1>2, <3>1, <3>2, <3>3, UnreadParts
    <3>5. Head(toChild[k]) = Seeds /\ Tail(toChild[k]) = Unread(k, 2)
      BY <1>2, <2>5, <3>2, <3>4, UnreadParts
    <3>6. child'[k] = "genome" /\ toChild'[k] = Unread(k, 2) /\ toParent' = toParent
          /\ got'[k].seeds = seeds
      <4>1. toChild' = [toChild EXCEPT ![k] = Unread(k, 2)] /\ child' = [child EXCEPT ![k] = "genome"]
            /\ got' = [got EXCEPT ![k].seeds = seeds] /\ toParent' = toParent
        BY <2>5, <2>7, <3>5 DEF RecvSeeds
      <4>2. k \in DOMAIN toChild /\ k \in DOMAIN child /\ k \in DOMAIN got /\ "seeds" \in DOMAIN got[k]
        <5>1. /\ k \in DOMAIN toChild /\ k \in DOMAIN child /\ k \in DOMAIN got
              /\ got[k] \in [seeds : Nat, genome : Nat \X Nat]
          BY <1>2 DEF TypeOK
        <5>2. \A r \in [seeds : Nat, genome : Nat \X Nat] : "seeds" \in DOMAIN r
          OBVIOUS
        <5>3. QED
          BY <5>1, <5>2
      <4>3. QED
        BY <4>1, <4>2
    <3>7. Reading(k)'
      BY <1>1, <2>3, <2>4, <3>2, <3>4, <3>6 DEF Reading
    <3>8. QED
      BY <1>1, <1>5, <2>1, <2>3, <3>7, Untouched DEF Kept, Children
  <2>8. CASE RecvGenome(k)
    <3>1. child[k] = "genome" /\ toChild[k] # <<>>
      BY <2>8 DEF RecvGenome
    <3>2. Reading(k) /\ toChild[k] = Unread(k, 2) /\ toParent[k] = <<>> /\ Posted(k) >= 2
          /\ got[k].seeds = seeds
      BY <2>1, <3>1 DEF Reading, Answering
    <3>3. Posted(k) \in 2..3
      BY <2>2, <3>2
    <3>4. Posted(k) = 3
      BY <1>2, <3>1, <3>2, <3>3, UnreadParts
    <3>5. Head(toChild[k]) = Genome(k) /\ Tail(toChild[k]) = <<>>
      BY <1>2, <2>5, <3>2, <3>4, UnreadParts
    <3>6. child'[k] = "experiment" /\ toChild'[k] = <<>> /\ toParent' = toParent
      BY <1>2, <2>8, <3>5 DEF RecvGenome, TypeOK
    <3>7. got'[k].genome = <<age, base + k>> /\ got'[k].seeds = seeds
      <4>1. got' = [got EXCEPT ![k].genome = <<age, base + k>>]
        BY <2>5, <2>8, <3>5 DEF RecvGenome
      <4>2. got \in [Ranks -> [seeds : Nat, genome : Nat \X Nat]] /\ got[k].seeds = seeds
        BY <1>2, <3>2 DEF TypeOK
      <4>3. QED
        BY <4>1, <4>2
    <3>8. got'[k] \in [seeds : Nat, genome : Nat \X Nat]
      BY DEF TypeOK
    <3>9. got'[k] = [seeds |-> seeds, genome |-> <<age, base + k>>]
      BY <3>7, <3>8
    <3>10. Reading(k)'
      BY <1>1, <2>3, <3>2, <3>4, <3>6, <3>9 DEF Reading
    <3>11. QED
      BY <1>1, <1>5, <2>1, <2>3, <3>10, Untouched DEF Kept, Children
  <2>9. CASE Experiment(k)
    <3>1. child[k] = "experiment" /\ Posted(k) = 3 /\ toChild[k] = <<>> /\ toParent[k] = <<>>
          /\ got[k] = [seeds |-> seeds, genome |-> <<age, base + k>>]
      BY <2>1, <2>9 DEF Experiment, Reading, Answering
    <3>2. got[k].genome = <<age, base + k>> /\ got[k].seeds = seeds
      BY <3>1
    <3>3. PICK all \in BOOLEAN :
            toParent' = [toParent EXCEPT ![k] =
              Append(@, [genome |-> got[k].genome, seeds |-> got[k].seeds, all |-> all])]
      BY <2>9, Zenon DEF Experiment
    <3> DEFINE r == [genome |-> <<age, base + k>>, seeds |-> seeds, all |-> all]
    <3>4. r \in Results(age, base + k, seeds)
      BY ResultOfRun, Zenon
    <3>5. toParent'[k] = Append(<<>>, r)
      BY <1>2, <3>1, <3>2, <3>3 DEF TypeOK
    <3> HIDE DEF r
    <3>6. toParent'[k] = <<r>>
      BY <3>5
    <3>7. child'[k] = "sending" /\ toChild'[k] = <<>>
      BY <1>2, <2>9, <3>1 DEF Experiment, TypeOK
    <3>8. Answering(k)'
      BY <1>1, <2>3, <3>1, <3>4, <3>6, <3>7 DEF Answering
    <3>9. QED
      BY <1>1, <1>5, <2>1, <2>3, <3>8, Untouched DEF Kept, Children
  <2>10. CASE AnswerReturns(k)
    <3>1. child[k] = "sending" /\ child'[k] = "cont" /\ UNCHANGED <<got, toChild, toParent>>
      BY <1>2, <2>10 DEF AnswerReturns, TypeOK
    <3>2. Reading(k)' \/ Answering(k)'
      BY <1>1, <2>1, <2>3, <2>4, <3>1 DEF Reading, Answering
    <3>3. QED
      BY <1>1, <1>5, <2>1, <2>3, <3>2, Untouched DEF Kept, Children
  <2>11. QED
    BY <2>6, <2>7, <2>8, <2>9, <2>10 DEF Child
<1>6. QED
  BY <1>3, <1>4, <1>5

(* An answer is taken, and the child is idle again. *)
LEMMA ReceiveStep ==
  ASSUME Inv, TypeOK', NEW k \in Ranks, Receive(k)
  PROVE  Children'
<1>1. /\ pc = "recv" /\ fitness' = [fitness EXCEPT ![base + k] = Head(toParent[k])]
      /\ toParent' = [toParent EXCEPT ![k] = Tail(@)]
      /\ UNCHANGED <<pc, g, age, seeds, size, base, item, waiting, child, got, toChild>>
  BY DEF Receive, OrganismOf
<1>2. /\ k < GroupSize /\ base + k \in Organisms
      /\ child[k] \in {"cont", "sending"} /\ toChild[k] = <<>> /\ Tail(toParent[k]) = <<>>
      /\ Head(toParent[k]) \in Results(age, base + k, seeds)
  BY <1>1, AnswerIsOwn DEF Receive
<1>3. /\ TypeOK /\ base \in Nat /\ size \in Nat /\ age \in Nat /\ age > 0 /\ seeds \in Nat
      /\ base < size /\ k \in Nat
  BY <1>1, RanksAreNats DEF Inv, TypeOK, Progress, GroupProgress
<1>4. GroupSize \in Nat /\ base + GroupSize <= size /\ GroupSize' = GroupSize
  BY <1>1, <1>3, GroupSizeType DEF GroupSize
<1>5. Head(toParent[k]) # Unknown
  BY <1>2, <1>3, ResultsAreKnown
<1>6. Posted(k)' = 0
  <2>1. fitness'[base + k] # Unknown
    BY <1>1, <1>2, <1>5 DEF Inv, TypeOK, Organisms
  <2>2. QED
    BY <1>1, <2>1 DEF Posted
<1>7. Idle(k)'
  BY <1>1, <1>2, <1>3 DEF Idle, TypeOK
<1>8. ASSUME NEW c \in Ranks, c # k
      PROVE  Reading(c)' \/ Answering(c)'
  <2>1. c \in Nat /\ base + c # base + k
    BY <1>3, <1>8, RanksAreNats
  <2>2. c < GroupSize => base + c \in Organisms
    BY <1>3, <1>4, <2>1 DEF Organisms
  <2>3. c < GroupSize => fitness'[base + c] = fitness[base + c]
    BY <1>1, <1>3, <2>1, <2>2 DEF TypeOK, Organisms
  <2>4. Posted(c)' = Posted(c)
    BY <1>1, <1>4, <2>3 DEF Posted
  <2>5. toParent'[c] = toParent[c]
    BY <1>1, <1>3, <1>8 DEF TypeOK
  <2>6. Reading(c) \/ Answering(c)
    BY <1>1 DEF Inv, Children
  <2>7. QED
    BY <1>1, <2>4, <2>5, <2>6, Untouched DEF Kept
<1>9. QED
  BY <1>1, <1>6, <1>7, <1>8, StillIdle DEF Children

(* The end of the program. *)
LEMMA QuitStep ==
  ASSUME Inv, TypeOK', SendStop \/ (SendReturns /\ pc = "quit") \/ Finalize
  PROVE  Children'
<1>1. /\ TypeOK /\ pc = "quit" /\ \A c \in Ranks : Stopping(c) /\ c \in Nat
      /\ j \in Nat /\ Stop' = Stop
  BY RanksAreNats DEF Inv, TypeOK, Children, SendStop, Finalize, Stop
<1>2. CASE SendStop
  <2>1. /\ UNCHANGED <<pc, j, child, toParent>>
        /\ toChild' = [toChild EXCEPT ![j] = Append(@, Stop)]
    BY <1>2 DEF SendStop, Send
  <2>2. ~waiting /\ waiting'
    BY <1>2, Zenon DEF SendStop
  <2>3. ASSUME NEW c \in Ranks
        PROVE  Stopping(c)'
    <3>1. CASE c = j
      <4>1. ~Stopped(c) /\ Stopped(c)'
        BY <1>1, <2>1, <2>2, <3>1 DEF Stopped
      <4>2. child[c] \in {"cont", "sending"} /\ toChild[c] = <<>> /\ toParent[c] = <<>>
        BY <1>1, <4>1 DEF Stopping
      <4>3. toChild'[c] = Append(<<>>, Stop)
        BY <1>1, <2>1, <3>1, <4>2 DEF TypeOK
      <4>4. toChild'[c] = <<Stop>>
        BY <4>3
      <4>5. QED
        BY <1>1, <2>1, <4>1, <4>2, <4>4 DEF Stopping
    <3>2. CASE c # j
      <4>1. Stopped(c)' = Stopped(c) /\ toChild'[c] = toChild[c]
        BY <1>1, <2>1, <3>2 DEF Stopped, TypeOK
      <4>2. QED
        BY <1>1, <2>1, <4>1 DEF Stopping
    <3>3. QED
      BY <3>1, <3>2
  <2>4. QED
    BY <1>1, <2>1, <2>3 DEF Children
<1>3. CASE SendReturns
  <2>1. waiting /\ ~waiting'
    BY <1>3, Zenon DEF SendReturns
  <2>2. UNCHANGED <<pc, child, toChild, toParent>> /\ j' = j + 1
    <3>1. UNCHANGED <<pc, child, toChild, toParent>> /\ item' = 0
          /\ j' = IF item' = 0 THEN j + 1 ELSE j
      BY <1>1, <1>3 DEF SendReturns, childVars
    <3>2. QED
      BY <3>1
  <2>3. \A c \in Ranks : Stopped(c)' <=> Stopped(c)
    BY <1>1, <2>1, <2>2 DEF Stopped
  <2>4. QED
    BY <1>1, <2>2, <2>3 DEF Children, Stopping
<1>4. CASE Finalize
  <2>1. pc' = "done" /\ UNCHANGED <<child, toChild, toParent>> /\ \A c \in Ranks : child[c] = "end"
    BY <1>4 DEF Finalize, ChildrenEnded, childVars
  <2>2. QED
    BY <1>1, <2>1 DEF Stopping, Children
<1>5. QED
  BY <1>2, <1>3, <1>4

LEMMA ChildrenStep == Inv /\ TypeOK' /\ GroupProgress' /\ [Next]_vars => Children'
<1> SUFFICES ASSUME Inv, TypeOK', GroupProgress', [Next]_vars
             PROVE  Children'
  OBVIOUS
<1>1. CASE NextRun \/ Evaluate \/ Evolve \/ Try \/ NextGroup
  BY <1>1, QuietStep
<1>2. CASE SendItem \/ SendReturns \/ AllSent \/ SendStop \/ Finalize
  <2>1. SendReturns => pc \in {"send", "quit"}
    BY DEF SendReturns, Inv, GroupProgress
  <2>2. QED
    BY <1>2, <2>1, DistributionStep, QuitStep
<1>3. ASSUME NEW c \in Ranks, Receive(c)
      PROVE  Children'
  BY <1>3, ReceiveStep
<1>4. ASSUME NEW c \in Ranks, Child(c) \/ AnswerReturns(c)
      PROVE  Children'
  BY <1>4, ChildStep
<1>5. CASE UNCHANGED vars
  <2>1. UNCHANGED <<pc, age, seeds, base, size, fitness, j, item, waiting>>
        /\ UNCHANGED <<child, got, toChild, toParent>>
    BY <1>5 DEF vars, neatVars, groupVars, childVars
  <2>2. \A c \in Ranks : Posted(c)' = Posted(c) /\ (Stopped(c)' <=> Stopped(c)) /\ Stop' = Stop
    BY <2>1 DEF Posted, GroupSize, Stopped, Stop
  <2>3. CASE pc \notin {"quit", "done"}
    BY <2>1, <2>2, <2>3, Untouched DEF Kept, Inv, Children
  <2>4. CASE pc \in {"quit", "done"}
    BY <2>1, <2>2, <2>4 DEF Inv, Children, Stopping
  <2>5. QED
    BY <2>3, <2>4
<1>6. QED
  BY <1>1, <1>2, <1>3, <1>4, <1>5 DEF Next, Parent, Terminated

LEMMA InitInv == Init => Inv
<1> SUFFICES ASSUME Init
             PROVE  Inv
  OBVIOUS
<1> USE DEF Init
<1>1. TypeOK
  <2>1. fitness \in [0..(size-1) -> Fitness]
    BY UnevaluatedType
  <2>2. waiting \in BOOLEAN
    BY Zenon
  <2>3. /\ got \in [Ranks -> [seeds : Nat, genome : Nat \X Nat]]
        /\ toChild \in [Ranks -> Seq(Messages)]
        /\ toParent \in [Ranks -> Seq(Fitness)]
        /\ child \in [Ranks -> {"cont", "seeds", "genome", "experiment", "sending", "end"}]
    OBVIOUS
  <2>4. QED
    BY <2>1, <2>2, <2>3 DEF TypeOK
<1>2. ~waiting
  BY Zenon
<1>3. Organisms = {}
  BY DEF Organisms
<1>4. Scores /\ Progress /\ GroupProgress
  BY <1>2, <1>3 DEF Scores, Progress, GroupProgress
<1>5. Children
  <2>1. ASSUME NEW c \in Ranks
        PROVE  Reading(c)
    <3>1. Posted(c) = 0 /\ child[c] = "cont" /\ toChild[c] = <<>> /\ toParent[c] = <<>>
      BY <2>1 DEF Posted
    <3>2. Unread(c, 0) = <<>>
      BY <1>1, <3>1, RanksAreNats, UnreadParts
    <3>3. QED
      BY <3>1, <3>2 DEF Reading
  <2>2. QED
    BY <2>1 DEF Children
<1>6. QED
  BY <1>1, <1>4, <1>5 DEF Inv

LEMMA NextInv == Inv /\ [Next]_vars => Inv'
<1> SUFFICES ASSUME Inv, [Next]_vars
             PROVE  Inv'
  OBVIOUS
<1>1. TypeOK'
  BY TypeStep DEF Inv
<1>2. Scores' /\ Progress' /\ GroupProgress'
  BY PopulationStep
<1>3. Children'
  BY <1>1, <1>2, ChildrenStep
<1>4. QED
  BY <1>1, <1>2, <1>3 DEF Inv

(* Every state of the program satisfies the invariant. *)
THEOREM InvariantHolds == Spec => []Inv
<1>1. Init => Inv
  BY InitInv
<1>2. Inv /\ [Next]_vars => Inv'
  BY NextInv
<1>3. QED
  BY <1>1, <1>2, PTL DEF Spec

(* Every variable keeps its type. *)
THEOREM TypeCorrect == Spec => []TypeOK
<1>1. Inv => TypeOK
  BY DEF Inv
<1>2. QED
  BY <1>1, InvariantHolds, PTL

(* A fitness in the population is that of its own genome, on the seeds of  *)
(* this evaluation, whichever child answers first (evolution.cpp:150-165). *)
THEOREM OwnFitnessHolds == Spec => []OwnFitness
<1>1. Inv => OwnFitness
  <2>1. SUFFICES ASSUME Inv, NEW o \in 0..(size-1), fitness[o] # Unknown
                 PROVE  fitness[o].genome = <<age, o>> /\ fitness[o].seeds = seeds
    BY DEF OwnFitness
  <2>2. fitness[o] \in Results(age, o, seeds)
    BY <2>1 DEF Inv, Scores, Organisms
  <2>3. QED
    BY <2>2 DEF Results
<1>2. QED
  BY <1>1, InvariantHolds, PTL

(* A child that expects a kind of message finds that kind, although all    *)
(* messages carry the same tag (scheduler.cpp:65-75).                      *)
THEOREM NeverMisreadHolds == Spec => []NeverMisread
<1>1. Inv => NeverMisread
  <2>1. SUFFICES ASSUME Inv, NEW c \in Ranks,
                        child[c] \notin {"experiment", "sending", "end"}, toChild[c] # <<>>
                 PROVE  Head(toChild[c]).kind \in Expected(c)
    BY DEF NeverMisread, Inv, TypeOK
  <2>2. TypeOK /\ c \in Nat
    BY <2>1, RanksAreNats DEF Inv
  <2>3. CASE pc = "done"
    BY <2>1, <2>3 DEF Inv, Children
  <2>4. CASE pc = "quit"
    <3>1. child[c] = "cont" /\ toChild[c] = <<Stop>>
      BY <2>1, <2>4 DEF Inv, Children, Stopping
    <3>2. Head(<<Stop>>).kind = "stop"
      BY DEF Stop
    <3>3. QED
      BY <3>1, <3>2 DEF Expected
  <2>5. CASE pc \notin {"quit", "done"}
    <3>1. Reading(c) \/ Answering(c)
      BY <2>1, <2>5 DEF Inv, Children
    <3>2. Reading(c) /\ Posted(c) \in 0..3
      BY <2>1, <2>2, <3>1, PostedType DEF Answering
    <3>3. Feed(c)[1].kind = "cont" /\ Feed(c)[2].kind = "seeds" /\ Feed(c)[3].kind = "genome"
      BY DEF Feed, Cont, Seeds, Genome
    <3>4. CASE child[c] = "cont" /\ toChild[c] = Unread(c, 0)
      <4>1. Posted(c) \in 1..3
        BY <2>1, <2>2, <3>2, <3>4, UnreadParts
      <4>2. Head(toChild[c]) = Feed(c)[1]
        BY <2>2, <3>4, <4>1, UnreadParts
      <4>3. QED
        BY <3>3, <3>4, <4>2 DEF Expected
    <3>5. CASE child[c] = "seeds" /\ Posted(c) >= 1 /\ toChild[c] = Unread(c, 1)
      <4>1. Posted(c) \in 1..3
        BY <3>2, <3>5
      <4>2. Posted(c) \in 2..3
        BY <2>1, <2>2, <3>5, <4>1, UnreadParts
      <4>3. Head(toChild[c]) = Feed(c)[2]
        BY <2>2, <3>5, <4>2, UnreadParts
      <4>4. QED
        BY <3>3, <3>5, <4>3 DEF Expected
    <3>6. CASE child[c] = "genome" /\ Posted(c) >= 2 /\ toChild[c] = Unread(c, 2)
      <4>1. Posted(c) \in 2..3
        BY <3>2, <3>6
      <4>2. Posted(c) = 3
        BY <2>1, <2>2, <3>6, <4>1, UnreadParts
      <4>3. Head(toChild[c]) = Feed(c)[3]
        BY <2>2, <3>6, <4>2, UnreadParts
      <4>4. QED
        BY <3>3, <3>6, <4>3 DEF Expected
    <3>7. QED
      BY <2>1, <3>2, <3>4, <3>5, <3>6 DEF Reading
  <2>6. QED
    BY <2>3, <2>4, <2>5
<1>2. QED
  BY <1>1, InvariantHolds, PTL

(* No message is left unread when the program is over (main.cpp, the child *)
(* processes end only at the stop message).                                *)
THEOREM NothingLeftHolds == Spec => []NothingLeft
<1>1. Inv => NothingLeft
  BY DEF Inv, Children, NothingLeft
<1>2. QED
  BY <1>1, InvariantHolds, PTL

-----------------------------------------------------------------------------
(* The refinement: every step is a step of Evaluation or leaves alone what *)
(* Evaluation sees.                                                        *)
due == Runs > 0 /\ age > 0
PromiseStep == [Promise!Next]_<<age, fitness, due, seeds>>

LEMMA PromiseInit == Init => Promise!Init
BY DEF Init, Promise!Init, Unevaluated, Unknown, Promise!Unevaluated, Promise!Unknown

LEMMA PromiseStutter ==
  ASSUME UNCHANGED <<g, age, fitness, seeds>>
  PROVE  PromiseStep
BY DEF PromiseStep, due, Runs

LEMMA PromisePopulate ==
  ASSUME TypeOK, Populate, UNCHANGED seeds, due => \A o \in Organisms : fitness[o] # Unknown
  PROVE  PromiseStep
<1>1. DOMAIN fitness = Organisms
  BY DEF TypeOK, Organisms
<1>2. due => Promise!Evaluated
  BY <1>1 DEF Promise!Evaluated, Promise!Unknown, Unknown
<1>3. age' = age + 1 /\ \E n \in PopSizes : fitness' = Promise!Unevaluated(n)
  BY DEF Populate, Unevaluated, Unknown, Promise!Unevaluated, Promise!Unknown
<1>4. due' \in BOOLEAN
  BY DEF due
<1>5. Promise!Populate
  BY <1>2, <1>3, <1>4 DEF Promise!Populate, due
<1>6. QED
  BY <1>5 DEF PromiseStep, Promise!Next

LEMMA PromiseStore ==
  ASSUME TypeOK, due, NEW o \in Organisms, fitness[o] = Unknown,
         NEW r \in Results(age, o, seeds), fitness' = [fitness EXCEPT ![o] = r],
         UNCHANGED <<g, age, seeds>>
  PROVE  PromiseStep
<1>1. DOMAIN fitness = Organisms /\ r \in Promise!Results(age, o, seeds)
  BY DEF TypeOK, Organisms, Results, Promise!Results
<1>2. (Runs' > 0 /\ age' > 0) <=> (Runs > 0 /\ age > 0)
  BY DEF Runs
<1>3. Promise!Store(o)
  BY <1>1, <1>2 DEF Promise!Store, Promise!Unknown, Unknown, due
<1>4. QED
  BY <1>1, <1>3 DEF PromiseStep, Promise!Next

LEMMA PromiseNext == Inv /\ [Next]_vars => PromiseStep
<1> SUFFICES ASSUME Inv, [Next]_vars
             PROVE  PromiseStep
  OBVIOUS
<1> USE DEF neatVars
<1>1. /\ TypeOK /\ age \in Nat /\ seeds \in Nat /\ size \in Nat /\ base \in Nat /\ j \in Nat
      /\ DOMAIN fitness = Organisms
  BY DEF Inv, TypeOK, Organisms
<1>2. CASE NextRun
  <2>1. Organisms = {}
    BY <1>2 DEF NextRun, Inv, Progress, Organisms
  <2>2. CASE Populate
    BY <1>1, <1>2, <2>1, <2>2, PromisePopulate DEF NextRun
  <2>3. QED
    BY <1>2, <2>2, PromiseStutter DEF NextRun
<1>3. CASE Evaluate
  <2>1. CASE UNCHANGED seeds
    BY <1>3, <2>1, PromiseStutter DEF Evaluate
  <2>2. CASE Runs > 0 /\ seeds' = seeds + 1
    <3>1. age > 0 /\ \A o \in Organisms : fitness[o] = Unknown
      BY <1>3 DEF Evaluate, Inv, Progress
    <3>2. UNCHANGED <<g, age, fitness>>
      BY <1>3 DEF Evaluate
    <3>3. Promise!Fresh
      BY <1>1, <3>1 DEF Promise!Fresh, Promise!Unknown, Unknown
    <3>4. (Runs' > 0 /\ age' > 0) <=> (Runs > 0 /\ age > 0)
      BY <3>2 DEF Runs
    <3>5. Promise!DrawSeeds
      BY <2>2, <3>1, <3>2, <3>3, <3>4 DEF Promise!DrawSeeds
    <3>6. QED
      BY <3>5 DEF PromiseStep, Promise!Next
  <2>3. QED
    BY <1>3, <2>1, <2>2 DEF Evaluate
<1>4. CASE Evolve
  <2>1. due => \A o \in Organisms : fitness[o] # Unknown
    BY <1>4 DEF Evolve, Inv, Progress, due
  <2>2. CASE Populate
    BY <1>1, <1>4, <2>1, <2>2, PromisePopulate DEF Evolve
  <2>3. CASE fitness' = Unevaluated(0) /\ UNCHANGED <<g, age>>
    <3>1. due => Promise!Evaluated
      BY <1>1, <2>1 DEF Promise!Evaluated, Promise!Unknown, Unknown
    <3>2. (Runs' > 0 /\ age' > 0) <=> (Runs > 0 /\ age > 0)
      BY <2>3 DEF Runs
    <3>3. Promise!Discard
      BY <1>4, <2>3, <3>1, <3>2
         DEF Evolve, Promise!Discard, Unevaluated, Unknown, Promise!Unevaluated, Promise!Unknown, due
    <3>4. QED
      BY <3>3 DEF PromiseStep, Promise!Next
  <2>4. QED
    BY <1>4, <2>2, <2>3 DEF Evolve
<1>5. CASE Try
  <2>1. UNCHANGED <<g, age, seeds>> /\ j \in Organisms /\ fitness[j] = Unknown /\ due
    BY <1>1, <1>5 DEF Try, Inv, Progress, Organisms, due
  <2>2. CASE UNCHANGED fitness
    BY <2>1, <2>2, PromiseStutter
  <2>3. CASE fitness' = [fitness EXCEPT ![j] = [genome |-> <<age, j>>, seeds |-> seeds, all |-> TRUE]]
    <3>1. [genome |-> <<age, j>>, seeds |-> seeds, all |-> TRUE] \in Results(age, j, seeds)
      BY ResultOfRun, Zenon
    <3>2. QED
      BY <1>1, <2>1, <2>3, <3>1, PromiseStore
  <2>4. QED
    BY <1>5, <2>2, <2>3, Zenon DEF Try
<1>6. ASSUME NEW c \in Ranks, Receive(c)
      PROVE  PromiseStep
  <2>1. /\ fitness' = [fitness EXCEPT ![base + c] = Head(toParent[c])]
        /\ UNCHANGED <<g, age, seeds>> /\ pc = "recv"
    BY <1>6 DEF Receive, OrganismOf
  <2>2. /\ base + c \in Organisms /\ fitness[base + c] = Unknown
        /\ Head(toParent[c]) \in Results(age, base + c, seeds)
    BY <1>6, AnswerIsOwn DEF Receive
  <2>3. due
    BY <2>1 DEF due, Inv, Progress, GroupProgress
  <2>4. QED
    BY <1>1, <2>1, <2>2, <2>3, PromiseStore
<1>7. CASE SendItem \/ SendReturns \/ AllSent \/ NextGroup \/ SendStop \/ Finalize
  BY <1>7, PromiseStutter DEF SendItem, SendReturns, AllSent, NextGroup, SendStop, Finalize
<1>8. ASSUME NEW c \in Ranks, Child(c) \/ AnswerReturns(c)
      PROVE  PromiseStep
  BY <1>8, PromiseStutter
     DEF Child, RecvCont, RecvSeeds, RecvGenome, Experiment, AnswerReturns
<1>9. CASE UNCHANGED vars
  BY <1>9, PromiseStutter DEF vars
<1>10. QED
  BY <1>2, <1>3, <1>4, <1>5, <1>6, <1>7, <1>8, <1>9 DEF Next, Parent, Terminated

(* The evaluation, distributed or not, keeps what launchNEAT relies on     *)
(* (NEAT/experiments.cpp): a population is replaced only when each of its  *)
(* organisms has got, once, the fitness of its own genome.                 *)
THEOREM PromiseHolds == Spec => PromiseKept
<1>1. Init => Promise!Init
  BY PromiseInit
<1>2. Inv /\ [Next]_vars => [Promise!Next]_Promise!vars
  BY PromiseNext DEF PromiseStep, Promise!vars, due
<1>3. QED
  BY <1>1, <1>2, InvariantHolds, PTL DEF Spec, PromiseKept, Promise!Spec
=============================================================================
