SPECIFICATION EitherSpec
CONSTANTS
  g_nbProcess = 3
  PopSizes <- TwoAndFive
  num_runs = 2
  num_gens = 1
  num_runs_per_gen = 1
  num_runs_post_eval = 1
INVARIANTS OwnFitness NeverMisread
PROPERTIES PromiseKept Termination
