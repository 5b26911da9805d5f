SPECIFICATION EpochSpec
CONSTANTS
  pop_size = 6
  dropoff_age = 2
  compat_threshold = 2
  survival_thresh = 50
  elitism_percentage = 40
  Stolen = {0, 5}
  Genomes = {2, 4}
  Populations <- MCPopulations
  Fitnesses <- MCFitnesses
  Ages <- MCAges
  Records <- MCRecords
  Generations = {1, 30}
INVARIANTS SizeKept FairShare BestKept EliteOfParents
CHECK_DEADLOCK FALSE
