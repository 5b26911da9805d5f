SPECIFICATION Spec
CONSTANTS
  Sensors = {1, 2}
  Bias = {2}
  Outputs = {3}
  StarterLinks <- MCStarterLinks
  MaxBirths = 4
  MaxPopulation = 5
INVARIANTS NumbersNameLinks GenomesVerify InterfaceKept ForwardAcyclic
