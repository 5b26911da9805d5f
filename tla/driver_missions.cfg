SPECIFICATION Spec
CONSTANTS
  NULL = NULL
  Handles = {h1, h2}
  Messages <- DisplayMessages
SYMMETRY HandleSymmetry
INVARIANTS OneMission OneColour StopDarkens
