CONSTANTS
  Width = 4
  Height = 3
  MinArea = 2
  MaxArea = 6
  FirstImages <- MCFirstImages
  Images <- MCImages
  MaxCycles = 2
  MaxEnables = 1
SPECIFICATION FairCameraSpec
INVARIANTS Snapshot BlobsAreRegions
PROPERTY Shown
CHECK_DEADLOCK FALSE
