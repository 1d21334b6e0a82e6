SPECIFICATION FairSpec
CONSTANTS
  Modes <- MCModes
  Default <- MCDefault
INVARIANTS ScanoutTogether TakenOnceLocked
PROPERTIES OkOnItsClock OkIsLatched
