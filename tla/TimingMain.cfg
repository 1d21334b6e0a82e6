SPECIFICATION FairSpec
CONSTANTS
  Timings <- MCTimings
  Modulus = 32
  Retimes = 1
INVARIANT EachPixelOnce
PROPERTIES FieldsInterleave SyncPeriod FramesResume
