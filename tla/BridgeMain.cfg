SPECIFICATION FairSpec
CONSTANTS
  Half <- MCHalf
  Zero = 0
  Magic <- MCMagic
  Caps <- MCCaps
  Values <- MCValues
  StallLimit = 3
CHECK_DEADLOCK FALSE
INVARIANTS AnswerIsMine WordLands
PROPERTIES OpenIsTrue AccessReturns
