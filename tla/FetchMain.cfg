SPECIFICATION FairSpec
CONSTANTS
  Rows = 3
  Beats = 2
  MaxBurst = 1
  H_ACT_S = 12
  H_TOT = 15
  Ratio = 3
  Resets = 1
INVARIANT TearIsCounted
PROPERTIES RowsInStep LinesKeepComing
