SPECIFICATION BootFair
CONSTANTS
  HB_TIMEOUT = 3
  Period = 2
  Kills = 2
  Changes = 2
  Sweeps = 2
  Boards <- MCBoards
INVARIANT BoundBacked
PROPERTIES ShellComes OpenEnds NoFalseAlarm VerdictFound
