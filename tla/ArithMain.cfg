SPECIFICATION Spec
CONSTANTS
  Base = 2
  MinMatch = 1
  Blocks <- MCBlocks
  Caps <- MCCaps
  Pads <- MCPads
  Noise <- MCNoise
  Beat = 4
  Geometries <- MCGeometries
  Rects <- MCRects
  Kilo = 10
  LineMin = 150
  LineMax = 165
  FieldMin = 24
  FieldMax = 33
  HMax = 4
  VMax = 5
  PclkMin = 30
  PclkMax = 70
  Reachable <- MCReachable
  Modelines <- MCModelines
  Fin = 2400
  VcoMin = 7200
  VcoMax = 19200
  PfdMin = 400
  PfdMax = 9000
  CounterMax = 12
  Fraction = 64
  Targets <- MCTargets
  Indexes = {0, 5, 18}
INVARIANTS Lz4Exact BlitExact RasterAsChecked RefreshKept ClockSolved ReconfigReaches
CHECK_DEADLOCK FALSE
