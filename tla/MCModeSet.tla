------------------------------ MODULE MCModeSet ------------------------------
(* Model-checking instance of ModeSet.  A looks like the reset mode to LIVE and  *)
(* has another clock; C is B with other porches, another clock and format.      *)
EXTENDS ModeSet
M(h, v, size, fmt, clock) ==
  [h |-> h, v |-> v, base |-> 1, geom |-> size, stride |-> size, format |-> fmt, clk |-> clock]
MCDefault == [M(<<0, 0>>, <<5, 0>>, 0, 0, 0) EXCEPT !.base = 0]
A == M(<<0, 1>>, <<5, 1>>, 1, 0, 1)
B == M(<<1, 2>>, <<6, 2>>, 2, 0, 2)
C == M(<<1, 3>>, <<6, 3>>, 2, 1, 3)
MCModes == {A, B, C}
=============================================================================
