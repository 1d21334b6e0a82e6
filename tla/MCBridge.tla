------------------------------ MODULE MCBridge ------------------------------
(* Model-checking instance of Bridge: halves of one bit.                       *)
EXTENDS Bridge
MCHalf == {0, 1}
MCMagic == [hi |-> 1, lo |-> 0]
MCCaps == [hi |-> 0, lo |-> 1]
MCValues == {[hi |-> 1, lo |-> 1]}
=============================================================================
