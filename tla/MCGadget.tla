------------------------------ MODULE MCGadget ------------------------------
(* Instances of Gadget for TLC.  Lengths are in half packets. *)
EXTENDS Gadget

Raw(n)       == [want |-> n, length |-> n, lz4 |-> FALSE]
Packed(n, l) == [want |-> n, length |-> l, lz4 |-> TRUE]

\* Whole packets, short ones, one and several.
StreamRects  == {Raw(3), Packed(2, 3)}
\* The buffer's own size, and one rect that does not fit.
SessionRects == {Raw(4), Packed(1, 4)}
OneRect      == {Raw(1)}
OversizeRects == {Raw(4), Packed(1, 5)}
=============================================================================
