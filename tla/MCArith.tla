------------------------------ MODULE MCArith ------------------------------
(* Small numbers for Arith: a nibble of two values, bands of a few lines, counters up to twelve. *)
EXTENDS Arith

Run(n) == [k \in 1..n |-> k % 4]

\* No sequence to three: literals short and long, matches near and far, short and long.
Closing(n) == [lit |-> Run(n), off |-> 0, len |-> 0]
Copying(n, back, len) == [lit |-> Run(n), off |-> back, len |-> len]
MCBlocks ==
  {<<Closing(n)>> : n \in 0..6}
    \cup {<<Copying(n, back, len)>> : n \in 0..5, back \in 1..5, len \in 1..9}
    \cup {<<Copying(n, back, len), Closing(k)>> : n \in 1..4, back \in 1..3, len \in 1..5, k \in 0..2}
    \cup {<<Copying(n, 1, len), Copying(k, back, 3)>> : n \in 1..2, len \in 1..3, back \in 1..7, k \in 0..2}
    \cup {<<>>} \cup {<<Copying(1, 1, n), Copying(0, back, 2), Closing(k)>> : n \in 1..2, back \in 1..4, k \in 0..1}
MCCaps == {0, 3, 6, 7, 20}
MCPads == {0, 1, 2, 3}
MCNoise == UNION {[1..n -> 0..3] : n \in 1..6}

MCGeometries ==
  [w : {0, 3, 4}, h : {0, 3}, bpp : {2}, ddr : BOOLEAN] \cup [w : {3, 5}, h : {2}, bpp : {1, 3, 4}, ddr : BOOLEAN]
MCRects == [x : {0, 1, 2, 4}, y : {0, 1, 3}, w : {0, 1, 2, 5}, h : {0, 1, 2, 4}]

\* A line of four pixels, fields of five to seven lines; hosts' lines at one and two times the rate.
MCModelines ==
  {[clock |-> k, hdisplay |-> t[1], hss |-> t[2], hse |-> t[3], htotal |-> t[4],
    vdisplay |-> v[1], vss |-> v[2], vse |-> v[3], vtotal |-> n, interlace |-> il] :
     k \in {0, 29, 31, 32, 58, 60, 63, 66, 67, 119, 121, 127, 132, 134},
     t \in {<<2, 2, 3, 4>>, <<1, 2, 3, 4>>, <<1, 1, 2, 2>>, <<2, 3, 2, 4>>, <<5, 5, 5, 5>>},
     v \in {w \in (1..6) \X (1..8) \X (1..9) : w[1] <= w[2] /\ w[2] <= w[3]},
     n \in {5, 6, 10, 11, 12, 13}, il \in BOOLEAN}
MCReachable(hz) == WholeCandidates(hz) # {}

MCTargets == {500 + 37 * k : k \in 0..50} \cup {100, 300, 600, 800, 1200, 1600, 2400, 19200, 20000, 30000}
=============================================================================
