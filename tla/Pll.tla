-------------------------------- MODULE Pll --------------------------------
(***************************************************************************)
(* The counters of the pixel PLL: the searches of sw/pll.c, and their      *)
(* encoding and write sequence in sw/pll_reconfig.c.                       *)
(*                                                                         *)
(* A search is the set of the candidates it looks at and the one it keeps. *)
(***************************************************************************)
EXTENDS Integers, Sequences

CONSTANTS
  Fin, VcoMin, VcoMax, PfdMin, PfdMax, CounterMax,  \* struct pll_limits
  Fraction     \* steps of the fraction of M: 2^32 in the code

ASSUME PllAssumption ==
  /\ Fin \in Nat \ {0} /\ CounterMax \in Nat \ {0} /\ Fraction \in Nat \ {0}
  /\ VcoMin \in Nat /\ VcoMax \in Nat /\ PfdMin \in Nat /\ PfdMax \in Nat

Counters == 1..CounterMax
NoSolution == [found |-> FALSE]

Distance(a, b) == IF a > b THEN a - b ELSE b - a
RoundDiv(a, b) == (2 * a + b) \div (2 * b)

PfdInBand(n) == PfdMin <= Fin \div n /\ Fin \div n <= PfdMax
VcoInBand(vco) == VcoMin <= vco /\ vco <= VcoMax

Solution(m, k, n, c, vco, hz) == [found |-> TRUE, m |-> m, k |-> k, n |-> n, c |-> c, vco |-> vco, hz |-> hz]

\* pll_solve: for each N and C, the two M either side of the target; the wrong
\* version looks at the lower one only.
LowerOnly(target, n, c) == {(target * c * n) \div Fin}
EitherSide(target, n, c) == {(target * c * n) \div Fin, (target * c * n) \div Fin + 1}
WholeVco(m, n) == (Fin * m) \div n
Whole(m, n, c) == Solution(m, 0, n, c, WholeVco(m, n), WholeVco(m, n) \div c)
WholeCandidates(target) ==
  UNION {{Whole(m, n, c) : m \in {w \in EitherSide(target, n, c) \cap Counters : VcoInBand(WholeVco(w, n))}} :
           n \in {x \in Counters : PfdInBand(x)}, c \in Counters}

\* The order of the loops.
Sooner(s, t) ==
  \/ s.n < t.n
  \/ s.n = t.n /\ s.c < t.c
  \/ s.n = t.n /\ s.c = t.c /\ s.m < t.m
FirstOf(S) == CHOOSE s \in S : \A t \in S \ {s} : Sooner(s, t)

\* Least error, then the highest VCO, then the first; an exact one in the upper half
\* of the band ends the search.
BestOf(target, S) ==
  LET near == {s \in S : \A t \in S : Distance(s.hz, target) <= Distance(t.hz, target)}
  IN FirstOf({s \in near : \A t \in near : s.vco >= t.vco})
PllSolve(target) ==
  LET all == WholeCandidates(target)
      good == {s \in all : s.hz = target /\ s.vco >= VcoMax \div 2}
  IN IF all = {} THEN NoSolution
     ELSE IF good # {} THEN FirstOf(good) ELSE BestOf(target, all)

\* pll_solve_frac: M and a fraction, rounded, which may carry; no fraction within a
\* twentieth of a whole.
Rounded(target, n, c) ==
  LET whole == (target * c * n) \div Fin
      rest == target * c * n - whole * Fin
  IN whole * Fraction + RoundDiv(rest * Fraction, Fin)
Quiet(k) == k = 0 \/ (20 * k >= Fraction /\ 20 * k <= 19 * Fraction)
FracVco(r, n) == RoundDiv(Fin * r, Fraction * n)
FracSolution(target, n, c) ==
  LET r == Rounded(target, n, c)
      vco == FracVco(r, n)
  IN Solution(r \div Fraction, r % Fraction, n, c, vco, RoundDiv(vco, c))
FracSettings(target) ==
  {t \in Counters \X Counters :
    /\ PfdInBand(t[1]) /\ VcoInBand(target * t[2])
    /\ (target * t[2] * t[1]) \div Fin \in Counters
    /\ Rounded(target, t[1], t[2]) \div Fraction \in Counters
    /\ Quiet(Rounded(target, t[1], t[2]) % Fraction)}
FracCandidates(target) == {FracSolution(target, t[1], t[2]) : t \in FracSettings(target)}
PllSolveFrac(target) ==
  LET all == FracCandidates(target)
  IN IF all = {} THEN NoSolution ELSE BestOf(target, all)

\* pll_solve_best: a whole solution that is exact, to the millionth, is kept; else
\* the fraction is taken where it is closer.
Ppm(target, s) == (Distance(s.hz, target) * 1000000) \div target
PllSolveBest(target, fractional) ==
  LET whole == PllSolve(target)
      frac == PllSolveFrac(target)
  IN IF ~fractional THEN whole
     ELSE IF ~whole.found THEN frac
     ELSE IF Ppm(target, whole) = 0 \/ ~frac.found THEN whole
     ELSE IF Ppm(target, frac) < Ppm(target, whole) THEN frac ELSE whole
-----------------------------------------------------------------------------
(* pll_reconfig.c *)

DivideMax == 510  \* PLL_DIVIDE_MAX: two half periods of eight bits
CIndexMax == 17

\* A counter is told its two half periods, the longer first, or to pass the clock on;
\* the wrong version gives an odd divide the shorter half twice.
EvenHalves(divide) == [bypass |-> FALSE, odd |-> divide % 2, high |-> divide \div 2, low |-> divide \div 2]
Halves(divide) == [bypass |-> FALSE, odd |-> divide % 2, high |-> (divide + 1) \div 2, low |-> divide \div 2]
Bypass == [bypass |-> TRUE, odd |-> 0, high |-> 1, low |-> 1]
Byte(c) == [c EXCEPT !.high = @ % 256, !.low = @ % 256]
Refusal == [bypass |-> FALSE, odd |-> 0, high |-> 0, low |-> 0]
EncodeCounter(divide) ==
  Byte(IF divide > DivideMax THEN Refusal ELSE IF divide <= 1 THEN Bypass ELSE Halves(divide))
DecodeCounter(c) == IF c.bypass THEN 1 ELSE c.high + c.low

\* pll_reconfig_build: the writes in order, or none.
Buildable(p, index) ==
  index <= CIndexMax /\ {p.m, p.n, p.c} \subseteq 1..DivideMax
Write(register, value) == [register |-> register, value |-> value]
ReconfigBuild(p, index) ==
  IF ~Buildable(p, index) THEN <<>>
  ELSE << Write("MODE", "poll"),
          Write("N", EncodeCounter(p.n)), Write("M", EncodeCounter(p.m)), Write("K", p.k),
          Write("C", [counter |-> EncodeCounter(p.c), index |-> index]),
          Write("START", 1) >>
=============================================================================
