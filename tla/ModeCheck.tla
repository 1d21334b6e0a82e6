----------------------------- MODULE ModeCheck -----------------------------
(***************************************************************************)
(* blitscrt_mode_check of sw/modes.c: what a host's modeline becomes on    *)
(* the CRT, or why it is refused.                                          *)
(*                                                                         *)
(* A rate is a fraction, compared by cross multiplication where the code   *)
(* uses doubles.  Limits and the kilohertz are parameters.                 *)
(***************************************************************************)
EXTENDS Integers

CONSTANTS
  Kilo,                \* hertz in a kilohertz
  LineMin, LineMax,    \* struct blitscrt_sink_limits, in hertz
  FieldMin, FieldMax,
  HMax, VMax,
  PclkMin, PclkMax,    \* in kilohertz
  Reachable(_)         \* pll_solve_best finds counters for that many hertz

ASSUME ModeCheckAssumption ==
  /\ Kilo \in Nat \ {0}
  /\ LineMin \in Nat /\ LineMax \in Nat /\ FieldMin \in Nat /\ FieldMax \in Nat
  /\ HMax \in Nat /\ VMax \in Nat /\ PclkMin \in Nat /\ PclkMax \in Nat

Rate(n, d) == [num |-> n, den |-> d]
AtLeast(r, hz) == r.num >= hz * r.den
AtMost(r, hz) == r.num <= hz * r.den
SameRate(r, s) == r.num * s.den = s.num * r.den
Nearest(r) == (2 * r.num + r.den) \div (2 * r.den)

Refused(why) == [ok |-> FALSE, why |-> why]

\* DRM's order of the timing values.
InOrder(m) ==
  /\ m.hdisplay > 0 /\ m.vdisplay > 0 /\ m.clock > 0
  /\ m.hdisplay <= m.hss /\ m.hss <= m.hse /\ m.hse <= m.htotal
  /\ m.vdisplay <= m.vss /\ m.vss <= m.vse /\ m.vse <= m.vtotal

\* A progressive mode beyond the line rate whose half is inside it is shown
\* interlaced, on the clock that keeps its refresh.
Converts(m) ==
  LET lr == Rate(m.clock * Kilo, m.htotal)
      half == Rate(m.clock * Kilo, 2 * m.htotal)
  IN ~AtMost(lr, LineMax) /\ ~m.interlace /\ AtLeast(half, LineMin) /\ AtMost(half, LineMax)

HalfClock(m) == Rate(m.clock * Kilo, 2)
ConvertedClock(m) == Rate(m.clock * Kilo * (2 * (m.vtotal \div 2) + 1), 2 * m.vtotal)
Clock(m) == IF Converts(m) THEN ConvertedClock(m) ELSE Rate(m.clock * Kilo, 1)
Effective(m) ==
  IF ~Converts(m) THEN m
  ELSE [m EXCEPT !.clock = Nearest(Rate(ConvertedClock(m).num, ConvertedClock(m).den * Kilo)),
                 !.vtotal = 2 * (m.vtotal \div 2) + 1, !.interlace = TRUE]

LineRate(m) == Rate(Clock(m).num, Clock(m).den * m.htotal)
FieldRate(m) ==
  LET e == Effective(m)
  IN Rate((IF e.interlace THEN 2 ELSE 1) * LineRate(m).num, LineRate(m).den * e.vtotal)

\* The vertical values of a field.  What rounding takes, the back porch gives back as
\* far as it can; the wrong version leaves it.
PerField(e, n) == IF e.interlace THEN n \div 2 ELSE n
VTotalField(e) == IF e.interlace THEN (e.vtotal - 1) \div 2 ELSE e.vtotal
Unabsorbed(bp, diff) == bp
Absorb(bp, diff) == IF diff > 0 \/ (diff < 0 /\ bp + diff > 0) THEN bp + diff ELSE bp
Vertical(e) ==
  LET sy0 == PerField(e, e.vse - e.vss)
      sy == IF e.interlace /\ sy0 = 0 THEN 1 ELSE sy0
      bp == PerField(e, e.vtotal - e.vse)
      act == PerField(e, e.vdisplay)
      fp == PerField(e, e.vss - e.vdisplay)
  IN [v_sy |-> sy, v_bp |-> Absorb(bp, VTotalField(e) - (sy + bp + act + fp)),
      v_act |-> act, v_fp |-> fp]
Horizontal(m) ==
  [h_sy |-> m.hse - m.hss, h_bp |-> m.htotal - m.hse, h_act |-> m.hdisplay,
   h_fp |-> m.hss - m.hdisplay]

Timing(m) ==
  LET e == Effective(m)
      v == Vertical(e)
      total == v.v_sy + v.v_bp + v.v_act + v.v_fp
  IN [ok |-> TRUE, h |-> Horizontal(e), v |-> v, interlace |-> e.interlace,
      h_total |-> e.htotal, v_total_field |-> total,
      frame_lines |-> IF e.interlace THEN 2 * total + 1 ELSE total,
      converted |-> Converts(m), pll_hz |-> Nearest(Clock(m))]

TooBig(m) == m.hdisplay > HMax \/ m.vdisplay > VMax
NoClock(m) == Effective(m).clock < PclkMin \/ Effective(m).clock > PclkMax
LineOut(m) == ~AtLeast(LineRate(m), LineMin) \/ ~AtMost(LineRate(m), LineMax)
FieldOut(m) == ~AtLeast(FieldRate(m), FieldMin) \/ ~AtMost(FieldRate(m), FieldMax)

\* The refusals in the order in which the code comes to them.
Check(m) ==
  IF ~InOrder(m) THEN Refused("geometry")
  ELSE IF TooBig(m) THEN Refused("too big")
  ELSE IF NoClock(m) THEN Refused("no pll")
  ELSE IF LineOut(m) THEN Refused("line rate")
  ELSE IF FieldOut(m) THEN Refused("field rate")
  ELSE IF ~Reachable(Timing(m).pll_hz) THEN Refused("no pll")
  ELSE Timing(m)
=============================================================================
