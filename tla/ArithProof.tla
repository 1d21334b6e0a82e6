----------------------------- MODULE ArithProof -----------------------------
(***************************************************************************)
(* Theorems about Arith: the rect writers for every geometry and rect, the *)
(* mode check for every modeline and limit, the PLL's settings and writes  *)
(* for every clock, the decompressor for every block and all that is none. *)
(***************************************************************************)
EXTENDS Arith, FiniteSetTheorems, SequenceTheorems, TLAPS

\* A call as it was made, and the answer it has had.
Called ==
  /\ call.fn = "unpack" =>
       call.block \in Blocks /\ Legal(call.block) /\ call.cap \in Caps /\ call.pad \in Pads
  /\ call.fn = "unpack noise" => call.src \in Noise /\ call.cap \in Caps
  /\ call.fn \in {"blit", "fill"} => call.geometry \in Geometries /\ call.rect \in Rects
  /\ call.fn = "check" => call.mode \in Modelines
  /\ call.fn = "retune" => call.hz \in Targets /\ call.fractional \in BOOLEAN /\ call.index \in Indexes
Answered ==
  /\ Returned("unpack") => result = Decompress(BytesOf(call.block) \o Zeros(call.pad), call.cap)
  /\ Returned("blit") => result = ScanoutBlit(Configured(call.geometry), call.rect)
  /\ Returned("fill") =>
       \/ result = ScanoutFill(Configured(call.geometry), call.rect)
       \/ Overruns(Configured(call.geometry), call.rect)
  /\ Returned("check") => result = Check(call.mode)
  /\ Returned("retune") =>
       LET solved == PllSolveBest(call.hz, call.fractional)
       IN result = [solved |-> solved,
                    writes |-> IF solved.found THEN ReconfigBuild(solved, call.index) ELSE <<>>]
AnswerInv == Called /\ Answered

LEMMA AnswerInit == Init => AnswerInv
<1> SUFFICES ASSUME Init PROVE AnswerInv
  OBVIOUS
<1>1. Answered
  BY DEF Init, Answered, Returned
<1>2. CASE call \in [fn : {"unpack"}, block : {q \in Blocks : Legal(q)}, cap : Caps, pad : Pads]
  BY <1>1, <1>2 DEF AnswerInv, Called
<1>3. CASE call \in [fn : {"unpack noise"}, src : Noise, cap : Caps]
  BY <1>1, <1>3 DEF AnswerInv, Called
<1>4. CASE call \in [fn : {"blit", "fill"}, geometry : Geometries, rect : Rects]
  BY <1>1, <1>4 DEF AnswerInv, Called
<1>5. CASE call \in [fn : {"check"}, mode : Modelines]
  BY <1>1, <1>5 DEF AnswerInv, Called
<1>6. CASE call \in [fn : {"retune"}, hz : Targets, fractional : BOOLEAN, index : Indexes]
  BY <1>1, <1>6 DEF AnswerInv, Called
<1> QED
  BY <1>2, <1>3, <1>4, <1>5, <1>6 DEF Init

LEMMA AnswerStep == AnswerInv /\ [Next]_vars => AnswerInv'
<1> SUFFICES ASSUME AnswerInv, [Next]_vars PROVE AnswerInv'
  OBVIOUS
<1>1. ASSUME UNCHANGED call PROVE Called'
  BY <1>1 DEF AnswerInv, Called
<1>2. CASE Unpack
  BY <1>1, <1>2 DEF Unpack, Return, AnswerInv, Answered, Returned
<1>3. CASE UnpackNoise
  BY <1>1, <1>3 DEF UnpackNoise, Return, AnswerInv, Answered, Returned
<1>4. CASE BlitRect
  BY <1>1, <1>4 DEF BlitRect, Return, AnswerInv, Answered, Returned
<1>5. CASE FillRect
  BY <1>1, <1>5 DEF FillRect, Return, AnswerInv, Answered, Returned
<1>6. CASE CheckMode
  BY <1>1, <1>6 DEF CheckMode, Return, AnswerInv, Answered, Returned
<1>7. CASE Retune
  BY <1>1, <1>7 DEF Retune, Return, AnswerInv, Answered, Returned
<1>8. CASE UNCHANGED vars
  BY <1>1, <1>8 DEF vars, AnswerInv, Answered, Returned
<1> QED
  BY <1>2, <1>3, <1>4, <1>5, <1>6, <1>7, <1>8 DEF Next

-----------------------------------------------------------------------------
(* The mode check *)

LEMMA Division ==
  ASSUME NEW n \in Nat
  PROVE  n \div 2 \in Nat /\ n % 2 \in {0, 1} /\ n = 2 * (n \div 2) + (n % 2)
  OBVIOUS

\* A mode that passes is in order, and its timing is the one that was worked out.
LEMMA Passed ==
  ASSUME NEW m \in Modelines, Check(m).ok
  PROVE  InOrder(m) /\ Check(m) = Timing(m)
<1>1. \A why : ~Refused(why).ok
  BY DEF Refused
<1> QED
  BY <1>1 DEF Check

LEMMA ModeFields ==
  ASSUME NEW m \in Modelines
  PROVE  /\ m.clock \in Nat /\ m.hdisplay \in Nat /\ m.hss \in Nat /\ m.hse \in Nat /\ m.htotal \in Nat
         /\ m.vdisplay \in Nat /\ m.vss \in Nat /\ m.vse \in Nat /\ m.vtotal \in Nat
         /\ m.interlace \in BOOLEAN
  BY ArithAssumption DEF ArithAssumption

\* What the mode is shown as, field by field.
LEMMA EffectiveFields ==
  ASSUME NEW m \in Modelines
  PROVE  LET e == Effective(m)
         IN /\ e.hdisplay = m.hdisplay /\ e.hss = m.hss /\ e.hse = m.hse /\ e.htotal = m.htotal
            /\ e.vdisplay = m.vdisplay /\ e.vss = m.vss /\ e.vse = m.vse
            /\ e.vtotal = (IF Converts(m) THEN 2 * (m.vtotal \div 2) + 1 ELSE m.vtotal)
            /\ e.interlace = (IF Converts(m) THEN TRUE ELSE m.interlace)
<1>1. CASE Converts(m)
  <2>1. Effective(m) = [m EXCEPT !.clock = Nearest(Rate(ConvertedClock(m).num, ConvertedClock(m).den * Kilo)),
                                 !.vtotal = 2 * (m.vtotal \div 2) + 1, !.interlace = TRUE]
    BY <1>1 DEF Effective
  <2> QED
    BY <1>1, <2>1, ArithAssumption DEF ArithAssumption
<1>2. CASE ~Converts(m)
  BY <1>2 DEF Effective
<1> QED
  BY <1>1, <1>2

\* The back porch takes up what the halving of a field's parts left over.
LEMMA PorchAbsorbs ==
  ASSUME NEW sy \in Nat, NEW bp \in Nat, NEW act \in Nat, NEW fp \in Nat, NEW total \in Nat,
         bp >= 3, total + 2 >= sy + bp + act + fp
  PROVE  sy + Absorb(bp, total - (sy + bp + act + fp)) + act + fp = total
  BY DEF Absorb

LEMMA VerticalAddsUp ==
  ASSUME NEW m \in Modelines, InOrder(m), Roomy(m)
  PROVE  LET e == Effective(m)
             v == Vertical(e)
         IN /\ v.v_sy + v.v_bp + v.v_act + v.v_fp = VTotalField(e)
            /\ v.v_sy > 0 \/ ~e.interlace
<1> DEFINE e == Effective(m)
           v == Vertical(e)
<1>1. /\ m.vdisplay \in Nat /\ m.vss \in Nat /\ m.vse \in Nat /\ m.vtotal \in Nat
      /\ m.vdisplay <= m.vss /\ m.vss <= m.vse /\ m.vse + 6 <= m.vtotal
  BY ModeFields DEF InOrder, Roomy, RoomyPorch
<1>2. /\ e.vdisplay = m.vdisplay /\ e.vss = m.vss /\ e.vse = m.vse
      /\ e.interlace \in BOOLEAN
      /\ e.vtotal = (IF Converts(m) THEN 2 * (m.vtotal \div 2) + 1 ELSE m.vtotal)
  BY EffectiveFields, ModeFields
<1> HIDE DEF e
<1>3. e.vtotal \in Nat /\ e.vtotal >= m.vtotal
  <2>1. m.vtotal \div 2 \in Nat /\ m.vtotal % 2 \in {0, 1} /\ m.vtotal = 2 * (m.vtotal \div 2) + (m.vtotal % 2)
    BY <1>1, Division
  <2> QED
    BY <1>1, <1>2, <2>1
<1> DEFINE sy0 == PerField(e, e.vse - e.vss)
           sy == IF e.interlace /\ sy0 = 0 THEN 1 ELSE sy0
           bp == PerField(e, e.vtotal - e.vse)
           act == PerField(e, e.vdisplay)
           fp == PerField(e, e.vss - e.vdisplay)
<1>4. v = [v_sy |-> sy, v_bp |-> Absorb(bp, VTotalField(e) - (sy + bp + act + fp)),
           v_act |-> act, v_fp |-> fp]
  BY DEF Vertical
<1>5. /\ sy \in Nat /\ bp \in Nat /\ act \in Nat /\ fp \in Nat /\ VTotalField(e) \in Nat
      /\ bp >= 3 /\ VTotalField(e) + 2 >= sy + bp + act + fp
      /\ e.interlace => sy > 0
  <2>0. PICK vd \in Nat, vs \in Nat, ve \in Nat, vt \in Nat :
          vd = m.vdisplay /\ vs = m.vss /\ ve = m.vse /\ vt = e.vtotal
    BY <1>1, <1>3
  <2>1. PICK a \in Nat, b \in Nat, c \in Nat, d \in Nat, n \in Nat :
          a = vd /\ b = vs - vd /\ c = ve - vs /\ d = vt - ve /\ n = vt - 1
    <3>1. vd <= vs /\ vs <= ve /\ ve + 6 <= vt
      BY <1>1, <1>3, <2>0
    <3>2. vs - vd \in Nat /\ ve - vs \in Nat /\ vt - ve \in Nat /\ vt - 1 \in Nat
      BY <3>1
    <3> QED
      BY <3>2
  <2>2. a + b + c + d = n + 1 /\ d >= 6
    <3>1. ve + 6 <= vt
      BY <1>1, <1>3, <2>0
    <3> QED
      BY <2>1, <3>1
  <2>3. /\ act = (IF e.interlace THEN a \div 2 ELSE a)
        /\ fp = (IF e.interlace THEN b \div 2 ELSE b)
        /\ sy0 = (IF e.interlace THEN c \div 2 ELSE c)
        /\ bp = (IF e.interlace THEN d \div 2 ELSE d)
        /\ VTotalField(e) = (IF e.interlace THEN n \div 2 ELSE n + 1)
    BY <1>2, <2>0, <2>1 DEF PerField, VTotalField
  <2> HIDE DEF sy0, bp, act, fp
  <2>4. CASE e.interlace
    <3>1. /\ a \div 2 \in Nat /\ 2 * (a \div 2) <= a
          /\ b \div 2 \in Nat /\ 2 * (b \div 2) <= b
          /\ c \div 2 \in Nat /\ 2 * (c \div 2) <= c
          /\ d \div 2 \in Nat /\ 2 * (d \div 2) <= d /\ d <= 2 * (d \div 2) + 1
          /\ n \div 2 \in Nat /\ n <= 2 * (n \div 2) + 1
      OBVIOUS
    <3> QED
      BY <2>2, <2>3, <2>4, <3>1
  <2>5. CASE ~e.interlace
    BY <2>2, <2>3, <2>5
  <2> QED
    BY <2>4, <2>5
<1> HIDE DEF sy0, sy, bp, act, fp
<1>6. sy + Absorb(bp, VTotalField(e) - (sy + bp + act + fp)) + act + fp = VTotalField(e)
  BY <1>5, PorchAbsorbs
<1> QED
  BY <1>2, <1>4, <1>5, <1>6 DEF e

\* For every modeline, every limit and every PLL: a mode that passes with six lines of
\* back porch has the parts its checked totals were made of (modes.c:245-308).
THEOREM TimingAsChecked == Spec => []RasterAsChecked
<1>1. AnswerInv => RasterAsChecked
  <2> SUFFICES ASSUME AnswerInv, Returned("check"), result.ok, Roomy(call.mode)
               PROVE LET e == Effective(call.mode)
                     IN /\ result.h.h_sy + result.h.h_bp + result.h.h_act + result.h.h_fp = e.htotal
                        /\ result.v_total_field = VTotalField(e)
                        /\ result.v.v_sy > 0 \/ ~result.interlace
                        /\ result.frame_lines \in {e.vtotal, e.vtotal - 1}
                        /\ result.frame_lines = e.vtotal - 1 => e.interlace /\ e.vtotal % 2 = 0
    BY DEF RasterAsChecked
  <2> DEFINE e == Effective(call.mode)
             v == Vertical(e)
  <2>1. PICK m \in Modelines : m = call.mode
    BY DEF AnswerInv, Called, Returned
  <2>2. InOrder(m) /\ result = Timing(m)
    <3>1. result = Check(m)
      BY <2>1 DEF AnswerInv, Answered
    <3> QED
      BY <3>1, Passed
  <2>3. v.v_sy + v.v_bp + v.v_act + v.v_fp = VTotalField(e) /\ (v.v_sy > 0 \/ ~e.interlace)
    BY <2>1, <2>2, VerticalAddsUp
  <2>4. /\ e.hdisplay = m.hdisplay /\ e.hss = m.hss /\ e.hse = m.hse /\ e.htotal = m.htotal
        /\ e.interlace \in BOOLEAN
        /\ e.vtotal = (IF Converts(m) THEN 2 * (m.vtotal \div 2) + 1 ELSE m.vtotal)
    BY <2>1, EffectiveFields, ModeFields
  <2> HIDE DEF e, v
  <2>5. /\ result.h = Horizontal(e) /\ result.v = v /\ result.interlace = e.interlace
        /\ result.v_total_field = VTotalField(e)
        /\ result.frame_lines = IF e.interlace THEN 2 * VTotalField(e) + 1 ELSE VTotalField(e)
    BY <2>1, <2>2, <2>3 DEF Timing, e, v
  <2>6. result.h.h_sy + result.h.h_bp + result.h.h_act + result.h.h_fp = e.htotal
    <3>1. /\ result.h.h_sy = m.hse - m.hss /\ result.h.h_bp = m.htotal - m.hse
          /\ result.h.h_act = m.hdisplay /\ result.h.h_fp = m.hss - m.hdisplay
      BY <2>4, <2>5 DEF Horizontal
    <3> QED
      BY <2>4, <3>1, ModeFields
  <2>7. /\ result.frame_lines \in {e.vtotal, e.vtotal - 1}
        /\ result.frame_lines = e.vtotal - 1 => e.interlace /\ e.vtotal % 2 = 0
    <3>1. e.vtotal \in Nat /\ e.vtotal >= 1
      <4>1. m.vtotal \in Nat /\ m.vtotal >= 1 /\ m.vtotal \div 2 \in Nat
        BY ModeFields, <2>2 DEF InOrder
      <4> QED
        BY <2>4, <4>1
    <3>2. CASE e.interlace
      <4>1. VTotalField(e) = (e.vtotal - 1) \div 2
        BY <3>2 DEF VTotalField
      <4>2. /\ (e.vtotal - 1) \div 2 \in Nat
            /\ e.vtotal - 1 = 2 * ((e.vtotal - 1) \div 2) \/ e.vtotal - 2 = 2 * ((e.vtotal - 1) \div 2)
        BY <3>1
      <4>3. e.vtotal - 2 = 2 * ((e.vtotal - 1) \div 2) => e.vtotal % 2 = 0
        BY <3>1, <4>2
      <4> QED
        BY <2>5, <3>1, <3>2, <4>1, <4>2, <4>3
    <3>3. CASE ~e.interlace
      BY <2>5, <3>1, <3>3 DEF VTotalField
    <3> QED
      BY <2>4, <3>2, <3>3
  <2> QED
    BY <2>3, <2>5, <2>6, <2>7 DEF e
<1> QED
  BY <1>1, AnswerInit, AnswerStep, PTL DEF Spec

LEMMA SameProduct ==
  ASSUME NEW k \in Nat, NEW h \in Nat, NEW v \in Nat, NEW f \in Nat
  PROVE  (2 * (k * f)) * (h * v) = k * (2 * v * h * f)
  OBVIOUS

\* For every modeline, every limit and every PLL: a progressive mode that is shown
\* interlaced keeps its refresh exactly, on the clock before it is rounded to the hertz
\* (modes.c:163-204).
THEOREM RefreshIsKept == Spec => []RefreshKept
<1>1. AnswerInv => RefreshKept
  <2> SUFFICES ASSUME AnswerInv, Returned("check"), result.ok, result.converted, Roomy(call.mode)
               PROVE SameRate(Rate(2 * Clock(call.mode).num,
                                   Clock(call.mode).den * result.h_total * result.frame_lines),
                              Rate(call.mode.clock * Kilo, call.mode.htotal * call.mode.vtotal))
    BY DEF RefreshKept
  <2>1. PICK m \in Modelines : m = call.mode
    BY DEF AnswerInv, Called, Returned
  <2> DEFINE e == Effective(m)
             v == Vertical(e)
             f == 2 * (m.vtotal \div 2) + 1
             k == m.clock * Kilo
  <2>2. InOrder(m) /\ result = Timing(m)
    <3>1. result = Check(m)
      BY <2>1 DEF AnswerInv, Answered
    <3> QED
      BY <3>1, Passed
  <2>3. Converts(m)
    BY <2>2 DEF Timing
  <2>4. v.v_sy + v.v_bp + v.v_act + v.v_fp = VTotalField(e)
    BY <2>1, <2>2, VerticalAddsUp
  <2>5. e.htotal = m.htotal /\ e.vtotal = f /\ e.interlace = TRUE
    BY <2>3, EffectiveFields
  <2>6. Clock(m) = Rate(k * f, 2 * m.vtotal)
    BY <2>3 DEF Clock, ConvertedClock
  <2>7. m.vtotal \in Nat /\ m.htotal \in Nat /\ m.clock \in Nat /\ k \in Nat /\ f \in Nat
    BY ModeFields, ModeCheckAssumption DEF ModeCheckAssumption
  <2> HIDE DEF e, v
  <2>8. result.h_total = m.htotal /\ result.frame_lines = 2 * VTotalField(e) + 1
    BY <2>2, <2>4, <2>5 DEF Timing, e, v
  <2>9. result.frame_lines = f
    BY <2>5, <2>7, <2>8 DEF VTotalField
  <2> HIDE DEF f, k
  <2>10. (2 * (k * f)) * (m.htotal * m.vtotal) = k * (2 * m.vtotal * m.htotal * f)
    BY <2>7, SameProduct
  <2> QED
    BY <2>1, <2>6, <2>8, <2>9, <2>10 DEF SameRate, Rate, k
<1> QED
  BY <1>1, AnswerInit, AnswerStep, PTL DEF Spec

-----------------------------------------------------------------------------
(* The rect writers *)

LEMMA TakeApart ==
  ASSUME NEW h \in Nat \ {0}, NEW k \in Nat, NEW c \in 0..h - 1
  PROVE  (k * h + c) % h = c /\ (k * h + c) \div h = k
<1> DEFINE e == k * h + c
           q == e \div h
<1>0. e \in Nat
  OBVIOUS
<1> HIDE DEF e
<1>1. q \in Int /\ e = h * q + (e % h) /\ e % h \in 0..h - 1
  BY <1>0
<1> HIDE DEF q
<1> DEFINE hq == h * q
           hk == h * k
           over == h * (q - k)
<1>2. e = hk + c /\ e = hq + (e % h) /\ e % h \in Int
  BY <1>1 DEF e
<1>3. over \in Int /\ hq \in Int /\ hk \in Int /\ over = hq - hk
  BY <1>1
<1>7. e % h = c - over
  <2> HIDE DEF hq, hk, over
  <2> QED
    BY <1>2, <1>3
<1>4. CASE q - k >= 1
  <2>1. over >= h
    BY <1>1, <1>4
  <2> HIDE DEF over
  <2> QED
    BY <1>1, <1>3, <1>7, <2>1
<1>5. CASE q - k <= -1
  <2>1. over <= -h
    BY <1>1, <1>5
  <2> HIDE DEF over
  <2> QED
    BY <1>1, <1>3, <1>7, <2>1
<1>6. CASE q = k
  <2>1. e % h = c
    BY <1>1, <1>2, <1>6
  <2> QED
    BY <1>6, <2>1 DEF e, q
<1> QED
  BY <1>1, <1>4, <1>5, <1>6

LEMMA PutTogether ==
  ASSUME NEW a \in Nat, NEW h \in Nat \ {0}
  PROVE  /\ a \div h \in Nat /\ a % h \in 0..h - 1
         /\ a = (a \div h) * h + (a % h)
<1>1. a % h \in 0..h - 1 /\ a \div h \in Int /\ a = h * (a \div h) + (a % h)
  OBVIOUS
<1>2. a \div h >= 0
  <2>1. PICK q \in Int : q = a \div h
    BY <1>1
  <2>2. q <= -1 => h * q <= -h
    OBVIOUS
  <2> QED
    BY <1>1, <2>1, <2>2
<1>3. h * (a \div h) = (a \div h) * h
  BY <1>1
<1> QED
  BY <1>1, <1>2, <1>3

\* A product grows with its factor.
LEMMA Scales ==
  ASSUME NEW m \in Nat, NEW n \in Nat, NEW p \in Nat, m <= n
  PROVE  m * p \in Nat /\ n * p \in Nat /\ m * p <= n * p
<1>1. PICK d \in Nat : n = m + d
  <2>1. n - m \in Nat /\ n = m + (n - m)
    OBVIOUS
  <2> QED
    BY <2>1
<1>2. m * p \in Nat /\ d * p \in Nat
  OBVIOUS
<1>3. n * p = m * p + d * p
  BY <1>1
<1> QED
  BY <1>2, <1>3

\* Whole pixels before n of them.
LEMMA PixelsBelow ==
  ASSUME NEW c \in Nat, NEW p \in Nat \ {0}, NEW d \in 0..p - 1, NEW n \in Nat
  PROVE  c * p + d < n * p <=> c < n
<1>1. c * p \in Nat /\ n * p \in Nat /\ (c + 1) * p = c * p + p
  OBVIOUS
<1>2. ASSUME c < n PROVE c * p + d < n * p
  <2>1. (c + 1) * p <= n * p
    BY <1>2, Scales
  <2> QED
    BY <1>1, <2>1
<1>3. ASSUME ~(c < n) PROVE ~(c * p + d < n * p)
  <2>1. n * p <= c * p
    BY <1>3, Scales
  <2> QED
    BY <1>1, <2>1
<1> QED
  BY <1>2, <1>3

\* A line is padded, never cut short.
LEMMA StrideHolds ==
  ASSUME NEW w \in Nat, NEW p \in Nat \ {0}
  PROVE  Stride(w, p) \in Nat /\ w * p <= Stride(w, p)
<1>1. Beat \in Nat \ {0}
  BY BlitAssumption DEF BlitAssumption
<1>2. w * p \in Nat
  OBVIOUS
<1>3. PICK n \in Nat : n = w * p
  BY <1>2
<1>4. PICK a \in Nat : a = n + Beat - 1
  <2>1. n + Beat - 1 \in Nat
    BY <1>1
  <2> QED
    BY <2>1
<1>5. /\ a \div Beat \in Nat /\ a % Beat \in 0..Beat - 1
      /\ a = (a \div Beat) * Beat + (a % Beat)
  BY <1>1, PutTogether
<1>6. Stride(w, p) = (a \div Beat) * Beat
  BY <1>3, <1>4 DEF Stride
<1>7. PICK s \in Nat : s = (a \div Beat) * Beat
  BY <1>1, <1>5
<1> QED
  BY <1>1, <1>3, <1>4, <1>5, <1>6, <1>7

LEMMA Fields ==
  ASSUME NEW geo \in Geometries, NEW r \in Rects
  PROVE  LET g == Configured(geo)
         IN /\ g.w \in Nat /\ g.h \in Nat /\ g.bpp \in Nat \ {0} /\ g.ddr \in BOOLEAN
            /\ g.stride \in Nat /\ g.w * g.bpp <= g.stride
            /\ r.x \in Nat /\ r.y \in Nat /\ r.w \in Nat /\ r.h \in Nat
<1>1. /\ geo.w \in Nat /\ geo.h \in Nat /\ geo.bpp \in Nat \ {0} /\ geo.ddr \in BOOLEAN
      /\ r.x \in Nat /\ r.y \in Nat /\ r.w \in Nat /\ r.h \in Nat
  BY ArithAssumption DEF ArithAssumption
<1> QED
  BY <1>1, StrideHolds DEF Configured

\* The addresses of a byte of a pixel, and the pixel behind an address.
LEMMA PixelOfByte ==
  ASSUME NEW g, g.ddr, NEW S \in Nat \ {0}, NEW P \in Nat \ {0}, g.stride = S, g.bpp = P,
         NEW Y \in Nat, NEW X \in Nat, NEW d \in 0..P - 1, X * P + d < S
  PROVE  PixelAt(g, Y * S + (X * P + d)) = [x |-> X, y |-> Y, b |-> d]
<1>1. PICK o \in 0..S - 1 : o = X * P + d
  <2>1. X * P + d \in 0..S - 1
    OBVIOUS
  <2> QED
    BY <2>1
<1>2. (Y * S + o) % S = o /\ (Y * S + o) \div S = Y
  BY TakeApart
<1>3. o \div P = X /\ o % P = d
  BY <1>1, TakeApart
<1> QED
  BY <1>1, <1>2, <1>3 DEF PixelAt

\* What lies in the cropped rect, in either direction.
LEMMA Cropped ==
  ASSUME NEW g, NEW r, g.w \in Nat, g.h \in Nat, ~Outside(g, r),
         r.x \in Nat, r.y \in Nat, r.w \in Nat, r.h \in Nat
  PROVE  /\ ClipW(g, r) \in Nat /\ ClipH(g, r) \in Nat
         /\ \A n \in Nat : n < ClipW(g, r) <=> r.x + n < g.w /\ n < r.w
         /\ \A n \in Nat : n < ClipH(g, r) <=> r.y + n < g.h /\ n < r.h
  BY DEF Outside, ClipW, ClipH, Lesser

\* A geometry and a rect as the writers get them.
Sound(g, r) ==
  /\ g.w \in Nat /\ g.h \in Nat /\ g.bpp \in Nat \ {0} /\ g.ddr \in BOOLEAN
  /\ g.stride \in Nat /\ g.w * g.bpp <= g.stride
  /\ r.x \in Nat /\ r.y \in Nat /\ r.w \in Nat /\ r.h \in Nat

\* The place a source that advances by so much a row has for a pixel.
SourceBy(g, r, p, advance) ==
  LET pixel == (p.y - r.y) * advance + (p.x - r.x)
  IN IF g.ddr THEN pixel * g.bpp + p.b ELSE pixel

\* What is written to a place is what the place is to show, and all that is to show there
\* is written.
Faithful(g, r, advance, a) ==
  LET p == PixelAt(g, a)
  IN /\ \A x \in Writes(g, r, advance) : x.at = a => Covers(g, r, p) /\ x.from = SourceBy(g, r, p, advance)
     /\ Covers(g, r, p) => \E x \in Writes(g, r, advance) : x.at = a
     /\ Covers(g, r, p) => SourceBy(g, r, p, advance) \in Nat

LEMMA Rearranged ==
  ASSUME NEW x \in Nat, NEW c \in Nat, NEW p \in Nat, NEW d \in Nat, NEW row \in Nat, NEW w \in Nat
  PROVE  x * p + (c * p + d) = (x + c) * p + d /\ (row * w + c) * p + d = row * w * p + (c * p + d)
<1>1. x * p \in Nat /\ c * p \in Nat /\ (x + c) * p = x * p + c * p
  OBVIOUS
<1>2. PICK rw \in Nat : rw = row * w
  OBVIOUS
<1>3. rw * p \in Nat /\ (rw + c) * p = rw * p + c * p
  BY <1>1
<1> QED
  BY <1>1, <1>2, <1>3

\* A rect that covers a pixel is not outside.
LEMMA CoveredIsInside ==
  ASSUME NEW g, NEW r, Sound(g, r), NEW X \in Nat, NEW Y \in Nat, NEW d,
         Covers(g, r, [x |-> X, y |-> Y, b |-> d])
  PROVE  /\ ~Outside(g, r) /\ g.w # 0 /\ g.h # 0
         /\ X - r.x \in Nat /\ Y - r.y \in Nat
         /\ X - r.x < ClipW(g, r) /\ Y - r.y < ClipH(g, r)
<1>1. X < g.w /\ Y < g.h /\ r.x <= X /\ X < r.x + r.w /\ r.y <= Y /\ Y < r.y + r.h
  BY DEF Covers
<1>2. ~Outside(g, r)
  BY <1>1 DEF Outside, Sound
<1>3. X - r.x \in Nat /\ Y - r.y \in Nat
  BY <1>1 DEF Sound
<1>4. /\ \A n \in Nat : n < ClipW(g, r) <=> r.x + n < g.w /\ n < r.w
      /\ \A n \in Nat : n < ClipH(g, r) <=> r.y + n < g.h /\ n < r.h
  BY <1>2, Cropped DEF Sound
<1> QED
  BY <1>1, <1>2, <1>3, <1>4 DEF Sound

LEMMA InWindow ==
  ASSUME NEW g, NEW r, Sound(g, r), g.ddr, NEW advance \in Nat, NEW a \in 0..Size(g) - 1
  PROVE  Faithful(g, r, advance, a)
<1>1. /\ g.w \in Nat /\ g.h \in Nat /\ g.bpp \in Nat \ {0} /\ g.stride \in Nat
      /\ g.w * g.bpp <= g.stride
      /\ r.x \in Nat /\ r.y \in Nat /\ r.w \in Nat /\ r.h \in Nat
  BY DEF Sound
<1>2. PICK S \in Nat \ {0} : S = g.stride
  <2>1. Size(g) = g.stride * g.h
    BY DEF Size
  <2>2. CASE g.stride = 0
    <3>1. Size(g) = 0
      BY <1>1, <2>1, <2>2
    <3> QED
      BY <3>1
  <2> QED
    BY <1>1, <2>2
<1>3. PICK P \in Nat \ {0} : P = g.bpp
  BY <1>1
<1>4. PICK W \in Nat : W = g.w
  BY <1>1
<1>5. W * P <= S /\ W * P \in Nat
  BY <1>1, <1>2, <1>3, <1>4
<1> DEFINE p == PixelAt(g, a)
<1>6. a \in Nat
  BY <1>1, <1>2 DEF Size
<1>7. ASSUME ~Outside(g, r), NEW row \in 0..(ClipH(g, r) - 1), NEW b \in 0..(ClipW(g, r) * g.bpp - 1),
             (r.y + row) * g.stride + r.x * g.bpp + b = a
      PROVE  Covers(g, r, p) /\ row * advance * g.bpp + b = SourceBy(g, r, p, advance)
  <2>1. PICK w \in Nat, h \in Nat : w = ClipW(g, r) /\ h = ClipH(g, r)
    BY <1>1, <1>7, Cropped
  <2>2. /\ \A n \in Nat : n < w <=> r.x + n < g.w /\ n < r.w
        /\ \A n \in Nat : n < h <=> r.y + n < g.h /\ n < r.h
    BY <1>1, <1>7, <2>1, Cropped
  <2>3. row \in Nat /\ row < h
    BY <2>1
  <2>4. w * P \in Nat /\ b \in Nat /\ b < w * P
    BY <1>3, <2>1
  <2>5. PICK c \in Nat, d \in 0..P - 1 : b = c * P + d
    <3>1. b \div P \in Nat /\ b % P \in 0..P - 1 /\ b = (b \div P) * P + (b % P)
      BY <2>4, PutTogether
    <3> QED
      BY <3>1
  <2>6. c < w
    BY <2>4, <2>5, PixelsBelow
  <2>7. PICK X \in Nat, Y \in Nat : X = r.x + c /\ Y = r.y + row
    BY <1>1, <2>3
  <2>8. X < W /\ c < r.w /\ Y < g.h /\ row < r.h
    BY <1>4, <2>2, <2>3, <2>6, <2>7
  <2>9. X * P + d < W * P
    BY <2>8, PixelsBelow
  <2>10. X * P + d < S
    <3>1. X * P + d \in Nat
      OBVIOUS
    <3> QED
      BY <1>5, <2>9, <3>1
  <2>11. /\ r.x * P + (c * P + d) = X * P + d
         /\ (row * advance + c) * P + d = row * advance * P + (c * P + d)
    BY <1>1, <2>3, <2>7, Rearranged
  <2>12. a = Y * S + (X * P + d)
    <3>1. PICK u \in Nat, v \in Nat : u = Y * S /\ v = r.x * P
      <4>1. Y * S \in Nat /\ r.x * P \in Nat
        BY <1>1
      <4> QED
        BY <4>1
    <3>2. a = u + v + b
      BY <1>2, <1>3, <1>7, <2>7, <3>1
    <3>3. v + b = X * P + d
      BY <2>5, <2>11, <3>1
    <3> QED
      BY <2>4, <3>1, <3>2, <3>3
  <2>13. p = [x |-> X, y |-> Y, b |-> d]
    BY <1>2, <1>3, <2>10, <2>12, PixelOfByte
  <2> HIDE DEF p
  <2>14. Covers(g, r, p)
    BY <1>1, <1>4, <2>7, <2>8, <2>13 DEF Covers
  <2>15. SourceBy(g, r, p, advance) = (row * advance + c) * P + d
    <3>1. p.y - r.y = row /\ p.x - r.x = c /\ p.b = d
      BY <1>1, <2>3, <2>7, <2>13
    <3> QED
      BY <1>3, <3>1 DEF SourceBy
  <2> QED
    BY <1>3, <2>5, <2>11, <2>14, <2>15
<1>8. PICK Y \in Nat, o \in 0..S - 1 : a = Y * S + o
  BY <1>6, PutTogether
<1>9. PICK X \in Nat, d \in 0..P - 1 : o = X * P + d
  <2>1. o \in Nat
    OBVIOUS
  <2> QED
    BY <2>1, PutTogether
<1>10. p = [x |-> X, y |-> Y, b |-> d]
  <2>1. X * P + d < S
    BY <1>9
  <2>2. a = Y * S + (X * P + d)
    BY <1>8, <1>9
  <2>3. PixelAt(g, Y * S + (X * P + d)) = [x |-> X, y |-> Y, b |-> d]
    <3>1. g.stride = S /\ g.bpp = P
      BY <1>2, <1>3
    <3> QED
      BY <2>1, <3>1, PixelOfByte
  <2> QED
    BY <2>2, <2>3
<1>11. ASSUME Covers(g, r, p)
       PROVE  /\ \E x \in Writes(g, r, advance) : x.at = a
              /\ SourceBy(g, r, p, advance) \in Nat
  <2>1. /\ ~Outside(g, r) /\ g.w # 0 /\ g.h # 0
        /\ X - r.x \in Nat /\ Y - r.y \in Nat
        /\ X - r.x < ClipW(g, r) /\ Y - r.y < ClipH(g, r)
    BY <1>10, <1>11, CoveredIsInside
  <2>2. PICK c \in Nat, row \in Nat : c = X - r.x /\ row = Y - r.y
    BY <2>1
  <2>3. PICK w \in Nat, h \in Nat : w = ClipW(g, r) /\ h = ClipH(g, r)
    BY <1>1, <2>1, Cropped
  <2>4. c * P + d < w * P
    BY <2>1, <2>2, <2>3, PixelsBelow
  <2>5. PICK b \in Nat : b = c * P + d
    OBVIOUS
  <2>6. b \in 0..(ClipW(g, r) * g.bpp - 1) /\ row \in 0..(ClipH(g, r) - 1)
    <3>1. w * P \in Nat
      OBVIOUS
    <3> QED
      BY <1>3, <2>1, <2>2, <2>3, <2>4, <2>5, <3>1
  <2>7. (r.y + row) * g.stride + r.x * g.bpp + b = a
    <3>1. r.x * P + (c * P + d) = (r.x + c) * P + d
      BY <1>1, Rearranged
    <3>2. X = r.x + c /\ Y = r.y + row
      BY <1>1, <2>2
    <3>3. PICK u \in Nat, v \in Nat : u = Y * S /\ v = r.x * P
      BY <1>1
    <3>4. v + b = o
      BY <1>9, <2>5, <3>1, <3>2, <3>3
    <3> QED
      BY <1>2, <1>3, <1>8, <2>5, <3>2, <3>3, <3>4
  <2>8. [at |-> a, from |-> row * advance * g.bpp + b] \in RowCopies(g, r, advance)
    BY <2>6, <2>7 DEF RowCopies
  <2>9. Writes(g, r, advance) = RowCopies(g, r, advance)
    BY <2>1 DEF Writes
  <2>10. SourceBy(g, r, p, advance) \in Nat
    <3>1. p.y - r.y = row /\ p.x - r.x = c /\ p.b = d
      BY <1>10, <2>2
    <3>2. SourceBy(g, r, p, advance) = (row * advance + c) * P + d
      BY <1>3, <3>1 DEF SourceBy
    <3>3. PICK rw \in Nat : rw = row * advance
      BY <1>1
    <3>4. (rw + c) * P \in Nat
      OBVIOUS
    <3> QED
      BY <3>2, <3>3, <3>4
  <2>11. \E x \in Writes(g, r, advance) : x.at = a
    BY <2>8, <2>9
  <2> QED
    BY <2>10, <2>11
<1>12. ASSUME NEW x \in Writes(g, r, advance), x.at = a
       PROVE  Covers(g, r, p) /\ x.from = SourceBy(g, r, p, advance)
  <2>1. ~Outside(g, r) /\ x \in RowCopies(g, r, advance)
    BY DEF Writes
  <2>2. PICK row \in 0..(ClipH(g, r) - 1), b \in 0..(ClipW(g, r) * g.bpp - 1) :
          x = [at |-> (r.y + row) * g.stride + r.x * g.bpp + b, from |-> row * advance * g.bpp + b]
    BY <2>1 DEF RowCopies
  <2>3. /\ (r.y + row) * g.stride + r.x * g.bpp + b = a
        /\ x.from = row * advance * g.bpp + b
    BY <1>12, <2>2
  <2> QED
    BY <1>7, <2>1, <2>3
<1> QED
  BY <1>11, <1>12 DEF Faithful

LEMMA ThroughThePort ==
  ASSUME NEW g, NEW r, Sound(g, r), ~g.ddr, NEW advance \in Nat, NEW a \in 0..Size(g) - 1
  PROVE  Faithful(g, r, advance, a)
<1>1. /\ g.w \in Nat /\ g.h \in Nat
      /\ r.x \in Nat /\ r.y \in Nat /\ r.w \in Nat /\ r.h \in Nat
  BY DEF Sound
<1>2. PICK W \in Nat \ {0} : W = g.w
  <2>1. Size(g) = g.w * g.h
    BY DEF Size
  <2>2. CASE g.w = 0
    <3>1. Size(g) = 0
      BY <1>1, <2>1, <2>2
    <3> QED
      BY <3>1
  <2> QED
    BY <1>1, <2>2
<1> DEFINE p == PixelAt(g, a)
<1>3. a \in Nat
  BY <1>1, <1>2 DEF Size
<1>4. PICK Y \in Nat, X \in 0..W - 1 : a = Y * W + X
  BY <1>3, PutTogether
<1>5. p = [x |-> X, y |-> Y, b |-> 0]
  <2>1. (Y * W + X) % W = X /\ (Y * W + X) \div W = Y
    BY TakeApart
  <2> QED
    BY <1>2, <1>4, <2>1 DEF PixelAt
<1> HIDE DEF p
<1>6. \A row \in Nat, col \in Nat :
        p.y - r.y = row /\ p.x - r.x = col =>
          SourceBy(g, r, p, advance) = row * advance + col /\ row * advance + col \in Nat
  <2> SUFFICES ASSUME NEW row \in Nat, NEW col \in Nat, p.y - r.y = row, p.x - r.x = col
               PROVE SourceBy(g, r, p, advance) = row * advance + col /\ row * advance + col \in Nat
    OBVIOUS
  <2>1. SourceBy(g, r, p, advance) = row * advance + col
    BY DEF SourceBy
  <2>2. row * advance \in Nat
    BY <1>1
  <2> QED
    BY <2>1, <2>2
<1>7. ASSUME NEW x \in Writes(g, r, advance), x.at = a
      PROVE  Covers(g, r, p) /\ x.from = SourceBy(g, r, p, advance)
  <2>1. ~Outside(g, r) /\ x \in PointerWrites(g, r, advance)
    BY DEF Writes
  <2>2. PICK row \in 0..(ClipH(g, r) - 1), col \in 0..(ClipW(g, r) - 1) :
          x = [at |-> Seek(g, r, row) + col, from |-> row * advance + col]
    BY <2>1 DEF PointerWrites
  <2>3. PICK w \in Nat, h \in Nat : w = ClipW(g, r) /\ h = ClipH(g, r)
    BY <1>1, <2>1, Cropped
  <2>4. row \in Nat /\ row < h /\ col \in Nat /\ col < w
    BY <2>3
  <2>5. r.x + col < g.w /\ col < r.w /\ r.y + row < g.h /\ row < r.h
    BY <1>1, <2>1, <2>3, <2>4, Cropped
  <2>6. PICK k \in Nat, c \in 0..W - 1 : k = r.y + row /\ c = r.x + col
    BY <1>1, <1>2, <2>4, <2>5
  <2>7. a = k * W + c
    <3>1. a = (r.y + row) * g.w + r.x + col
      BY <1>7, <2>2 DEF Seek
    <3>2. k * W \in Nat
      OBVIOUS
    <3> QED
      BY <1>1, <1>2, <2>4, <2>6, <3>1, <3>2
  <2>8. X = c /\ Y = k
    <3>1. (k * W + c) % W = c /\ (k * W + c) \div W = k
      BY TakeApart
    <3>2. (Y * W + X) % W = X /\ (Y * W + X) \div W = Y
      BY TakeApart
    <3> QED
      BY <1>4, <2>7, <3>1, <3>2
  <2>9. p.y - r.y = row /\ p.x - r.x = col
    BY <1>1, <1>5, <2>4, <2>6, <2>8
  <2>10. Covers(g, r, p)
    BY <1>1, <1>2, <1>5, <2>4, <2>5, <2>6, <2>8 DEF Covers
  <2>11. x.from = row * advance + col
    BY <2>2
  <2> QED
    BY <1>6, <2>4, <2>9, <2>10, <2>11
<1>8. ASSUME Covers(g, r, p)
      PROVE  /\ \E x \in Writes(g, r, advance) : x.at = a
             /\ SourceBy(g, r, p, advance) \in Nat
  <2>1. /\ ~Outside(g, r) /\ g.w # 0 /\ g.h # 0
        /\ X - r.x \in Nat /\ Y - r.y \in Nat
        /\ X - r.x < ClipW(g, r) /\ Y - r.y < ClipH(g, r)
    <3>1. X \in Nat /\ Covers(g, r, [x |-> X, y |-> Y, b |-> 0])
      BY <1>5, <1>8
    <3> QED
      BY <3>1, CoveredIsInside
  <2>2. PICK col \in Nat, row \in Nat : col = X - r.x /\ row = Y - r.y
    BY <2>1
  <2>3. ClipW(g, r) \in Nat /\ ClipH(g, r) \in Nat
    BY <1>1, <2>1, Cropped
  <2>4. col \in 0..(ClipW(g, r) - 1) /\ row \in 0..(ClipH(g, r) - 1)
    BY <2>1, <2>2, <2>3
  <2>5. Seek(g, r, row) + col = a
    <3>1. X = r.x + col /\ Y = r.y + row
      BY <1>1, <2>2
    <3>2. Y * W \in Nat
      OBVIOUS
    <3> QED
      BY <1>1, <1>2, <1>4, <3>1, <3>2 DEF Seek
  <2>6. [at |-> a, from |-> row * advance + col] \in PointerWrites(g, r, advance)
    BY <2>4, <2>5 DEF PointerWrites
  <2>7. Writes(g, r, advance) = PointerWrites(g, r, advance)
    BY <2>1 DEF Writes
  <2>8. \E x \in Writes(g, r, advance) : x.at = a
    BY <2>6, <2>7
  <2>9. SourceBy(g, r, p, advance) \in Nat
    BY <1>5, <1>6, <2>2
  <2> QED
    BY <2>8, <2>9
<1> QED
  BY <1>7, <1>8 DEF Faithful, p

\* What lands, place by place, of a source that advances by so much a row.
LEMMA LandedIs ==
  ASSUME NEW g, NEW r, Sound(g, r), NEW advance \in Nat
  PROVE  /\ Landed(g, r, advance) =
              [a \in 0..(Size(g) - 1) |-> IF Covers(g, r, PixelAt(g, a))
                                         THEN SourceBy(g, r, PixelAt(g, a), advance) ELSE Old]
         /\ \A a \in 0..(Size(g) - 1) :
              Covers(g, r, PixelAt(g, a)) => SourceBy(g, r, PixelAt(g, a), advance) # Old
<1> DEFINE S == 0..(Size(g) - 1)
           ws == Writes(g, r, advance)
           Kept(a) == IF \E x \in ws : x.at = a THEN (CHOOSE x \in ws : x.at = a).from ELSE Old
           Meant(a) == IF Covers(g, r, PixelAt(g, a)) THEN SourceBy(g, r, PixelAt(g, a), advance) ELSE Old
<1>1. \A a \in S : Faithful(g, r, advance, a)
  <2>1. g.ddr \in BOOLEAN
    BY DEF Sound
  <2> QED
    BY <2>1, InWindow, ThroughThePort
<1>2. Landed(g, r, advance) = [a \in S |-> Kept(a)]
  BY DEF Landed
<1>3. ASSUME NEW a \in S
      PROVE  Kept(a) = Meant(a)
  <2>1. CASE \E x \in ws : x.at = a
    <3> DEFINE y == CHOOSE x \in ws : x.at = a
    <3>1. y \in ws /\ y.at = a
      BY <2>1
    <3> HIDE DEF y
    <3>2. Covers(g, r, PixelAt(g, a)) /\ y.from = SourceBy(g, r, PixelAt(g, a), advance)
      BY <1>1, <3>1 DEF Faithful
    <3>3. Kept(a) = y.from
      BY <2>1 DEF y
    <3> QED
      BY <3>2, <3>3
  <2>2. CASE ~\E x \in ws : x.at = a
    <3>1. ~Covers(g, r, PixelAt(g, a))
      BY <1>1, <2>2 DEF Faithful
    <3> QED
      BY <2>2, <3>1
  <2> QED
    BY <2>1, <2>2
<1>4. ASSUME NEW a \in S, Covers(g, r, PixelAt(g, a))
      PROVE  SourceBy(g, r, PixelAt(g, a), advance) # Old
  <2>1. SourceBy(g, r, PixelAt(g, a), advance) \in Nat
    BY <1>1, <1>4 DEF Faithful
  <2> QED
    BY <2>1 DEF Old
<1> HIDE DEF Kept
<1> QED
  BY <1>2, <1>3, <1>4

\* At the colour's two bytes a pixel the row buffer is the colour, over and over.
LEMMA BufferHolds ==
  ASSUME NEW g, NEW r, Sound(g, r), g.ddr, g.bpp = ColourBytes, NEW a \in 0..(Size(g) - 1),
         Covers(g, r, PixelAt(g, a))
  PROVE  RowBuffer(g, r)[SourceBy(g, r, PixelAt(g, a), 0)] = PixelAt(g, a).b
<1>1. /\ g.w \in Nat /\ g.h \in Nat /\ g.stride \in Nat /\ g.bpp = 2
      /\ r.x \in Nat /\ r.y \in Nat /\ r.w \in Nat /\ r.h \in Nat
  BY DEF Sound, ColourBytes
<1>2. PICK S \in Nat \ {0} : S = g.stride
  <2>1. Size(g) = g.stride * g.h
    BY DEF Size
  <2>2. CASE g.stride = 0
    <3>1. Size(g) = 0
      BY <1>1, <2>1, <2>2
    <3> QED
      BY <3>1
  <2> QED
    BY <1>1, <2>2
<1>3. a \in Nat
  BY <1>1 DEF Size
<1>4. a \div S \in Nat /\ a % S \in 0..S - 1
  BY <1>3, PutTogether
<1>5. PICK Y \in Nat, o \in Nat : Y = a \div S /\ o = a % S
  BY <1>4
<1>6. PICK X \in Nat, d \in 0..1 : X = o \div 2 /\ d = o % 2
  OBVIOUS
<1>7. PixelAt(g, a) = [x |-> X, y |-> Y, b |-> d]
  BY <1>1, <1>2, <1>5, <1>6 DEF PixelAt
<1>8. ~Outside(g, r) /\ X - r.x \in Nat /\ Y - r.y \in Nat /\ X - r.x < ClipW(g, r)
  BY <1>7, CoveredIsInside
<1>9. PICK c \in Nat, w \in Nat : c = X - r.x /\ w = ClipW(g, r)
  BY <1>1, <1>8, Cropped
<1>10. SourceBy(g, r, PixelAt(g, a), 0) = c * 2 + d
  <2>1. SourceBy(g, r, PixelAt(g, a), 0) = ((Y - r.y) * 0 + (X - r.x)) * 2 + d
    BY <1>1, <1>7 DEF SourceBy
  <2>2. (Y - r.y) * 0 = 0
    BY <1>8
  <2> QED
    BY <1>9, <2>1, <2>2
<1>11. c * 2 + d \in 0..(w * 2 - 1) /\ (c * 2 + d) % 2 = d
  BY <1>8, <1>9
<1>12. RowBuffer(g, r) = [k \in 0..(w * 2 - 1) |-> IF k < w * 2 THEN k % 2 ELSE Junk]
  BY <1>1, <1>9 DEF RowBuffer, ColourBytes
<1>13. RowBuffer(g, r)[c * 2 + d] = d
  BY <1>11, <1>12
<1> QED
  BY <1>7, <1>10, <1>13

\* For every geometry, rect and beat, in the window and on chip: a blit of any pixel size
\* lands where it belongs and nowhere else, each byte from its own place of the source
\* (fabric.c:538); so does a fill, with the colour in every pixel, where a pixel is the
\* two bytes the colour has, or a word of the on-chip memory (fabric.c:591).
THEOREM RectsLand == Spec => []BlitExact
<1>1. ASSUME NEW g, NEW r, Sound(g, r)
      PROVE  ScanoutBlit(g, r) = Shows(g, r)
  <2>1. r.w \in Nat
    BY <1>1 DEF Sound
  <2>2. \A p : SourceBy(g, r, p, r.w) = SourceOf(g, r, p)
    BY DEF SourceBy, SourceOf
  <2>3. ScanoutBlit(g, r) =
          [a \in 0..(Size(g) - 1) |-> IF Covers(g, r, PixelAt(g, a))
                                     THEN SourceBy(g, r, PixelAt(g, a), r.w) ELSE Old]
    BY <1>1, <2>1, LandedIs DEF ScanoutBlit, Advance
  <2> QED
    BY <2>2, <2>3 DEF Shows
<1>2. ASSUME NEW g, NEW r, Sound(g, r), OwnFormat(g)
      PROVE  ScanoutFill(g, r) = Filled(g, r)
  <2> DEFINE S == 0..(Size(g) - 1)
             from == Landed(g, r, 0)
             Gets(a) == IF from[a] = Old THEN Old ELSE IF g.ddr THEN RowBuffer(g, r)[from[a]] ELSE 0
             Wants(a) == IF Covers(g, r, PixelAt(g, a)) THEN PixelAt(g, a).b ELSE Old
  <2>1. /\ from = [a \in S |-> IF Covers(g, r, PixelAt(g, a))
                               THEN SourceBy(g, r, PixelAt(g, a), 0) ELSE Old]
        /\ \A a \in S : Covers(g, r, PixelAt(g, a)) => SourceBy(g, r, PixelAt(g, a), 0) # Old
    BY <1>2, LandedIs
  <2> HIDE DEF from
  <2>2. ASSUME NEW a \in S PROVE Gets(a) = Wants(a)
    <3>1. CASE ~Covers(g, r, PixelAt(g, a))
      BY <2>1, <3>1
    <3>2. CASE Covers(g, r, PixelAt(g, a))
      <4>1. from[a] = SourceBy(g, r, PixelAt(g, a), 0) /\ from[a] # Old
        BY <2>1, <3>2
      <4>2. CASE g.ddr
        <5>1. RowBuffer(g, r)[SourceBy(g, r, PixelAt(g, a), 0)] = PixelAt(g, a).b
          BY <1>2, <3>2, <4>2, BufferHolds DEF OwnFormat
        <5> QED
          BY <3>2, <4>1, <4>2, <5>1
      <4>3. CASE ~g.ddr
        <5>1. PixelAt(g, a).b = 0
          BY <4>3 DEF PixelAt
        <5> QED
          BY <3>2, <4>1, <4>3, <5>1
      <4> QED
        BY <4>2, <4>3
    <3> QED
      BY <3>1, <3>2
  <2>3. DOMAIN from = S
    BY <2>1
  <2>4. ScanoutFill(g, r) = [a \in S |-> Gets(a)]
    BY <2>3 DEF ScanoutFill, from
  <2>5. Filled(g, r) = [a \in S |-> Wants(a)]
    BY DEF Filled
  <2> HIDE DEF Gets, Wants
  <2> QED
    BY <2>2, <2>4, <2>5
<1>3. ASSUME NEW geo \in Geometries, NEW r \in Rects
      PROVE  /\ Sound(Configured(geo), r)
             /\ OwnFormat(geo) => OwnFormat(Configured(geo)) /\ ~Overruns(Configured(geo), r)
  <2> DEFINE g == Configured(geo)
  <2>1. Sound(g, r)
    BY Fields DEF Sound
  <2>2. g.ddr = geo.ddr /\ g.bpp = geo.bpp
    BY DEF Configured
  <2> HIDE DEF g
  <2>3. OwnFormat(geo) => OwnFormat(g)
    BY <2>2 DEF OwnFormat
  <2>4. ASSUME OwnFormat(g), Overruns(g, r) PROVE FALSE
    <3>1. ~Outside(g, r) /\ g.bpp = 2 /\ ClipW(g, r) * 2 > ClipW(g, r) * g.bpp
      BY <2>4 DEF OwnFormat, Overruns, ColourBytes
    <3>2. ClipW(g, r) \in Nat
      BY <2>1, <3>1, Cropped DEF Sound
    <3> QED
      BY <3>1, <3>2
  <2> QED
    BY <2>1, <2>3, <2>4 DEF g
<1>4. AnswerInv => BlitExact
  <2> SUFFICES ASSUME AnswerInv PROVE BlitExact
    OBVIOUS
  <2>1. ASSUME Returned("blit") PROVE result = Shows(Configured(call.geometry), call.rect)
    <3>1. call.geometry \in Geometries /\ call.rect \in Rects
      BY <2>1 DEF AnswerInv, Called, Returned
    <3>2. result = ScanoutBlit(Configured(call.geometry), call.rect)
      BY <2>1 DEF AnswerInv, Answered
    <3> QED
      BY <1>1, <1>3, <3>1, <3>2
  <2>2. ASSUME Returned("fill"), OwnFormat(call.geometry)
        PROVE  result = Filled(Configured(call.geometry), call.rect)
    <3>1. call.geometry \in Geometries /\ call.rect \in Rects
      BY <2>2 DEF AnswerInv, Called, Returned
    <3>2. /\ Sound(Configured(call.geometry), call.rect) /\ OwnFormat(Configured(call.geometry))
          /\ ~Overruns(Configured(call.geometry), call.rect)
      BY <1>3, <2>2, <3>1
    <3>3. result = ScanoutFill(Configured(call.geometry), call.rect)
      BY <2>2, <3>2 DEF AnswerInv, Answered
    <3> QED
      BY <1>2, <3>2, <3>3
  <2> QED
    BY <2>1, <2>2 DEF BlitExact
<1> QED
  BY <1>4, AnswerInit, AnswerStep, PTL DEF Spec

-----------------------------------------------------------------------------
(* The searches *)

LEMMA Least ==
  ASSUME NEW T, T \subseteq Nat, T # {}
  PROVE  \E n \in T : \A k \in T : n <= k
<1> DEFINE below == {0..n : n \in T}
<1>1. below \subseteq FiniteSubsetsOf(Nat) /\ below # {}
  <2>1. ASSUME NEW n \in T PROVE 0..n \in SUBSET Nat /\ IsFiniteSet(0..n)
    BY FS_Interval
  <2> QED
    BY <2>1 DEF FiniteSubsetsOf
<1>2. PICK b \in below : \A u \in below : ~ (<<u, b>> \in StrictSubsetOrdering(Nat))
  <2> HIDE DEF below
  <2> QED
    BY <1>1, FS_StrictSubsetOrderingWellFounded, WFMin
<1>3. PICK n \in T : b = 0..n
  OBVIOUS
<1>4. ASSUME NEW k \in T, k < n PROVE FALSE
  <2>1. 0..k \subseteq 0..n /\ 0..k # 0..n /\ 0..k \in SUBSET Nat /\ 0..n \in SUBSET Nat
    BY <1>4
  <2>2. <<0..k, 0..n>> \in StrictSubsetOrdering(Nat)
    BY <2>1 DEF StrictSubsetOrdering
  <2> QED
    BY <1>2, <1>3, <2>2
<1> QED
  BY <1>4

\* What a search looks at: counters name a candidate, and the VCO has a bound.
Candidates(S) ==
  /\ \A s \in S : s.n \in Nat /\ s.c \in Nat /\ s.m \in Nat /\ s.hz \in Nat /\ s.vco \in Nat
  /\ \A s \in S, u \in S : s.n = u.n /\ s.c = u.c /\ s.m = u.m => s = u

LEMMA FirstIsOne ==
  ASSUME NEW S, Candidates(S), S # {}
  PROVE  FirstOf(S) \in S
<1>1. PICK a \in S : \A u \in S : a.n <= u.n
  <2>1. {s.n : s \in S} \subseteq Nat /\ {s.n : s \in S} # {}
    BY DEF Candidates
  <2>2. PICK n \in {s.n : s \in S} : \A k \in {s.n : s \in S} : n <= k
    BY <2>1, Least
  <2> QED
    BY <2>2
<1> DEFINE A == {s \in S : s.n = a.n}
<1>2. PICK b \in A : \A u \in A : b.c <= u.c
  <2>1. {s.c : s \in A} \subseteq Nat /\ {s.c : s \in A} # {}
    BY DEF Candidates
  <2>2. PICK n \in {s.c : s \in A} : \A k \in {s.c : s \in A} : n <= k
    BY <2>1, Least
  <2> QED
    BY <2>2
<1> DEFINE B == {s \in A : s.c = b.c}
<1>3. PICK d \in B : \A u \in B : d.m <= u.m
  <2>1. {s.m : s \in B} \subseteq Nat /\ {s.m : s \in B} # {}
    BY DEF Candidates
  <2>2. PICK n \in {s.m : s \in B} : \A k \in {s.m : s \in B} : n <= k
    BY <2>1, Least
  <2> QED
    BY <2>2
<1>4. d \in S /\ d.n = a.n /\ d.c = b.c
  OBVIOUS
<1>5. ASSUME NEW u \in S \ {d} PROVE Sooner(d, u)
  <2>1. /\ d.n \in Nat /\ d.c \in Nat /\ d.m \in Nat
        /\ u.n \in Nat /\ u.c \in Nat /\ u.m \in Nat
        /\ ~(d.n = u.n /\ d.c = u.c /\ d.m = u.m)
    BY <1>4, <1>5 DEF Candidates
  <2>2. d.n <= u.n /\ (u.n = d.n => d.c <= u.c) /\ (u.n = d.n /\ u.c = d.c => d.m <= u.m)
    BY <1>1, <1>2, <1>3, <1>4
  <2> QED
    BY <2>1, <2>2 DEF Sooner
<1>6. \E s \in S : \A u \in S \ {s} : Sooner(s, u)
  BY <1>4, <1>5
<1> QED
  BY <1>6 DEF FirstOf

LEMMA BestIsOne ==
  ASSUME NEW target \in Nat, NEW S, Candidates(S), S # {},
         NEW V \in Nat, \A s \in S : s.vco <= V
  PROVE  /\ BestOf(target, S) \in S
         /\ \A u \in S : Distance(BestOf(target, S).hz, target) <= Distance(u.hz, target)
<1> DEFINE far(s) == Distance(s.hz, target)
           near == {s \in S : \A u \in S : far(s) <= far(u)}
           top == {s \in near : \A u \in near : s.vco >= u.vco}
<1>1. \A s \in S : far(s) \in Nat
  BY DEF Candidates, Distance
<1>2. near # {}
  <2> HIDE DEF far
  <2>1. {far(s) : s \in S} \subseteq Nat /\ {far(s) : s \in S} # {}
    BY <1>1
  <2>2. PICK n \in {far(s) : s \in S} : \A k \in {far(s) : s \in S} : n <= k
    BY <2>1, Least
  <2> QED
    BY <2>2
<1>3. near \subseteq S
  OBVIOUS
<1> HIDE DEF near
<1>4. top # {}
  <2>1. {V - s.vco : s \in near} \subseteq Nat /\ {V - s.vco : s \in near} # {}
    BY <1>2, <1>3 DEF Candidates
  <2>2. PICK n \in {V - s.vco : s \in near} : \A k \in {V - s.vco : s \in near} : n <= k
    BY <2>1, Least
  <2>3. PICK s \in near : n = V - s.vco
    BY <2>2
  <2>4. ASSUME NEW u \in near PROVE s.vco >= u.vco
    <3>1. V - s.vco <= V - u.vco
      BY <2>2, <2>3
    <3>2. s.vco \in Nat /\ u.vco \in Nat
      BY <1>3 DEF Candidates
    <3> QED
      BY <3>1, <3>2
  <2> QED
    BY <2>4
<1>5. Candidates(top)
  BY <1>3 DEF Candidates
<1>6. top \subseteq S
  BY <1>3
<1>7. BestOf(target, S) = FirstOf(top)
  BY DEF BestOf, near
<1>8. FirstOf(top) \in top
  BY <1>4, <1>5, FirstIsOne
<1>9. \A s \in top : \A u \in S : Distance(s.hz, target) <= Distance(u.hz, target)
  BY DEF near
<1> QED
  BY <1>6, <1>7, <1>8, <1>9


\* Quotients and what they leave.
LEMMA Quotient ==
  ASSUME NEW a \in Nat, NEW b \in Nat \ {0}
  PROVE  a \div b \in Nat /\ \E e \in 0..b - 1 : a = b * (a \div b) + e
<1>1. a \div b \in Nat /\ a % b \in 0..b - 1 /\ a = (a \div b) * b + (a % b)
  BY PutTogether
<1>2. (a \div b) * b = b * (a \div b)
  BY <1>1
<1> QED
  BY <1>1, <1>2

LEMMA RoundDivIs ==
  ASSUME NEW a \in Nat, NEW b \in Nat \ {0}
  PROVE  RoundDiv(a, b) \in Nat /\ \E e \in 0..2 * b - 1 : 2 * a + b = 2 * b * RoundDiv(a, b) + e
<1>1. PICK x \in Nat, y \in Nat \ {0} : x = 2 * a + b /\ y = 2 * b
  <2>1. 2 * a + b \in Nat /\ 2 * b \in Nat \ {0}
    OBVIOUS
  <2> QED
    BY <2>1
<1>2. PICK q \in Nat : q = RoundDiv(a, b) /\ q = x \div y
  <2>1. x \div y \in Nat
    BY Quotient
  <2> QED
    BY <1>1, <2>1 DEF RoundDiv
<1>3. PICK e \in 0..y - 1 : x = y * q + e
  <2>1. \E e \in 0..y - 1 : x = y * (x \div y) + e
    BY Quotient
  <2> QED
    BY <1>2, <2>1
<1> QED
  BY <1>1, <1>2, <1>3

LEMMA PllTypes ==
  /\ Fin \in Nat \ {0} /\ CounterMax \in Nat \ {0} /\ Fraction \in Nat \ {0}
  /\ VcoMin \in Nat /\ VcoMax \in Nat
  /\ \A n \in Counters : n \in Nat \ {0} /\ n <= CounterMax
  BY PllAssumption DEF PllAssumption, Counters

LEMMA WholeIs ==
  ASSUME NEW m \in Counters, NEW n \in Counters, NEW c \in Counters
  PROVE  /\ WholeVco(m, n) \in Nat
         /\ Whole(m, n, c) = [found |-> TRUE, m |-> m, k |-> 0, n |-> n, c |-> c,
                              vco |-> WholeVco(m, n), hz |-> WholeVco(m, n) \div c]
         /\ WholeVco(m, n) \div c \in Nat
<1>1. m \in Nat /\ n \in Nat \ {0} /\ c \in Nat \ {0}
  BY PllTypes
<1>2. Fin * m \in Nat
  BY <1>1, PllTypes
<1>3. WholeVco(m, n) \in Nat
  BY <1>1, <1>2, Quotient DEF WholeVco
<1>4. WholeVco(m, n) \div c \in Nat
  BY <1>1, <1>3, Quotient
<1> QED
  BY <1>3, <1>4 DEF Whole, Solution

LEMMA WholeOnes ==
  ASSUME NEW target, NEW s \in WholeCandidates(target)
  PROVE  \E m \in Counters, n \in Counters, c \in Counters :
           s = Whole(m, n, c) /\ VcoInBand(WholeVco(m, n))
  BY DEF WholeCandidates

LEMMA WholeTyped ==
  ASSUME NEW target
  PROVE  /\ Candidates(WholeCandidates(target))
         /\ \A s \in WholeCandidates(target) : s.vco <= VcoMax /\ s.found
<1>1. ASSUME NEW s \in WholeCandidates(target)
      PROVE  /\ s.n \in Nat /\ s.c \in Nat /\ s.m \in Nat /\ s.hz \in Nat /\ s.vco \in Nat
             /\ s = Whole(s.m, s.n, s.c)
             /\ s.vco <= VcoMax /\ s.found
  <2>1. PICK m \in Counters, n \in Counters, c \in Counters :
          s = Whole(m, n, c) /\ VcoInBand(WholeVco(m, n))
    BY WholeOnes
  <2>2. m \in Nat /\ n \in Nat /\ c \in Nat
    BY PllTypes
  <2>3. /\ s.m = m /\ s.n = n /\ s.c = c /\ s.found
        /\ s.vco = WholeVco(m, n) /\ s.hz = WholeVco(m, n) \div c
        /\ s.vco \in Nat /\ s.hz \in Nat
    BY <2>1, WholeIs
  <2> QED
    BY <2>1, <2>2, <2>3 DEF VcoInBand
<1> QED
  BY <1>1 DEF Candidates

LEMMA FracIs ==
  ASSUME NEW target \in Nat \ {0}, NEW n \in Counters, NEW c \in Counters,
         Rounded(target, n, c) \div Fraction \in Counters
  PROVE  \E m \in Counters, k \in Nat, vco \in Nat, hz \in Nat :
           /\ Rounded(target, n, c) = m * Fraction + k
           /\ vco = RoundDiv(Fin * (m * Fraction + k), Fraction * n) /\ hz = RoundDiv(vco, c)
           /\ k < Fraction
           /\ FracSolution(target, n, c) = [found |-> TRUE, m |-> m, k |-> k, n |-> n, c |-> c,
                                            vco |-> vco, hz |-> hz]
<1>1. n \in Nat \ {0} /\ c \in Nat \ {0} /\ Fin \in Nat \ {0} /\ Fraction \in Nat \ {0}
  BY PllTypes
<1>2. PICK r \in Nat : r = Rounded(target, n, c)
  <2>1. target * c * n \in Nat
    <3>1. target * c \in Nat
      BY <1>1
    <3> QED
      BY <1>1, <3>1
  <2>2. PICK g \in Nat : g = target * c * n
    BY <2>1
  <2>3. PICK w \in Nat, e \in 0..Fin - 1 : w = g \div Fin /\ g = Fin * w + e
    BY <1>1, Quotient
  <2>4. g - w * Fin = e
    <3>1. PICK fw \in Nat : fw = Fin * w
      BY <1>1
    <3>2. w * Fin = fw
      BY <1>1, <3>1
    <3> QED
      BY <2>3, <3>1, <3>2
  <2>5. e * Fraction \in Nat /\ w * Fraction \in Nat
    BY <1>1
  <2>6. RoundDiv(e * Fraction, Fin) \in Nat
    BY <1>1, <2>5, RoundDivIs
  <2>7. Rounded(target, n, c) = w * Fraction + RoundDiv(e * Fraction, Fin)
    BY <2>2, <2>3, <2>4 DEF Rounded
  <2> QED
    BY <2>5, <2>6, <2>7
<1>3. r \div Fraction \in Nat /\ r % Fraction \in 0..Fraction - 1
      /\ r = (r \div Fraction) * Fraction + (r % Fraction)
  BY <1>1, PutTogether
<1>4. PICK m \in Counters, k \in 0..Fraction - 1 : m = r \div Fraction /\ k = r % Fraction
  BY <1>2, <1>3
<1>5. r = m * Fraction + k
  BY <1>3, <1>4
<1>6. Fin * r \in Nat /\ Fraction * n \in Nat \ {0}
  BY <1>1
<1>7. PICK vco \in Nat : vco = RoundDiv(Fin * r, Fraction * n)
  BY <1>6, RoundDivIs
<1>8. PICK hz \in Nat : hz = RoundDiv(vco, c)
  BY <1>1, RoundDivIs
<1>9. FracSolution(target, n, c) = [found |-> TRUE, m |-> m, k |-> k, n |-> n, c |-> c,
                                    vco |-> vco, hz |-> hz]
  BY <1>2, <1>4, <1>7, <1>8 DEF FracSolution, FracVco, Solution
<1>10. k \in Nat /\ k < Fraction
  BY <1>1
<1> QED
  BY <1>2, <1>5, <1>7, <1>8, <1>9, <1>10

LEMMA FracTyped ==
  ASSUME NEW target \in Nat \ {0}
  PROVE  /\ Candidates(FracCandidates(target))
         /\ \A s \in FracCandidates(target) : s.found
         /\ \E V \in Nat : \A s \in FracCandidates(target) : s.vco <= V
<1>1. ASSUME NEW s \in FracCandidates(target)
      PROVE  \E n \in Counters, c \in Counters :
               s = FracSolution(target, n, c) /\ Rounded(target, n, c) \div Fraction \in Counters
  <2>1. PICK t \in FracSettings(target) : s = FracSolution(target, t[1], t[2])
    BY DEF FracCandidates
  <2> QED
    BY <2>1 DEF FracSettings
<1> DEFINE V == Fin * (CounterMax * Fraction + Fraction) + 1
<1>2. V \in Nat
  <2>1. CounterMax * Fraction \in Nat
    BY PllTypes
  <2>2. PICK a \in Nat : a = CounterMax * Fraction + Fraction
    BY <2>1, PllTypes
  <2>3. Fin * a \in Nat
    BY PllTypes
  <2> QED
    BY <2>2, <2>3
<1>3. ASSUME NEW s \in FracCandidates(target)
      PROVE  /\ s.n \in Nat /\ s.c \in Nat /\ s.m \in Nat /\ s.hz \in Nat /\ s.vco \in Nat
             /\ s = FracSolution(target, s.n, s.c)
             /\ s.vco <= V /\ s.found
  <2>1. PICK n \in Counters, c \in Counters :
          s = FracSolution(target, n, c) /\ Rounded(target, n, c) \div Fraction \in Counters
    BY <1>1
  <2>2. PICK m \in Counters, k \in Nat, vco \in Nat, hz \in Nat :
          /\ vco = RoundDiv(Fin * (m * Fraction + k), Fraction * n)
          /\ k < Fraction
          /\ s = [found |-> TRUE, m |-> m, k |-> k, n |-> n, c |-> c, vco |-> vco, hz |-> hz]
    BY <2>1, FracIs
  <2>3. m \in Nat /\ n \in Nat \ {0} /\ c \in Nat /\ m <= CounterMax
    BY PllTypes
  <2>4. PICK r \in Nat, R \in Nat : r = m * Fraction + k /\ R = CounterMax * Fraction + Fraction
    <3>1. m * Fraction \in Nat /\ CounterMax * Fraction \in Nat
      BY <2>3, PllTypes
    <3> QED
      BY <3>1, PllTypes
  <2>5. r <= R
    <3>1. m * Fraction <= CounterMax * Fraction /\ m * Fraction \in Nat /\ CounterMax * Fraction \in Nat
      BY <2>3, PllTypes, Scales
    <3>2. Fraction \in Nat
      BY PllTypes
    <3> QED
      BY <2>2, <2>4, <3>1, <3>2
  <2>6. PICK f \in Nat, F \in Nat, g \in Nat \ {0} : f = Fin * r /\ F = Fin * R /\ g = Fraction * n
    <3>1. Fin * r \in Nat /\ Fin * R \in Nat /\ Fraction * n \in Nat \ {0}
      BY <2>3, PllTypes
    <3> QED
      BY <3>1
  <2>7. f <= F
    <3>1. r * Fin <= R * Fin
      BY <2>5, PllTypes, Scales
    <3>2. r * Fin = Fin * r /\ R * Fin = Fin * R
      BY PllTypes
    <3> QED
      BY <2>6, <3>1, <3>2
  <2>8. vco <= f + 1
    <3>1. vco = RoundDiv(f, g)
      BY <2>2, <2>4, <2>6
    <3>2. PICK e \in 0..2 * g - 1 : 2 * f + g = 2 * g * vco + e
      BY <3>1, RoundDivIs
    <3>3. CASE vco >= f + 2
      <4>1. PICK d \in Nat : vco = f + 2 + d
        <5>1. vco - (f + 2) \in Nat
          BY <3>3
        <5> QED
          BY <5>1
      <4>2. 2 * g * vco = 2 * (g * f) + 4 * g + 2 * (g * d)
        BY <4>1
      <4>3. g * f >= f /\ g * d >= 0 /\ g * f \in Nat /\ g * d \in Nat
        OBVIOUS
      <4> QED
        BY <3>2, <4>2, <4>3
    <3> QED
      BY <3>3
  <2>9. vco <= V
    BY <2>4, <2>6, <2>7, <2>8
  <2>10. s.n = n /\ s.c = c /\ s.m = m /\ s.hz = hz /\ s.vco = vco /\ s.found
    BY <2>2
  <2>11. s = FracSolution(target, s.n, s.c)
    BY <2>1, <2>10
  <2> QED
    BY <2>3, <2>9, <2>10, <2>11
<1>4. Candidates(FracCandidates(target))
  BY <1>3 DEF Candidates
<1> HIDE DEF V
<1> QED
  BY <1>2, <1>3, <1>4

\* What the solver answers is one of the settings it looked at.
LEMMA SolvedIsOne ==
  ASSUME NEW target \in Nat \ {0}, NEW fractional \in BOOLEAN,
         PllSolveBest(target, fractional).found
  PROVE  \/ PllSolveBest(target, fractional) \in WholeCandidates(target)
         \/ fractional /\ PllSolveBest(target, fractional) \in FracCandidates(target)
<1> DEFINE all == WholeCandidates(target)
           fracs == FracCandidates(target)
<1>1. Candidates(all) /\ \A s \in all : s.vco <= VcoMax
  BY WholeTyped
<1>2. ~NoSolution.found
  BY DEF NoSolution
<1>3. PllSolve(target) = NoSolution \/ PllSolve(target) \in all
  <2> DEFINE good == {s \in all : s.hz = target /\ s.vco >= VcoMax \div 2}
  <2> HIDE DEF all
  <2>1. PllSolve(target) = IF all = {} THEN NoSolution
                           ELSE IF good # {} THEN FirstOf(good) ELSE BestOf(target, all)
    BY DEF PllSolve, all
  <2>2. good \subseteq all /\ Candidates(good)
    BY <1>1 DEF Candidates
  <2> HIDE DEF good
  <2>3. good # {} => FirstOf(good) \in all
    BY <2>2, FirstIsOne
  <2>4. all # {} => BestOf(target, all) \in all
    BY <1>1, PllTypes, BestIsOne
  <2> QED
    BY <2>1, <2>3, <2>4
<1>4. PllSolveFrac(target) = NoSolution \/ PllSolveFrac(target) \in fracs
  <2>1. Candidates(fracs) /\ \E V \in Nat : \A s \in fracs : s.vco <= V
    BY FracTyped
  <2>2. PllSolveFrac(target) = IF fracs = {} THEN NoSolution ELSE BestOf(target, fracs)
    BY DEF PllSolveFrac
  <2> HIDE DEF fracs
  <2>3. fracs # {} => BestOf(target, fracs) \in fracs
    BY <2>1, BestIsOne
  <2> QED
    BY <2>2, <2>3
<1> DEFINE whole == PllSolve(target)
           frac == PllSolveFrac(target)
<1>5. PllSolveBest(target, fractional) = whole \/ (fractional /\ PllSolveBest(target, fractional) = frac)
  BY DEF PllSolveBest
<1> QED
  BY <1>2, <1>3, <1>4, <1>5

-----------------------------------------------------------------------------
(* The writes *)

\* The counters a search may name fit their fields: 510 in pll.c:45 and in
\* pll_reconfig.h:64.
CountersFit == CounterMax <= DivideMax

\* A counter reads back as what it was given.
LEMMA CounterReadsBack ==
  ASSUME NEW d \in 1..DivideMax
  PROVE  DecodeCounter(EncodeCounter(d)) = d
<1>1. d \in Nat /\ d >= 1 /\ d <= 510
  BY DEF DivideMax
<1>2. CASE d <= 1
  BY <1>1, <1>2 DEF EncodeCounter, DivideMax, Bypass, Byte, DecodeCounter
<1>3. CASE d > 1
  <2>1. EncodeCounter(d) = [bypass |-> FALSE, odd |-> d % 2,
                            high |-> ((d + 1) \div 2) % 256, low |-> (d \div 2) % 256]
    <3>1. EncodeCounter(d) = Byte(Halves(d))
      BY <1>1, <1>3 DEF EncodeCounter, DivideMax
    <3>2. Halves(d) = [bypass |-> FALSE, odd |-> d % 2, high |-> (d + 1) \div 2, low |-> d \div 2]
      BY DEF Halves
    <3>3. \A x, y, z, w, v :
            /\ [[bypass |-> x, odd |-> y, high |-> z, low |-> w] EXCEPT !.high = v] =
                 [bypass |-> x, odd |-> y, high |-> v, low |-> w]
            /\ [[bypass |-> x, odd |-> y, high |-> z, low |-> w] EXCEPT !.low = v] =
                 [bypass |-> x, odd |-> y, high |-> z, low |-> v]
      OBVIOUS
    <3> DEFINE c == Halves(d)
               high == c.high % 256
               u == [c EXCEPT !.high = high]
               low == u.low % 256
               no == FALSE
               o == d % 2
               z == (d + 1) \div 2
               w == d \div 2
    <3>4. c = [bypass |-> no, odd |-> o, high |-> z, low |-> w]
      BY <3>2
    <3>5. Byte(c) = [u EXCEPT !.low = low]
      BY <3>4 DEF Byte
    <3>6. high = z % 256
      BY <3>2
    <3> HIDE DEF c, no, o, z, w, high
    <3>7. u = [bypass |-> no, odd |-> o, high |-> high, low |-> w]
      BY <3>3, <3>4
    <3> HIDE DEF u
    <3>8. low = w % 256
      BY <3>7
    <3> HIDE DEF low
    <3>9. Byte(c) = [bypass |-> no, odd |-> o, high |-> high, low |-> low]
      BY <3>3, <3>5, <3>7
    <3> QED
      BY <3>1, <3>6, <3>8, <3>9 DEF c, no, o, z, w
  <2>2. ((d + 1) \div 2) % 256 = (d + 1) \div 2 /\ (d \div 2) % 256 = d \div 2
    BY <1>1
  <2>3. (d + 1) \div 2 + d \div 2 = d
    BY <1>1
  <2> QED
    BY <2>1, <2>2, <2>3 DEF DecodeCounter
<1> QED
  BY <1>1, <1>2, <1>3

\* The whole set is staged before START takes it.
LEMMA AllTaken ==
  ASSUME NEW p, NEW index, Buildable(p, index)
  PROVE  Latched(ReconfigBuild(p, index)) =
           [N |-> EncodeCounter(p.n), M |-> EncodeCounter(p.m), K |-> p.k,
            C |-> [counter |-> EncodeCounter(p.c), index |-> index], MODE |-> "poll"]
<1> DEFINE writes == ReconfigBuild(p, index)
           zero == [N |-> 0, M |-> 0, K |-> 0, C |-> 0, MODE |-> "wait"]
           set == [N |-> EncodeCounter(p.n), M |-> EncodeCounter(p.m), K |-> p.k,
                   C |-> [counter |-> EncodeCounter(p.c), index |-> index], MODE |-> "poll"]
           Then(s, w) == IF w.register = "START" THEN [s EXCEPT !.live = s.staged]
                         ELSE [s EXCEPT !.staged[w.register] = w.value]
           s0 == [staged |-> zero, live |-> <<>>]
           s1 == Then(s0, writes[1])
           s2 == Then(s1, writes[2])
           s3 == Then(s2, writes[3])
           s4 == Then(s3, writes[4])
           s5 == Then(s4, writes[5])
           s6 == Then(s5, writes[6])
           IsAfter(f) == f = [k \in 0..6 |-> IF k = 0 THEN s0 ELSE Then(f[k - 1], writes[k])]
           After == CHOOSE f : IsAfter(f)
<1>1. writes = << Write("MODE", "poll"), Write("N", EncodeCounter(p.n)), Write("M", EncodeCounter(p.m)),
                  Write("K", p.k), Write("C", [counter |-> EncodeCounter(p.c), index |-> index]),
                  Write("START", 1) >>
  BY DEF ReconfigBuild
<1>2. Len(writes) = 6
  BY <1>1
<1>3. Latched(writes) = After[6].live
  BY <1>2 DEF Latched
<1>4. /\ s1 = [staged |-> [zero EXCEPT !.MODE = "poll"], live |-> <<>>]
      /\ s2 = [staged |-> [s1.staged EXCEPT !.N = set.N], live |-> <<>>]
      /\ s3 = [staged |-> [s2.staged EXCEPT !.M = set.M], live |-> <<>>]
      /\ s4 = [staged |-> [s3.staged EXCEPT !.K = set.K], live |-> <<>>]
      /\ s5 = [staged |-> [s4.staged EXCEPT !.C = set.C], live |-> <<>>]
      /\ s6 = [staged |-> s5.staged, live |-> s5.staged]
  <2> DEFINE Put(s, r, v) == Then(s, Write(r, v))
  <2>1. \A g, v : Put([staged |-> g, live |-> <<>>], "START", v) = [staged |-> g, live |-> g]
    BY DEF Write
  <2>2. \A g, v, r : r # "START" =>
          Put([staged |-> g, live |-> <<>>], r, v) = [staged |-> [g EXCEPT ![r] = v], live |-> <<>>]
    BY DEF Write
  <2>3. /\ s1 = Put(s0, "MODE", "poll") /\ s2 = Put(s1, "N", set.N) /\ s3 = Put(s2, "M", set.M)
        /\ s4 = Put(s3, "K", set.K) /\ s5 = Put(s4, "C", set.C) /\ s6 = Put(s5, "START", 1)
    <3> HIDE DEF Then
    <3> QED
      BY <1>1
  <2> HIDE DEF Put, s1, s2, s3, s4, s5, s6, set, zero
  <2>4. s1 = [staged |-> [zero EXCEPT !.MODE = "poll"], live |-> <<>>]
    BY <2>2, <2>3
  <2>5. s2 = [staged |-> [s1.staged EXCEPT !.N = set.N], live |-> <<>>]
    <3>1. s1 = [staged |-> s1.staged, live |-> <<>>]
      BY <2>4
    <3>2. Put([staged |-> s1.staged, live |-> <<>>], "N", set.N) =
            [staged |-> [s1.staged EXCEPT !.N = set.N], live |-> <<>>]
      BY <2>2
    <3> QED
      BY <2>3, <3>1, <3>2
  <2>6. s3 = [staged |-> [s2.staged EXCEPT !.M = set.M], live |-> <<>>]
    <3>1. s2 = [staged |-> s2.staged, live |-> <<>>]
      BY <2>5
    <3>2. Put([staged |-> s2.staged, live |-> <<>>], "M", set.M) =
            [staged |-> [s2.staged EXCEPT !.M = set.M], live |-> <<>>]
      BY <2>2
    <3> QED
      BY <2>3, <3>1, <3>2
  <2>7. s4 = [staged |-> [s3.staged EXCEPT !.K = set.K], live |-> <<>>]
    <3>1. s3 = [staged |-> s3.staged, live |-> <<>>]
      BY <2>6
    <3>2. Put([staged |-> s3.staged, live |-> <<>>], "K", set.K) =
            [staged |-> [s3.staged EXCEPT !.K = set.K], live |-> <<>>]
      BY <2>2
    <3> QED
      BY <2>3, <3>1, <3>2
  <2>8. s5 = [staged |-> [s4.staged EXCEPT !.C = set.C], live |-> <<>>]
    <3>1. s4 = [staged |-> s4.staged, live |-> <<>>]
      BY <2>7
    <3>2. Put([staged |-> s4.staged, live |-> <<>>], "C", set.C) =
            [staged |-> [s4.staged EXCEPT !.C = set.C], live |-> <<>>]
      BY <2>2
    <3> QED
      BY <2>3, <3>1, <3>2
  <2>9. s6 = [staged |-> s5.staged, live |-> s5.staged]
    BY <2>1, <2>3, <2>8
  <2> QED
    BY <2>4, <2>5, <2>6, <2>7, <2>8, <2>9
<1>5. s6.live = set
  <2>1. \A a, b, c, d, e, v :
          /\ [[N |-> a, M |-> b, K |-> c, C |-> d, MODE |-> e] EXCEPT !.N = v] =
               [N |-> v, M |-> b, K |-> c, C |-> d, MODE |-> e]
          /\ [[N |-> a, M |-> b, K |-> c, C |-> d, MODE |-> e] EXCEPT !.M = v] =
               [N |-> a, M |-> v, K |-> c, C |-> d, MODE |-> e]
          /\ [[N |-> a, M |-> b, K |-> c, C |-> d, MODE |-> e] EXCEPT !.K = v] =
               [N |-> a, M |-> b, K |-> v, C |-> d, MODE |-> e]
          /\ [[N |-> a, M |-> b, K |-> c, C |-> d, MODE |-> e] EXCEPT !.C = v] =
               [N |-> a, M |-> b, K |-> c, C |-> v, MODE |-> e]
          /\ [[N |-> a, M |-> b, K |-> c, C |-> d, MODE |-> e] EXCEPT !.MODE = v] =
               [N |-> a, M |-> b, K |-> c, C |-> d, MODE |-> v]
    OBVIOUS
  <2> HIDE DEF s1, s2, s3, s4, s5, s6
  <2>2. s1.staged = [N |-> 0, M |-> 0, K |-> 0, C |-> 0, MODE |-> "poll"]
    BY <1>4, <2>1
  <2>3. s2.staged = [N |-> set.N, M |-> 0, K |-> 0, C |-> 0, MODE |-> "poll"]
    <3> HIDE DEF set
    <3> QED
      BY <1>4, <2>1, <2>2
  <2>4. s3.staged = [N |-> set.N, M |-> set.M, K |-> 0, C |-> 0, MODE |-> "poll"]
    <3> HIDE DEF set
    <3> QED
      BY <1>4, <2>1, <2>3
  <2>5. s4.staged = [N |-> set.N, M |-> set.M, K |-> set.K, C |-> 0, MODE |-> "poll"]
    <3> HIDE DEF set
    <3> QED
      BY <1>4, <2>1, <2>4
  <2>6. s5.staged = [N |-> set.N, M |-> set.M, K |-> set.K, C |-> set.C, MODE |-> "poll"]
    <3> HIDE DEF set
    <3> QED
      BY <1>4, <2>1, <2>5
  <2> QED
    BY <1>4, <2>6
<1> HIDE DEF writes, Then, s0, s1, s2, s3, s4, s5, s6
<1>6. /\ s1 = Then(s0, writes[1]) /\ s2 = Then(s1, writes[2]) /\ s3 = Then(s2, writes[3])
      /\ s4 = Then(s3, writes[4]) /\ s5 = Then(s4, writes[5]) /\ s6 = Then(s5, writes[6])
  BY DEF s1, s2, s3, s4, s5, s6
<1>7. IsAfter(After)
  <2> DEFINE F == [k \in 0..6 |-> IF k = 0 THEN s0 ELSE IF k = 1 THEN s1 ELSE IF k = 2 THEN s2
                                  ELSE IF k = 3 THEN s3 ELSE IF k = 4 THEN s4
                                  ELSE IF k = 5 THEN s5 ELSE s6]
  <2>1. ASSUME NEW k \in 0..6 PROVE F[k] = IF k = 0 THEN s0 ELSE Then(F[k - 1], writes[k])
    <3>1. F[0] = s0 /\ F[1] = s1 /\ F[2] = s2 /\ F[3] = s3 /\ F[4] = s4 /\ F[5] = s5 /\ F[6] = s6
      OBVIOUS
    <3> HIDE DEF F
    <3>2. k \in {0, 1, 2, 3, 4, 5, 6}
      OBVIOUS
    <3>3. CASE k = 0
      BY <3>1, <3>3
    <3>4. CASE k = 1
      BY <1>6, <3>1, <3>4
    <3>5. CASE k = 2
      BY <1>6, <3>1, <3>5
    <3>6. CASE k = 3
      BY <1>6, <3>1, <3>6
    <3>7. CASE k = 4
      BY <1>6, <3>1, <3>7
    <3>8. CASE k = 5
      BY <1>6, <3>1, <3>8
    <3>9. CASE k = 6
      BY <1>6, <3>1, <3>9
    <3> QED
      BY <3>2, <3>3, <3>4, <3>5, <3>6, <3>7, <3>8, <3>9
  <2>2. F = [k \in 0..6 |-> F[k]]
    OBVIOUS
  <2> HIDE DEF F
  <2>3. IsAfter(F)
    BY <2>1, <2>2
  <2> QED
    BY <2>3
<1> HIDE DEF After
<1>8. \A k \in 0..6 : After[k] = IF k = 0 THEN s0 ELSE Then(After[k - 1], writes[k])
  BY <1>7
<1>9. After[0] = s0
  BY <1>8
<1>10. After[1] = s1
  BY <1>6, <1>8, <1>9
<1>11. After[2] = s2
  BY <1>6, <1>8, <1>10
<1>12. After[3] = s3
  BY <1>6, <1>8, <1>11
<1>13. After[4] = s4
  BY <1>6, <1>8, <1>12
<1>14. After[5] = s5
  BY <1>6, <1>8, <1>13
<1>15. After[6] = s6
  BY <1>6, <1>8, <1>14
<1> QED
  BY <1>3, <1>5, <1>15 DEF writes

\* What two roundings lose of a clock: down, in the whole search, and to the nearest, in
\* the fractional one.
LEMMA DownTwice ==
  ASSUME NEW u \in Nat, NEW n \in Nat \ {0}, NEW c \in Nat \ {0}
  PROVE  \E rest \in 0..n * c - 1 : u = n * (c * ((u \div n) \div c)) + rest
<1>1. PICK vco \in Nat, a \in 0..n - 1 : vco = u \div n /\ u = n * vco + a
  BY Quotient
<1>2. PICK hz \in Nat, b \in 0..c - 1 : hz = vco \div c /\ vco = c * hz + b
  BY Quotient
<1>3. PICK w \in Nat : w = c * hz
  OBVIOUS
<1>4. n * vco = n * w + n * b /\ n * w \in Nat /\ n * b \in Nat
  <2>1. vco = w + b /\ b \in Nat
    BY <1>2, <1>3
  <2> QED
    BY <2>1
<1>5. n * b <= n * c - n /\ n * c \in Nat
  <2>1. b <= c - 1 /\ c - 1 \in Nat /\ b \in Nat
    OBVIOUS
  <2>2. b * n <= (c - 1) * n
    BY <2>1, Scales
  <2>3. (c - 1) * n = n * c - n /\ b * n = n * b
    BY <2>1
  <2> QED
    BY <2>2, <2>3
<1>6. n * b + a \in 0..n * c - 1 /\ u = n * w + (n * b + a)
  BY <1>1, <1>4, <1>5
<1> QED
  BY <1>1, <1>2, <1>3, <1>6

LEMMA NearestTwice ==
  ASSUME NEW f \in Nat, NEW g \in Nat \ {0}, NEW c \in Nat \ {0},
         NEW vco \in Nat, vco = RoundDiv(f, g), NEW hz \in Nat, hz = RoundDiv(vco, c)
  PROVE  Distance(f, g * (c * hz)) < g * (c + 1)
<1>1. PICK e \in 0..2 * g - 1 : 2 * f + g = 2 * g * vco + e
  BY RoundDivIs
<1>2. PICK d \in 0..2 * c - 1 : 2 * vco + c = 2 * c * hz + d
  BY RoundDivIs
<1>3. PICK w \in Nat : w = c * hz
  OBVIOUS
<1>4. 2 * vco = 2 * w + d - c
  <2>1. 2 * c * hz = 2 * w
    BY <1>3
  <2>2. d \in Nat /\ 2 * vco + c = 2 * w + d
    BY <1>2, <2>1
  <2> QED
    BY <2>2
<1>5. PICK gw \in Nat, gd \in Nat, gc \in Nat, gv \in Nat :
        gw = g * w /\ gd = g * d /\ gc = g * c /\ gv = g * vco
  <2>1. g * w \in Nat /\ g * d \in Nat /\ g * c \in Nat /\ g * vco \in Nat
    OBVIOUS
  <2> QED
    BY <2>1
<1>6. 2 * gv = 2 * gw + gd - gc
  <2>1. d \in Nat
    OBVIOUS
  <2>2. g * (2 * vco) = 2 * gv
    BY <1>5
  <2>3. g * (2 * w + d - c) = 2 * gw + gd - gc
    BY <1>5, <2>1
  <2> QED
    BY <1>4, <2>2, <2>3
<1>7. 2 * f + g = 2 * gv + e
  <2>1. 2 * g * vco = 2 * gv
    BY <1>5
  <2> QED
    BY <1>1, <2>1
<1>8. gd <= 2 * gc - g
  <2>1. d <= 2 * c - 1 /\ 2 * c - 1 \in Nat /\ d \in Nat
    OBVIOUS
  <2>2. d * g <= (2 * c - 1) * g
    BY <2>1, Scales
  <2>3. (2 * c - 1) * g = 2 * gc - g /\ d * g = gd
    BY <1>5, <2>1
  <2> QED
    BY <2>2, <2>3
<1>9. f - gw < gc + g /\ gw - f < gc + g
  BY <1>6, <1>7, <1>8
<1>10. g * (c + 1) = gc + g
  BY <1>5
<1> QED
  BY <1>3, <1>5, <1>9, <1>10 DEF Distance

\* The clock of an answer's own counters is within its rounding of the clock it promises.
LEMMA ClockPromised ==
  ASSUME NEW target \in Nat \ {0},
         NEW s, s \in WholeCandidates(target) \/ s \in FracCandidates(target)
  PROVE  /\ {s.n, s.m, s.c} \subseteq Counters
         /\ s \in WholeCandidates(target) => s.k = 0
         /\ Distance(Fin * (s.m * Fraction + s.k), s.hz * s.n * s.c * Fraction)
              < (s.c + 1) * s.n * Fraction
<1>1. Fin \in Nat \ {0} /\ Fraction \in Nat \ {0} /\ \A n \in Counters : n \in Nat \ {0}
  BY PllTypes
<1>2. CASE s \in WholeCandidates(target)
  <2>1. PICK m \in Counters, n \in Counters, c \in Counters : s = Whole(m, n, c)
    BY <1>2, WholeOnes
  <2>2. m \in Nat /\ n \in Nat \ {0} /\ c \in Nat \ {0}
    BY <1>1
  <2>3. PICK u \in Nat : u = Fin * m
    BY <1>1, <2>2
  <2>4. /\ s.m = m /\ s.n = n /\ s.c = c /\ s.k = 0
        /\ s.hz = (u \div n) \div c
    BY <2>1, <2>3, WholeIs DEF WholeVco
  <2>5. PICK rest \in 0..n * c - 1 : u = n * (c * s.hz) + rest
    <3>1. \E x \in 0..n * c - 1 : u = n * (c * ((u \div n) \div c)) + x
      BY <2>2, DownTwice
    <3> QED
      BY <2>4, <3>1
  <2>6. PICK hz \in Nat : hz = s.hz
    BY <2>1, <2>2, <2>4, WholeIs
  <2>7. PICK w \in Nat, nc \in Nat : w = n * (c * hz) /\ nc = n * c
    <3>1. c * hz \in Nat
      BY <2>2
    <3>2. n * (c * hz) \in Nat /\ n * c \in Nat
      BY <2>2, <3>1
    <3> QED
      BY <3>2
  <2>8. rest \in Nat /\ rest < nc /\ u = w + rest
    BY <2>2, <2>5, <2>6, <2>7
  <2>9. Fin * (m * Fraction + 0) = w * Fraction + rest * Fraction
    <3>1. Fin * (m * Fraction + 0) = u * Fraction
      BY <1>1, <2>2, <2>3
    <3> QED
      BY <1>1, <2>8, <3>1
  <2>10. hz * n * c * Fraction = w * Fraction
    BY <1>1, <2>2, <2>7
  <2>11. (c + 1) * n * Fraction = nc * Fraction + n * Fraction
    BY <1>1, <2>2, <2>7
  <2>12. /\ w * Fraction \in Nat /\ rest * Fraction \in Nat /\ nc * Fraction \in Nat
         /\ rest * Fraction <= nc * Fraction /\ n * Fraction >= 1 /\ n * Fraction \in Nat
    <3>1. rest <= nc
      BY <2>8
    <3>2. rest * Fraction <= nc * Fraction
      BY <1>1, <2>8, <3>1, Scales
    <3> QED
      BY <1>1, <2>2, <2>8, <3>2
  <2>13. \A x \in Nat, y \in Nat, z \in Nat, v \in Nat :
           y <= z /\ v >= 1 => Distance(x + y, x) < z + v
    BY DEF Distance
  <2>14. Distance(w * Fraction + rest * Fraction, w * Fraction) < nc * Fraction + n * Fraction
    BY <2>12, <2>13
  <2>15. Distance(Fin * (m * Fraction + 0), hz * n * c * Fraction) < (c + 1) * n * Fraction
    BY <2>9, <2>10, <2>11, <2>14
  <2> QED
    BY <2>4, <2>6, <2>15
<1>3. CASE s \in FracCandidates(target)
  <2>1. PICK n \in Counters, c \in Counters :
          s = FracSolution(target, n, c) /\ Rounded(target, n, c) \div Fraction \in Counters
    <3>1. PICK t \in FracSettings(target) : s = FracSolution(target, t[1], t[2])
      BY <1>3 DEF FracCandidates
    <3> QED
      BY <3>1 DEF FracSettings
  <2>2. PICK m \in Counters, k \in Nat, vco \in Nat, hz \in Nat :
          /\ vco = RoundDiv(Fin * (m * Fraction + k), Fraction * n) /\ hz = RoundDiv(vco, c)
          /\ s = [found |-> TRUE, m |-> m, k |-> k, n |-> n, c |-> c, vco |-> vco, hz |-> hz]
    BY <2>1, FracIs
  <2>3. m \in Nat /\ n \in Nat \ {0} /\ c \in Nat \ {0}
    BY <1>1
  <2>4. PICK f \in Nat, g \in Nat \ {0} : f = Fin * (m * Fraction + k) /\ g = Fraction * n
    <3>1. PICK r \in Nat : r = m * Fraction + k
      <4>1. m * Fraction \in Nat
        BY <1>1, <2>3
      <4> QED
        BY <4>1
    <3>2. Fin * r \in Nat /\ Fraction * n \in Nat \ {0}
      BY <1>1, <2>3
    <3> QED
      BY <3>1, <3>2
  <2>5. Distance(f, g * (c * hz)) < g * (c + 1)
    BY <2>2, <2>3, <2>4, NearestTwice
  <2>6. g * (c * hz) = hz * n * c * Fraction /\ g * (c + 1) = (c + 1) * n * Fraction
    BY <1>1, <2>3, <2>4
  <2>7. s.m = m /\ s.n = n /\ s.c = c /\ s.k = k /\ s.hz = hz
    BY <2>2
  <2>8. s \in WholeCandidates(target) => s.k = 0
    BY <1>2
  <2> QED
    BY <2>4, <2>5, <2>6, <2>7, <2>8
<1> QED
  BY <1>2, <1>3

\* For every PLL whose counters fit their fields: the clock that leaves it after the writes
\* is the clock the solver promised, up to its rounding, on the counter that was meant, and
\* a whole answer leaves no fraction behind (pll.c:55-145, 163-279, pll_reconfig.c:71-141).
THEOREM WritesReachTheClock == ASSUME CountersFit PROVE Spec => []ReconfigReaches
<1>1. ASSUME NEW hz \in Targets, NEW fractional \in BOOLEAN, NEW index \in Indexes,
             PllSolveBest(hz, fractional).found, index <= CIndexMax
      PROVE  LET s == PllSolveBest(hz, fractional)
                 r == Latched(ReconfigBuild(s, index))
                 n == DecodeCounter(r.N)
                 m == DecodeCounter(r.M)
                 c == DecodeCounter(r.C.counter)
             IN /\ r.MODE = "poll" /\ r.C.index = index
                /\ Distance(Fin * (m * Fraction + r.K), s.hz * n * c * Fraction)
                     < (c + 1) * n * Fraction
                /\ ~fractional => r.K = 0
  <2> DEFINE s == PllSolveBest(hz, fractional)
             r == Latched(ReconfigBuild(s, index))
  <2>1. hz \in Nat \ {0}
    BY ArithAssumption DEF ArithAssumption
  <2>2. s \in WholeCandidates(hz) \/ (fractional /\ s \in FracCandidates(hz))
    BY <1>1, <2>1, SolvedIsOne
  <2> HIDE DEF s
  <2>3. /\ {s.n, s.m, s.c} \subseteq Counters
        /\ s \in WholeCandidates(hz) => s.k = 0
        /\ Distance(Fin * (s.m * Fraction + s.k), s.hz * s.n * s.c * Fraction)
             < (s.c + 1) * s.n * Fraction
    BY <2>1, <2>2, ClockPromised
  <2>4. {s.m, s.n, s.c} \subseteq 1..DivideMax
    <3>1. CounterMax <= 510 /\ CounterMax \in Nat
      BY PllTypes DEF CountersFit, DivideMax
    <3>2. Counters \subseteq 1..510
      BY <3>1 DEF Counters
    <3>3. s.m \in Counters /\ s.n \in Counters /\ s.c \in Counters
      BY <2>3
    <3>4. Counters \subseteq 1..DivideMax
      BY <3>2 DEF DivideMax
    <3> QED
      BY <3>3, <3>4
  <2>5. r = [N |-> EncodeCounter(s.n), M |-> EncodeCounter(s.m), K |-> s.k,
             C |-> [counter |-> EncodeCounter(s.c), index |-> index], MODE |-> "poll"]
    BY <1>1, <2>4, AllTaken DEF Buildable
  <2> HIDE DEF r
  <2>6. DecodeCounter(r.N) = s.n /\ DecodeCounter(r.M) = s.m /\ DecodeCounter(r.C.counter) = s.c
    BY <2>4, <2>5, CounterReadsBack
  <2>7. r.MODE = "poll" /\ r.C.index = index /\ r.K = s.k
    BY <2>5
  <2> QED
    BY <2>2, <2>3, <2>6, <2>7 DEF r, s
<1>2. AnswerInv => ReconfigReaches
  <2> SUFFICES ASSUME AnswerInv, Returned("retune"), result.solved.found
               PROVE IF call.index > CIndexMax THEN result.writes = <<>>
                     ELSE LET r == Latched(result.writes)
                              n == DecodeCounter(r.N)
                              m == DecodeCounter(r.M)
                              c == DecodeCounter(r.C.counter)
                          IN /\ r.MODE = "poll" /\ r.C.index = call.index
                             /\ Distance(Fin * (m * Fraction + r.K), result.solved.hz * n * c * Fraction)
                                  < (c + 1) * n * Fraction
                             /\ ~call.fractional => r.K = 0
    BY DEF ReconfigReaches
  <2>1. call.hz \in Targets /\ call.fractional \in BOOLEAN /\ call.index \in Indexes
    BY DEF AnswerInv, Called, Returned
  <2>2. result = [solved |-> PllSolveBest(call.hz, call.fractional),
                  writes |-> IF PllSolveBest(call.hz, call.fractional).found
                             THEN ReconfigBuild(PllSolveBest(call.hz, call.fractional), call.index)
                             ELSE <<>>]
    BY DEF AnswerInv, Answered
  <2>3. /\ result.solved = PllSolveBest(call.hz, call.fractional)
        /\ result.writes = ReconfigBuild(PllSolveBest(call.hz, call.fractional), call.index)
    BY <2>2
  <2>4. call.index \in Nat
    BY <2>1, ArithAssumption DEF ArithAssumption
  <2>5. CASE call.index > CIndexMax
    <3>1. ~(call.index <= CIndexMax)
      BY <2>4, <2>5 DEF CIndexMax
    <3> QED
      BY <2>3, <2>5, <3>1 DEF ReconfigBuild, Buildable
  <2>6. CASE ~(call.index > CIndexMax)
    <3>1. call.index <= CIndexMax
      BY <2>4, <2>6 DEF CIndexMax
    <3> QED
      BY <1>1, <2>1, <2>3, <2>6, <3>1
  <2> QED
    BY <2>5, <2>6
<1> QED
  BY <1>2, AnswerInit, AnswerStep, PTL DEF Spec

-----------------------------------------------------------------------------
(* The nearest clock *)

\* The output counter to be at home on: the VCO it needs for a clock lies a step inside
\* the band on either side, and in its upper half unless no counter is twice as large; and
\* the multiplier it needs is one the field holds.
Home(hz, n, c) ==
  /\ VcoMin + Fin <= hz * c /\ hz * c + Fin <= VcoMax
  /\ VcoMax + Fin <= 2 * (hz * c) \/ CounterMax <= 2 * c
  /\ hz * c * n + Fin <= CounterMax * Fin
\* Every clock has one, and a step of the multiplier is a hertz at least.
Homely ==
  /\ \A n \in Counters, c \in Counters : n * c <= Fin
  /\ \A hz \in Targets, n \in Counters : PfdInBand(n) => \E c \in Counters : Home(hz, n, c)

\* A setting in the terms of the search: its product by the counters, and what the
\* two roundings leave.
LEMMA SettingIs ==
  ASSUME NEW m \in Counters, NEW n \in Counters, NEW c \in Counters
  PROVE  /\ Whole(m, n, c).hz \in Nat /\ Whole(m, n, c).n = n /\ Whole(m, n, c).c = c /\ Whole(m, n, c).m = m
         /\ WholeVco(m, n) \in Nat
         /\ \E r \in 0..n - 1 : Fin * m = n * WholeVco(m, n) + r
         /\ Whole(m, n, c).hz * c <= WholeVco(m, n)
         /\ \E r \in 0..n * c - 1 : Fin * m = n * c * Whole(m, n, c).hz + r
<1>1. m \in Nat /\ n \in Nat \ {0} /\ c \in Nat \ {0} /\ Fin * m \in Nat
  BY PllTypes
<1>2. PICK vco \in Nat, hz \in Nat : vco = WholeVco(m, n) /\ hz = vco \div c
  BY WholeIs
<1>3. Whole(m, n, c).hz = hz /\ Whole(m, n, c).n = n /\ Whole(m, n, c).c = c /\ Whole(m, n, c).m = m
  BY <1>2, WholeIs
<1>4. PICK u \in Nat : u = Fin * m
  BY <1>1
<1>5. vco = u \div n
  BY <1>2, <1>4 DEF WholeVco
<1>6. \E r \in 0..n - 1 : u = n * vco + r
  BY <1>1, <1>5, Quotient
<1>7. \E r \in 0..c - 1 : vco = c * hz + r
  BY <1>1, <1>2, Quotient
<1>8. hz * c <= vco
  <2>1. PICK r \in 0..c - 1 : vco = c * hz + r
    BY <1>7
  <2>2. PICK w \in Nat : w = c * hz /\ w = hz * c
    BY <1>1
  <2> QED
    BY <1>1, <2>1, <2>2
<1>9. \E r \in 0..n * c - 1 : u = n * c * hz + r
  <2>1. PICK r \in 0..n * c - 1 : u = n * (c * ((u \div n) \div c)) + r
    BY <1>1, DownTwice
  <2>2. n * (c * hz) = n * c * hz
    BY <1>1
  <2>3. (u \div n) \div c = hz
    BY <1>2, <1>5
  <2> QED
    BY <2>1, <2>2, <2>3
<1> QED
  BY <1>2, <1>3, <1>4, <1>6, <1>8, <1>9

\* Products by a factor that is not zero.
LEMMA Cancels ==
  ASSUME NEW p \in Nat \ {0}, NEW x \in Int, NEW y \in Int, p * x < p * y
  PROVE  x < y
<1>1. PICK d \in Int : y = x + d
  <2>1. y - x \in Int /\ y = x + (y - x)
    OBVIOUS
  <2> QED
    BY <2>1
<1>2. p * y = p * x + p * d /\ p * x \in Int /\ p * d \in Int
  BY <1>1
<1>3. p * d > 0
  BY <1>2
<1>4. d > 0
  <2>1. CASE d <= 0
    <3>1. PICK e \in Nat : d = -e
      <4>1. -d \in Nat /\ d = -(-d)
        BY <2>1
      <4> QED
        BY <4>1
    <3>2. p * e \in Nat /\ p * d = -(p * e)
      BY <3>1
    <3> QED
      BY <1>3, <3>2
  <2> QED
    BY <2>1
<1> QED
  BY <1>1, <1>4

\* The multiplier the search starts from.
LEMMA Either ==
  ASSUME NEW hz \in Nat \ {0}, NEW n \in Counters, NEW c \in Counters
  PROVE  \E q \in Nat, e \in 0..Fin - 1 :
           /\ q = (hz * c * n) \div Fin
           /\ hz * c * n = Fin * q + e
           /\ EitherSide(hz, n, c) = {q, q + 1}
<1>1. n \in Nat /\ c \in Nat /\ Fin \in Nat \ {0}
  BY PllTypes
<1>2. PICK a \in Nat : a = hz * c * n
  <2>1. hz * c * n \in Nat
    BY <1>1
  <2> QED
    BY <2>1
<1>3. a \div Fin \in Nat /\ \E e \in 0..Fin - 1 : a = Fin * (a \div Fin) + e
  BY <1>1, Quotient
<1> QED
  BY <1>2, <1>3 DEF EitherSide

LEMMA IsLooked ==
  ASSUME NEW hz, NEW n \in Counters, NEW c \in Counters, PfdInBand(n),
         NEW m \in EitherSide(hz, n, c), m \in Counters, VcoInBand(WholeVco(m, n))
  PROVE  Whole(m, n, c) \in WholeCandidates(hz)
<1> DEFINE ns == {x \in Counters : PfdInBand(x)}
           ones(x, y) == {Whole(w, x, y) : w \in {u \in EitherSide(hz, x, y) \cap Counters : VcoInBand(WholeVco(u, x))}}
<1>1. Whole(m, n, c) \in ones(n, c)
  OBVIOUS
<1>2. WholeCandidates(hz) = UNION {ones(x, y) : x \in ns, y \in Counters}
  BY DEF WholeCandidates
<1>3. n \in ns
  OBVIOUS
<1> HIDE DEF ones, ns
<1>4. ones(n, c) \in {ones(x, y) : x \in ns, y \in Counters}
  BY <1>3
<1> QED
  BY <1>1, <1>2, <1>4

\* At home the nearer of the two is within half a step of the multiplier, and the rounding.
LEMMA AtHome ==
  ASSUME NEW hz \in Nat \ {0}, NEW n \in Counters, NEW c \in Counters, PfdInBand(n), Home(hz, n, c)
  PROVE  \E t \in WholeCandidates(hz) :
           t.hz \in Nat /\ 2 * (n * c * (Distance(t.hz, hz) - 1)) < Fin
<1>1. n \in Nat \ {0} /\ c \in Nat \ {0} /\ Fin \in Nat \ {0} /\ VcoMin \in Nat /\ VcoMax \in Nat /\ CounterMax \in Nat \ {0}
  BY PllTypes
<1>2. PICK q \in Nat, e \in 0..Fin - 1 :
        hz * c * n = Fin * q + e /\ EitherSide(hz, n, c) = {q, q + 1}
  BY Either
<1>3. PICK v \in Nat, a \in Nat, k \in Nat \ {0} : v = hz * c /\ a = hz * c * n /\ k = n * c
  <2>1. hz * c \in Nat /\ hz * c * n \in Nat /\ n * c \in Nat \ {0}
    BY <1>1
  <2> QED
    BY <2>1
<1>4. a = n * v /\ a = k * hz
  BY <1>1, <1>3
<1>5. /\ VcoMin + Fin <= v /\ v + Fin <= VcoMax /\ a + Fin <= CounterMax * Fin
      /\ a = Fin * q + e
  BY <1>2, <1>3 DEF Home
<1>6. a >= v
  <2>1. 1 * v <= n * v
    BY <1>1, Scales
  <2> QED
    BY <1>4, <2>1
<1>7. q \in Counters /\ q + 1 \in Counters
  <2>1. PICK f \in Nat : f = Fin * q
    BY <1>1
  <2>2. q # 0
    BY <1>1, <1>5, <1>6
  <2>3. Fin * q < Fin * CounterMax
    <3>1. CounterMax * Fin = Fin * CounterMax /\ CounterMax * Fin \in Nat
      BY <1>1
    <3> QED
      BY <1>1, <1>5, <2>1, <3>1
  <2>4. q < CounterMax
    BY <1>1, <2>3, Cancels
  <2> QED
    BY <1>1, <2>2, <2>4 DEF Counters
<1>8. ASSUME NEW m \in {q, q + 1} PROVE Whole(m, n, c) \in WholeCandidates(hz)
  <2>1. m \in Counters /\ m \in Nat
    BY <1>7
  <2>2. PICK w \in Nat, r \in 0..n - 1 : w = WholeVco(m, n) /\ Fin * m = n * w + r
    <3>1. WholeVco(m, n) \in Nat
      BY <2>1, SettingIs
    <3>2. PICK r \in 0..n - 1 : Fin * m = n * WholeVco(m, n) + r
      BY <2>1, SettingIs
    <3> QED
      BY <3>1, <3>2
  <2>3. PICK f \in Nat, nw \in Nat, nf \in Nat :
          f = Fin * m /\ nw = n * w /\ nf = n * Fin /\ f >= a - e /\ f <= a + Fin /\ nf >= Fin
    <3>1. Fin * (q + 1) = Fin * q + Fin /\ Fin * q \in Nat
      BY <1>1
    <3>2. Fin * m \in Nat /\ Fin * m >= a - e /\ Fin * m <= a + Fin
      BY <1>1, <1>5, <2>1, <3>1
    <3>3. 1 * Fin <= n * Fin
      BY <1>1, Scales
    <3>4. n * w \in Nat /\ n * Fin \in Nat
      BY <1>1
    <3>5. n * Fin >= Fin
      BY <1>1, <3>3
    <3> QED
      BY <3>2, <3>4, <3>5
  <2>4. f = nw + r
    BY <2>2, <2>3
  <2>5. v - Fin < w + 1
    <3>1. n * (v - Fin) = a - nf /\ n * (w + 1) = nw + n
      BY <1>1, <1>4, <2>3
    <3>2. n * (v - Fin) < n * (w + 1)
      BY <1>1, <2>3, <2>4, <3>1
    <3> QED
      BY <1>1, <3>2, Cancels
  <2>6. w < v + Fin + 1
    <3>1. n * (v + Fin + 1) = a + nf + n
      BY <1>1, <1>4, <2>3
    <3>2. n * w < n * (v + Fin + 1)
      BY <1>1, <2>3, <2>4, <3>1
    <3> QED
      BY <1>1, <3>2, Cancels
  <2>7. VcoInBand(WholeVco(m, n))
    BY <1>1, <1>5, <2>2, <2>5, <2>6 DEF VcoInBand
  <2> QED
    BY <1>2, <2>1, <2>7, IsLooked
<1>9. CASE 2 * e <= Fin
  <2> DEFINE t == Whole(q, n, c)
  <2>1. PICK x \in Nat, r \in 0..k - 1 : x = t.hz /\ Fin * q = k * x + r
    <3>1. \E r \in 0..n * c - 1 : Fin * q = n * c * Whole(q, n, c).hz + r
      BY <1>7, SettingIs
    <3>2. t.hz \in Nat
      BY <1>7, SettingIs
    <3> QED
      BY <1>3, <3>1, <3>2
  <2>2. PICK f \in Nat, kx \in Nat, kh \in Nat : f = Fin * q /\ kx = k * x /\ kh = k * hz
    BY <1>1, <1>3
  <2>3. f = kx + r /\ kh = f + e
    BY <1>4, <1>5, <2>1, <2>2
  <2>4. x < hz + 1
    <3>1. k * (hz + 1) = kh + k
      BY <2>2
    <3>2. k * x < k * (hz + 1)
      BY <2>2, <2>3, <3>1
    <3> QED
      BY <3>2, Cancels
  <2>5. Distance(x, hz) = hz - x
    BY <2>4 DEF Distance
  <2>6. k * (hz - x - 1) = kh - kx - k
    BY <2>2
  <2>7. 2 * (k * (hz - x - 1)) < Fin
    BY <1>1, <1>9, <2>3, <2>6
  <2> QED
    BY <1>3, <1>8, <2>1, <2>5, <2>7
<1>10. CASE 2 * e > Fin
  <2> DEFINE t == Whole(q + 1, n, c)
  <2>1. PICK x \in Nat, r \in 0..k - 1 : x = t.hz /\ Fin * (q + 1) = k * x + r
    <3>1. \E r \in 0..n * c - 1 : Fin * (q + 1) = n * c * Whole(q + 1, n, c).hz + r
      BY <1>7, SettingIs
    <3>2. t.hz \in Nat
      BY <1>7, SettingIs
    <3> QED
      BY <1>3, <3>1, <3>2
  <2>2. PICK f \in Nat, kx \in Nat, kh \in Nat : f = Fin * (q + 1) /\ kx = k * x /\ kh = k * hz
    BY <1>1, <1>3
  <2>3. f = kx + r /\ f = kh - e + Fin
    <3>1. PICK g \in Nat : g = Fin * q
      BY <1>1
    <3>2. Fin * (q + 1) = g + Fin
      BY <1>1, <3>1
    <3>3. kh = g + e
      BY <1>4, <1>5, <2>2, <3>1
    <3>4. f = kx + r /\ f = g + Fin
      BY <2>1, <2>2, <3>2
    <3> QED
      BY <1>1, <3>3, <3>4
  <2>4. hz < x + 1
    <3>1. k * (x + 1) = kx + k
      BY <2>2
    <3>2. k * hz < k * (x + 1)
      BY <1>1, <2>2, <2>3, <3>1
    <3> QED
      BY <3>2, Cancels
  <2>5. Distance(x, hz) = x - hz
    BY <2>4 DEF Distance
  <2>6. k * (x - hz - 1) = kx - kh - k
    BY <2>2
  <2>7. 2 * (k * (x - hz - 1)) < Fin
    BY <1>1, <1>10, <2>3, <2>6
  <2> QED
    BY <1>3, <1>8, <2>1, <2>5, <2>7
<1> QED
  BY <1>1, <1>9, <1>10

LEMMA SettingsAre ==
  ASSUME NEW s \in WholeSettings
  PROVE  \E m \in Counters, n \in Counters, c \in Counters :
           s = Whole(m, n, c) /\ VcoInBand(WholeVco(m, n)) /\ PfdInBand(n)
  BY DEF WholeSettings

\* Twice a half is no more than a whole, also where both are rounded.
LEMMA HalfStep ==
  ASSUME NEW k \in Nat \ {0}, NEW d \in Nat, NEW b \in Nat, d > b
  PROVE  k * (d - 1) \in Nat /\ k * b \in Nat /\ k * b <= k * (d - 1)
<1>1. PICK g \in Nat : g = d - 1
  <2>1. d - 1 \in Nat
    OBVIOUS
  <2> QED
    BY <2>1
<1>2. b <= g
  BY <1>1
<1>3. b * k <= g * k
  BY <1>2, Scales
<1>4. b * k = k * b /\ g * k = k * g /\ k * g \in Nat /\ k * b \in Nat
  OBVIOUS
<1> QED
  BY <1>1, <1>3, <1>4

\* A setting that falls short of the multiplier the search starts from by a step or more.
LEMMA FallsShort ==
  ASSUME NEW hz \in Nat \ {0}, NEW n \in Counters, NEW c \in Counters, NEW h \in Counters,
         Home(hz, n, h), NEW x \in Nat, x * c <= VcoMax, n * c * x + Fin <= n * c * hz,
         NEW d \in Nat, 2 * (n * h * (d - 1)) < Fin
  PROVE  d <= Distance(x, hz)
<1>1. n \in Nat \ {0} /\ c \in Nat \ {0} /\ h \in Nat \ {0} /\ Fin \in Nat \ {0} /\ VcoMax \in Nat /\ c <= CounterMax
      /\ CounterMax \in Nat
  BY PllTypes
<1>2. PICK k \in Nat \ {0}, l \in Nat \ {0} : k = n * c /\ l = n * h
  <2>1. n * c \in Nat \ {0} /\ n * h \in Nat \ {0}
    BY <1>1
  <2> QED
    BY <2>1
<1>3. k * x < k * hz /\ k * x + Fin <= k * hz
  <2>1. k * x \in Nat /\ k * hz \in Nat
    OBVIOUS
  <2>2. k * x + Fin <= k * hz
    BY <1>2
  <2> QED
    BY <1>1, <2>1, <2>2
<1>4. x < hz
  BY <1>3, Cancels
<1>5. PICK b \in Nat : b = hz - x
  <2>1. hz - x \in Nat
    BY <1>4
  <2> QED
    BY <2>1
<1>6. Distance(x, hz) = b
  BY <1>4, <1>5 DEF Distance
<1>7. k * b >= Fin
  <2>1. hz = x + b
    BY <1>5
  <2>2. k * hz = k * x + k * b /\ k * x \in Nat /\ k * b \in Nat
    BY <2>1
  <2> QED
    BY <1>1, <1>3, <2>2
<1>8. SUFFICES ASSUME d > b PROVE FALSE
  BY <1>6
<1>9. l * b <= l * (d - 1) /\ l * b \in Nat /\ l * (d - 1) \in Nat
  BY <1>8, HalfStep
<1>10. 2 * (l * b) < Fin
  BY <1>1, <1>2, <1>9
<1>11. CASE c <= 2 * h
  <2>1. k <= 2 * l
    <3>1. c * n <= (2 * h) * n
      BY <1>1, <1>11, Scales
    <3>2. c * n = k /\ (2 * h) * n = 2 * l
      BY <1>1, <1>2
    <3> QED
      BY <3>1, <3>2
  <2>2. k * b <= (2 * l) * b
    BY <2>1, Scales
  <2>3. (2 * l) * b = 2 * (l * b) /\ k * b \in Nat
    BY <1>9
  <2> QED
    BY <1>1, <1>7, <1>10, <2>2, <2>3
<1>12. CASE c > 2 * h
  <2>1. PICK hb \in Nat, hx \in Nat, hhz \in Nat : hb = h * b /\ hx = h * x /\ hhz = hz * h
    BY <1>1
  <2>2. hhz = hx + hb
    <3>1. hz = x + b
      BY <1>5
    <3>2. hz * h = h * x + h * b
      BY <1>1, <3>1
    <3> QED
      BY <2>1, <3>2
  <2>3. VcoMax + Fin <= 2 * hhz
    BY <1>1, <1>12, <2>1 DEF Home
  <2>4. 2 * hx <= VcoMax
    <3>1. (2 * h) * x <= c * x
      <4>1. 2 * h <= c /\ 2 * h \in Nat
        BY <1>1, <1>12
      <4> QED
        BY <1>1, <4>1, Scales
    <3>2. (2 * h) * x = 2 * hx /\ c * x = x * c /\ x * c \in Nat
      BY <1>1, <2>1
    <3> QED
      BY <1>1, <3>1, <3>2
  <2>5. 2 * hb < Fin
    <3>1. 1 * hb <= n * hb
      BY <1>1, Scales
    <3>2. n * hb = l * b
      BY <1>1, <1>2, <2>1
    <3> QED
      BY <1>1, <1>9, <1>10, <3>1, <3>2
  <2> QED
    BY <1>1, <2>2, <2>3, <2>4, <2>5
<1> QED
  BY <1>1, <1>11, <1>12

\* A setting a step past both, on a smaller output counter.
LEMMA GoesPast ==
  ASSUME NEW hz \in Nat \ {0}, NEW n \in Counters, NEW c \in Counters, NEW h \in Counters,
         n * c <= Fin, c <= h, NEW x \in Nat, n * c * hz + Fin < n * c * (x + 1),
         NEW d \in Nat, 2 * (n * h * (d - 1)) < Fin
  PROVE  d <= Distance(x, hz)
<1>1. n \in Nat \ {0} /\ c \in Nat \ {0} /\ h \in Nat \ {0} /\ Fin \in Nat \ {0}
  BY PllTypes
<1>2. PICK k \in Nat \ {0}, l \in Nat \ {0} : k = n * c /\ l = n * h
  <2>1. n * c \in Nat \ {0} /\ n * h \in Nat \ {0}
    BY <1>1
  <2> QED
    BY <2>1
<1>3. k * hz + Fin < k * (x + 1) /\ k <= Fin
  BY <1>2
<1>4. hz < x
  <2>1. k * (hz + 1) = k * hz + k /\ k * hz \in Nat
    OBVIOUS
  <2>2. k * (hz + 1) < k * (x + 1)
    BY <1>1, <1>3, <2>1
  <2>3. hz + 1 < x + 1
    BY <2>2, Cancels
  <2> QED
    BY <2>3
<1>5. PICK b \in Nat : b = x - hz
  <2>1. x - hz \in Nat
    BY <1>4
  <2> QED
    BY <2>1
<1>6. Distance(x, hz) = b /\ b >= 1
  BY <1>4, <1>5 DEF Distance
<1>7. k * b + k > Fin /\ k * b \in Nat
  <2>1. x + 1 = hz + b + 1
    BY <1>5
  <2>2. k * (x + 1) = k * hz + k * b + k /\ k * hz \in Nat /\ k * b \in Nat
    BY <2>1
  <2> QED
    BY <1>1, <1>3, <2>2
<1>8. SUFFICES ASSUME d > b PROVE FALSE
  BY <1>6
<1>9. l * b <= l * (d - 1) /\ l * b \in Nat /\ l * (d - 1) \in Nat
  BY <1>8, HalfStep
<1>10. 2 * (l * b) < Fin
  BY <1>1, <1>2, <1>9
<1>11. k * b <= l * b
  <2>1. c * n <= h * n
    BY <1>1, Scales
  <2>2. k <= l
    BY <1>1, <1>2, <2>1
  <2> QED
    BY <2>2, Scales
<1>12. k <= k * b
  <2>1. 1 * k <= b * k
    BY <1>6, Scales
  <2>2. b * k = k * b
    OBVIOUS
  <2> QED
    BY <2>1, <2>2
<1> QED
  BY <1>1, <1>7, <1>9, <1>10, <1>11, <1>12

\* Every setting is beaten by one the search looks at.
LEMMA Beaten ==
  ASSUME NEW hz \in Nat \ {0}, NEW n \in Counters, NEW c \in Counters, NEW m \in Counters,
         NEW h \in Counters, PfdInBand(n), VcoInBand(WholeVco(m, n)), n * c <= Fin, Home(hz, n, h)
  PROVE  \E t \in WholeCandidates(hz) : Distance(t.hz, hz) <= Distance(Whole(m, n, c).hz, hz)
<1>1. /\ n \in Nat \ {0} /\ c \in Nat \ {0} /\ m \in Nat \ {0} /\ h \in Nat \ {0} /\ Fin \in Nat \ {0}
      /\ VcoMin \in Nat /\ VcoMax \in Nat /\ CounterMax \in Nat /\ m <= CounterMax /\ c <= CounterMax
  BY PllTypes
<1>2. PICK q \in Nat, e \in 0..Fin - 1 :
        hz * c * n = Fin * q + e /\ EitherSide(hz, n, c) = {q, q + 1}
  BY Either
<1>3. PICK a \in Nat, k \in Nat \ {0}, fq \in Nat :
        a = hz * c * n /\ k = n * c /\ a = k * hz /\ fq = Fin * q /\ a = fq + e
  <2>1. hz * c * n \in Nat /\ n * c \in Nat \ {0} /\ Fin * q \in Nat
    BY <1>1
  <2>2. hz * c * n = (n * c) * hz
    BY <1>1
  <2> QED
    BY <1>2, <2>1, <2>2
<1>4. PICK x \in Nat, v \in Nat, r \in 0..k - 1, fm \in Nat :
        /\ x = Whole(m, n, c).hz /\ v = WholeVco(m, n) /\ x * c <= v
        /\ fm = Fin * m /\ fm = k * x + r /\ v <= VcoMax
  <2>1. Whole(m, n, c).hz \in Nat /\ WholeVco(m, n) \in Nat /\ Whole(m, n, c).hz * c <= WholeVco(m, n)
    BY SettingIs
  <2>2. PICK r \in 0..n * c - 1 : Fin * m = n * c * Whole(m, n, c).hz + r
    BY SettingIs
  <2>3. Fin * m \in Nat
    BY <1>1
  <2>4. WholeVco(m, n) <= VcoMax
    BY DEF VcoInBand
  <2>5. Fin * m = k * Whole(m, n, c).hz + r /\ r \in 0..k - 1
    BY <1>3, <2>2
  <2> QED
    BY <2>1, <2>3, <2>4, <2>5
<1>5. PICK t \in WholeCandidates(hz) : t.hz \in Nat /\ 2 * (n * h * (Distance(t.hz, hz) - 1)) < Fin
  BY AtHome
<1>6. Distance(t.hz, hz) \in Nat /\ k * x \in Nat
  BY <1>5 DEF Distance
<1>7. CASE m \in {q, q + 1}
  <2>1. Whole(m, n, c) \in WholeCandidates(hz)
    BY <1>2, <1>7, IsLooked
  <2>2. Distance(x, hz) <= Distance(x, hz)
    BY DEF Distance
  <2> QED
    BY <1>4, <2>1, <2>2
<1>8. CASE m < q
  <2>1. fm + Fin <= fq
    <3>1. (m + 1) * Fin <= q * Fin
      BY <1>1, <1>8, Scales
    <3>2. (m + 1) * Fin = fm + Fin /\ q * Fin = fq
      BY <1>1, <1>3, <1>4
    <3> QED
      BY <3>1, <3>2
  <2>2. k * x + Fin <= k * hz
    BY <1>1, <1>3, <1>4, <1>6, <2>1
  <2>3. x * c <= VcoMax
    <3>1. x * c \in Nat
      BY <1>1
    <3> QED
      BY <1>1, <1>4, <3>1
  <2>4. Distance(t.hz, hz) <= Distance(x, hz)
    <3>1. n * c * x + Fin <= n * c * hz
      BY <1>3, <2>2
    <3> QED
      BY <1>5, <1>6, <2>3, <3>1, FallsShort
  <2> QED
    BY <1>4, <2>4
<1>9. CASE m > q + 1
  <2>1. fm >= fq + Fin + Fin
    <3>1. (q + 2) * Fin <= m * Fin
      BY <1>1, <1>9, Scales
    <3>2. (q + 2) * Fin = fq + Fin + Fin /\ m * Fin = fm
      BY <1>1, <1>3, <1>4
    <3> QED
      BY <3>1, <3>2
  <2>2. q + 1 \in Counters
    BY <1>1, <1>9 DEF Counters
  <2>3. PICK y \in Nat, w \in Nat, s \in 0..k - 1, u \in 0..n - 1 :
          /\ y = Whole(q + 1, n, c).hz /\ w = WholeVco(q + 1, n)
          /\ fq + Fin = k * y + s /\ fq + Fin = n * w + u
    <3>1. Whole(q + 1, n, c).hz \in Nat /\ WholeVco(q + 1, n) \in Nat
      BY <2>2, SettingIs
    <3>2. PICK s \in 0..n * c - 1 : Fin * (q + 1) = n * c * Whole(q + 1, n, c).hz + s
      BY <2>2, SettingIs
    <3>3. PICK u \in 0..n - 1 : Fin * (q + 1) = n * WholeVco(q + 1, n) + u
      BY <2>2, SettingIs
    <3>4. Fin * (q + 1) = fq + Fin
      BY <1>1, <1>3
    <3>5. fq + Fin = k * Whole(q + 1, n, c).hz + s /\ s \in 0..k - 1
      BY <1>3, <3>2, <3>4
    <3> QED
      BY <3>1, <3>3, <3>4, <3>5
  <2>4. PICK u1 \in 0..n - 1 : fm = n * v + u1
    <3>1. \E z \in 0..n - 1 : Fin * m = n * WholeVco(m, n) + z
      BY SettingIs
    <3> QED
      BY <1>4, <3>1
  <2>5. CASE w >= VcoMin
    <3>1. w <= v
      <4>1. n * w \in Nat /\ n * (v + 1) = n * v + n /\ n * v \in Nat
        BY <1>1
      <4>2. n * w < n * (v + 1)
        BY <1>1, <2>1, <2>3, <2>4, <4>1
      <4>3. w < v + 1
        BY <1>1, <4>2, Cancels
      <4> QED
        BY <4>3
    <3>2. VcoInBand(WholeVco(q + 1, n))
      BY <1>1, <1>4, <2>3, <2>5, <3>1 DEF VcoInBand
    <3>3. Whole(q + 1, n, c) \in WholeCandidates(hz)
      BY <1>2, <2>2, <3>2, IsLooked
    <3>4. hz <= y
      <4>1. k * (y + 1) = k * y + k /\ k * y \in Nat /\ k * hz = a
        BY <1>3
      <4>2. k * hz < k * (y + 1)
        BY <1>1, <1>3, <2>3, <4>1
      <4>3. hz < y + 1
        BY <4>2, Cancels
      <4> QED
        BY <4>3
    <3>5. y <= x
      <4>1. k * (x + 1) = k * x + k /\ k * y \in Nat
        BY <1>6
      <4>2. k * y < k * (x + 1)
        BY <1>1, <1>4, <1>6, <2>1, <2>3, <4>1
      <4>3. y < x + 1
        BY <4>2, Cancels
      <4> QED
        BY <4>3
    <3>6. Distance(y, hz) <= Distance(x, hz)
      BY <3>4, <3>5 DEF Distance
    <3> QED
      BY <1>4, <2>3, <3>3, <3>6
  <2>6. CASE w < VcoMin
    <3>1. c <= h
      <4>1. PICK hc \in Nat, hh \in Nat : hc = hz * c /\ hh = hz * h
        BY <1>1
      <4>2. hc < VcoMin
        <5>1. a = n * hc
          BY <1>1, <1>3, <4>1
        <5>2. n * (w + 1) = n * w + n /\ n * w \in Nat
          BY <1>1
        <5>3. n * hc < n * (w + 1)
          BY <1>1, <1>3, <2>3, <5>1, <5>2
        <5>4. hc < w + 1
          BY <1>1, <5>3, Cancels
        <5> QED
          BY <1>1, <2>6, <5>4
      <4>3. VcoMin <= hh
        BY <1>1, <4>1 DEF Home
      <4>4. hz * c < hz * h
        BY <1>1, <4>1, <4>2, <4>3
      <4>5. c < h
        BY <1>1, <4>4, Cancels
      <4> QED
        BY <1>1, <4>5
    <3>2. n * c * hz + Fin < n * c * (x + 1)
      <4>1. k * (x + 1) = k * x + k /\ k * hz = a
        BY <1>3, <1>6
      <4>2. k * hz + Fin < k * (x + 1)
        BY <1>1, <1>3, <1>4, <1>6, <2>1, <4>1
      <4> QED
        BY <1>3, <4>2
    <3>3. Distance(t.hz, hz) <= Distance(x, hz)
      BY <1>5, <1>6, <3>1, <3>2, GoesPast
    <3> QED
      BY <1>4, <3>3
  <2> QED
    BY <1>1, <2>3, <2>5, <2>6
<1> QED
  BY <1>1, <1>7, <1>8, <1>9

\* Parts in a million, rounded down, keep the order of what they are parts of.
LEMMA PartsGrow ==
  ASSUME NEW hz \in Nat \ {0}, NEW s, NEW u, s.hz \in Nat, u.hz \in Nat, Ppm(hz, s) < Ppm(hz, u)
  PROVE  Distance(s.hz, hz) <= Distance(u.hz, hz)
<1>1. PICK x \in Nat, y \in Nat : x = Distance(s.hz, hz) /\ y = Distance(u.hz, hz)
  <2>1. Distance(s.hz, hz) \in Nat /\ Distance(u.hz, hz) \in Nat
    BY DEF Distance
  <2> QED
    BY <2>1
<1>2. SUFFICES ASSUME x > y PROVE FALSE
  BY <1>1
<1>3. PICK g \in Nat, f \in Nat : g = x * 1000000 /\ f = y * 1000000 /\ g > f
  BY <1>2
<1>4. PICK p \in Nat, d \in 0..hz - 1 : p = g \div hz /\ g = hz * p + d
  BY Quotient
<1>5. PICK o \in Nat, b \in 0..hz - 1 : o = f \div hz /\ f = hz * o + b
  BY Quotient
<1>6. p < o
  BY <1>1, <1>3, <1>4, <1>5 DEF Ppm
<1>7. (p + 1) * hz <= o * hz
  BY <1>6, Scales
<1>8. (p + 1) * hz = hz * p + hz /\ o * hz = hz * o /\ hz * p \in Nat /\ hz * o \in Nat
  OBVIOUS
<1> QED
  BY <1>3, <1>4, <1>5, <1>7, <1>8

\* The answer is at least as near as any whole setting that was looked at.
LEMMA SolvedIsNear ==
  ASSUME NEW target \in Nat \ {0}, NEW fractional \in BOOLEAN, NEW t \in WholeCandidates(target)
  PROVE  /\ PllSolveBest(target, fractional).found
         /\ Distance(PllSolveBest(target, fractional).hz, target) <= Distance(t.hz, target)
<1> DEFINE all == WholeCandidates(target)
           fracs == FracCandidates(target)
           whole == PllSolve(target)
           frac == PllSolveFrac(target)
           good == {s \in all : s.hz = target /\ s.vco >= VcoMax \div 2}
<1>1. Candidates(all) /\ \A s \in all : s.vco <= VcoMax /\ s.found
  BY WholeTyped
<1>2. whole = IF good # {} THEN FirstOf(good) ELSE BestOf(target, all)
  <2>1. all # {}
    OBVIOUS
  <2> QED
    BY <2>1 DEF PllSolve
<1>3. Candidates(fracs) /\ \E V \in Nat : \A s \in fracs : s.vco <= V
  BY FracTyped
<1>4. \A s \in fracs : s.found
  BY DEF FracCandidates, FracSolution, Solution
<1>5. frac = NoSolution \/ frac \in fracs
  <2>1. frac = IF fracs = {} THEN NoSolution ELSE BestOf(target, fracs)
    BY DEF PllSolveFrac
  <2> HIDE DEF fracs, frac
  <2>2. fracs # {} => BestOf(target, fracs) \in fracs
    BY <1>3, BestIsOne
  <2> QED
    BY <2>1, <2>2
<1>6. PllSolveBest(target, fractional) =
        IF ~fractional THEN whole
        ELSE IF ~whole.found THEN frac
        ELSE IF Ppm(target, whole) = 0 \/ ~frac.found THEN whole
        ELSE IF Ppm(target, frac) < Ppm(target, whole) THEN frac ELSE whole
  BY DEF PllSolveBest
<1>7. whole \in all /\ Distance(whole.hz, target) <= Distance(t.hz, target)
  <2> HIDE DEF whole
  <2>1. CASE good # {}
    <3>1. good \subseteq all /\ Candidates(good) /\ \A s \in good : s.hz = target
      BY <1>1 DEF Candidates
    <3> HIDE DEF good, all
    <3>2. whole \in good
      BY <1>2, <2>1, <3>1, FirstIsOne
    <3>3. t.hz \in Nat /\ whole.hz = target
      BY <1>1, <3>1, <3>2 DEF Candidates, all
    <3>4. Distance(whole.hz, target) <= Distance(t.hz, target)
      BY <3>3 DEF Distance
    <3> QED
      BY <3>1, <3>2, <3>4
  <2>2. CASE good = {}
    <3> HIDE DEF good
    <3>1. whole = BestOf(target, all) /\ all # {} /\ t \in all
      BY <1>2, <2>2
    <3> HIDE DEF all
    <3>2. BestOf(target, all) \in all /\ \A u \in all : Distance(BestOf(target, all).hz, target) <= Distance(u.hz, target)
      BY <1>1, <3>1, PllTypes, BestIsOne
    <3> QED
      BY <3>1, <3>2
  <2> QED
    BY <2>1, <2>2
<1>8. ~NoSolution.found
  BY DEF NoSolution
<1> HIDE DEF whole, frac, all, fracs, good
<1>9. whole.found /\ whole.hz \in Nat /\ t \in all /\ t.hz \in Nat
  BY <1>1, <1>7 DEF Candidates, all
<1>10. CASE PllSolveBest(target, fractional) = whole
  BY <1>7, <1>9, <1>10
<1>11. CASE PllSolveBest(target, fractional) = frac /\ frac.found /\ Ppm(target, frac) < Ppm(target, whole)
  <2>1. frac \in fracs
    BY <1>5, <1>8, <1>11
  <2>2. frac.hz \in Nat
    BY <1>3, <2>1 DEF Candidates
  <2>3. Distance(frac.hz, target) <= Distance(whole.hz, target)
    BY <1>9, <1>11, <2>2, PartsGrow
  <2>4. Distance(frac.hz, target) \in Nat /\ Distance(whole.hz, target) \in Nat /\ Distance(t.hz, target) \in Nat
    BY <1>9, <2>2 DEF Distance
  <2> QED
    BY <1>7, <1>11, <2>3, <2>4
<1> QED
  BY <1>6, <1>9, <1>10, <1>11

\* The limits of the board and the clocks the mode check lets through (pll.c:35-48,
\* modes.c:37-38).
CycloneV ==
  /\ Fin = 50000000 /\ VcoMin = 600000000 /\ VcoMax = 1600000000
  /\ PfdMin = 5000000 /\ CounterMax = 510
  /\ \A hz \in Targets : 2000000 <= hz /\ hz <= 32000000
LEMMA CycloneIsHomely == ASSUME CycloneV PROVE Homely
<1>1. ASSUME NEW n \in Counters, NEW c \in Counters PROVE n * c <= Fin
  <2>1. n \in Nat /\ c \in Nat /\ n <= 510 /\ c <= 510
    BY PllTypes, SMT DEF CycloneV
  <2>2. n * c <= 510 * c
    BY <2>1, Scales, SMT
  <2>3. n * c \in Nat /\ 510 * c <= 50000000
    BY <2>1, SMT
  <2> QED
    BY <2>1, <2>2, <2>3, SMT DEF CycloneV
<1>2. ASSUME NEW hz \in Targets, NEW n \in Counters, PfdInBand(n)
      PROVE  \E c \in Counters : Home(hz, n, c)
  <2>1. hz \in Nat \ {0} /\ hz >= 2000000 /\ hz <= 32000000 /\ n \in Nat \ {0}
    BY PllTypes, ArithAssumption, SMT DEF CycloneV, ArithAssumption
  <2>2. n <= 10
    <3>1. PICK p \in Nat, d \in 0..n - 1 : p = Fin \div n /\ Fin = n * p + d
      BY <2>1, PllTypes, Quotient, SMT
    <3>2. p >= 5000000
      BY <1>2, <3>1, SMT DEF PfdInBand, CycloneV
    <3>3. n * 5000000 <= n * p
      <4>1. 5000000 * n <= p * n
        BY <2>1, <3>2, Scales, SMT
      <4>2. 5000000 * n = n * 5000000 /\ p * n = n * p
        BY <2>1, SMT
      <4> QED
        BY <4>1, <4>2, SMT
    <3>4. n * p \in Nat /\ Fin = 50000000
      BY <2>1, SMT DEF CycloneV
    <3> QED
      BY <2>1, <3>1, <3>3, <3>4, SMT
  <2>3. PICK c \in Nat, v \in Nat :
          /\ 1 <= c /\ c <= 510
          /\ v = hz * c /\ v <= 1550000000
          /\ v >= 1518000000 \/ (c = 510 /\ v >= 1020000000)
    <3>1. CASE 510 * hz <= 1550000000
      <4>1. hz * 510 \in Nat /\ hz * 510 <= 1550000000 /\ hz * 510 >= 1020000000
        BY <2>1, <3>1, SMT
      <4> QED
        BY <4>1, SMT
    <3>2. CASE 510 * hz > 1550000000
      <4>0. PICK g \in Nat : g = 1550000000
        BY SMT
      <4>1. PICK c \in Nat, d \in 0..hz - 1 : g = hz * c + d
        <5>1. hz \in Nat \ {0}
          BY <2>1, SMT
        <5>2. g \div hz \in Nat /\ \E d \in 0..hz - 1 : g = hz * (g \div hz) + d
          BY <5>1, Quotient
        <5>3. PICK p \in Nat : p = g \div hz
          BY <5>2
        <5>4. \E d \in 0..hz - 1 : g = hz * p + d
          BY <5>2, <5>3
        <5> QED
          BY <5>3, <5>4
      <4>2. PICK v \in Nat : v = hz * c
        BY <2>1, SMT
      <4>3. v <= 1550000000 /\ v >= 1518000000
        BY <2>1, <4>0, <4>1, <4>2, SMT
      <4>4. c # 0
        BY <2>1, <4>2, <4>3, SMT
      <4>5. hz * c < hz * 510
        BY <2>1, <3>2, <4>2, <4>3, SMT
      <4>6. c < 510
        BY <2>1, <4>5, Cancels, SMT
      <4>7. 1 <= c /\ c <= 510
        BY <4>4, <4>6, SMT
      <4> QED
        BY <4>2, <4>3, <4>7, SMT
    <3> QED
      BY <2>1, <3>1, <3>2, SMT
  <2>4. c \in Counters
    BY <2>3, SMT DEF Counters, CycloneV
  <2>5. hz * c * n + Fin <= CounterMax * Fin
    <3>1. n * v <= 10 * v
      BY <2>1, <2>2, Scales, SMT
    <3>2. hz * c * n = n * v /\ n * v \in Nat
      BY <2>1, <2>3, SMT
    <3>3. n * v <= 15500000000
      BY <2>3, <3>1, <3>2, SMT
    <3> QED
      BY <3>2, <3>3, SMT DEF CycloneV
  <2>6. VcoMin + Fin <= v /\ v + Fin <= VcoMax /\ (VcoMax + Fin <= 2 * v \/ CounterMax <= 2 * c)
    BY <2>3, SMT DEF CycloneV
  <2> QED
    BY <2>3, <2>4, <2>5, <2>6, SMT DEF Home
<1> QED
  BY <1>1, <1>2, SMT DEF Homely

\* For every PLL on which each clock has a home for each divide of its input, as on this
\* board: no setting of the whole counters comes closer to the clock that was asked for than
\* the answer, and there is an answer (pll.c:55-145, 306-339).
THEOREM NearestIsSolved == ASSUME Homely PROVE Spec => []ClockSolved
<1>1. ASSUME NEW hz \in Targets, NEW fractional \in BOOLEAN, NEW s \in WholeSettings
      PROVE  /\ PllSolveBest(hz, fractional).found
             /\ Distance(PllSolveBest(hz, fractional).hz, hz) <= Distance(s.hz, hz)
  <2>1. hz \in Nat \ {0}
    BY ArithAssumption DEF ArithAssumption
  <2>2. PICK m \in Counters, n \in Counters, c \in Counters :
          s = Whole(m, n, c) /\ VcoInBand(WholeVco(m, n)) /\ PfdInBand(n)
    BY SettingsAre
  <2>3. PICK h \in Counters : Home(hz, n, h)
    BY <2>2 DEF Homely
  <2>4. n * c <= Fin
    BY DEF Homely
  <2>5. PICK t \in WholeCandidates(hz) : Distance(t.hz, hz) <= Distance(s.hz, hz)
    BY <2>1, <2>2, <2>3, <2>4, Beaten
  <2>6. /\ PllSolveBest(hz, fractional).found
        /\ Distance(PllSolveBest(hz, fractional).hz, hz) <= Distance(t.hz, hz)
    BY <2>1, SolvedIsNear
  <2>7. PICK x \in Nat, y \in Nat, z \in Nat :
          x = Distance(PllSolveBest(hz, fractional).hz, hz) /\ y = Distance(t.hz, hz) /\ z = Distance(s.hz, hz)
    <3>1. s.hz \in Nat
      BY <2>2, SettingIs
    <3>2. t.hz \in Nat
      BY WholeTyped DEF Candidates
    <3>3. PllSolveBest(hz, fractional).hz \in Nat
      <4>1. \/ PllSolveBest(hz, fractional) \in WholeCandidates(hz)
            \/ PllSolveBest(hz, fractional) \in FracCandidates(hz)
        BY <2>1, <2>6, SolvedIsOne
      <4>2. \A u \in WholeCandidates(hz) \cup FracCandidates(hz) : u.hz \in Nat
        BY <2>1, WholeTyped, FracTyped DEF Candidates
      <4> QED
        BY <4>1, <4>2
    <3> QED
      BY <2>1, <3>1, <3>2, <3>3 DEF Distance
  <2> QED
    BY <2>5, <2>6, <2>7
<1>2. AnswerInv => ClockSolved
  <2> SUFFICES ASSUME AnswerInv, Returned("retune"), NEW s \in WholeSettings
               PROVE  result.solved.found /\ Distance(result.solved.hz, call.hz) <= Distance(s.hz, call.hz)
    BY DEF ClockSolved
  <2>1. call.hz \in Targets /\ call.fractional \in BOOLEAN
    BY DEF AnswerInv, Called, Returned
  <2>2. result.solved = PllSolveBest(call.hz, call.fractional)
    BY DEF AnswerInv, Answered
  <2> QED
    BY <1>1, <2>1, <2>2
<1> QED
  BY <1>2, AnswerInit, AnswerStep, PTL DEF Spec
-----------------------------------------------------------------------------
(* The decompressor *)

\* Counting up to n.
LEMMA UpTo ==
  ASSUME NEW n \in Nat, NEW S, 0 \in S, \A k \in Nat : k < n /\ k \in S => k + 1 \in S
  PROVE  \A k \in 0..n : k \in S
<1> DEFINE T == {k \in 0..n : k \notin S}
<1> SUFFICES ASSUME T # {} PROVE FALSE
  OBVIOUS
<1>1. PICK k \in T : \A j \in T : k <= j
  <2>1. T \subseteq Nat
    OBVIOUS
  <2> QED
    BY <2>1, Least
<1>2. k \in Nat /\ k # 0 /\ k <= n /\ k \notin S
  OBVIOUS
<1>3. k - 1 \in Nat /\ k - 1 < n /\ k - 1 \notin T
  BY <1>1, <1>2
<1>4. k - 1 \in S
  BY <1>2, <1>3
<1>5. (k - 1) + 1 \in S
  BY <1>3, <1>4
<1> QED
  BY <1>2, <1>5

\* What the recursive definitions of a call come to, value by value.
LEMMA TurnsAre ==
  ASSUME NEW src, NEW cap, Len(src) \in Nat
  PROVE  /\ Turns(src, cap)[0] = Start
         /\ \A k \in Nat : k < Len(src) => Turns(src, cap)[k + 1] = Goes(src, cap, Turns(src, cap)[k])
<1> DEFINE Is(f, j) == f = [k \in 0..j |-> IF k = 0 THEN Start ELSE Goes(src, cap, f[k - 1])]
           S == {j \in Nat : \E f : Is(f, j)}
<1>1. 0 \in S
  <2>1. Is([k \in 0..0 |-> Start], 0)
    OBVIOUS
  <2> QED
    BY <2>1
<1>2. ASSUME NEW j \in Nat, j \in S PROVE j + 1 \in S
  <2>1. PICK f : Is(f, j)
    BY <1>2
  <2> DEFINE g == [k \in 0..j + 1 |-> IF k <= j THEN f[k] ELSE Goes(src, cap, f[j])]
  <2>2. ASSUME NEW k \in 0..j + 1
        PROVE  g[k] = IF k = 0 THEN Start ELSE Goes(src, cap, g[k - 1])
    <3>1. CASE k = 0
      BY <2>1, <3>1
    <3>2. CASE k # 0 /\ k <= j
      <4>1. k - 1 \in 0..j /\ k - 1 \in 0..j + 1 /\ k - 1 <= j /\ k \in 0..j
        BY <3>2
      <4>2. f[k] = Goes(src, cap, f[k - 1])
        BY <2>1, <3>2, <4>1
      <4> QED
        BY <3>2, <4>1, <4>2
    <3>3. CASE k = j + 1
      <4>1. k - 1 = j /\ j \in 0..j + 1 /\ ~(k <= j) /\ k # 0
        BY <3>3
      <4> QED
        BY <3>3, <4>1
    <3> QED
      BY <3>1, <3>2, <3>3
  <2>3. Is(g, j + 1)
    BY <2>2
  <2> HIDE DEF Is
  <2> QED
    BY <2>3
<1>3. Len(src) \in S
  <2> HIDE DEF S
  <2>1. \A k \in Nat : k < Len(src) /\ k \in S => k + 1 \in S
    BY <1>2
  <2>2. \A k \in 0..Len(src) : k \in S
    BY <1>1, <2>1, UpTo
  <2> QED
    BY <2>2
<1>4. Turns(src, cap) = CHOOSE f : Is(f, Len(src))
  BY DEF Turns
<1>5. Is(Turns(src, cap), Len(src))
  <2> HIDE DEF Is
  <2> QED
    BY <1>3, <1>4
<1>6. \A k \in 0..Len(src) :
        Turns(src, cap)[k] = IF k = 0 THEN Start ELSE Goes(src, cap, Turns(src, cap)[k - 1])
  BY <1>5, Zenon
<1>7. Turns(src, cap)[0] = Start
  BY <1>6
<1>8. ASSUME NEW k \in Nat, k < Len(src)
      PROVE  Turns(src, cap)[k + 1] = Goes(src, cap, Turns(src, cap)[k])
  <2>1. k + 1 \in 0..Len(src) /\ k + 1 # 0 /\ (k + 1) - 1 = k
    BY <1>8
  <2>2. Turns(src, cap)[k + 1] = IF k + 1 = 0 THEN Start ELSE Goes(src, cap, Turns(src, cap)[(k + 1) - 1])
    BY <1>6, <2>1
  <2> QED
    BY <2>1, <2>2
<1> QED
  BY <1>7, <1>8

LEMMA PackedAre ==
  ASSUME NEW block, Len(block) \in Nat
  PROVE  /\ Packed(block)[0] = <<>>
         /\ \A k \in Nat : k < Len(block) => Packed(block)[k + 1] = Packed(block)[k] \o Encode(block[k + 1])
<1> DEFINE Is(f, j) == f = [k \in 0..j |-> IF k = 0 THEN <<>> ELSE f[k - 1] \o Encode(block[k])]
           S == {j \in Nat : \E f : Is(f, j)}
<1>1. 0 \in S
  <2>1. Is([k \in 0..0 |-> <<>>], 0)
    OBVIOUS
  <2> QED
    BY <2>1
<1>2. ASSUME NEW j \in Nat, j \in S PROVE j + 1 \in S
  <2>1. PICK f : Is(f, j)
    BY <1>2
  <2> DEFINE last == f[j] \o Encode(block[j + 1])
             g == [k \in 0..j + 1 |-> IF k <= j THEN f[k] ELSE last]
  <2>2. ASSUME NEW k \in 0..j + 1
        PROVE  g[k] = IF k = 0 THEN <<>> ELSE g[k - 1] \o Encode(block[k])
    <3>1. CASE k = 0
      BY <2>1, <3>1
    <3>2. CASE k # 0 /\ k <= j
      <4>1. k - 1 \in 0..j /\ k - 1 \in 0..j + 1 /\ k - 1 <= j /\ k \in 0..j
        BY <3>2
      <4>2. f[k] = f[k - 1] \o Encode(block[k])
        BY <2>1, <3>2, <4>1
      <4> QED
        BY <3>2, <4>1, <4>2
    <3>3. CASE k = j + 1
      <4>1. k - 1 = j /\ j \in 0..j + 1 /\ ~(k <= j) /\ k # 0
        BY <3>3
      <4>2. g[k] = last /\ g[k - 1] = f[j]
        <5> HIDE DEF last
        <5> QED
          BY <3>3, <4>1
      <4>3. last = f[j] \o Encode(block[j + 1])
        OBVIOUS
      <4> HIDE DEF g, last
      <4> QED
        BY <3>3, <4>1, <4>2, <4>3
    <3> QED
      BY <3>1, <3>2, <3>3
  <2>3. Is(g, j + 1)
    BY <2>2
  <2> HIDE DEF Is
  <2> QED
    BY <2>3
<1>3. Len(block) \in S
  <2> HIDE DEF S
  <2>1. \A k \in Nat : k < Len(block) /\ k \in S => k + 1 \in S
    BY <1>2
  <2>2. \A k \in 0..Len(block) : k \in S
    BY <1>1, <2>1, UpTo
  <2> QED
    BY <2>2
<1>4. Packed(block) = CHOOSE f : Is(f, Len(block))
  BY DEF Packed
<1>5. Is(Packed(block), Len(block))
  <2> HIDE DEF Is
  <2> QED
    BY <1>3, <1>4
<1>6. \A k \in 0..Len(block) :
        Packed(block)[k] = IF k = 0 THEN <<>> ELSE Packed(block)[k - 1] \o Encode(block[k])
  BY <1>5, Zenon
<1>7. Packed(block)[0] = <<>>
  BY <1>6
<1>8. ASSUME NEW k \in Nat, k < Len(block)
      PROVE  Packed(block)[k + 1] = Packed(block)[k] \o Encode(block[k + 1])
  <2>1. k + 1 \in 0..Len(block) /\ k + 1 # 0 /\ (k + 1) - 1 = k
    BY <1>8
  <2>2. Packed(block)[k + 1] = IF k + 1 = 0 THEN <<>> ELSE Packed(block)[(k + 1) - 1] \o Encode(block[k + 1])
    BY <1>6, <2>1
  <2> QED
    BY <2>1, <2>2
<1> QED
  BY <1>7, <1>8

LEMMA ShownAre ==
  ASSUME NEW block, Len(block) \in Nat
  PROVE  /\ Shown(block)[0] = <<>>
         /\ \A k \in Nat : k < Len(block) => Shown(block)[k + 1] = Expand(Shown(block)[k], block[k + 1])
<1> DEFINE Is(f, j) == f = [k \in 0..j |-> IF k = 0 THEN <<>> ELSE Expand(f[k - 1], block[k])]
           S == {j \in Nat : \E f : Is(f, j)}
<1>1. 0 \in S
  <2>1. Is([k \in 0..0 |-> <<>>], 0)
    OBVIOUS
  <2> QED
    BY <2>1
<1>2. ASSUME NEW j \in Nat, j \in S PROVE j + 1 \in S
  <2>1. PICK f : Is(f, j)
    BY <1>2
  <2> DEFINE last == Expand(f[j], block[j + 1])
             g == [k \in 0..j + 1 |-> IF k <= j THEN f[k] ELSE last]
  <2>2. ASSUME NEW k \in 0..j + 1
        PROVE  g[k] = IF k = 0 THEN <<>> ELSE Expand(g[k - 1], block[k])
    <3>1. CASE k = 0
      BY <2>1, <3>1
    <3>2. CASE k # 0 /\ k <= j
      <4>1. k - 1 \in 0..j /\ k - 1 \in 0..j + 1 /\ k - 1 <= j /\ k \in 0..j
        BY <3>2
      <4>2. f[k] = Expand(f[k - 1], block[k])
        BY <2>1, <3>2, <4>1
      <4> QED
        BY <3>2, <4>1, <4>2
    <3>3. CASE k = j + 1
      <4>1. k - 1 = j /\ j \in 0..j + 1 /\ ~(k <= j) /\ k # 0
        BY <3>3
      <4>2. g[k] = last /\ g[k - 1] = f[j]
        <5> HIDE DEF last
        <5> QED
          BY <3>3, <4>1
      <4>3. last = Expand(f[j], block[j + 1])
        OBVIOUS
      <4> HIDE DEF g, last
      <4> QED
        BY <3>3, <4>1, <4>2, <4>3
    <3> QED
      BY <3>1, <3>2, <3>3
  <2>3. Is(g, j + 1)
    BY <2>2
  <2> HIDE DEF Is
  <2> QED
    BY <2>3
<1>3. Len(block) \in S
  <2> HIDE DEF S
  <2>1. \A k \in Nat : k < Len(block) /\ k \in S => k + 1 \in S
    BY <1>2
  <2>2. \A k \in 0..Len(block) : k \in S
    BY <1>1, <2>1, UpTo
  <2> QED
    BY <2>2
<1>4. Shown(block) = CHOOSE f : Is(f, Len(block))
  BY DEF Shown
<1>5. Is(Shown(block), Len(block))
  <2> HIDE DEF Is
  <2> QED
    BY <1>3, <1>4
<1>6. \A k \in 0..Len(block) :
        Shown(block)[k] = IF k = 0 THEN <<>> ELSE Expand(Shown(block)[k - 1], block[k])
  BY <1>5, Zenon
<1>7. Shown(block)[0] = <<>>
  BY <1>6
<1>8. ASSUME NEW k \in Nat, k < Len(block)
      PROVE  Shown(block)[k + 1] = Expand(Shown(block)[k], block[k + 1])
  <2>1. k + 1 \in 0..Len(block) /\ k + 1 # 0 /\ (k + 1) - 1 = k
    BY <1>8
  <2>2. Shown(block)[k + 1] = IF k + 1 = 0 THEN <<>> ELSE Expand(Shown(block)[(k + 1) - 1], block[k + 1])
    BY <1>6, <2>1
  <2> QED
    BY <2>1, <2>2
<1> QED
  BY <1>7, <1>8

\* The states of a copy, piece by piece.
Copies(c, out, off, match) ==
  /\ c[0] = [out |-> out, gap |-> off, left |-> match]
  /\ \A k \in Nat : k < match => c[k + 1] = Piece(c[k])
  /\ CopyMatch(out, off, match) = c[match].out

LEMMA CopyIs ==
  ASSUME NEW out, NEW off, NEW match \in Nat
  PROVE  \E c : Copies(c, out, off, match)
<1> DEFINE first == [out |-> out, gap |-> off, left |-> match]
           Is(f, j) == f = [k \in 0..j |-> IF k = 0 THEN first ELSE Piece(f[k - 1])]
           S == {j \in Nat : \E f : Is(f, j)}
<1>1. 0 \in S
  <2>1. Is([k \in 0..0 |-> first], 0)
    OBVIOUS
  <2> QED
    BY <2>1
<1>2. ASSUME NEW j \in Nat, j \in S PROVE j + 1 \in S
  <2>1. PICK f : Is(f, j)
    BY <1>2
  <2> DEFINE last == Piece(f[j])
             g == [k \in 0..j + 1 |-> IF k <= j THEN f[k] ELSE last]
  <2>2. ASSUME NEW k \in 0..j + 1
        PROVE  g[k] = IF k = 0 THEN first ELSE Piece(g[k - 1])
    <3>1. CASE k = 0
      BY <2>1, <3>1
    <3>2. CASE k # 0 /\ k <= j
      <4>1. k - 1 \in 0..j /\ k - 1 \in 0..j + 1 /\ k - 1 <= j /\ k \in 0..j
        BY <3>2
      <4>2. f[k] = Piece(f[k - 1])
        BY <2>1, <3>2, <4>1
      <4> QED
        BY <3>2, <4>1, <4>2
    <3>3. CASE k = j + 1
      <4>1. k - 1 = j /\ j \in 0..j + 1 /\ ~(k <= j) /\ k # 0
        BY <3>3
      <4>2. g[k] = last /\ g[k - 1] = f[j]
        <5> HIDE DEF last
        <5> QED
          BY <3>3, <4>1
      <4>3. last = Piece(f[j])
        OBVIOUS
      <4> HIDE DEF g, last
      <4> QED
        BY <3>3, <4>1, <4>2, <4>3
    <3> QED
      BY <3>1, <3>2, <3>3
  <2>3. Is(g, j + 1)
    BY <2>2
  <2> HIDE DEF Is
  <2> QED
    BY <2>3
<1>3. match \in S
  <2> HIDE DEF S
  <2>1. \A k \in Nat : k < match /\ k \in S => k + 1 \in S
    BY <1>2
  <2>2. \A k \in 0..match : k \in S
    BY <1>1, <2>1, UpTo
  <2> QED
    BY <2>2
<1> DEFINE Copied == CHOOSE f : Is(f, match)
<1>4. CopyMatch(out, off, match) = Copied[match].out
  BY DEF CopyMatch
<1>5. Is(Copied, match)
  <2> HIDE DEF Is
  <2> QED
    BY <1>3
<1>6. \A k \in 0..match : Copied[k] = IF k = 0 THEN first ELSE Piece(Copied[k - 1])
  BY <1>5, Zenon
<1> HIDE DEF Copied
<1>7. Copied[0] = first
  BY <1>6
<1>8. ASSUME NEW k \in Nat, k < match
      PROVE  Copied[k + 1] = Piece(Copied[k])
  <2>1. k + 1 \in 0..match /\ k + 1 # 0 /\ (k + 1) - 1 = k
    BY <1>8
  <2>2. Copied[k + 1] = IF k + 1 = 0 THEN first ELSE Piece(Copied[(k + 1) - 1])
    BY <1>6, <2>1
  <2> QED
    BY <2>1, <2>2
<1> QED
  BY <1>4, <1>7, <1>8 DEF Copies

Octets == 0..Last
LEMMA Sizes ==
  /\ Base \in Nat /\ Base >= 2 /\ MinMatch \in Nat \ {0}
  /\ Full \in Nat /\ Full >= 1 /\ Full = Base - 1
  /\ Last \in Nat /\ Last >= 3 /\ Last = Base * Base - 1
<1>1. Base \in Nat /\ Base >= 2 /\ MinMatch \in Nat \ {0}
  BY Lz4Assumption DEF Lz4Assumption
<1>2. 2 * 2 <= 2 * Base /\ 2 * Base <= Base * Base
  BY <1>1, Scales
<1> QED
  BY <1>1, <1>2 DEF Full, Last

\* A sequence with a match may be decoded after what is out.
Reaches(out, q) == IF q.off = 0 THEN q.len = 0 ELSE q.off <= Len(out) + Len(q.lit)

LEMMA Expanded ==
  ASSUME NEW out \in Seq(Octets), NEW q \in Sequence, Reaches(out, q)
  PROVE  LET e == Expand(out, q)
             start == out \o q.lit
         IN /\ e \in Seq(Octets) /\ start \in Seq(Octets)
            /\ Len(start) = Len(out) + Len(q.lit)
            /\ Len(e) = Len(start) + q.len
            /\ \A i \in 1..Len(start) : e[i] = start[i]
            /\ \A i \in Len(start) + 1..Len(e) : i - q.off \in 1..Len(e) /\ e[i] = e[i - q.off]
<1> DEFINE start == out \o q.lit
           e == Expand(out, q)
<1>1. q.lit \in Seq(Octets) /\ q.off \in Nat /\ q.len \in Nat
  BY Sizes DEF Sequence, Octets
<1>2. start \in Seq(Octets) /\ Len(start) = Len(out) + Len(q.lit)
  BY <1>1, ConcatProperties
<1>3. Len(start) \in Nat
  BY <1>2, LenProperties
<1>4. CASE q.off = 0
  <2>1. e = start /\ q.len = 0
    BY <1>4 DEF Expand, Reaches
  <2> HIDE DEF e, start
  <2> QED
    BY <1>2, <1>3, <2>1 DEF e, start
<1>5. CASE q.off # 0
  <2> DEFINE L == Len(start)
             N == L + q.len
             Is(f, j) == f = [i \in 1..j |-> IF i <= L THEN start[i] ELSE f[i - q.off]]
             S == {j \in Nat : \E f : Is(f, j)}
  <2>1. q.off \in 1..L
    BY <1>1, <1>2, <1>3, <1>5 DEF Reaches
  <2>2. N \in Nat
    BY <1>1, <1>3
  <2>3. e = [i \in 1..N |-> (CHOOSE f : Is(f, N))[i]]
    BY <1>5 DEF Expand
  <2> HIDE DEF e
  <2>4. 0 \in S
    <3>1. Is([i \in 1..0 |-> 0], 0)
      OBVIOUS
    <3> QED
      BY <3>1
  <2>5. ASSUME NEW j \in Nat, j \in S PROVE j + 1 \in S
    <3>1. PICK f : Is(f, j)
      BY <2>5
    <3> DEFINE last == IF j + 1 <= L THEN start[j + 1] ELSE f[j + 1 - q.off]
               g == [i \in 1..j + 1 |-> IF i <= j THEN f[i] ELSE last]
    <3>2. ASSUME NEW i \in 1..j + 1
          PROVE  g[i] = IF i <= L THEN start[i] ELSE g[i - q.off]
      <4> HIDE DEF start
      <4>1. i > L => i - q.off \in 1..j /\ i - q.off \in 1..j + 1
        BY <1>3, <2>1
      <4>2. i > L => g[i - q.off] = f[i - q.off]
        <5> HIDE DEF last
        <5> QED
          BY <4>1
      <4>3. CASE i <= j
        <5>1. i \in 1..j
          BY <4>3
        <5>2. f[i] = IF i <= L THEN start[i] ELSE f[i - q.off]
          BY <3>1, <5>1
        <5>3. g[i] = f[i]
          BY <4>3
        <5> HIDE DEF g
        <5> QED
          BY <1>3, <4>2, <5>2, <5>3
      <4>4. CASE i = j + 1
        <5>1. g[i] = last
          <6> HIDE DEF last
          <6> QED
            BY <4>4
        <5>2. last = IF i <= L THEN start[i] ELSE f[i - q.off]
          <6>1. last = IF j + 1 <= L THEN start[j + 1] ELSE f[j + 1 - q.off]
            OBVIOUS
          <6> HIDE DEF last
          <6> QED
            BY <1>1, <4>4, <6>1
        <5> HIDE DEF g, last
        <5> QED
          BY <1>3, <4>2, <5>1, <5>2
      <4> QED
        BY <4>3, <4>4
    <3>3. Is(g, j + 1)
      BY <3>2
    <3> HIDE DEF Is
    <3> QED
      BY <3>3
  <2>6. N \in S
    <3> HIDE DEF S, N
    <3>1. \A k \in Nat : k < N /\ k \in S => k + 1 \in S
      BY <2>5
    <3>2. \A k \in 0..N : k \in S
      BY <2>2, <2>4, <3>1, UpTo
    <3> QED
      BY <2>2, <3>2
  <2>7. PICK b : b = (CHOOSE f : Is(f, N)) /\ Is(b, N)
    <3> HIDE DEF Is
    <3> QED
      BY <2>6
  <2>8. \A i \in 1..N : e[i] = b[i]
    <3> HIDE DEF Is, N
    <3> QED
      BY <2>3, <2>7
  <2>9. \A i \in 1..N : b[i] = IF i <= L THEN start[i] ELSE b[i - q.off]
    <3> HIDE DEF N, start
    <3> QED
      BY <2>7, Zenon
  <2>10. DOMAIN e = 1..N
    <3> HIDE DEF N
    <3> QED
      BY <2>3
  <2> HIDE DEF Is
  <2>11. \A i \in 1..L : e[i] = start[i]
    <3> HIDE DEF start
    <3>1. \A i \in 1..L : i \in 1..N /\ i <= L
      BY <1>1, <1>3
    <3> QED
      BY <2>8, <2>9, <3>1
  <2>12. ASSUME NEW i \in L + 1..N PROVE i - q.off \in 1..N /\ e[i] = e[i - q.off]
    <3> HIDE DEF start
    <3>1. i \in 1..N /\ ~(i <= L) /\ i - q.off \in 1..N
      BY <1>1, <1>3, <2>1
    <3>2. e[i] = b[i] /\ e[i - q.off] = b[i - q.off]
      BY <2>8, <3>1
    <3>3. b[i] = b[i - q.off]
      BY <2>9, <3>1
    <3> QED
      BY <3>1, <3>2, <3>3
  <2>13. \A i \in 1..N : e[i] \in Octets
    <3> DEFINE U == {k \in Nat : \A i \in 1..k : i <= N => e[i] \in Octets}
    <3> HIDE DEF start
    <3>1. 0 \in U
      OBVIOUS
    <3>2. ASSUME NEW k \in Nat, k < N, k \in U PROVE k + 1 \in U
      <4>1. e[k + 1] \in Octets
        <5>1. CASE k + 1 <= L
          <6>1. k + 1 \in 1..L
            BY <5>1
          <6>2. start[k + 1] \in Octets
            BY <1>2, <6>1, ElementOfSeq
          <6> QED
            BY <2>11, <6>1, <6>2
        <5>2. CASE k + 1 > L
          <6>1. PICK i \in L + 1..N : i = k + 1
            BY <1>3, <2>2, <3>2, <5>2
          <6>2. i - q.off \in 1..k /\ i - q.off <= N
            BY <1>1, <1>3, <2>1, <2>2, <3>2, <6>1
          <6>3. e[i] = e[i - q.off]
            BY <2>12
          <6>4. e[i - q.off] \in Octets
            BY <3>2, <6>2
          <6> QED
            BY <6>1, <6>3, <6>4
        <5> QED
          BY <1>3, <5>1, <5>2
      <4>2. \A i \in 1..k + 1 : i \in 1..k \/ i = k + 1
        OBVIOUS
      <4> QED
        BY <3>2, <4>1, <4>2
    <3> HIDE DEF U
    <3>3. \A k \in 0..N : k \in U
      <4> HIDE DEF N
      <4> QED
        BY <2>2, <3>1, <3>2, UpTo
    <3>4. N \in U
      BY <2>2, <3>3
    <3> QED
      BY <3>4 DEF U
  <2>14. e \in [1..N -> Octets]
    <3> HIDE DEF N
    <3>1. e = [i \in 1..N |-> e[i]]
      BY <2>3, <2>10
    <3> QED
      BY <2>13, <3>1
  <2>15. e \in Seq(Octets) /\ Len(e) = N
    <3> HIDE DEF N
    <3> QED
      BY <2>2, <2>14
  <2> QED
    BY <1>2, <2>11, <2>12, <2>15 DEF e
<1> QED
  BY <1>4, <1>5

\* A copy on its way to e: what is out is the beginning of e, and the rest of e repeats
\* at the distance of the gap.
OnTheWay(e, s) ==
  /\ s.out \in Seq(Octets) /\ s.gap \in Nat \ {0} /\ s.left \in Nat
  /\ Len(s.out) + s.left = Len(e) /\ s.gap <= Len(s.out)
  /\ \A i \in 1..Len(s.out) : s.out[i] = e[i]
  /\ \A i \in Len(s.out) + 1..Len(e) : e[i] = e[i - s.gap]

LEMMA PieceStep ==
  ASSUME NEW e \in Seq(Octets), NEW s, OnTheWay(e, s)
  PROVE  OnTheWay(e, Piece(s)) /\ (s.left = 0 => Piece(s).left = 0) /\ (s.left > 0 => Piece(s).left < s.left)
<1> DEFINE o == s.out
           g == s.gap
           l == s.left
           L == Len(o)
<1>0. o \in Seq(Octets) /\ g \in Nat \ {0} /\ l \in Nat /\ L \in Nat /\ L + l = Len(e) /\ g <= L
  BY LenProperties DEF OnTheWay
<1>1. /\ \A i \in 1..L : o[i] = e[i]
      /\ \A i \in L + 1..Len(e) : e[i] = e[i - g]
  BY DEF OnTheWay
<1>2. PICK n \in Nat : n = (IF g < l THEN g ELSE l) /\ n <= g /\ n <= l
  BY <1>0
<1>3. PICK from \in Nat : from = L - g
  BY <1>0
<1> DEFINE more == SubSeq(o, from + 1, from + n)
<1>4. Piece(s) = [out |-> o \o more, gap |-> g + n, left |-> l - n]
  BY <1>2, <1>3 DEF Piece
<1>13. L = Len(o)
  OBVIOUS
<1> HIDE DEF o, g, l, L
<1>5. more \in Seq(Octets) /\ Len(more) = n /\ \A j \in 1..n : more[j] = o[from + j]
  <2>1. from + 1 \in Int /\ from + n \in Int
    OBVIOUS
  <2>2. \A i \in from + 1..from + n : i \in 1..L
    BY <1>0, <1>2, <1>3
  <2>3. \A i \in from + 1..from + n : o[i] \in Octets
    BY <1>0, <1>13, <2>2, ElementOfSeq
  <2>4. /\ more \in Seq(Octets)
        /\ Len(more) = IF from + 1 <= from + n THEN (from + n) - (from + 1) + 1 ELSE 0
        /\ \A j \in 1..(from + n) - (from + 1) + 1 : more[j] = o[(from + 1) + j - 1]
    BY <2>1, <2>3, SubSeqProperties
  <2> HIDE DEF more
  <2>5. Len(more) = n
    BY <1>2, <2>4
  <2>6. ASSUME NEW j \in 1..n PROVE more[j] = o[from + j]
    <3>1. j \in 1..(from + n) - (from + 1) + 1 /\ (from + 1) + j - 1 = from + j
      BY <1>2
    <3>2. more[j] = o[(from + 1) + j - 1]
      BY <2>4, <3>1
    <3> QED
      BY <3>1, <3>2
  <2> QED
    BY <2>4, <2>5, <2>6
<1> HIDE DEF more
<1> DEFINE new == o \o more
<1>6. /\ new \in Seq(Octets) /\ Len(new) = L + n
      /\ \A i \in 1..L + n : new[i] = IF i <= L THEN o[i] ELSE more[i - L]
  <2>1. /\ o \o more \in Seq(Octets) /\ Len(o \o more) = Len(o) + Len(more)
        /\ \A i \in 1..Len(o) + Len(more) : (o \o more)[i] = IF i <= Len(o) THEN o[i] ELSE more[i - Len(o)]
    BY <1>0, <1>5, ConcatProperties
  <2> HIDE DEF new
  <2> QED
    BY <1>0, <1>5, <1>13, <2>1 DEF new
<1> HIDE DEF new
<1>8. Len(e) \in Nat
  BY LenProperties
<1>7. ASSUME NEW i \in 1..L + n PROVE new[i] = e[i]
  <2>1. CASE i <= L
    <3>1. i \in 1..L
      BY <2>1
    <3> QED
      BY <1>1, <1>6, <2>1, <3>1
  <2>2. CASE i > L
    <3>1. PICK j \in 1..n : j = i - L
      BY <1>0, <1>2, <2>2
    <3>2. from + j \in 1..L /\ i \in L + 1..Len(e) /\ from + j = i - g
      BY <1>0, <1>2, <1>3, <1>8, <2>2, <3>1
    <3>3. new[i] = more[j]
      BY <1>0, <1>6, <2>2, <3>1
    <3>4. more[j] = o[from + j]
      BY <1>5
    <3>5. o[from + j] = e[from + j]
      BY <1>1, <3>2
    <3>6. e[i] = e[i - g]
      BY <1>1, <3>2
    <3> QED
      BY <3>2, <3>3, <3>4, <3>5, <3>6
  <2> QED
    BY <1>0, <2>1, <2>2
<1>9. ASSUME NEW i \in L + n + 1..Len(e) PROVE e[i] = e[i - (g + n)]
  <2>0. i \in Nat /\ L + n < Len(e)
    BY <1>0, <1>8
  <2>1. n = g
    BY <1>0, <1>2, <1>8, <2>0
  <2>2. PICK h \in L + 1..Len(e) : h = i - g
    BY <1>0, <1>8, <2>0, <2>1
  <2>3. i \in L + 1..Len(e)
    BY <1>0, <1>8
  <2>4. e[i] = e[h] /\ e[h] = e[h - g]
    BY <1>1, <2>2, <2>3
  <2>5. h - g = i - (g + n)
    BY <1>0, <2>0, <2>1, <2>2
  <2> QED
    BY <2>4, <2>5
<1> DEFINE p == Piece(s)
<1>10. p.out = new /\ p.gap = g + n /\ p.left = l - n
  BY <1>4 DEF new
<1> HIDE DEF p
<1>11. OnTheWay(e, p)
  <2>1. g + n \in Nat \ {0} /\ l - n \in Nat /\ Len(new) + (l - n) = Len(e) /\ g + n <= Len(new)
    <3>1. Len(new) = L + n
      BY <1>6
    <3> QED
      BY <1>0, <1>2, <1>8, <3>1
  <2>2. \A i \in Len(new) + 1..Len(e) : e[i] = e[i - (g + n)]
    BY <1>6, <1>9
  <2>3. \A i \in 1..Len(new) : new[i] = e[i]
    BY <1>6, <1>7
  <2> QED
    BY <1>6, <1>10, <2>1, <2>2, <2>3 DEF OnTheWay
<1>12. (l = 0 => l - n = 0) /\ (l > 0 => l - n < l)
  BY <1>0, <1>2
<1> QED
  BY <1>10, <1>11, <1>12 DEF p, l

\* However the pieces fall, the copy is the one byte by byte.
LEMMA CopyExact ==
  ASSUME NEW out \in Seq(Octets), NEW match \in Nat, NEW off \in 1..Len(out),
         NEW e \in Seq(Octets), Len(e) = Len(out) + match,
         \A i \in 1..Len(out) : e[i] = out[i],
         \A i \in Len(out) + 1..Len(e) : e[i] = e[i - off]
  PROVE  CopyMatch(out, off, match) = e
<1>1. PICK c : Copies(c, out, off, match)
  BY CopyIs
<1>2. Len(out) \in Nat /\ Len(e) \in Nat
  BY LenProperties
<1> DEFINE S == {k \in Nat : OnTheWay(e, c[k]) /\ c[k].left <= match - k}
<1>3. 0 \in S
  <2>1. c[0].out = out /\ c[0].gap = off /\ c[0].left = match
    BY <1>1 DEF Copies
  <2>2. OnTheWay(e, c[0])
    BY <1>2, <2>1 DEF OnTheWay
  <2> QED
    BY <2>1, <2>2
<1>4. ASSUME NEW k \in Nat, k < match, k \in S PROVE k + 1 \in S
  <2>1. c[k + 1] = Piece(c[k]) /\ OnTheWay(e, c[k]) /\ c[k].left <= match - k
    BY <1>1, <1>4 DEF Copies
  <2>2. /\ OnTheWay(e, Piece(c[k])) /\ (c[k].left = 0 => Piece(c[k]).left = 0)
        /\ (c[k].left > 0 => Piece(c[k]).left < c[k].left)
    BY <2>1, PieceStep
  <2>3. PICK l \in Nat, m \in Nat : l = c[k].left /\ m = Piece(c[k]).left
    BY <2>1, <2>2 DEF OnTheWay
  <2>4. m <= match - (k + 1)
    BY <1>4, <2>1, <2>2, <2>3
  <2> QED
    BY <2>1, <2>2, <2>3, <2>4
<1> HIDE DEF S
<1>5. \A k \in 0..match : k \in S
  BY <1>3, <1>4, UpTo
<1>6. OnTheWay(e, c[match]) /\ c[match].left <= match - match
  <2>1. match \in S
    BY <1>5
  <2> QED
    BY <2>1 DEF S
<1>7. c[match].left = 0
  <2>1. c[match].left \in Nat
    BY <1>6 DEF OnTheWay
  <2> QED
    BY <1>6, <2>1
<1>8. PICK o \in Seq(Octets) : o = c[match].out /\ Len(o) = Len(e) /\ \A i \in 1..Len(o) : o[i] = e[i]
  <2>1. Len(c[match].out) \in Nat
    BY <1>6, LenProperties DEF OnTheWay
  <2> QED
    BY <1>2, <1>6, <1>7, <2>1 DEF OnTheWay
<1>9. o = e
  BY <1>8, SeqEqual
<1> QED
  BY <1>1, <1>8, <1>9 DEF Copies

\* What stands in src from p on.
Holds(src, p, w) ==
  /\ p + Len(w) <= Len(src) + 1
  /\ \A i \in 1..Len(w) : src[p + i - 1] = w[i]

LEMMA HoldsBoth ==
  ASSUME NEW src \in Seq(Octets), NEW p \in Nat \ {0}, NEW u \in Seq(Octets), NEW w \in Seq(Octets),
         Holds(src, p, u \o w)
  PROVE  Holds(src, p, u) /\ Holds(src, p + Len(u), w)
<1>1. Len(u) \in Nat /\ Len(w) \in Nat /\ Len(src) \in Nat
  BY LenProperties
<1>2. /\ Len(u \o w) = Len(u) + Len(w)
      /\ \A i \in 1..Len(u) + Len(w) : (u \o w)[i] = IF i <= Len(u) THEN u[i] ELSE w[i - Len(u)]
  BY ConcatProperties
<1> DEFINE v == u \o w
<1> HIDE DEF v
<1>3. p + Len(v) <= Len(src) + 1 /\ \A i \in 1..Len(v) : src[p + i - 1] = v[i]
  BY DEF Holds, v
<1>4. Len(v) = Len(u) + Len(w)
  BY <1>2 DEF v
<1>5. ASSUME NEW i \in 1..Len(u) PROVE src[p + i - 1] = u[i]
  <2>1. i \in 1..Len(v) /\ i \in 1..Len(u) + Len(w) /\ i <= Len(u)
    BY <1>1, <1>4
  <2>2. v[i] = u[i]
    BY <1>2, <2>1 DEF v
  <2> QED
    BY <1>3, <2>1, <2>2
<1>6. ASSUME NEW i \in 1..Len(w) PROVE src[p + Len(u) + i - 1] = w[i]
  <2>1. PICK j \in 1..Len(v) : j = Len(u) + i
    BY <1>1, <1>4
  <2>2. j \in 1..Len(u) + Len(w) /\ ~(j <= Len(u)) /\ j - Len(u) = i
    BY <1>1, <1>4, <2>1
  <2>3. v[j] = w[i]
    BY <1>2, <2>2 DEF v
  <2>4. src[p + j - 1] = v[j] /\ p + j - 1 = p + Len(u) + i - 1
    BY <1>1, <1>3, <2>1
  <2> QED
    BY <2>3, <2>4
<1> QED
  BY <1>1, <1>3, <1>4, <1>5, <1>6 DEF Holds

LEMMA ChainIs ==
  ASSUME NEW n \in Nat
  PROVE  /\ Chain(n) \in Seq(Octets)
         /\ n < Full => Chain(n) = <<>>
         /\ n >= Full => \E m \in Nat, r \in 0..Last - 1 :
              /\ n = Full + Last * m + r /\ Len(Chain(n)) = m + 1
              /\ \A k \in 1..m : Chain(n)[k] = Last
              /\ Chain(n)[m + 1] = r
<1>1. CASE n < Full
  <2>1. Chain(n) = <<>> /\ <<>> \in Seq(Octets)
    BY <1>1 DEF Chain
  <2>2. ~(n >= Full)
    BY <1>1, Sizes
  <2> QED
    BY <2>1, <2>2
<1>2. CASE n >= Full
  <2>1. PICK d \in Nat : d = n - Full
    BY <1>2, Sizes
  <2>2. d \div Last \in Nat /\ d % Last \in 0..Last - 1 /\ d = (d \div Last) * Last + (d % Last)
    <3>1. Last \in Nat \ {0}
      BY Sizes
    <3> QED
      BY <3>1, PutTogether
  <2>3. PICK m \in Nat, r \in 0..Last - 1 : m = d \div Last /\ r = d % Last /\ d = m * Last + r
    BY <2>2
  <2>4. n = Full + Last * m + r
    <3>1. PICK p \in Nat : p = m * Last /\ p = Last * m
      <4>1. m * Last = Last * m /\ m * Last \in Nat
        BY Sizes
      <4> QED
        BY <4>1
    <3>2. d = p + r /\ n = Full + d
      BY <1>2, <2>1, <2>3, <3>1, Sizes
    <3>3. n = Full + p + r
      BY <3>2, Sizes
    <3> QED
      BY <3>1, <3>3
  <2> DEFINE u == [k \in 1..m |-> Last]
             w == <<r>>
  <2>5. Chain(n) = u \o w
    <3>1. ~(n < Full)
      BY <1>2, Sizes
    <3> QED
      BY <2>1, <2>3, <3>1 DEF Chain
  <2>6. u \in Seq(Octets) /\ Len(u) = m /\ \A k \in 1..m : u[k] = Last
    <3>1. Last \in Octets
      BY Sizes DEF Octets
    <3>2. u \in [1..m -> Octets]
      BY <3>1
    <3> QED
      BY <3>2
  <2>7. w \in Seq(Octets) /\ Len(w) = 1 /\ w[1] = r
    <3>1. r \in Octets
      BY Sizes DEF Octets
    <3> QED
      BY <3>1
  <2> HIDE DEF u, w
  <2>8. /\ u \o w \in Seq(Octets) /\ Len(u \o w) = m + 1
        /\ \A k \in 1..m + 1 : (u \o w)[k] = IF k <= m THEN u[k] ELSE w[k - m]
    <3>1. /\ u \o w \in Seq(Octets) /\ Len(u \o w) = Len(u) + Len(w)
          /\ \A k \in 1..Len(u) + Len(w) : (u \o w)[k] = IF k <= Len(u) THEN u[k] ELSE w[k - Len(u)]
      BY <2>6, <2>7, ConcatProperties
    <3>2. Len(u) = m /\ Len(w) = 1
      BY <2>6, <2>7
    <3> QED
      BY <3>1, <3>2
  <2> DEFINE v == u \o w
  <2> HIDE DEF v
  <2>9. v \in Seq(Octets) /\ Len(v) = m + 1
    BY <2>8 DEF v
  <2>10. \A k \in 1..m : v[k] = Last
    <3>1. \A k \in 1..m : k \in 1..m + 1 /\ k <= m
      OBVIOUS
    <3> QED
      BY <2>6, <2>8, <3>1 DEF v
  <2>11. v[m + 1] = r
    <3>1. m + 1 \in 1..m + 1 /\ ~(m + 1 <= m) /\ m + 1 - m = 1
      OBVIOUS
    <3> QED
      BY <2>7, <2>8, <3>1 DEF v
  <2>12. Chain(n) = v
    BY <2>5 DEF v
  <2>13. ~(n < Full)
    BY <1>2, Sizes
  <2> QED
    BY <2>4, <2>9, <2>10, <2>11, <2>12, <2>13
<1> QED
  BY <1>1, <1>2, Sizes

LEMMA NibbleIs == ASSUME NEW n \in Nat PROVE Nibble(n) \in 0..Full
  BY Sizes DEF Nibble

\* The least of a set that has one.
LEMMA MinIs ==
  ASSUME NEW S, NEW m \in S, S \subseteq Int, \A k \in S : m <= k
  PROVE  Min(S) = m
<1>1. \A x \in S : (\A k \in S : x <= k) => x = m
  OBVIOUS
<1> QED
  BY <1>1 DEF Min

\* A length is read back as it was written.
LEMMA LengthReads ==
  ASSUME NEW src \in Seq(Octets), NEW n \in Nat, NEW at \in Nat \ {0}, Holds(src, at, Chain(n))
  PROVE  ReadLength(src, Nibble(n), at) = [length |-> n, next |-> at + Len(Chain(n))]
<1>0. Len(src) \in Nat
  BY LenProperties
<1>1. CASE n < Full
  <2>1. Len(Chain(n)) = 0 /\ Nibble(n) = n /\ n # Full
    BY <1>1, ChainIs, Sizes DEF Nibble
  <2> QED
    BY <2>1 DEF ReadLength
<1>2. CASE n >= Full
  <2>1. PICK m \in Nat, r \in 0..Last - 1 :
          /\ n = Full + Last * m + r /\ Len(Chain(n)) = m + 1
          /\ \A k \in 1..m : Chain(n)[k] = Last
          /\ Chain(n)[m + 1] = r
    BY <1>2, ChainIs
  <2> DEFINE ends == {k \in at..Len(src) : src[k] # Last}
             end == Min(ends)
  <2>2. Nibble(n) = Full
    BY <1>2, Sizes DEF Nibble
  <2>3. at + m <= Len(src) /\ \A i \in 1..m + 1 : src[at + i - 1] = Chain(n)[i]
    BY <1>0, <2>1 DEF Holds
  <2>4. src[at + m] = r
    <3>1. m + 1 \in 1..m + 1 /\ at + (m + 1) - 1 = at + m
      OBVIOUS
    <3>2. src[at + (m + 1) - 1] = Chain(n)[m + 1]
      BY <2>3, <3>1
    <3> QED
      BY <2>1, <3>1, <3>2
  <2>5. ASSUME NEW k \in at..at + m - 1 PROVE src[k] = Last
    <3>1. PICK i \in 1..m : k = at + i - 1
      <4>1. k - at + 1 \in 1..m /\ k = at + (k - at + 1) - 1
        OBVIOUS
      <4> QED
        BY <4>1
    <3>2. i \in 1..m + 1
      OBVIOUS
    <3>3. src[at + i - 1] = Chain(n)[i]
      BY <2>3, <3>2
    <3> QED
      BY <2>1, <3>1, <3>3
  <2>6. at + m \in ends
    BY <1>0, <2>3, <2>4, Sizes
  <2>7. \A k \in ends : at + m <= k
    BY <1>0, <2>5
  <2>8. end = at + m
    <3>1. ends \subseteq Int
      BY <1>0
    <3> HIDE DEF ends
    <3> QED
      BY <2>6, <2>7, <3>1, MinIs
  <2>9. ReadLength(src, Nibble(n), at) =
          IF ends = {} THEN Fail
          ELSE [length |-> Full + Last * (end - at) + src[end], next |-> end + 1]
    BY <2>2 DEF ReadLength
  <2> HIDE DEF ends, end
  <2>10. ReadLength(src, Nibble(n), at) = [length |-> Full + Last * m + r, next |-> at + m + 1]
    <3>1. end - at = m
      BY <2>8
    <3>2. src[end] = r
      BY <2>4, <2>8
    <3>3. end + 1 = at + m + 1
      BY <2>8
    <3> QED
      BY <2>6, <2>9, <3>1, <3>2, <3>3
  <2>11. at + m + 1 = at + Len(Chain(n))
    BY <2>1
  <2> QED
    BY <2>1, <2>10, <2>11
<1> QED
  BY <1>1, <1>2, Sizes

\* Whatever is read, a length is a length and ends in the block.
LEMMA LengthTyped ==
  ASSUME NEW src \in Seq(Octets), NEW nibble \in 0..Full, NEW at \in 1..Len(src) + 1,
         ReadLength(src, nibble, at) # Fail
  PROVE  /\ ReadLength(src, nibble, at).length \in Nat
         /\ ReadLength(src, nibble, at).next \in at..Len(src) + 1
<1>0. Len(src) \in Nat
  BY LenProperties
<1> DEFINE ends == {k \in at..Len(src) : src[k] # Last}
           end == Min(ends)
           len == ReadLength(src, nibble, at)
<1>1. CASE nibble # Full
  <2>1. len = [length |-> nibble, next |-> at]
    BY <1>1 DEF ReadLength
  <2>2. nibble \in Nat
    BY Sizes
  <2> HIDE DEF len
  <2> QED
    BY <1>0, <2>1, <2>2 DEF len
<1>2. CASE nibble = Full
  <2>1. len = IF ends = {} THEN Fail
              ELSE [length |-> Full + Last * (end - at) + src[end], next |-> end + 1]
    BY <1>2 DEF ReadLength
  <2>2. ends # {}
    BY <2>1
  <2>3. PICK m \in ends : \A k \in ends : m <= k
    <3>1. ends \subseteq Nat
      BY <1>0
    <3> HIDE DEF ends
    <3> QED
      BY <2>2, <3>1, Least
  <2>4. end = m
    <3>1. ends \subseteq Int
      BY <1>0
    <3> HIDE DEF ends
    <3> QED
      BY <2>3, <3>1, MinIs
  <2>5. m \in at..Len(src) /\ m \in 1..Len(src) /\ m \in Nat
    BY <1>0
  <2>6. PICK b \in Nat, d \in Nat : b = src[m] /\ d = m - at
    <3>1. src[m] \in Octets
      BY <2>5, ElementOfSeq
    <3>2. src[m] \in Nat /\ m - at \in Nat
      BY <1>0, <2>5, <3>1, Sizes DEF Octets
    <3> QED
      BY <3>2
  <2> HIDE DEF ends, end, len
  <2>7. len = [length |-> Full + Last * d + b, next |-> m + 1]
    BY <2>1, <2>2, <2>4, <2>6
  <2>8. Full + Last * d + b \in Nat
    BY Sizes
  <2>9. m + 1 \in at..Len(src) + 1
    BY <1>0, <2>5
  <2> QED
    BY <2>7, <2>8, <2>9 DEF len
<1> QED
  BY <1>1, <1>2

\* The parts of an encoded sequence.
Low(q) == IF q.off = 0 THEN 0 ELSE Nibble(q.len - MinMatch)
Token(q) == Base * Nibble(Len(q.lit)) + Low(q)
Rest(q) ==
  IF q.off = 0 THEN <<>>
  ELSE <<q.off % (Last + 1), q.off \div (Last + 1)>> \o Chain(q.len - MinMatch)
LongEnough(q) == q.off # 0 => q.len >= MinMatch

LEMMA TokenIs ==
  ASSUME NEW q \in Sequence, LongEnough(q)
  PROVE  /\ Token(q) \in Octets /\ Token(q) \div Base = Nibble(Len(q.lit)) /\ Token(q) % Base = Low(q)
         /\ Len(q.lit) \in Nat /\ q.lit \in Seq(Octets) /\ q.off \in Nat /\ q.len \in Nat
         /\ (q.off # 0 => q.len - MinMatch \in Nat)
<1>1. q.lit \in Seq(Octets) /\ q.off \in Nat /\ q.len \in Nat /\ Len(q.lit) \in Nat
  BY Sizes, LenProperties DEF Sequence, Octets
<1>2. q.off # 0 => q.len - MinMatch \in Nat
  BY <1>1, Sizes DEF LongEnough
<1>3. PICK a \in 0..Full, b \in 0..Full : a = Nibble(Len(q.lit)) /\ b = Low(q)
  <2>1. 0 \in 0..Full
    BY Sizes
  <2>2. Nibble(Len(q.lit)) \in 0..Full /\ (q.off # 0 => Nibble(q.len - MinMatch) \in 0..Full)
    BY <1>1, <1>2, NibbleIs
  <2> QED
    BY <2>1, <2>2 DEF Low
<1>4. a \in Nat /\ b \in 0..Base - 1 /\ Base \in Nat \ {0}
  BY Sizes
<1>5. Token(q) = a * Base + b
  <2>1. Base * a = a * Base
    BY <1>4
  <2> QED
    BY <1>3, <2>1 DEF Token
<1>6. (a * Base + b) \div Base = a /\ (a * Base + b) % Base = b
  BY <1>4, TakeApart
<1>7. a * Base + b \in Octets
  <2>1. a * Base <= (Base - 1) * Base /\ a * Base \in Nat
    <3>1. a <= Base - 1 /\ Base - 1 \in Nat
      BY <1>4, Sizes
    <3> QED
      BY <1>4, <3>1, Scales
  <2>2. (Base - 1) * Base = Base * Base - Base /\ Base * Base \in Nat
    BY <1>4
  <2>3. a * Base + b <= Base * Base - 1
    BY <1>4, <2>1, <2>2
  <2> QED
    BY <1>4, <2>1, <2>3, Sizes DEF Octets
<1> QED
  BY <1>1, <1>2, <1>3, <1>5, <1>6, <1>7

LEMMA OffsetIs ==
  ASSUME NEW q \in Sequence
  PROVE  /\ q.off % (Last + 1) \in Octets /\ q.off \div (Last + 1) \in Octets
         /\ q.off = (q.off % (Last + 1)) + (Last + 1) * (q.off \div (Last + 1))
<1>1. PICK w \in Nat \ {0}, o \in Nat : w = Last + 1 /\ o = q.off /\ o <= w * w - 1
  <2>1. Last + 1 \in Nat \ {0} /\ (Last + 1) * (Last + 1) \in Nat
    BY Sizes
  <2>2. q.off \in 0..(Last + 1) * (Last + 1) - 1
    BY DEF Sequence
  <2> QED
    BY <2>1, <2>2
<1>2. PICK d \in Nat, r \in 0..w - 1 : d = o \div w /\ r = o % w /\ o = d * w + r
  <2>1. o \div w \in Nat /\ o % w \in 0..w - 1 /\ o = (o \div w) * w + (o % w)
    BY PutTogether
  <2> QED
    BY <2>1
<1>3. d < w
  <2>1. w * d < w * w
    <3>1. d * w = w * d /\ w * d \in Nat /\ w * w \in Nat
      OBVIOUS
    <3> QED
      BY <1>1, <1>2, <3>1
  <2> QED
    BY <2>1, Cancels
<1>4. d \in Octets /\ r \in Octets
  BY <1>1, <1>3, Sizes DEF Octets
<1>5. o = r + w * d
  <2>1. PICK g \in Nat : g = d * w /\ g = w * d
    OBVIOUS
  <2> QED
    BY <1>2, <2>1
<1> QED
  BY <1>1, <1>2, <1>4, <1>5

LEMMA EncodeParts ==
  ASSUME NEW q \in Sequence, LongEnough(q)
  PROVE  /\ Encode(q) = <<Token(q)>> \o Chain(Len(q.lit)) \o q.lit \o Rest(q)
         /\ <<Token(q)>> \in Seq(Octets) /\ Chain(Len(q.lit)) \in Seq(Octets)
         /\ q.lit \in Seq(Octets) /\ Rest(q) \in Seq(Octets)
         /\ Encode(q) \in Seq(Octets)
         /\ Len(Encode(q)) = 1 + Len(Chain(Len(q.lit))) + Len(q.lit) + Len(Rest(q))
<1>1. Token(q) \in Octets /\ Len(q.lit) \in Nat /\ q.lit \in Seq(Octets)
  BY TokenIs
<1>2. Encode(q) = <<Token(q)>> \o Chain(Len(q.lit)) \o q.lit \o Rest(q)
  BY DEF Encode, Token, Low, Rest
<1>3. Chain(Len(q.lit)) \in Seq(Octets)
  BY <1>1, ChainIs
<1>4. Rest(q) \in Seq(Octets)
  <2>1. CASE q.off = 0
    BY <2>1 DEF Rest
  <2>2. CASE q.off # 0
    <3>1. q.off % (Last + 1) \in Octets /\ q.off \div (Last + 1) \in Octets
      BY OffsetIs
    <3>2. <<q.off % (Last + 1), q.off \div (Last + 1)>> \in Seq(Octets)
      BY <3>1
    <3>3. Chain(q.len - MinMatch) \in Seq(Octets)
      <4>1. q.len - MinMatch \in Nat
        BY <2>2, TokenIs
      <4> QED
        BY <4>1, ChainIs
    <3> QED
      BY <2>2, <3>2, <3>3, ConcatProperties DEF Rest
  <2> QED
    BY <2>1, <2>2
<1>5. <<Token(q)>> \in Seq(Octets) /\ Len(<<Token(q)>>) = 1
  BY <1>1
<1>6. /\ <<Token(q)>> \o Chain(Len(q.lit)) \in Seq(Octets)
      /\ Len(<<Token(q)>> \o Chain(Len(q.lit))) = 1 + Len(Chain(Len(q.lit)))
  BY <1>3, <1>5, ConcatProperties
<1> DEFINE h == <<Token(q)>> \o Chain(Len(q.lit))
<1> HIDE DEF h
<1>7. h \o q.lit \in Seq(Octets) /\ Len(h \o q.lit) = Len(h) + Len(q.lit)
  <2>1. h \in Seq(Octets)
    BY <1>6 DEF h
  <2> QED
    BY <1>1, <2>1, ConcatProperties
<1>8. (h \o q.lit) \o Rest(q) \in Seq(Octets) /\ Len((h \o q.lit) \o Rest(q)) = Len(h \o q.lit) + Len(Rest(q))
  BY <1>4, <1>7, ConcatProperties
<1>9. Encode(q) = (h \o q.lit) \o Rest(q) /\ Len(h) = 1 + Len(Chain(Len(q.lit)))
  BY <1>2, <1>6 DEF h
<1> QED
  BY <1>1, <1>2, <1>3, <1>4, <1>5, <1>7, <1>8, <1>9

LEMMA NoFail ==
  /\ \A x, y : [length |-> x, next |-> y] # Fail
  /\ \A x, y : [at |-> x, out |-> y] # Fail
<1>1. ASSUME NEW x, NEW y, [length |-> x, next |-> y] = Fail PROVE FALSE
  <2>1. DOMAIN [length |-> x, next |-> y] = DOMAIN Fail
    BY <1>1
  <2>2. "length" \in DOMAIN [length |-> x, next |-> y] /\ "length" \notin DOMAIN Fail
    BY DEF Fail
  <2> QED
    BY <2>1, <2>2
<1>2. ASSUME NEW x, NEW y, [at |-> x, out |-> y] = Fail PROVE FALSE
  <2>1. DOMAIN [at |-> x, out |-> y] = DOMAIN Fail
    BY <1>2
  <2>2. "at" \in DOMAIN [at |-> x, out |-> y] /\ "at" \notin DOMAIN Fail
    BY DEF Fail
  <2> QED
    BY <2>1, <2>2
<1> QED
  BY <1>1, <1>2

\* Where the parts of a sequence stand.
LitAt(q, p) == p + 1 + Len(Chain(Len(q.lit)))
TailAt(q, p) == LitAt(q, p) + Len(q.lit)
LEMMA EncodeReads ==
  ASSUME NEW src \in Seq(Octets), NEW p \in Nat \ {0}, NEW q \in Sequence, LongEnough(q),
         Holds(src, p, Encode(q))
  PROVE  /\ p \in 1..Len(src) /\ Len(src) \in Nat
         /\ src[p] = Token(q)
         /\ Holds(src, p + 1, Chain(Len(q.lit)))
         /\ Holds(src, LitAt(q, p), q.lit)
         /\ Holds(src, TailAt(q, p), Rest(q))
         /\ LitAt(q, p) \in Nat \ {0} /\ TailAt(q, p) \in Nat \ {0}
         /\ p + Len(Encode(q)) = TailAt(q, p) + Len(Rest(q))
<1> DEFINE t == <<Token(q)>>
           c == Chain(Len(q.lit))
           l == q.lit
           w == Rest(q)
<1>1. /\ Encode(q) = ((t \o c) \o l) \o w
      /\ t \in Seq(Octets) /\ c \in Seq(Octets) /\ l \in Seq(Octets) /\ w \in Seq(Octets)
      /\ Len(Encode(q)) = 1 + Len(c) + Len(l) + Len(w)
  BY EncodeParts
<1>2. Len(t) = 1 /\ t[1] = Token(q)
  OBVIOUS
<1> HIDE DEF t, c, l, w
<1>3. Len(c) \in Nat /\ Len(l) \in Nat /\ Len(w) \in Nat /\ Len(src) \in Nat
  BY <1>1, LenProperties
<1>4. t \o c \in Seq(Octets) /\ Len(t \o c) = 1 + Len(c)
  BY <1>1, <1>2, ConcatProperties
<1>5. (t \o c) \o l \in Seq(Octets) /\ Len((t \o c) \o l) = 1 + Len(c) + Len(l)
  <2>1. (t \o c) \o l \in Seq(Octets) /\ Len((t \o c) \o l) = Len(t \o c) + Len(l)
    BY <1>1, <1>4, ConcatProperties
  <2> QED
    BY <1>4, <2>1
<1>6. Holds(src, p, (t \o c) \o l) /\ Holds(src, p + Len((t \o c) \o l), w)
  BY <1>1, <1>5, HoldsBoth
<1>7. Holds(src, p, t \o c) /\ Holds(src, p + Len(t \o c), l)
  BY <1>1, <1>4, <1>6, HoldsBoth
<1>8. Holds(src, p, t) /\ Holds(src, p + 1, c)
  BY <1>1, <1>2, <1>7, HoldsBoth
<1>9. p \in 1..Len(src) /\ src[p] = Token(q)
  <2>1. p + 1 <= Len(src) + 1 /\ src[p + 1 - 1] = t[1]
    <3>1. 1 \in 1..1
      OBVIOUS
    <3> QED
      BY <1>2, <1>8, <3>1 DEF Holds
  <2>2. p + 1 - 1 = p
    OBVIOUS
  <2> QED
    BY <1>2, <1>3, <2>1, <2>2
<1>10. LitAt(q, p) = p + (1 + Len(c)) /\ TailAt(q, p) = p + (1 + Len(c) + Len(l))
  <2>1. LitAt(q, p) = p + 1 + Len(c) /\ TailAt(q, p) = p + 1 + Len(c) + Len(l)
    BY DEF LitAt, TailAt, c, l
  <2> QED
    BY <1>3, <2>1
<1>11. LitAt(q, p) \in Nat \ {0} /\ TailAt(q, p) \in Nat \ {0}
  BY <1>3, <1>10
<1>12. p + Len(Encode(q)) = TailAt(q, p) + Len(w)
  BY <1>1, <1>3, <1>10
<1> QED
  BY <1>3, <1>4, <1>5, <1>6, <1>7, <1>8, <1>9, <1>10, <1>11, <1>12 DEF c, l, w

LEMMA LiteralsExact ==
  ASSUME NEW src \in Seq(Octets), NEW p \in Nat \ {0}, NEW q \in Sequence, LongEnough(q),
         Holds(src, p, Encode(q)), NEW out \in Seq(Octets), NEW cap \in Nat
  PROVE  Literals(src, cap, [at |-> p, out |-> out]) =
           IF Len(out) + Len(q.lit) <= cap THEN [at |-> TailAt(q, p), out |-> out \o q.lit] ELSE Fail
<1> DEFINE L == Len(q.lit)
           a == LitAt(q, p)
           z == TailAt(q, p)
<1>1. /\ src[p] \div Base = Nibble(L) /\ L \in Nat /\ q.lit \in Seq(Octets)
      /\ Holds(src, p + 1, Chain(L)) /\ Holds(src, a, q.lit) /\ a \in Nat \ {0} /\ Len(src) \in Nat
  BY TokenIs, EncodeReads
<1>2. ReadLength(src, Nibble(L), p + 1) = [length |-> L, next |-> a]
  <2>1. p + 1 \in Nat \ {0} /\ p + 1 + Len(Chain(L)) = a
    BY DEF LitAt
  <2>2. ReadLength(src, Nibble(L), p + 1) = [length |-> L, next |-> p + 1 + Len(Chain(L))]
    BY <1>1, <2>1, LengthReads
  <2> QED
    BY <2>1, <2>2
<1>3. z = a + L
  BY DEF TailAt
<1> HIDE DEF L, a, z
<1>4. ~(Len(src) - a + 1 < L)
  <2>1. a + Len(q.lit) <= Len(src) + 1
    BY <1>1 DEF Holds
  <2> QED
    BY <1>1, <2>1 DEF L
<1>5. SubSeq(src, a, a + L - 1) = q.lit
  <2>1. a \in Int /\ a + L - 1 \in Int
    BY <1>1
  <2>2. \A i \in a..a + L - 1 : i \in 1..Len(src)
    BY <1>1, <1>4
  <2>3. \A i \in a..a + L - 1 : src[i] \in Octets
    BY <2>2, ElementOfSeq
  <2> DEFINE u == SubSeq(src, a, a + L - 1)
  <2>4. /\ u \in Seq(Octets)
        /\ Len(u) = IF a <= a + L - 1 THEN (a + L - 1) - a + 1 ELSE 0
        /\ \A i \in 1..(a + L - 1) - a + 1 : u[i] = src[a + i - 1]
    BY <2>1, <2>3, SubSeqProperties
  <2> HIDE DEF u
  <2>5. Len(u) = L
    BY <1>1, <2>4
  <2>6. ASSUME NEW i \in 1..L PROVE u[i] = q.lit[i]
    <3>1. i \in 1..(a + L - 1) - a + 1 /\ i \in 1..Len(q.lit)
      BY <1>1 DEF L
    <3>2. src[a + i - 1] = q.lit[i]
      BY <1>1, <3>1 DEF Holds
    <3> QED
      BY <2>4, <3>1, <3>2
  <2>7. Len(q.lit) = L
    BY DEF L
  <2>8. u = q.lit
    <3> DEFINE v == q.lit
    <3>1. v \in Seq(Octets) /\ Len(u) = Len(v) /\ \A i \in 1..Len(u) : u[i] = v[i]
      BY <1>1, <2>5, <2>6, <2>7
    <3> HIDE DEF v
    <3>2. u = v
      BY <2>4, <3>1, SeqEqual
    <3> QED
      BY <3>2 DEF v
  <2> QED
    BY <2>8 DEF u
<1> DEFINE s == [at |-> p, out |-> out]
           len == ReadLength(src, src[s.at] \div Base, s.at + 1)
<1>6. s.at = p /\ s.out = out
  OBVIOUS
<1>7. len = [length |-> L, next |-> a] /\ len # Fail
  BY <1>1, <1>2, NoFail
<1>8. len.length = L /\ len.next = a
  BY <1>7
<1>9. Literals(src, cap, s) =
        IF len = Fail THEN Fail
        ELSE IF Len(src) - len.next + 1 < len.length \/ ~Room(s.out, cap, len.length) THEN Fail
        ELSE [at |-> len.next + len.length, out |-> s.out \o SubSeq(src, len.next, len.next + len.length - 1)]
  BY DEF Literals
<1> HIDE DEF s, len
<1>10. Literals(src, cap, s) =
         IF ~Room(out, cap, L) THEN Fail ELSE [at |-> a + L, out |-> out \o SubSeq(src, a, a + L - 1)]
  BY <1>4, <1>6, <1>7, <1>8, <1>9
<1>11. Literals(src, cap, s) = IF Len(out) + L <= cap THEN [at |-> z, out |-> out \o q.lit] ELSE Fail
  BY <1>3, <1>5, <1>10 DEF Room
<1> QED
  BY <1>11 DEF s, L, z

\* Where the match of a sequence stands in its block, once its literals are out.
LEMMA TailReads ==
  ASSUME NEW src \in Seq(Octets), NEW z \in Nat \ {0}, NEW q \in Sequence, LongEnough(q), q.off # 0,
         Holds(src, z, Rest(q))
  PROVE  /\ z + 1 <= Len(src)
         /\ src[z] + (Last + 1) * src[z + 1] = q.off
         /\ Holds(src, z + 2, Chain(q.len - MinMatch))
         /\ Len(Rest(q)) = 2 + Len(Chain(q.len - MinMatch))
<1> DEFINE r == q.off % (Last + 1)
           d == q.off \div (Last + 1)
           u == <<r, d>>
           c == Chain(q.len - MinMatch)
<1>1. r \in Octets /\ d \in Octets /\ q.off = r + (Last + 1) * d
  BY OffsetIs
<1>2. c \in Seq(Octets)
  <2>1. q.len - MinMatch \in Nat
    BY TokenIs
  <2> QED
    BY <2>1, ChainIs
<1>3. Rest(q) = u \o c
  BY DEF Rest
<1> HIDE DEF r, d, c
<1>4. u \in Seq(Octets) /\ Len(u) = 2 /\ u[1] = r /\ u[2] = d
  BY <1>1
<1> HIDE DEF u
<1>5. Holds(src, z, u) /\ Holds(src, z + 2, c)
  BY <1>2, <1>3, <1>4, HoldsBoth
<1>6. Len(u \o c) = 2 + Len(c)
  <2>1. Len(u \o c) = Len(u) + Len(c)
    BY <1>2, <1>4, ConcatProperties
  <2> QED
    BY <1>4, <2>1
<1>7. z + 1 <= Len(src) /\ src[z] = r /\ src[z + 1] = d
  <2>1. z + 2 <= Len(src) + 1 /\ src[z + 1 - 1] = u[1] /\ src[z + 2 - 1] = u[2]
    <3>1. 1 \in 1..2 /\ 2 \in 1..2
      OBVIOUS
    <3> QED
      BY <1>4, <1>5, <3>1 DEF Holds
  <2>2. z + 1 - 1 = z /\ z + 2 - 1 = z + 1 /\ Len(src) \in Nat
    BY LenProperties
  <2> QED
    BY <1>4, <2>1, <2>2
<1> QED
  BY <1>1, <1>3, <1>5, <1>6, <1>7 DEF c

LEMMA MatchExact ==
  ASSUME NEW src \in Seq(Octets), NEW p \in Nat \ {0}, NEW q \in Sequence, LongEnough(q), q.off # 0,
         Holds(src, p, Encode(q)), NEW out \in Seq(Octets), Reaches(out, q), NEW cap \in Nat
  PROVE  Match(src, cap, Token(q), [at |-> TailAt(q, p), out |-> out \o q.lit]) =
           IF Len(out) + Len(q.lit) + q.len <= cap
           THEN [at |-> p + Len(Encode(q)), out |-> Expand(out, q)] ELSE Fail
<1> DEFINE z == TailAt(q, p)
           start == out \o q.lit
           e == Expand(out, q)
           m == q.len - MinMatch
           past == p + Len(Encode(q))
<1>1. z \in Nat \ {0} /\ Holds(src, z, Rest(q)) /\ past = z + Len(Rest(q)) /\ Len(src) \in Nat
  BY EncodeReads
<1>2. /\ z + 1 <= Len(src) /\ src[z] + (Last + 1) * src[z + 1] = q.off
      /\ Holds(src, z + 2, Chain(m)) /\ Len(Rest(q)) = 2 + Len(Chain(m))
  BY <1>1, TailReads
<1>3. m \in Nat /\ Token(q) % Base = Nibble(m) /\ q.off \in Nat /\ q.len \in Nat /\ Len(q.lit) \in Nat
  BY TokenIs DEF Low
<1>4. /\ e \in Seq(Octets) /\ start \in Seq(Octets)
      /\ Len(start) = Len(out) + Len(q.lit)
      /\ Len(e) = Len(start) + q.len
      /\ \A i \in 1..Len(start) : e[i] = start[i]
      /\ \A i \in Len(start) + 1..Len(e) : i - q.off \in 1..Len(e) /\ e[i] = e[i - q.off]
  BY Expanded
<1>5. Len(start) \in Nat /\ Len(out) \in Nat
  BY <1>4, LenProperties
<1>6. q.off \in 1..Len(start)
  BY <1>3, <1>4, <1>5 DEF Reaches
<1>7. CopyMatch(start, q.off, q.len) = e
  <2> HIDE DEF start, e
  <2>1. \A i \in Len(start) + 1..Len(e) : e[i] = e[i - q.off]
    BY <1>4
  <2>2. e \in Seq(Octets) /\ start \in Seq(Octets) /\ Len(e) = Len(start) + q.len
    BY <1>4
  <2>3. \A i \in 1..Len(start) : e[i] = start[i]
    BY <1>4
  <2> DEFINE off == q.off
             match == q.len
  <2>4. match \in Nat /\ off \in 1..Len(start)
    BY <1>3, <1>6
  <2> HIDE DEF off, match
  <2>5. CopyMatch(start, off, match) = e
    BY <2>1, <2>2, <2>3, <2>4, CopyExact DEF off, match
  <2> QED
    BY <2>5 DEF off, match
<1>8. Len(Chain(m)) \in Nat
  BY <1>3, ChainIs, LenProperties
<1>9. ReadLength(src, Nibble(m), z + 2) = [length |-> m, next |-> past]
  <2> HIDE DEF z, m
  <2>1. z + 2 \in Nat \ {0}
    BY <1>1
  <2>2. ReadLength(src, Nibble(m), z + 2) = [length |-> m, next |-> z + 2 + Len(Chain(m))]
    BY <1>2, <1>3, <2>1, LengthReads
  <2>3. past = z + 2 + Len(Chain(m))
    <3> HIDE DEF past
    <3> QED
      BY <1>1, <1>2, <1>8
  <2> QED
    BY <2>2, <2>3
<1>10. m + MinMatch = q.len
  BY <1>3, Sizes
<1> DEFINE s == [at |-> z, out |-> start]
           off == src[s.at] + (Last + 1) * src[s.at + 1]
           len == ReadLength(src, Token(q) % Base, s.at + 2)
<1>11. s.at = z /\ s.out = start
  OBVIOUS
<1>12. off = q.off
  BY <1>2, <1>11
<1>13. len = [length |-> m, next |-> past]
  BY <1>3, <1>9, <1>11
<1>14. len # Fail /\ len.length = m /\ len.next = past
  BY <1>13, NoFail
<1>15. Match(src, cap, Token(q), s) =
         IF Len(src) - s.at + 1 < 2 THEN Fail
         ELSE IF off = 0 \/ Len(s.out) < off \/ len = Fail THEN Fail
         ELSE IF ~Room(s.out, cap, len.length + MinMatch) THEN Fail
         ELSE [at |-> len.next, out |-> CopyMatch(s.out, off, len.length + MinMatch)]
  BY DEF Match
<1> HIDE DEF s, off, len, z, start, e, m, past
<1>16. ~(Len(src) - z + 1 < 2)
  BY <1>1, <1>2
<1>17. ~(Len(start) < q.off)
  BY <1>5, <1>6
<1>18. Match(src, cap, Token(q), s) =
         IF ~Room(start, cap, q.len) THEN Fail ELSE [at |-> past, out |-> e]
  BY <1>7, <1>10, <1>11, <1>12, <1>14, <1>15, <1>16, <1>17
<1>19. Room(start, cap, q.len) <=> Len(out) + Len(q.lit) + q.len <= cap
  BY <1>4 DEF Room
<1> QED
  BY <1>18, <1>19 DEF s, past, e, z, start

\* No match is found among zeros.
LEMMA NoMatchInZeros ==
  ASSUME NEW src \in Seq(Octets), NEW z \in 1..Len(src), \A i \in z..Len(src) : src[i] = 0,
         NEW cap, NEW token, NEW out
  PROVE  Match(src, cap, token, [at |-> z, out |-> out]) = Fail
<1>0. Len(src) \in Nat /\ z \in Nat
  BY LenProperties
<1> DEFINE s == [at |-> z, out |-> out]
           off == src[s.at] + (Last + 1) * src[s.at + 1]
<1>1. s.at = z
  OBVIOUS
<1>2. CASE Len(src) - z + 1 < 2
  <2>1. Len(src) - s.at + 1 < 2
    BY <1>1, <1>2
  <2> HIDE DEF s
  <2>2. Match(src, cap, token, s) = Fail
    BY <2>1 DEF Match
  <2> QED
    BY <2>2 DEF s
<1>3. CASE ~(Len(src) - z + 1 < 2)
  <2>1. src[z] = 0 /\ src[z + 1] = 0
    BY <1>0, <1>3
  <2>2. off = 0
    <3>1. off = src[z] + (Last + 1) * src[z + 1]
      BY <1>1
    <3>2. 0 + (Last + 1) * 0 = 0
      BY Sizes
    <3> HIDE DEF off
    <3> QED
      BY <2>1, <3>1, <3>2
  <2> HIDE DEF s
  <2>3. Match(src, cap, token, s) = Fail
    BY <2>2 DEF Match
  <2> QED
    BY <2>3 DEF s
<1> QED
  BY <1>2, <1>3

\* A turn takes one sequence to what it stands for, or fails for want of room, or because
\* zeros follow where nothing may.
LEMMA TurnExact ==
  ASSUME NEW src \in Seq(Octets), NEW p \in Nat \ {0}, NEW q \in Sequence, LongEnough(q),
         Holds(src, p, Encode(q)), NEW out \in Seq(Octets), Reaches(out, q), NEW cap \in Nat,
         q.off = 0 => \A i \in p + Len(Encode(q))..Len(src) : src[i] = 0
  PROVE  Turn(src, cap, [at |-> p, out |-> out]) =
           IF Len(Expand(out, q)) <= cap /\ (q.off # 0 \/ p + Len(Encode(q)) > Len(src))
           THEN [at |-> p + Len(Encode(q)), out |-> Expand(out, q)] ELSE Fail
<1> DEFINE z == TailAt(q, p)
           past == p + Len(Encode(q))
           start == out \o q.lit
           e == Expand(out, q)
           s == [at |-> p, out |-> out]
           lit == Literals(src, cap, s)
<1>1. /\ lit = IF Len(out) + Len(q.lit) <= cap THEN [at |-> z, out |-> start] ELSE Fail
      /\ src[p] = Token(q) /\ z \in Nat \ {0} /\ Len(src) \in Nat /\ past = z + Len(Rest(q))
      /\ Holds(src, z, Rest(q))
  <2>1. /\ src[p] = Token(q) /\ z \in Nat \ {0} /\ Len(src) \in Nat /\ past = z + Len(Rest(q))
        /\ Holds(src, z, Rest(q))
    BY EncodeReads
  <2>2. lit = IF Len(out) + Len(q.lit) <= cap THEN [at |-> z, out |-> start] ELSE Fail
    BY LiteralsExact
  <2> QED
    BY <2>1, <2>2
<1>2. Turn(src, cap, s) = IF lit = Fail \/ lit.at > Len(src) THEN lit ELSE Match(src, cap, Token(q), lit)
  <2>1. s.at = p
    OBVIOUS
  <2> HIDE DEF s
  <2> QED
    BY <1>1, <2>1 DEF Turn
<1>3. Len(e) = Len(out) + Len(q.lit) + q.len /\ Len(start) = Len(out) + Len(q.lit)
  BY Expanded
<1>4. Len(out) \in Nat /\ Len(q.lit) \in Nat /\ q.len \in Nat /\ q.off \in Nat
  BY TokenIs, LenProperties
<1>5. [at |-> z, out |-> start] # Fail /\ [at |-> z, out |-> start].at = z
  BY NoFail
<1>6. q.off # 0 =>
        Match(src, cap, Token(q), [at |-> z, out |-> start]) =
          IF Len(out) + Len(q.lit) + q.len <= cap THEN [at |-> past, out |-> e] ELSE Fail
  BY MatchExact
<1>7. q.off # 0 => z + 1 <= Len(src)
  BY <1>1, TailReads
<1>8. q.off = 0 => e = start /\ past = z /\ q.len = 0
  <2>1. q.off = 0 => Len(Rest(q)) = 0 /\ e = start /\ q.len = 0
    BY DEF Rest, Expand, Reaches
  <2> HIDE DEF e, start, z, past
  <2> QED
    BY <1>1, <2>1
<1> HIDE DEF z, past, start, e, s, lit
<1>9. CASE ~(Len(out) + Len(q.lit) <= cap)
  <2>1. ~(Len(e) <= cap)
    BY <1>3, <1>4, <1>9
  <2>2. Turn(src, cap, s) = Fail
    BY <1>1, <1>2, <1>9
  <2> QED
    BY <2>1, <2>2 DEF s, e
<1>10. CASE Len(out) + Len(q.lit) <= cap /\ q.off # 0
  <2>1. ~(z > Len(src))
    BY <1>1, <1>7, <1>10
  <2>2. lit = [at |-> z, out |-> start]
    BY <1>1, <1>10
  <2>3. Turn(src, cap, s) = Match(src, cap, Token(q), [at |-> z, out |-> start])
    BY <1>2, <1>5, <2>1, <2>2
  <2>4. Turn(src, cap, s) = IF Len(e) <= cap THEN [at |-> past, out |-> e] ELSE Fail
    BY <1>3, <1>6, <1>10, <2>3
  <2> QED
    BY <1>10, <2>4 DEF s, e, past
<1>11. CASE Len(out) + Len(q.lit) <= cap /\ q.off = 0
  <2>1. lit = [at |-> z, out |-> start] /\ e = start /\ past = z /\ Len(e) <= cap
    BY <1>1, <1>3, <1>4, <1>8, <1>11
  <2>2. CASE past > Len(src)
    <3>1. Turn(src, cap, s) = [at |-> past, out |-> e]
      BY <1>2, <1>5, <2>1, <2>2
    <3> QED
      BY <2>1, <2>2, <3>1 DEF s, e, past
  <2>3. CASE ~(past > Len(src))
    <3>1. z \in 1..Len(src)
      BY <1>1, <2>1, <2>3
    <3>2. \A i \in z..Len(src) : src[i] = 0
      BY <1>11, <2>1 DEF past
    <3>3. Match(src, cap, Token(q), [at |-> z, out |-> start]) = Fail
      BY <3>1, <3>2, NoMatchInZeros
    <3>4. Turn(src, cap, s) = Fail
      BY <1>2, <1>5, <2>1, <2>3, <3>3
    <3> QED
      BY <1>11, <2>3, <3>4 DEF s, past
  <2> QED
    BY <2>2, <2>3
<1> QED
  BY <1>9, <1>10, <1>11

\* A zero alone is a sequence of nothing.
LEMMA ZeroTurn ==
  ASSUME NEW src \in Seq(Octets), NEW p \in 1..Len(src), \A i \in p..Len(src) : src[i] = 0,
         NEW out \in Seq(Octets), NEW cap \in Nat, Len(out) <= cap
  PROVE  Turn(src, cap, [at |-> p, out |-> out]) = IF p + 1 > Len(src) THEN [at |-> p + 1, out |-> out] ELSE Fail
<1> DEFINE q == [lit |-> <<>>, off |-> 0, len |-> 0]
<1>0. Len(src) \in Nat /\ p \in Nat \ {0}
  BY LenProperties
<1>1. q.lit = <<>> /\ q.off = 0 /\ q.len = 0
  OBVIOUS
<1>2. q \in Sequence
  <2>1. 0 \in 0..(Last + 1) * (Last + 1) - 1
    <3>1. PICK w \in Nat : w = Last + 1 /\ w >= 1
      BY Sizes
    <3>2. w * 1 <= w * w /\ w * w \in Nat /\ w * 1 = w
      BY <3>1, Scales
    <3>3. 1 <= w * w /\ w * w \in Nat
      BY <3>1, <3>2
    <3>4. 0 \in 0..w * w - 1
      BY <3>3
    <3> QED
      BY <3>1, <3>4
  <2> QED
    BY <2>1 DEF Sequence
<1> HIDE DEF q
<1>3. LongEnough(q) /\ Reaches(out, q)
  BY <1>1 DEF LongEnough, Reaches
<1>4. Expand(out, q) = out
  <2>1. Expand(out, q) = out \o <<>>
    BY <1>1 DEF Expand
  <2> QED
    BY <2>1
<1>5. Len(q.lit) = 0 /\ 0 < Full
  BY <1>1, Sizes
<1>6. Token(q) = 0
  <2>1. Nibble(Len(q.lit)) = 0 /\ Low(q) = 0
    BY <1>1, <1>5 DEF Nibble, Low
  <2> QED
    BY <2>1, Sizes DEF Token
<1>7. Chain(Len(q.lit)) = <<>> /\ Rest(q) = <<>>
  BY <1>1, <1>5 DEF Chain, Rest
<1>8. Encode(q) = <<Token(q)>> /\ Len(Encode(q)) = 1
  <2>1. Encode(q) = <<Token(q)>> \o Chain(Len(q.lit)) \o q.lit \o Rest(q)
    BY <1>2, <1>3, EncodeParts
  <2>2. Encode(q) = <<0>> \o <<>> \o <<>> \o <<>>
    BY <1>1, <1>6, <1>7, <2>1
  <2>3. Encode(q) = <<0>>
    BY <2>2
  <2> QED
    BY <1>6, <2>3
<1>9. Holds(src, p, Encode(q))
  <2>1. Len(Encode(q)) = 1 /\ Encode(q)[1] = 0
    BY <1>6, <1>8
  <2>2. src[p] = 0
    BY <1>0
  <2>3. \A i \in 1..1 : p + i - 1 = p /\ i = 1
    BY <1>0
  <2>4. p + 1 <= Len(src) + 1
    BY <1>0
  <2> QED
    BY <2>1, <2>2, <2>3, <2>4 DEF Holds
<1>10. \A i \in p + Len(Encode(q))..Len(src) : src[i] = 0
  BY <1>0, <1>8
<1>11. Turn(src, cap, [at |-> p, out |-> out]) =
         IF Len(Expand(out, q)) <= cap /\ (q.off # 0 \/ p + Len(Encode(q)) > Len(src))
         THEN [at |-> p + Len(Encode(q)), out |-> Expand(out, q)] ELSE Fail
  BY <1>0, <1>2, <1>3, <1>9, <1>10, TurnExact
<1> QED
  BY <1>1, <1>4, <1>8, <1>11

\* What the rules give the sequences of a block, one by one.
LEMMA LegalParts ==
  ASSUME NEW block \in Seq(Sequence), Legal(block)
  PROVE  /\ Len(block) \in Nat
         /\ \A k \in Nat : k < Len(block) =>
              /\ block[k + 1] \in Sequence /\ LongEnough(block[k + 1])
              /\ Reaches(Shown(block)[k], block[k + 1])
              /\ block[k + 1].off = 0 => k + 1 = Len(block)
<1>0. Len(block) \in Nat
  BY LenProperties
<1>1. ASSUME NEW k \in Nat, k < Len(block)
      PROVE  /\ block[k + 1] \in Sequence /\ LongEnough(block[k + 1])
             /\ Reaches(Shown(block)[k], block[k + 1])
             /\ block[k + 1].off = 0 => k + 1 = Len(block)
  <2>1. PICK i \in 1..Len(block) : i = k + 1 /\ i - 1 = k
    BY <1>0, <1>1
  <2>2. block[i] \in Sequence
    BY ElementOfSeq
  <2>3. IF block[i].off = 0 THEN i = Len(block) /\ block[i].len = 0
        ELSE /\ block[i].len >= MinMatch
             /\ block[i].off <= Len(Shown(block)[i - 1]) + Len(block[i].lit)
    BY DEF Legal
  <2> QED
    BY <2>1, <2>2, <2>3 DEF LongEnough, Reaches
<1> QED
  BY <1>0, <1>1

LEMMA BlockParts ==
  ASSUME NEW block \in Seq(Sequence), Legal(block)
  PROVE  \A k \in 0..Len(block) :
           /\ Packed(block)[k] \in Seq(Octets) /\ Shown(block)[k] \in Seq(Octets)
           /\ k <= Len(Packed(block)[k])
<1> DEFINE S == {k \in Nat : k <= Len(block) =>
                   /\ Packed(block)[k] \in Seq(Octets) /\ Shown(block)[k] \in Seq(Octets)
                   /\ k <= Len(Packed(block)[k])}
<1>0. Len(block) \in Nat
  BY LenProperties
<1>1. 0 \in S
  <2>1. Packed(block)[0] = <<>> /\ Shown(block)[0] = <<>>
    BY <1>0, PackedAre, ShownAre
  <2>2. <<>> \in Seq(Octets) /\ 0 <= Len(<<>>) /\ 0 \in Nat
    OBVIOUS
  <2>3. /\ Packed(block)[0] \in Seq(Octets) /\ Shown(block)[0] \in Seq(Octets)
        /\ 0 <= Len(Packed(block)[0])
    BY <2>1, <2>2
  <2> QED
    BY <2>2, <2>3, Zenon
<1>2. ASSUME NEW k \in Nat, k < Len(block), k \in S PROVE k + 1 \in S
  <2> DEFINE q == block[k + 1]
             a == Packed(block)[k]
             o == Shown(block)[k]
  <2>1. q \in Sequence /\ LongEnough(q) /\ Reaches(o, q)
    BY <1>2, LegalParts
  <2>2. a \in Seq(Octets) /\ o \in Seq(Octets) /\ k <= Len(a)
    BY <1>2
  <2>3. Packed(block)[k + 1] = a \o Encode(q) /\ Shown(block)[k + 1] = Expand(o, q)
    BY <1>0, <1>2, PackedAre, ShownAre
  <2> HIDE DEF q, a, o
  <2>4. Expand(o, q) \in Seq(Octets)
    BY <2>1, <2>2, Expanded
  <2>5. /\ Encode(q) \in Seq(Octets)
        /\ Len(Encode(q)) = 1 + Len(Chain(Len(q.lit))) + Len(q.lit) + Len(Rest(q))
        /\ Chain(Len(q.lit)) \in Seq(Octets) /\ q.lit \in Seq(Octets) /\ Rest(q) \in Seq(Octets)
    BY <2>1, EncodeParts
  <2>6. Len(Encode(q)) >= 1 /\ Len(Encode(q)) \in Nat
    <3>1. Len(Chain(Len(q.lit))) \in Nat /\ Len(q.lit) \in Nat /\ Len(Rest(q)) \in Nat
      BY <2>5, LenProperties
    <3>2. Len(Encode(q)) = 1 + Len(Chain(Len(q.lit))) + Len(q.lit) + Len(Rest(q))
      BY <2>5
    <3>3. PICK x \in Nat, y \in Nat, z \in Nat :
            x = Len(Chain(Len(q.lit))) /\ y = Len(q.lit) /\ z = Len(Rest(q))
      BY <3>1, Zenon
    <3>4. Len(Encode(q)) = 1 + x + y + z
      BY <3>2, <3>3, Zenon
    <3> QED
      BY <3>4
  <2>7. a \o Encode(q) \in Seq(Octets) /\ Len(a \o Encode(q)) = Len(a) + Len(Encode(q))
    BY <2>2, <2>5, ConcatProperties
  <2>8. k + 1 <= Len(a \o Encode(q))
    <3>1. Len(a) \in Nat
      BY <2>2, LenProperties
    <3> QED
      BY <2>2, <2>6, <2>7, <3>1
  <2>9. /\ Packed(block)[k + 1] \in Seq(Octets) /\ Shown(block)[k + 1] \in Seq(Octets)
        /\ k + 1 <= Len(Packed(block)[k + 1])
    BY <2>3, <2>4, <2>7, <2>8
  <2>10. k + 1 \in Nat
    OBVIOUS
  <2> QED
    BY <2>9, <2>10, Zenon
<1> HIDE DEF S
<1>3. \A k \in 0..Len(block) : k \in S
  BY <1>0, <1>1, <1>2, UpTo
<1> QED
  BY <1>0, <1>3 DEF S

\* The sequences stand one after another.
LEMMA BlockHolds ==
  ASSUME NEW block \in Seq(Sequence), Legal(block), NEW src \in Seq(Octets), Holds(src, 1, BytesOf(block))
  PROVE  \A k \in Nat : k < Len(block) =>
           /\ Holds(src, 1 + Len(Packed(block)[k]), Encode(block[k + 1]))
           /\ Len(Packed(block)[k + 1]) = Len(Packed(block)[k]) + Len(Encode(block[k + 1]))
           /\ Encode(block[k + 1]) \in Seq(Octets)
<1> DEFINE n == Len(block)
           S == {d \in Nat : d <= n => Holds(src, 1, Packed(block)[n - d])}
<1>0. n \in Nat
  BY LenProperties
<1>1. ASSUME NEW k \in Nat, k < n
      PROVE  /\ Packed(block)[k + 1] = Packed(block)[k] \o Encode(block[k + 1])
             /\ Packed(block)[k] \in Seq(Octets) /\ Encode(block[k + 1]) \in Seq(Octets)
  <2>1. block[k + 1] \in Sequence /\ LongEnough(block[k + 1])
    BY <1>1, LegalParts
  <2>2. Encode(block[k + 1]) \in Seq(Octets)
    BY <2>1, EncodeParts
  <2>3. Packed(block)[k] \in Seq(Octets)
    <3>1. k \in 0..Len(block)
      BY <1>0, <1>1
    <3> QED
      BY <3>1, BlockParts
  <2> QED
    BY <1>0, <1>1, <2>2, <2>3, PackedAre
<1> HIDE DEF n
<1>2. 0 \in S
  <2>1. n - 0 = n
    BY <1>0
  <2> QED
    BY <2>1 DEF BytesOf, n
<1>3. ASSUME NEW k \in Nat, k < n, Holds(src, 1, Packed(block)[k + 1])
      PROVE  Holds(src, 1, Packed(block)[k]) /\ Holds(src, 1 + Len(Packed(block)[k]), Encode(block[k + 1]))
  <2> DEFINE a == Packed(block)[k]
             c == Encode(block[k + 1])
  <2>1. a \in Seq(Octets) /\ c \in Seq(Octets) /\ Holds(src, 1, a \o c)
    BY <1>1, <1>3
  <2> HIDE DEF a, c
  <2>2. Holds(src, 1, a) /\ Holds(src, 1 + Len(a), c)
    BY <2>1, HoldsBoth
  <2> QED
    BY <2>2 DEF a, c
<1>4. ASSUME NEW d \in Nat, d < n, d \in S PROVE d + 1 \in S
  <2>1. PICK k \in Nat : k = n - (d + 1) /\ k + 1 = n - d /\ k < n
    BY <1>0, <1>4
  <2>2. Holds(src, 1, Packed(block)[k + 1])
    <3>1. d <= n /\ (d <= n => Holds(src, 1, Packed(block)[n - d]))
      BY <1>0, <1>4
    <3> QED
      BY <2>1, <3>1
  <2>3. Holds(src, 1, Packed(block)[k])
    BY <1>3, <2>1, <2>2
  <2> QED
    BY <2>1, <2>3
<1> HIDE DEF S
<1>5. \A d \in 0..n : d \in S
  BY <1>0, <1>2, <1>4, UpTo
<1>6. ASSUME NEW k \in Nat, k < n PROVE Holds(src, 1, Packed(block)[k + 1])
  <2>1. PICK d \in 0..n : d = n - (k + 1) /\ n - d = k + 1 /\ d <= n
    BY <1>0, <1>6
  <2>2. d \in S
    BY <1>5
  <2>3. Holds(src, 1, Packed(block)[n - d])
    BY <2>1, <2>2 DEF S
  <2> QED
    BY <2>1, <2>3
<1>7. ASSUME NEW k \in Nat, k < n
      PROVE  /\ Holds(src, 1 + Len(Packed(block)[k]), Encode(block[k + 1]))
             /\ Len(Packed(block)[k + 1]) = Len(Packed(block)[k]) + Len(Encode(block[k + 1]))
             /\ Encode(block[k + 1]) \in Seq(Octets)
  <2>1. Holds(src, 1 + Len(Packed(block)[k]), Encode(block[k + 1]))
    BY <1>3, <1>6, <1>7
  <2> DEFINE a == Packed(block)[k]
             c == Encode(block[k + 1])
  <2>2. Packed(block)[k + 1] = a \o c /\ a \in Seq(Octets) /\ c \in Seq(Octets)
    BY <1>1, <1>7
  <2> HIDE DEF a, c
  <2>3. Len(a \o c) = Len(a) + Len(c)
    BY <2>2, ConcatProperties
  <2> QED
    BY <2>1, <2>2, <2>3 DEF a, c
<1> QED
  BY <1>7 DEF n

\* The k sequences of a block that have been taken, whatever zeros follow it.
Taken(block, cap, pad, k) ==
  IF Len(Shown(block)[k]) <= cap /\ ~(k > 0 /\ block[k].off = 0 /\ pad > 0)
  THEN [at |-> 1 + Len(Packed(block)[k]), out |-> Shown(block)[k]]
  ELSE Fail

LEMMA PaddedSource ==
  ASSUME NEW block \in Seq(Sequence), Legal(block), NEW pad \in Nat
  PROVE  LET src == BytesOf(block) \o Zeros(pad)
         IN /\ src \in Seq(Octets) /\ BytesOf(block) \in Seq(Octets) /\ Meaning(block) \in Seq(Octets)
            /\ Len(src) = Len(BytesOf(block)) + pad
            /\ Len(block) <= Len(BytesOf(block))
            /\ Holds(src, 1, BytesOf(block))
            /\ \A i \in Len(BytesOf(block)) + 1..Len(src) : src[i] = 0
<1> DEFINE b == BytesOf(block)
           z == Zeros(pad)
           src == b \o z
<1>1. b \in Seq(Octets) /\ Meaning(block) \in Seq(Octets) /\ Len(block) <= Len(b)
  <2>1. Len(block) \in 0..Len(block)
    BY LenProperties
  <2> QED
    BY <2>1, BlockParts DEF BytesOf, Meaning
<1>2. z \in Seq(Octets) /\ Len(z) = pad /\ \A i \in 1..pad : z[i] = 0
  <2>1. 0 \in Octets
    BY Sizes DEF Octets
  <2>2. z \in [1..pad -> Octets]
    BY <2>1 DEF Zeros
  <2>3. \A i \in 1..pad : z[i] = 0
    BY DEF Zeros
  <2> HIDE DEF z
  <2> QED
    BY <2>2, <2>3
<1> HIDE DEF b, z
<1>3. /\ src \in Seq(Octets) /\ Len(src) = Len(b) + Len(z)
      /\ \A i \in 1..Len(b) + Len(z) : src[i] = IF i <= Len(b) THEN b[i] ELSE z[i - Len(b)]
  BY <1>1, <1>2, ConcatProperties
<1> HIDE DEF src
<1>4. Len(b) \in Nat /\ Len(src) \in Nat
  BY <1>1, <1>3, LenProperties
<1>5. Holds(src, 1, b)
  <2>1. \A i \in 1..Len(b) : 1 + i - 1 = i /\ i \in 1..Len(b) + Len(z) /\ i <= Len(b)
    BY <1>2, <1>4
  <2>2. \A i \in 1..Len(b) : src[1 + i - 1] = b[i]
    BY <1>3, <2>1
  <2>3. 1 + Len(b) <= Len(src) + 1
    BY <1>2, <1>3, <1>4
  <2> QED
    BY <2>2, <2>3 DEF Holds
<1>6. ASSUME NEW i \in Len(b) + 1..Len(src) PROVE src[i] = 0
  <2>1. i \in 1..Len(b) + Len(z) /\ ~(i <= Len(b)) /\ i - Len(b) \in 1..pad
    BY <1>2, <1>3, <1>4
  <2> QED
    BY <1>2, <1>3, <2>1
<1> QED
  BY <1>1, <1>2, <1>3, <1>5, <1>6 DEF src, b, z

LEMMA TakesOne ==
  ASSUME NEW block \in Seq(Sequence), Legal(block), NEW pad \in Nat, NEW cap \in Nat,
         NEW src \in Seq(Octets), Len(src) = Len(BytesOf(block)) + pad, Holds(src, 1, BytesOf(block)),
         \A i \in Len(BytesOf(block)) + 1..Len(src) : src[i] = 0,
         NEW k \in Nat, k < Len(block)
  PROVE  Goes(src, cap, Taken(block, cap, pad, k)) = Taken(block, cap, pad, k + 1)
<1> DEFINE n == Len(block)
           b == BytesOf(block)
           q == block[k + 1]
           out == Shown(block)[k]
           p == 1 + Len(Packed(block)[k])
           past == p + Len(Encode(q))
           e == Expand(out, q)
<1>1. /\ n \in Nat /\ q \in Sequence /\ LongEnough(q) /\ Reaches(out, q)
      /\ q.off = 0 => k + 1 = n
  BY LegalParts
<1>2. out \in Seq(Octets) /\ Packed(block)[k] \in Seq(Octets)
  <2>1. k \in 0..Len(block)
    BY <1>1
  <2> QED
    BY <2>1, BlockParts
<1>3. /\ Holds(src, p, Encode(q)) /\ Len(Packed(block)[k + 1]) = Len(Packed(block)[k]) + Len(Encode(q))
      /\ Encode(q) \in Seq(Octets)
  BY BlockHolds
<1>4. e = Shown(block)[k + 1]
  BY <1>1, ShownAre
<1>5. p \in Nat \ {0} /\ past = 1 + Len(Packed(block)[k + 1]) /\ past \in Nat
  <2>1. Len(Packed(block)[k]) \in Nat /\ Len(Encode(q)) \in Nat
    BY <1>2, <1>3, LenProperties
  <2> HIDE DEF q
  <2> QED
    BY <1>3, <2>1
<1>6. Len(b) \in Nat /\ Len(src) \in Nat
  BY PaddedSource, LenProperties
<1>7. q.off = 0 => past = Len(b) + 1
  <2>1. q.off = 0 => Packed(block)[k + 1] = b
    BY <1>1 DEF BytesOf
  <2> HIDE DEF b, q, past
  <2> QED
    BY <1>5, <1>6, <2>1
<1>8. q.off = 0 => \A i \in past..Len(src) : src[i] = 0
  BY <1>7
<1>9. Turn(src, cap, [at |-> p, out |-> out]) =
        IF Len(e) <= cap /\ (q.off # 0 \/ past > Len(src)) THEN [at |-> past, out |-> e] ELSE Fail
  <2>1. q.off = 0 => \A i \in p + Len(Encode(q))..Len(src) : src[i] = 0
    BY <1>8
  <2> HIDE DEF q, out, p
  <2> QED
    BY <1>1, <1>2, <1>3, <1>5, <2>1, TurnExact
<1>10. p \in 1..Len(src)
  <2> HIDE DEF q, p
  <2> QED
    BY <1>1, <1>3, <1>5, EncodeReads
<1>11. Len(e) = Len(out) + Len(q.lit) + q.len /\ Len(q.lit) \in Nat /\ q.len \in Nat /\ Len(out) \in Nat
  <2>1. Len(q.lit) \in Nat /\ q.len \in Nat
    <3> HIDE DEF q
    <3> QED
      BY <1>1, TokenIs
  <2>2. Len(out) \in Nat
    BY <1>2, LenProperties
  <2>3. Len(e) = Len(out) + Len(q.lit) + q.len
    <3> HIDE DEF q, out
    <3> QED
      BY <1>1, <1>2, Expanded
  <2> QED
    BY <2>1, <2>2, <2>3
<1>12. Len(src) = Len(b) + pad
  OBVIOUS
<1>13. k > 0 => block[k].off # 0
  <2>1. ASSUME k > 0 PROVE block[k].off # 0
    <3>1. PICK j \in Nat : j = k - 1 /\ j + 1 = k
      BY <2>1
    <3>2. j < Len(block) /\ k # Len(block)
      BY <1>1, <3>1
    <3>3. block[j + 1].off = 0 => j + 1 = Len(block)
      BY <3>2, LegalParts
    <3> QED
      BY <3>1, <3>2, <3>3
  <2> QED
    BY <2>1
<1>14. Taken(block, cap, pad, k) = IF Len(out) <= cap THEN [at |-> p, out |-> out] ELSE Fail
  BY <1>13 DEF Taken
<1>15. Taken(block, cap, pad, k + 1) =
         IF Len(e) <= cap /\ ~(q.off = 0 /\ pad > 0) THEN [at |-> past, out |-> e] ELSE Fail
  <2>1. k + 1 > 0
    OBVIOUS
  <2> HIDE DEF e, past
  <2> QED
    BY <1>4, <1>5, <2>1 DEF Taken
<1> HIDE DEF n, b, q, out, p, past, e
<1>16. CASE ~(Len(out) <= cap)
  <2>1. ~(Len(e) <= cap)
    BY <1>11, <1>16
  <2> QED
    BY <1>14, <1>15, <1>16, <2>1 DEF Goes
<1>17. CASE Len(out) <= cap
  <2>1. Goes(src, cap, [at |-> p, out |-> out]) = Turn(src, cap, [at |-> p, out |-> out])
    <3>1. ~([at |-> p, out |-> out] = Fail) /\ ~([at |-> p, out |-> out].at > Len(src))
      BY <1>5, <1>6, <1>10, NoFail
    <3> QED
      BY <3>1 DEF Goes
  <2>2. (q.off # 0 \/ past > Len(src)) <=> ~(q.off = 0 /\ pad > 0)
    BY <1>6, <1>7, <1>12
  <2> QED
    BY <1>9, <1>14, <1>15, <1>17, <2>1, <2>2
<1> QED
  BY <1>16, <1>17

\* Once the block is out, the zeros of the padding are refused or add nothing.
Settled(src, meant, cap, pad, end, s) ==
  \/ s = Fail /\ (pad > 0 \/ ~(Len(meant) <= cap))
  \/ Len(meant) <= cap /\ \E a \in Nat : s = [at |-> a, out |-> meant] /\ end <= a /\ a <= Len(src) + 1

LEMMA StaysSettled ==
  ASSUME NEW src \in Seq(Octets), NEW meant \in Seq(Octets), NEW cap \in Nat, NEW pad \in Nat,
         NEW end \in Nat \ {0}, Len(src) = end - 1 + pad, \A i \in end..Len(src) : src[i] = 0,
         NEW s, Settled(src, meant, cap, pad, end, s)
  PROVE  Settled(src, meant, cap, pad, end, Goes(src, cap, s))
<1>0. Len(src) \in Nat
  BY LenProperties
<1>1. CASE s = Fail
  <2>1. Goes(src, cap, s) = s
    BY <1>1 DEF Goes
  <2> QED
    BY <2>1
<1>2. CASE s # Fail
  <2>1. PICK a \in Nat : s = [at |-> a, out |-> meant] /\ end <= a /\ a <= Len(src) + 1
    BY <1>2 DEF Settled
  <2>2. Len(meant) <= cap
    BY <1>2 DEF Settled
  <2>3. CASE a > Len(src)
    <3>1. s.at > Len(src)
      BY <2>1, <2>3
    <3>2. Goes(src, cap, s) = s
      BY <3>1 DEF Goes
    <3> QED
      BY <3>2
  <2>4. CASE ~(a > Len(src))
    <3>1. a \in 1..Len(src) /\ pad > 0 /\ \A i \in a..Len(src) : src[i] = 0
      BY <1>0, <2>1, <2>4
    <3>2. Turn(src, cap, [at |-> a, out |-> meant]) =
            IF a + 1 > Len(src) THEN [at |-> a + 1, out |-> meant] ELSE Fail
      BY <2>2, <3>1, ZeroTurn
    <3>3. s.at = a
      BY <2>1
    <3>4. Goes(src, cap, s) = Turn(src, cap, [at |-> a, out |-> meant])
      BY <1>2, <2>1, <2>4, <3>3 DEF Goes
    <3>5. CASE a + 1 > Len(src)
      <4>1. Goes(src, cap, s) = [at |-> a + 1, out |-> meant]
        BY <3>2, <3>4, <3>5
      <4>2. a + 1 \in Nat /\ end <= a + 1 /\ a + 1 <= Len(src) + 1
        BY <1>0, <2>1, <2>4
      <4> QED
        BY <2>2, <4>1, <4>2 DEF Settled
    <3>6. CASE ~(a + 1 > Len(src))
      BY <3>1, <3>2, <3>4, <3>6 DEF Settled
    <3> QED
      BY <3>5, <3>6
  <2> QED
    BY <2>3, <2>4
<1> QED
  BY <1>1, <1>2

LEMMA UnpackExact ==
  ASSUME NEW block \in Seq(Sequence), Legal(block), NEW pad \in Nat, NEW cap \in Nat
  PROVE  LET got == Decompress(BytesOf(block) \o Zeros(pad), cap)
             fits == Len(Meaning(block)) <= cap
         IN \/ got = Fail /\ (pad > 0 \/ ~fits)
            \/ got = [out |-> Meaning(block)] /\ fits
<1> DEFINE b == BytesOf(block)
           src == b \o Zeros(pad)
           meant == Meaning(block)
           n == Len(block)
           turn == Turns(src, cap)
<1>1. /\ src \in Seq(Octets) /\ b \in Seq(Octets) /\ meant \in Seq(Octets)
      /\ Len(src) = Len(b) + pad /\ n <= Len(b) /\ Holds(src, 1, b)
      /\ \A i \in Len(b) + 1..Len(src) : src[i] = 0
  BY PaddedSource
<1>2. n \in Nat
  BY LenProperties
<1>3. Decompress(src, cap) = IF turn[Len(src)] = Fail THEN Fail ELSE [out |-> turn[Len(src)].out]
  BY DEF Decompress
<1> HIDE DEF src
<1>4. Len(b) \in Nat /\ Len(src) \in Nat /\ n <= Len(src)
  <2>1. Len(b) \in Nat /\ Len(src) \in Nat
    BY <1>1, LenProperties
  <2> HIDE DEF b, n
  <2> QED
    BY <1>1, <1>2, <2>1
<1>5. turn[0] = Start /\ \A k \in Nat : k < Len(src) => turn[k + 1] = Goes(src, cap, turn[k])
  BY <1>4, TurnsAre
<1> HIDE DEF turn
<1>6. turn[0] = Taken(block, cap, pad, 0)
  <2>1. Packed(block)[0] = <<>> /\ Shown(block)[0] = <<>>
    BY <1>2, PackedAre, ShownAre
  <2>2. Len(<<>>) = 0 /\ 0 <= cap /\ ~(0 > 0) /\ 1 + 0 = 1
    OBVIOUS
  <2>3. Taken(block, cap, pad, 0) = [at |-> 1 + Len(<<>>), out |-> <<>>]
    BY <2>1, <2>2, Zenon DEF Taken
  <2> QED
    BY <1>5, <2>2, <2>3 DEF Start
<1> DEFINE S == {k \in Nat : k <= n => turn[k] = Taken(block, cap, pad, k)}
<1>7. ASSUME NEW k \in Nat, k < n, turn[k] = Taken(block, cap, pad, k)
      PROVE  turn[k + 1] = Taken(block, cap, pad, k + 1)
  <2>1. Goes(src, cap, Taken(block, cap, pad, k)) = Taken(block, cap, pad, k + 1)
    BY <1>1, <1>7, TakesOne
  <2>2. k < Len(src)
    <3> HIDE DEF n
    <3> QED
      BY <1>2, <1>4, <1>7
  <2> QED
    BY <1>5, <1>7, <2>1, <2>2
<1> HIDE DEF n
<1>8. turn[n] = Taken(block, cap, pad, n)
  <2>1. 0 \in S
    BY <1>6
  <2>2. ASSUME NEW k \in Nat, k < n, k \in S PROVE k + 1 \in S
    <3>1. k <= n /\ turn[k] = Taken(block, cap, pad, k)
      BY <1>2, <2>2
    <3>2. turn[k + 1] = Taken(block, cap, pad, k + 1)
      BY <1>7, <2>2, <3>1
    <3> QED
      BY <3>2
  <2> HIDE DEF S
  <2>3. \A k \in 0..n : k \in S
    BY <1>2, <2>1, <2>2, UpTo
  <2>4. n \in S
    BY <1>2, <2>3
  <2> QED
    BY <1>2, <2>4 DEF S
<1> DEFINE end == Len(b) + 1
           Well(s) == Settled(src, meant, cap, pad, end, s)
<1>9. Well(turn[n])
  <2>1. Packed(block)[n] = b /\ Shown(block)[n] = meant
    BY DEF BytesOf, Meaning, n
  <2> HIDE DEF b, meant
  <2>2. end \in Nat /\ 1 + Len(b) = end /\ end <= end /\ end <= Len(src) + 1
    BY <1>1, <1>4
  <2>3. CASE turn[n] = Fail
    <3>1. pad > 0 \/ ~(Len(meant) <= cap)
      BY <1>8, <2>1, <2>3, NoFail DEF Taken
    <3> QED
      BY <2>3, <3>1 DEF Settled
  <2>4. CASE turn[n] # Fail
    <3>1. Len(meant) <= cap /\ turn[n] = [at |-> end, out |-> meant]
      <4> HIDE DEF end
      <4> QED
        BY <1>8, <2>1, <2>2, <2>4 DEF Taken
    <3> HIDE DEF end
    <3> QED
      BY <2>2, <3>1 DEF Settled
  <2> QED
    BY <2>3, <2>4
<1>10. ASSUME NEW s, Well(s) PROVE Well(Goes(src, cap, s))
  <2>1. end \in Nat \ {0} /\ Len(src) = end - 1 + pad /\ \A i \in end..Len(src) : src[i] = 0
    <3> HIDE DEF b
    <3> QED
      BY <1>1, <1>4
  <2> HIDE DEF end, meant
  <2> QED
    BY <1>1, <1>10, <2>1, StaysSettled DEF meant
<1> HIDE DEF Well
<1> DEFINE T == {k \in Nat : k >= n => Well(turn[k])}
<1>11. Well(turn[Len(src)])
  <2>1. 0 \in T
    BY <1>2, <1>9
  <2>2. ASSUME NEW k \in Nat, k < Len(src), k \in T PROVE k + 1 \in T
    <3>1. turn[k + 1] = Goes(src, cap, turn[k])
      BY <1>5, <2>2
    <3>2. CASE k >= n
      BY <1>10, <2>2, <3>1, <3>2
    <3>3. CASE k + 1 = n
      BY <1>9, <3>3
    <3>4. CASE k + 1 < n
      BY <1>2, <3>4
    <3> QED
      BY <1>2, <3>2, <3>3, <3>4
  <2> HIDE DEF T
  <2>3. \A k \in 0..Len(src) : k \in T
    BY <1>4, <2>1, <2>2, UpTo
  <2>4. Len(src) \in T
    BY <1>4, <2>3
  <2> QED
    BY <1>4, <2>4 DEF T
<1>12. \/ Decompress(src, cap) = Fail /\ (pad > 0 \/ ~(Len(meant) <= cap))
       \/ Decompress(src, cap) = [out |-> meant] /\ Len(meant) <= cap
  <2> DEFINE s == turn[Len(src)]
  <2>1. Settled(src, meant, cap, pad, end, s)
    BY <1>11 DEF Well
  <2>2. Decompress(src, cap) = IF s = Fail THEN Fail ELSE [out |-> s.out]
    BY <1>3
  <2> HIDE DEF s, meant, end
  <2>3. CASE s = Fail /\ (pad > 0 \/ ~(Len(meant) <= cap))
    BY <2>2, <2>3
  <2>4. CASE Len(meant) <= cap /\ \E a \in Nat : s = [at |-> a, out |-> meant] /\ end <= a /\ a <= Len(src) + 1
    <3>1. PICK a \in Nat : s = [at |-> a, out |-> meant]
      BY <2>4
    <3>2. s # Fail /\ s.out = meant
      BY <3>1, NoFail
    <3> QED
      BY <2>2, <2>4, <3>2
  <2> QED
    BY <2>1, <2>3, <2>4 DEF Settled
<1> QED
  BY <1>12 DEF src, meant

LEMMA NibblesOf ==
  ASSUME NEW x \in Octets
  PROVE  x \div Base \in 0..Full /\ x % Base \in 0..Full
<1>1. x \in Nat /\ x <= Base * Base - 1 /\ Base \in Nat \ {0}
  BY Sizes DEF Octets
<1>2. PICK d \in Nat, r \in 0..Base - 1 : d = x \div Base /\ r = x % Base /\ x = d * Base + r
  <2>1. x \div Base \in Nat /\ x % Base \in 0..Base - 1 /\ x = (x \div Base) * Base + (x % Base)
    BY <1>1, PutTogether
  <2> QED
    BY <2>1
<1>3. Base * d < Base * Base
  <2>1. d * Base = Base * d /\ Base * d \in Nat /\ Base * Base \in Nat
    BY <1>1
  <2> QED
    BY <1>1, <1>2, <2>1
<1>4. d < Base
  BY <1>1, <1>3, Cancels
<1> QED
  BY <1>1, <1>2, <1>4, Sizes

\* A copy is as long as it says.
LEMMA CopyTyped ==
  ASSUME NEW out \in Seq(Octets), NEW match \in Nat, NEW off \in 1..Len(out),
         off <= (Last + 1) * (Last + 1) - 1
  PROVE  /\ CopyMatch(out, off, match) \in Seq(Octets)
         /\ Len(CopyMatch(out, off, match)) = Len(out) + match
<1> DEFINE q == [lit |-> <<>>, off |-> off, len |-> match]
           e == Expand(out, q)
<1>0. Len(out) \in Nat
  BY LenProperties
<1>1. q.lit = <<>> /\ q.off = off /\ q.len = match
  OBVIOUS
<1>2. q \in Sequence
  <2>1. off \in 0..(Last + 1) * (Last + 1) - 1
    <3>1. PICK w \in Int : w = (Last + 1) * (Last + 1) - 1
      <4>1. (Last + 1) * (Last + 1) \in Int
        BY Sizes
      <4> QED
        BY <4>1
    <3> QED
      BY <1>0, <3>1
  <2> QED
    BY <2>1 DEF Sequence
<1> HIDE DEF q
<1>3. Reaches(out, q)
  <2>1. Len(q.lit) = 0 /\ q.off # 0 /\ q.off <= Len(out) + 0
    BY <1>0, <1>1
  <2> QED
    BY <2>1 DEF Reaches
<1>4. out \o q.lit = out
  BY <1>1
<1>5. /\ e \in Seq(Octets) /\ Len(e) = Len(out) + match
      /\ \A i \in 1..Len(out) : e[i] = out[i]
      /\ \A i \in Len(out) + 1..Len(e) : e[i] = e[i - off]
  <2> DEFINE start == out \o q.lit
  <2>1. /\ e \in Seq(Octets) /\ Len(e) = Len(start) + q.len
        /\ \A i \in 1..Len(start) : e[i] = start[i]
        /\ \A i \in Len(start) + 1..Len(e) : e[i] = e[i - q.off]
    BY <1>2, <1>3, Expanded
  <2>2. start = out
    BY <1>4
  <2> HIDE DEF e, start
  <2> QED
    BY <1>1, <2>1, <2>2
<1> HIDE DEF e
<1>6. CopyMatch(out, off, match) = e
  BY <1>5, CopyExact
<1> QED
  BY <1>5, <1>6

\* What any turn leaves.
Within(src, cap, s) ==
  \E a \in 1..Len(src) + 1, o \in Seq(Octets) : s = [at |-> a, out |-> o] /\ Len(o) <= cap

LEMMA LiteralsBounded ==
  ASSUME NEW src \in Seq(Octets), NEW cap \in Nat, NEW s, Within(src, cap, s), s.at <= Len(src),
         Literals(src, cap, s) # Fail
  PROVE  Within(src, cap, Literals(src, cap, s))
<1> DEFINE len == ReadLength(src, src[s.at] \div Base, s.at + 1)
<1>0. Len(src) \in Nat
  BY LenProperties
<1>1. PICK p \in 1..Len(src), o \in Seq(Octets) : s.at = p /\ s.out = o /\ Len(o) <= cap
  <2>1. PICK a \in 1..Len(src) + 1, o \in Seq(Octets) : s = [at |-> a, out |-> o] /\ Len(o) <= cap
    BY DEF Within
  <2>2. s.at = a /\ s.out = o
    BY <2>1
  <2>3. a \in 1..Len(src)
    BY <1>0, <2>2
  <2> QED
    BY <2>1, <2>2, <2>3
<1>2. Literals(src, cap, s) =
        IF len = Fail THEN Fail
        ELSE IF Len(src) - len.next + 1 < len.length \/ ~Room(s.out, cap, len.length) THEN Fail
        ELSE [at |-> len.next + len.length, out |-> s.out \o SubSeq(src, len.next, len.next + len.length - 1)]
  BY DEF Literals
<1>3. len # Fail => len.length \in Nat /\ len.next \in p + 1..Len(src) + 1
  <2>1. src[p] \div Base \in 0..Full
    <3>1. src[p] \in Octets
      BY ElementOfSeq
    <3> QED
      BY <3>1, NibblesOf
  <2>2. p + 1 \in 1..Len(src) + 1
    BY <1>0
  <2>3. len = ReadLength(src, src[p] \div Base, p + 1)
    BY <1>1
  <2> HIDE DEF len
  <2> QED
    BY <2>1, <2>2, <2>3, LengthTyped
<1> HIDE DEF len
<1>4. PICK n \in Nat, x \in p + 1..Len(src) + 1 :
        /\ n = len.length /\ x = len.next
        /\ ~(Len(src) - x + 1 < n) /\ Len(o) + n <= cap
        /\ Literals(src, cap, s) = [at |-> x + n, out |-> o \o SubSeq(src, x, x + n - 1)]
  <2>1. len # Fail
    BY <1>2
  <2>2. ~(Len(src) - len.next + 1 < len.length) /\ Room(s.out, cap, len.length)
    BY <1>2
  <2> QED
    BY <1>1, <1>2, <1>3, <2>1, <2>2 DEF Room
<1>9. x \in Nat /\ p \in Nat /\ x >= 1 /\ x + n <= Len(src) + 1
  <2>1. x \in Nat /\ p \in Nat /\ x >= p + 1 /\ p >= 1
    BY <1>0
  <2>2. ~(Len(src) - x + 1 < n)
    BY <1>4
  <2> QED
    BY <1>0, <2>1, <2>2
<1> DEFINE u == SubSeq(src, x, x + n - 1)
<1>5. u \in Seq(Octets) /\ Len(u) = n
  <2>1. x \in Int /\ x + n - 1 \in Int
    BY <1>9
  <2>2. \A i \in x..x + n - 1 : i \in 1..Len(src)
    BY <1>0, <1>9
  <2>3. \A i \in x..x + n - 1 : src[i] \in Octets
    BY <2>2, ElementOfSeq
  <2>4. u \in Seq(Octets) /\ Len(u) = IF x <= x + n - 1 THEN (x + n - 1) - x + 1 ELSE 0
    BY <2>1, <2>3, SubSeqProperties
  <2> HIDE DEF u
  <2> QED
    BY <1>9, <2>4
<1>6. o \o u \in Seq(Octets) /\ Len(o \o u) = Len(o) + n
  <2> HIDE DEF u
  <2>1. o \o u \in Seq(Octets) /\ Len(o \o u) = Len(o) + Len(u)
    BY <1>5, ConcatProperties
  <2> QED
    BY <1>5, <2>1
<1>7. x + n \in 1..Len(src) + 1
  BY <1>0, <1>9
<1>8. Literals(src, cap, s) = [at |-> x + n, out |-> o \o u] /\ Len(o \o u) <= cap
  BY <1>4, <1>6
<1> HIDE DEF u
<1> QED
  BY <1>6, <1>7, <1>8 DEF Within

LEMMA MatchBounded ==
  ASSUME NEW src \in Seq(Octets), NEW cap \in Nat, NEW token \in Octets, NEW s, Within(src, cap, s),
         Match(src, cap, token, s) # Fail
  PROVE  Within(src, cap, Match(src, cap, token, s))
<1> DEFINE off == src[s.at] + (Last + 1) * src[s.at + 1]
           len == ReadLength(src, token % Base, s.at + 2)
<1>0. Len(src) \in Nat
  BY LenProperties
<1>1. PICK p \in 1..Len(src) + 1, o \in Seq(Octets) : s.at = p /\ s.out = o /\ Len(o) <= cap
  <2>1. PICK a \in 1..Len(src) + 1, o \in Seq(Octets) : s = [at |-> a, out |-> o] /\ Len(o) <= cap
    BY DEF Within
  <2>2. s.at = a /\ s.out = o
    BY <2>1
  <2> QED
    BY <2>1, <2>2
<1>2. Match(src, cap, token, s) =
        IF Len(src) - s.at + 1 < 2 THEN Fail
        ELSE IF off = 0 \/ Len(s.out) < off \/ len = Fail THEN Fail
        ELSE IF ~Room(s.out, cap, len.length + MinMatch) THEN Fail
        ELSE [at |-> len.next, out |-> CopyMatch(s.out, off, len.length + MinMatch)]
  BY DEF Match
<1>3. ~(Len(src) - p + 1 < 2) /\ ~(off = 0) /\ ~(Len(o) < off) /\ len # Fail
  <2> HIDE DEF off, len
  <2> QED
    BY <1>1, <1>2
<1>4. p \in 1..Len(src) /\ p + 1 \in 1..Len(src) /\ p + 2 \in 1..Len(src) + 1 /\ Len(o) \in Nat
  <2>1. Len(o) \in Nat
    BY LenProperties
  <2> HIDE DEF off, len
  <2> QED
    BY <1>0, <1>3, <2>1
<1>5. off \in Nat /\ off <= (Last + 1) * (Last + 1) - 1
  <2>1. PICK a \in Nat, d \in Nat : a = src[p] /\ d = src[p + 1] /\ a <= Last /\ d <= Last
    <3>1. src[p] \in Octets /\ src[p + 1] \in Octets
      BY <1>4, ElementOfSeq
    <3>2. src[p] \in Nat /\ src[p + 1] \in Nat /\ src[p] <= Last /\ src[p + 1] <= Last
      BY <3>1, Sizes DEF Octets
    <3> QED
      BY <3>2
  <2>2. PICK w \in Nat : w = Last + 1
    BY Sizes
  <2>3. off = a + w * d
    BY <1>1, <2>1, <2>2
  <2>4. w * d \in Nat /\ w * w \in Nat /\ w * d <= w * w - w
    <3>1. d * w <= (w - 1) * w
      <4>1. d <= w - 1 /\ w - 1 \in Nat
        BY <2>1, <2>2, Sizes
      <4> QED
        BY <4>1, Scales
    <3>2. d * w = w * d /\ (w - 1) * w = w * w - w /\ w * d \in Nat /\ w * w \in Nat
      OBVIOUS
    <3> QED
      BY <3>1, <3>2
  <2> HIDE DEF off
  <2>5. off \in Nat /\ off <= w * w - 1
    <3>1. a <= w - 1
      BY <2>1, <2>2, Sizes
    <3>2. PICK x \in Nat, y \in Nat : x = w * d /\ y = w * w /\ x <= y - w
      BY <2>4
    <3>3. off = a + x
      BY <2>3, <3>2
    <3>4. off \in Nat /\ off <= y - 1
      BY <3>1, <3>2, <3>3
    <3> QED
      BY <3>2, <3>4
  <2> QED
    BY <2>2, <2>5
<1>6. len.length \in Nat /\ len.next \in p + 2..Len(src) + 1
  <2>1. token % Base \in 0..Full
    BY NibblesOf
  <2>2. len = ReadLength(src, token % Base, p + 2)
    BY <1>1
  <2> HIDE DEF len
  <2> QED
    BY <1>3, <1>4, <2>1, <2>2, LengthTyped
<1> HIDE DEF off, len
<1>7. PICK n \in Nat : n = len.length + MinMatch
  BY <1>6, Sizes
<1>8. /\ Len(o) + n <= cap
      /\ Match(src, cap, token, s) = [at |-> len.next, out |-> CopyMatch(o, off, n)]
  BY <1>1, <1>2, <1>7 DEF Room
<1>9. CopyMatch(o, off, n) \in Seq(Octets) /\ Len(CopyMatch(o, off, n)) = Len(o) + n
  <2>1. off \in 1..Len(o)
    BY <1>3, <1>4, <1>5
  <2> QED
    BY <1>5, <2>1, CopyTyped
<1>10. len.next \in 1..Len(src) + 1
  BY <1>0, <1>6
<1>11. Len(CopyMatch(o, off, n)) <= cap
  BY <1>8, <1>9
<1> QED
  BY <1>8, <1>9, <1>10, <1>11 DEF Within

\* Whatever arrives, no turn writes past the buffer or reads past the block.
LEMMA NoiseKept ==
  ASSUME NEW src \in Seq(Octets), NEW cap \in Nat
  PROVE  \A k \in 0..Len(src) :
           Turns(src, cap)[k] # Fail =>
             Len(Turns(src, cap)[k].out) <= cap /\ Turns(src, cap)[k].at <= Len(src) + 1
<1> DEFINE turn == Turns(src, cap)
           S == {k \in Nat : turn[k] # Fail => Within(src, cap, turn[k])}
<1>0. Len(src) \in Nat
  BY LenProperties
<1>1. turn[0] = Start /\ \A k \in Nat : k < Len(src) => turn[k + 1] = Goes(src, cap, turn[k])
  BY <1>0, TurnsAre
<1> HIDE DEF turn
<1>2. 0 \in S
  <2>1. 1 \in 1..Len(src) + 1 /\ <<>> \in Seq(Octets) /\ Len(<<>>) <= cap
    BY <1>0
  <2>2. Within(src, cap, Start)
    BY <2>1 DEF Within, Start
  <2> QED
    BY <1>1, <2>2
<1>3. ASSUME NEW s, Within(src, cap, s), Goes(src, cap, s) # Fail
      PROVE  Within(src, cap, Goes(src, cap, s))
  <2>1. CASE s.at > Len(src)
    BY <1>3, <2>1 DEF Goes
  <2>2. CASE s = Fail
    BY <1>3, <2>2 DEF Goes
  <2>3. CASE s # Fail /\ ~(s.at > Len(src))
    <3> DEFINE lit == Literals(src, cap, s)
    <3>1. s.at \in 1..Len(src)
      <4>1. PICK a \in 1..Len(src) + 1, o \in Seq(Octets) : s = [at |-> a, out |-> o]
        BY <1>3 DEF Within
      <4>2. s.at = a
        BY <4>1
      <4> QED
        BY <1>0, <2>3, <4>2
    <3>2. Goes(src, cap, s) = IF lit = Fail \/ lit.at > Len(src) THEN lit ELSE Match(src, cap, src[s.at], lit)
      BY <2>3 DEF Goes, Turn
    <3>3. lit # Fail => Within(src, cap, lit)
      <4>1. s.at <= Len(src)
        BY <1>0, <3>1
      <4> QED
        BY <1>3, <4>1, LiteralsBounded
    <3>4. src[s.at] \in Octets
      BY <3>1, ElementOfSeq
    <3> HIDE DEF lit
    <3> QED
      BY <1>3, <3>2, <3>3, <3>4, MatchBounded
  <2> QED
    BY <2>1, <2>2, <2>3
<1>4. ASSUME NEW k \in Nat, k < Len(src), k \in S PROVE k + 1 \in S
  <2>1. turn[k + 1] = Goes(src, cap, turn[k])
    BY <1>1, <1>4
  <2>2. CASE turn[k] = Fail
    <3>1. turn[k + 1] = Fail
      BY <2>1, <2>2 DEF Goes
    <3> QED
      BY <3>1
  <2>3. CASE turn[k] # Fail
    BY <1>3, <1>4, <2>1, <2>3
  <2> QED
    BY <2>2, <2>3
<1> HIDE DEF S
<1>5. \A k \in 0..Len(src) : k \in S
  BY <1>0, <1>2, <1>4, UpTo
<1>6. ASSUME NEW k \in 0..Len(src), turn[k] # Fail
      PROVE  Len(turn[k].out) <= cap /\ turn[k].at <= Len(src) + 1
  <2>1. Within(src, cap, turn[k])
    BY <1>5, <1>6 DEF S
  <2>2. PICK a \in 1..Len(src) + 1, o \in Seq(Octets) : turn[k] = [at |-> a, out |-> o] /\ Len(o) <= cap
    BY <2>1 DEF Within
  <2>3. turn[k].at = a /\ turn[k].out = o
    BY <2>2
  <2> QED
    BY <1>0, <2>2, <2>3
<1> QED
  BY <1>6 DEF turn

\* A block packed by the rules comes out as what it stands for, or is refused for want of
\* room or for the zeros after it; whatever else arrives, no turn writes past the buffer or
\* reads past the block (lz4dec.c:34-125, gadget.c:549).
THEOREM BlocksComeOut == Spec => []Lz4Exact
<1>1. AnswerInv => Lz4Exact
  <2> SUFFICES ASSUME AnswerInv PROVE Lz4Exact
    OBVIOUS
  <2>1. ASSUME Returned("unpack")
        PROVE  LET meant == Meaning(call.block)
                   fits == Len(meant) <= call.cap
               IN \/ result = Fail /\ (call.pad > 0 \/ ~fits)
                  \/ result = [out |-> meant] /\ fits
    <3>1. call.block \in Blocks /\ Legal(call.block) /\ call.cap \in Caps /\ call.pad \in Pads
      BY <2>1 DEF AnswerInv, Called, Returned
    <3>2. call.block \in Seq(Sequence) /\ call.cap \in Nat /\ call.pad \in Nat
      BY <3>1, ArithAssumption DEF ArithAssumption
    <3>3. result = Decompress(BytesOf(call.block) \o Zeros(call.pad), call.cap)
      BY <2>1 DEF AnswerInv, Answered
    <3> DEFINE block == call.block
               cap == call.cap
               pad == call.pad
    <3>4. block \in Seq(Sequence) /\ Legal(block) /\ cap \in Nat /\ pad \in Nat
      BY <3>1, <3>2
    <3>5. result = Decompress(BytesOf(block) \o Zeros(pad), cap)
      BY <3>3
    <3> HIDE DEF block, cap, pad
    <3>6. \/ result = Fail /\ (pad > 0 \/ ~(Len(Meaning(block)) <= cap))
          \/ result = [out |-> Meaning(block)] /\ Len(Meaning(block)) <= cap
      BY <3>4, <3>5, UnpackExact
    <3> QED
      BY <3>6 DEF block, cap, pad
  <2>2. ASSUME Returned("unpack noise"), NEW k \in 0..Len(call.src), Turns(call.src, call.cap)[k] # Fail
        PROVE  /\ Len(Turns(call.src, call.cap)[k].out) <= call.cap
               /\ Turns(call.src, call.cap)[k].at <= Len(call.src) + 1
    <3>1. call.src \in Noise /\ call.cap \in Caps
      BY <2>2 DEF AnswerInv, Called, Returned
    <3>2. call.src \in Seq(Octets) /\ call.cap \in Nat
      BY <3>1, ArithAssumption DEF ArithAssumption, Octets
    <3> QED
      BY <2>2, <3>2, NoiseKept
  <2> QED
    BY <2>1, <2>2 DEF Lz4Exact
<1> QED
  BY <1>1, AnswerInit, AnswerStep, PTL DEF Spec
=============================================================================
