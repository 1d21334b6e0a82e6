-------------------------- MODULE VideoTimingProof --------------------------
(***************************************************************************)
(* Theorems about VideoTiming, for rasters and counters of any size and    *)
(* any changes of timing.                                                  *)
(***************************************************************************)
EXTENDS VideoTiming, TLAPS

\* What is displayed lies in the framebuffer of the timing in force.
Inside == out.de => out.x \in 0..t.h_act - 1 /\ out.y \in 0..Rows - 1

\* Only a change of timing leaves a pixel of another raster in the output register.
InPicture == steady => Inside

Inv ==
  /\ TypeOK /\ retimes \in Nat
  /\ InPicture

LEMMA Parts ==
  ASSUME NEW tt \in Timings
  PROVE  /\ tt.interlace \in BOOLEAN
         /\ tt.h_sy \in Nat /\ tt.h_bp \in Nat /\ tt.h_act \in Nat /\ tt.h_fp \in Nat
         /\ tt.v_sy \in Nat /\ tt.v_bp \in Nat /\ tt.v_act \in Nat /\ tt.v_fp \in Nat
BY TimingAssumption DEF TimingAssumption

LEMMA Counters == Modulus \in Nat \ {0} /\ Retimes \in Nat /\ \A n \in Nat : Wrap(n) \in 0..Modulus - 1
BY TimingAssumption DEF TimingAssumption, Wrap

\* A pixel of the active window, as it goes into the output register.
LEMMA PixelInside ==
  ASSUME TypeOK, h_active, v_active
  PROVE  hcnt - h_start \in 0..t.h_act - 1 /\ ypos \in 0..Rows - 1
<1>1. /\ t.interlace \in BOOLEAN /\ hcnt \in Nat /\ lcnt \in Nat
      /\ t.h_sy \in Nat /\ t.h_bp \in Nat /\ t.h_act \in Nat
      /\ t.v_sy \in Nat /\ t.v_bp \in Nat /\ t.v_act \in Nat /\ t.v_fp \in Nat
  BY Parts, Counters DEF TypeOK
<1>2. hcnt - h_start \in 0..t.h_act - 1
  BY <1>1 DEF h_active, h_start
<1>3. V_TOT \in Nat
  BY <1>1, Counters DEF V_TOT
<1>4. v_start \in Nat
  BY <1>1, <1>3 DEF v_start
<1>5. lcnt - v_start \in 0..t.v_act - 1
  BY <1>1, <1>4 DEF v_active
<1>6. CASE t.interlace
  <2>1. ypos \in {2 * (lcnt - v_start), 2 * (lcnt - v_start) + 1}
    BY <1>1, <1>4, <1>6 DEF ypos
  <2>2. Rows = 2 * t.v_act
    BY <1>6 DEF Rows
  <2> QED
    BY <1>1, <1>2, <1>4, <1>5, <2>1, <2>2
<1>7. CASE ~t.interlace
  <2>1. ypos = lcnt - v_start /\ Rows = t.v_act
    BY <1>7 DEF ypos, Rows
  <2> QED
    BY <1>2, <1>5, <2>1
<1> QED
  BY <1>1, <1>6, <1>7

LEMMA InvInit == Init => Inv
<1> SUFFICES ASSUME Init PROVE Inv
  OBVIOUS
<1>1. hcnt \in 0..Modulus - 1 /\ lcnt \in 0..Modulus - 1 /\ retimes \in 0..Retimes
  BY Counters DEF Init
<1>2. out.de = FALSE /\ steady = TRUE
  BY DEF Init, Off
<1>3. TypeOK /\ retimes \in Nat
  BY <1>1, <1>2 DEF Init, TypeOK
<1>4. InPicture
  BY <1>2 DEF InPicture, Inside
<1> QED
  BY <1>3, <1>4 DEF Inv

LEMMA InvStep == Inv /\ [Next]_vars => Inv'
<1> SUFFICES ASSUME Inv, [Next]_vars PROVE Inv'
  OBVIOUS
<1>1. CASE Clock
  <2>1. UNCHANGED <<t, retimes>> /\ hcnt \in Nat /\ lcnt \in Nat
    BY <1>1, Counters DEF Clock, Inv, TypeOK
  <2>2. hcnt' \in 0..Modulus - 1 /\ lcnt' \in 0..Modulus - 1
    <3>1. Wrap(hcnt + 1) \in 0..Modulus - 1 /\ Wrap(lcnt + 1) \in 0..Modulus - 1
      BY <2>1, Counters
    <3>2. 0 \in 0..Modulus - 1
      BY Counters
    <3> QED
      BY <1>1, <3>1, <3>2 DEF Clock, Count, Inv, TypeOK
  <2>3. steady' \in BOOLEAN
    BY <1>1 DEF Clock, AtTop, Inv, TypeOK
  <2>4. out' = IF h_active /\ v_active THEN [de |-> TRUE, x |-> hcnt - h_start, y |-> ypos] ELSE Off
    BY <1>1 DEF Clock
  <2>5. out'.de \in BOOLEAN
    BY <2>4 DEF Off
  <2>6. ASSUME out'.de PROVE out'.x \in 0..t'.h_act - 1 /\ out'.y \in 0..Rows' - 1
    <3>1. h_active /\ v_active
      BY <2>4, <2>6 DEF Off
    <3>2. out'.x = hcnt - h_start /\ out'.y = ypos
      BY <2>4, <3>1
    <3>3. Rows' = Rows /\ t' = t
      BY <2>1 DEF Rows
    <3> QED
      BY <3>1, <3>2, <3>3, PixelInside DEF Inv
  <2>7. InPicture'
    BY <2>6 DEF InPicture, Inside
  <2> QED
    BY <2>1, <2>2, <2>3, <2>5, <2>7 DEF Inv, TypeOK
<1>2. CASE Retime
  <2>1. /\ t' \in Timings /\ steady' = FALSE /\ retimes' = retimes + 1 /\ retimes < Retimes
        /\ UNCHANGED <<hcnt, lcnt, out>>
    BY <1>2 DEF Retime, counters
  <2>2. retimes' \in 0..Retimes /\ retimes' \in Nat
    BY <2>1, Counters DEF Inv
  <2>3. out'.de \in BOOLEAN /\ steady' \in BOOLEAN
    BY <2>1 DEF Inv, TypeOK
  <2>4. InPicture'
    BY <2>1 DEF InPicture
  <2> QED
    BY <2>1, <2>2, <2>3, <2>4 DEF Inv, TypeOK
<1>3. CASE UNCHANGED vars
  <2>1. UNCHANGED <<t, retimes, hcnt, lcnt, out, steady>>
    BY <1>3 DEF vars, counters, history
  <2>2. (out.de \in BOOLEAN /\ steady \in BOOLEAN)'
    BY <2>1 DEF Inv, TypeOK
  <2>3. InPicture'
    BY <2>1 DEF Inv, InPicture, Inside, Rows
  <2> QED
    BY <2>1, <2>2, <2>3 DEF Inv, TypeOK
<1> QED
  BY <1>1, <1>2, <1>3 DEF Next

\* The types, for counters of any width and through any changes of timing.
THEOREM TypeCorrect == Spec => []TypeOK
BY InvInit, InvStep, PTL DEF Spec, Inv

\* No raster, either scan, with porches of any size, displays a pixel that is not in its
\* framebuffer (video_timing.v:140-168).
THEOREM PixelsInPicture == Spec => []InPicture
BY InvInit, InvStep, PTL DEF Spec, Inv

-----------------------------------------------------------------------------
(* Where the raster is in its frame *)

\* The totals fit their counters and the line is longer than its sync, as in every mode
\* the mode check lets through: 32 MHz over 15 kHz is under 2134 clocks, 16.5 kHz over
\* 47 Hz under 352 lines of a field, and the counters hold 4096.
Fits ==
  \A tt \in Timings :
    /\ tt.h_sy + tt.h_bp + tt.h_act + tt.h_fp < Modulus
    /\ 2 * (tt.v_sy + tt.v_bp + tt.v_act + tt.v_fp) + 1 < Modulus
    /\ tt.h_bp + tt.h_act + tt.h_fp >= 2

LEMMA WrapBelow == ASSUME NEW n \in 0..Modulus - 1 PROVE Wrap(n) = n
<1> DEFINE q == n \div Modulus
<1>1. Modulus \in Nat \ {0}
  BY Counters
<1>2. q \in Int /\ n = Modulus * q + (n % Modulus) /\ n % Modulus \in 0..Modulus - 1
  BY <1>1
<1>3. CASE q <= -1
  <2>1. Modulus * q <= -Modulus
    BY <1>1, <1>2, <1>3
  <2> QED BY <1>1, <1>2, <2>1
<1>4. CASE q >= 1
  <2>1. Modulus * q >= Modulus
    BY <1>1, <1>2, <1>4
  <2> QED BY <1>1, <1>2, <2>1
<1>5. CASE q = 0
  BY <1>1, <1>2, <1>5 DEF Wrap
<1> QED BY <1>2, <1>3, <1>4, <1>5

LEMMA Halves ==
  ASSUME NEW n \in Nat PROVE n \div 2 \in Nat /\ 2 * (n \div 2) <= n /\ n <= 2 * (n \div 2) + 1
  OBVIOUS

LEMMA Across ==
  ASSUME Fits, t \in Timings
  PROVE  /\ H_TOT = t.h_sy + t.h_bp + t.h_act + t.h_fp /\ H_TOT \in Nat /\ H_TOT < Modulus
         /\ t.h_sy \in Nat /\ t.h_sy >= 2 /\ t.h_sy + 2 <= H_TOT
         /\ H_HALF \in Nat /\ 2 * H_HALF <= H_TOT /\ H_TOT <= 2 * H_HALF + 1
         /\ half_sy \in Nat /\ half_sy >= 1 /\ half_sy < H_HALF
         /\ Modulus \in Nat
<1>1. /\ t.h_sy \in Nat /\ t.h_bp \in Nat /\ t.h_act \in Nat /\ t.h_fp \in Nat
  BY Parts
<1>2. t.h_sy + t.h_bp + t.h_act + t.h_fp < Modulus /\ t.h_bp + t.h_act + t.h_fp >= 2
  BY DEF Fits
<1>3. t.h_sy >= 2
  BY TimingAssumption DEF TimingAssumption
<1>4. Modulus \in Nat
  BY Counters
<1>5. H_TOT = t.h_sy + t.h_bp + t.h_act + t.h_fp
  <2>1. t.h_sy + t.h_bp + t.h_act + t.h_fp \in 0..Modulus - 1
    BY <1>1, <1>2, <1>4
  <2> QED
    BY <2>1, WrapBelow DEF H_TOT
<1>6. H_TOT \in Nat /\ H_TOT < Modulus /\ t.h_sy + 2 <= H_TOT
  BY <1>1, <1>2, <1>5
<1>7. H_HALF \in Nat /\ 2 * H_HALF <= H_TOT /\ H_TOT <= 2 * H_HALF + 1
  BY <1>6, Halves DEF H_HALF
<1>8. half_sy \in Nat /\ 2 * half_sy <= t.h_sy /\ t.h_sy <= 2 * half_sy + 1
  BY <1>1, Halves DEF half_sy
<1> QED
  BY <1>1, <1>3, <1>4, <1>5, <1>6, <1>7, <1>8

LEMMA Down ==
  ASSUME Fits, t \in Timings
  PROVE  /\ V_TOT = t.v_sy + t.v_bp + t.v_act + t.v_fp /\ V_TOT \in Nat
         /\ FRAME_LINES = (IF t.interlace THEN 2 * V_TOT + 1 ELSE V_TOT)
         /\ FRAME_LINES \in Nat /\ FRAME_LINES < Modulus
         /\ t.v_sy \in Nat /\ t.v_sy >= 1 /\ t.v_bp \in Nat /\ t.v_fp \in Nat
         /\ t.v_act \in Nat /\ t.v_act >= 1 /\ t.h_act \in Nat /\ t.h_act >= 1
         /\ t.interlace \in BOOLEAN
<1>1. /\ t.v_sy \in Nat /\ t.v_bp \in Nat /\ t.v_act \in Nat /\ t.v_fp \in Nat /\ t.h_act \in Nat
      /\ t.interlace \in BOOLEAN
  BY Parts
<1>2. 2 * (t.v_sy + t.v_bp + t.v_act + t.v_fp) + 1 < Modulus
  BY DEF Fits
<1>3. t.v_sy >= 1 /\ t.v_act >= 1 /\ t.h_act >= 1
  BY TimingAssumption DEF TimingAssumption
<1>4. Modulus \in Nat
  BY Counters
<1>5. V_TOT = t.v_sy + t.v_bp + t.v_act + t.v_fp
  <2>1. t.v_sy + t.v_bp + t.v_act + t.v_fp \in 0..Modulus - 1
    BY <1>1, <1>2, <1>4
  <2> QED
    BY <2>1, WrapBelow DEF V_TOT
<1>6. V_TOT \in Nat /\ 2 * V_TOT + 1 < Modulus
  BY <1>1, <1>2, <1>5
<1>7. Wrap(2 * V_TOT + 1) = 2 * V_TOT + 1
  <2>1. 2 * V_TOT + 1 \in 0..Modulus - 1
    BY <1>4, <1>6
  <2> QED
    BY <2>1, WrapBelow
<1>8. FRAME_LINES = IF t.interlace THEN 2 * V_TOT + 1 ELSE V_TOT
  BY <1>7 DEF FRAME_LINES
<1>9. FRAME_LINES \in Nat /\ FRAME_LINES < Modulus
  BY <1>4, <1>6, <1>8
<1> QED
  BY <1>1, <1>3, <1>5, <1>6, <1>8, <1>9

InFrame == steady => hcnt < H_TOT /\ lcnt < FRAME_LINES

\* A clock of a raster that is in its frame.
LEMMA SteadyClock ==
  ASSUME Fits, TypeOK, InFrame, steady, Clock
  PROVE  /\ hcnt \in Nat /\ lcnt \in Nat /\ hcnt < H_TOT /\ lcnt < FRAME_LINES
         /\ hcnt' = IF hcnt = H_TOT - 1 THEN 0 ELSE hcnt + 1
         /\ lcnt' = IF hcnt = H_TOT - 1 THEN (IF lcnt = FRAME_LINES - 1 THEN 0 ELSE lcnt + 1)
                    ELSE lcnt
         /\ steady' /\ t' = t
         /\ sinceVs' = Since(sinceVs, Rose(vs, vs'))
         /\ sinceCs' = Since(sinceCs, Rose(cs, cs'))
<1>1. /\ hcnt \in Nat /\ lcnt \in Nat /\ hcnt < H_TOT /\ lcnt < FRAME_LINES
      /\ H_TOT \in Nat /\ H_TOT < Modulus /\ FRAME_LINES \in Nat /\ FRAME_LINES < Modulus
      /\ Modulus \in Nat
  BY Across, Down, Counters DEF TypeOK, InFrame
<1>2. Wrap(hcnt + 1) = hcnt + 1 /\ Wrap(lcnt + 1) = lcnt + 1
  <2>1. hcnt + 1 \in 0..Modulus - 1 /\ lcnt + 1 \in 0..Modulus - 1
    BY <1>1
  <2> QED
    BY <2>1, WrapBelow
<1>3. /\ hcnt' = IF hcnt = H_TOT - 1 THEN 0 ELSE hcnt + 1
      /\ lcnt' = IF hcnt = H_TOT - 1 THEN (IF lcnt = FRAME_LINES - 1 THEN 0 ELSE lcnt + 1)
                 ELSE lcnt
  BY <1>2 DEF Clock, Count
<1> QED
  BY <1>1, <1>3 DEF Clock

LEMMA InFrameInit == ASSUME Fits PROVE Init => InFrame
<1> SUFFICES ASSUME Init PROVE hcnt < H_TOT /\ lcnt < FRAME_LINES
  BY DEF InFrame
<1>1. hcnt = 0 /\ lcnt = 0 /\ t \in Timings
  BY DEF Init
<1> QED
  BY <1>1, Across, Down

LEMMA InFrameStep == ASSUME Fits, TypeOK, InFrame, [Next]_vars PROVE InFrame'
<1>1. CASE Clock
  <2>1. CASE steady
    <3>1. /\ hcnt \in Nat /\ lcnt \in Nat /\ hcnt < H_TOT /\ lcnt < FRAME_LINES
          /\ hcnt' = IF hcnt = H_TOT - 1 THEN 0 ELSE hcnt + 1
          /\ lcnt' = IF hcnt = H_TOT - 1 THEN (IF lcnt = FRAME_LINES - 1 THEN 0 ELSE lcnt + 1)
                     ELSE lcnt
          /\ t' = t
      BY <1>1, <2>1, SteadyClock
    <3>2. H_TOT \in Nat /\ FRAME_LINES \in Nat
      BY Across, Down DEF TypeOK
    <3>3. H_TOT' = H_TOT /\ FRAME_LINES' = FRAME_LINES
      BY <3>1 DEF H_TOT, FRAME_LINES, V_TOT
    <3>4. hcnt' < H_TOT /\ lcnt' < FRAME_LINES
      BY <3>1, <3>2
    <3> QED
      BY <3>3, <3>4 DEF InFrame
  <2>2. CASE ~steady
    <3>1. steady' => hcnt' = 0 /\ lcnt' = 0
      BY <1>1, <2>2 DEF Clock, AtTop
    <3>2. H_TOT' = H_TOT /\ FRAME_LINES' = FRAME_LINES
      BY <1>1 DEF Clock, H_TOT, FRAME_LINES, V_TOT
    <3>3. 0 < H_TOT /\ 0 < FRAME_LINES
      BY Across, Down DEF TypeOK
    <3> QED
      BY <3>1, <3>2, <3>3 DEF InFrame
  <2> QED
    BY <2>1, <2>2
<1>2. CASE Retime
  BY <1>2 DEF Retime, InFrame
<1>3. CASE UNCHANGED vars
  BY <1>3 DEF vars, counters, history, InFrame, H_TOT, FRAME_LINES, V_TOT
<1> QED
  BY <1>1, <1>2, <1>3 DEF Next

-----------------------------------------------------------------------------
(* Composite sync *)

\* Composite sync rose at the start of the line or in the middle of it.
CsInv ==
  sinceCs # None =>
    /\ steady
    /\ sinceCs = hcnt \/ (hcnt >= H_HALF /\ sinceCs = hcnt - H_HALF)

\* It always rises at the start of a line, whatever the line before it was and this one
\* is, and otherwise nowhere but in the middle.
LEMMA CsRises ==
  ASSUME Fits, TypeOK, InFrame, steady, Clock
  PROVE  /\ hcnt = H_TOT - 1 => Rose(cs, cs')
         /\ Rose(cs, cs') => hcnt = H_TOT - 1 \/ hcnt + 1 = H_HALF
<1>1. /\ hcnt \in Nat /\ hcnt < H_TOT
      /\ hcnt' = IF hcnt = H_TOT - 1 THEN 0 ELSE hcnt + 1
      /\ hcnt # H_TOT - 1 => lcnt' = lcnt
      /\ t' = t
  BY SteadyClock
<1>2. /\ H_TOT \in Nat /\ t.h_sy \in Nat /\ t.h_sy >= 2 /\ t.h_sy + 2 <= H_TOT
      /\ H_HALF \in Nat /\ 2 * H_HALF <= H_TOT /\ H_TOT <= 2 * H_HALF + 1
      /\ half_sy \in Nat /\ half_sy >= 1 /\ half_sy < H_HALF
  BY Across DEF TypeOK
<1>3. H_TOT' = H_TOT /\ V_TOT' = V_TOT /\ H_HALF' = H_HALF /\ half_sy' = half_sy /\ t'.h_sy = t.h_sy
  BY <1>1 DEF H_TOT, V_TOT, H_HALF, half_sy
<1> DEFINE broad == hc_half < H_HALF - half_sy
           narrow == hc_half < half_sy
           plain == hcnt < t.h_sy
<1>4. cs <=> IF vs THEN broad ELSE IF equalising THEN narrow ELSE plain
  BY DEF cs, serr_pulse
<1>5. cs' <=> IF vs' THEN broad' ELSE IF equalising' THEN narrow' ELSE plain'
  BY DEF cs, serr_pulse
<1>6. hcnt = H_TOT - 1 => ~broad /\ ~narrow /\ ~plain /\ broad' /\ narrow' /\ plain'
  BY <1>1, <1>2, <1>3 DEF hc_half
<1>7. hcnt # H_TOT - 1 /\ hcnt + 1 # H_HALF =>
        (broad' => broad) /\ (narrow' => narrow) /\ (plain' => plain)
  BY <1>1, <1>2, <1>3 DEF hc_half
<1> HIDE DEF broad, narrow, plain
<1>8. hcnt # H_TOT - 1 => (equalising' <=> equalising)
  BY <1>1, <1>3 DEF equalising, fld_line, field
<1>9. hcnt # H_TOT - 1 /\ hcnt + 1 # H_HALF => (vs' <=> vs)
  <2> SUFFICES ASSUME hcnt # H_TOT - 1, hcnt + 1 # H_HALF PROVE vs' <=> vs
    OBVIOUS
  <2>1. hcnt' >= H_HALF <=> hcnt >= H_HALF
    BY <1>1, <1>2
  <2>2. hcnt' < H_HALF <=> hcnt < H_HALF
    BY <1>1, <1>2
  <2> QED
    BY <1>1, <1>3, <2>1, <2>2 DEF vs, field
<1>10. hcnt = H_TOT - 1 => Rose(cs, cs')
  BY <1>4, <1>5, <1>6 DEF Rose
<1>11. Rose(cs, cs') => hcnt = H_TOT - 1 \/ hcnt + 1 = H_HALF
  BY <1>4, <1>5, <1>7, <1>8, <1>9 DEF Rose
<1> QED
  BY <1>10, <1>11

LEMMA CsInvStep == ASSUME Fits, TypeOK, InFrame, CsInv, [Next]_vars PROVE CsInv'
<1>1. CASE Clock
  <2>1. CASE steady
    <3>1. /\ hcnt \in Nat /\ hcnt < H_TOT
          /\ hcnt' = IF hcnt = H_TOT - 1 THEN 0 ELSE hcnt + 1
          /\ steady' /\ t' = t
          /\ sinceCs' = Since(sinceCs, Rose(cs, cs'))
      BY <1>1, <2>1, SteadyClock
    <3>2. /\ hcnt = H_TOT - 1 => Rose(cs, cs')
          /\ Rose(cs, cs') => hcnt = H_TOT - 1 \/ hcnt + 1 = H_HALF
      BY <1>1, <2>1, CsRises
    <3>3. /\ H_TOT \in Nat /\ H_HALF \in Nat /\ 2 * H_HALF <= H_TOT /\ H_TOT < Modulus
          /\ H_TOT <= 2 * H_HALF + 1 /\ H_HALF >= 1
      BY Across DEF TypeOK
    <3>4. H_HALF' = H_HALF
      BY <3>1 DEF H_HALF, H_TOT
    <3>5. Longest >= Modulus
      BY Counters DEF Longest
    <3>6. Modulus \in Nat /\ None = -1
      BY Counters DEF None
    <3>7. CASE Rose(cs, cs')
      <4>1. sinceCs' = 0
        BY <3>1, <3>7 DEF Since
      <4>2. hcnt' = 0 \/ (hcnt' = H_HALF /\ hcnt' - H_HALF = 0)
        BY <3>1, <3>2, <3>3, <3>7
      <4>3. sinceCs' = hcnt' \/ (hcnt' >= H_HALF' /\ sinceCs' = hcnt' - H_HALF')
        BY <3>3, <3>4, <4>1, <4>2
      <4> QED
        BY <3>1, <4>3 DEF CsInv
    <3>8. CASE ~Rose(cs, cs')
      <4>1. hcnt' = hcnt + 1
        BY <3>1, <3>2, <3>8
      <4>2. CASE sinceCs = None
        BY <3>1, <3>8, <4>2 DEF Since, CsInv
      <4>3. CASE sinceCs # None
        <5>1. sinceCs = hcnt \/ (hcnt >= H_HALF /\ sinceCs = hcnt - H_HALF)
          BY <4>3 DEF CsInv
        <5>2. sinceCs # Longest
          BY <3>1, <3>3, <3>5, <3>6, <5>1
        <5>3. sinceCs' = sinceCs + 1
          BY <3>1, <3>8, <4>3, <5>2 DEF Since
        <5> QED
          BY <3>1, <3>3, <3>4, <4>1, <5>1, <5>3 DEF CsInv
      <4> QED
        BY <4>2, <4>3
    <3> QED
      BY <3>7, <3>8
  <2>2. CASE ~steady
    BY <1>1, <2>2 DEF Clock, CsInv
  <2> QED
    BY <2>1, <2>2
<1>2. CASE Retime
  BY <1>2 DEF Retime, CsInv
<1>3. CASE UNCHANGED vars
  BY <1>3 DEF vars, counters, history, CsInv, H_HALF, H_TOT
<1> QED
  BY <1>1, <1>2, <1>3 DEF Next

\* For every raster whose totals fit: composite sync gives the oscillator an edge every
\* line or every half line, through the vertical interval of either field, equalising and
\* broad pulses included, and never one early (video_timing.v, cs).
THEOREM SyncNeverEarly == ASSUME Fits PROVE Spec => SyncPeriod
<1>1. Fits
  OBVIOUS
<1>2. Init => Inv /\ InFrame /\ CsInv
  <2>1. Init => CsInv
    BY DEF Init, CsInv
  <2> QED
    BY <1>1, <2>1, InvInit, InFrameInit
<1>3. Inv /\ InFrame /\ CsInv /\ [Next]_vars => (Inv /\ InFrame /\ CsInv)'
  <2>1. Inv => TypeOK
    BY DEF Inv
  <2> QED
    BY <1>1, <2>1, InvStep, InFrameStep, CsInvStep
<1>4. Inv /\ InFrame /\ CsInv /\ [Next]_vars =>
        [Rose(cs, cs') /\ sinceCs # None /\ steady' =>
           sinceCs + 1 \in {H_HALF, H_TOT - H_HALF, H_TOT}]_vars
  <2> SUFFICES ASSUME Inv, InFrame, CsInv, Next, Rose(cs, cs'), sinceCs # None, steady'
               PROVE sinceCs + 1 \in {H_HALF, H_TOT - H_HALF, H_TOT}
    OBVIOUS
  <2>1. Clock
    BY DEF Next, Retime
  <2>2. steady /\ (sinceCs = hcnt \/ (hcnt >= H_HALF /\ sinceCs = hcnt - H_HALF))
    BY DEF CsInv
  <2>3. TypeOK
    BY DEF Inv
  <2>4. hcnt = H_TOT - 1 \/ hcnt + 1 = H_HALF
    BY <1>1, <2>1, <2>2, <2>3, CsRises
  <2>5. H_TOT \in Nat /\ H_HALF \in Nat /\ hcnt \in Nat
    BY <1>1, <2>3, Across, Counters DEF TypeOK
  <2> QED
    BY <2>2, <2>4, <2>5
<1> QED
  BY <1>2, <1>3, <1>4, PTL DEF Spec, SyncPeriod

-----------------------------------------------------------------------------
(* Vertical sync *)

\* The clocks of n lines; the place in the frame, in clocks.
Lines(n) == n * H_TOT
Place == Lines(lcnt) + hcnt
\* The odd field's sync has begun.
OddSync == field /\ (lcnt > V_TOT \/ hcnt >= H_HALF)
OddPlace == Lines(V_TOT) + H_HALF

\* Vertical sync rose at the top of the frame, or in the middle of the odd field's first
\* line.
VsInv ==
  sinceVs # None =>
    /\ steady
    /\ sinceVs = Place - (IF OddSync THEN OddPlace ELSE 0)

LEMMA LinesAre ==
  ASSUME H_TOT \in Nat
  PROVE  /\ \A n \in Nat : Lines(n) \in Nat /\ Lines(n + 1) = Lines(n) + H_TOT
         /\ \A m, n \in Nat : Lines(m + n) = Lines(m) + Lines(n)
         /\ \A m, n \in Nat : m <= n => Lines(m) <= Lines(n)
         /\ Lines(0) = 0
<1>1. \A m, n \in Nat : Lines(m + n) = Lines(m) + Lines(n)
  BY DEF Lines
<1>2. \A n \in Nat : Lines(n) \in Nat /\ Lines(n + 1) = Lines(n) + H_TOT
  BY DEF Lines
<1>3. ASSUME NEW m \in Nat, NEW n \in Nat, m <= n PROVE Lines(m) <= Lines(n)
  <2>1. n - m \in Nat /\ m + (n - m) = n
    BY <1>3
  <2>2. Lines(n) = Lines(m) + Lines(n - m)
    BY <1>1, <2>1
  <2> QED
    BY <1>2, <2>1, <2>2
<1> QED
  BY <1>1, <1>2, <1>3 DEF Lines

\* The history holds a frame: it never comes to its limit.
LEMMA FrameHeld == ASSUME Fits, TypeOK, InFrame, steady PROVE Place \in Nat /\ Place < Longest
<1>1. /\ H_TOT \in Nat /\ H_TOT < Modulus /\ FRAME_LINES < Modulus /\ FRAME_LINES \in Nat
      /\ Modulus \in Nat /\ hcnt \in Nat /\ lcnt \in Nat /\ hcnt < H_TOT /\ lcnt < FRAME_LINES
  BY Across, Down, Counters DEF TypeOK, InFrame
<1>2. Place \in Nat /\ Place < Lines(lcnt + 1)
  <2>1. Lines(lcnt) \in Nat /\ Lines(lcnt + 1) = Lines(lcnt) + H_TOT
    BY <1>1, LinesAre
  <2> QED
    BY <1>1, <2>1 DEF Place
<1>3. Lines(lcnt + 1) <= Lines(Modulus)
  BY <1>1, LinesAre
<1>4. Lines(Modulus) <= Modulus * Modulus
  <2>1. Modulus - H_TOT \in Nat
    BY <1>1
  <2>2. Modulus * (Modulus - H_TOT) \in Nat
    BY <1>1, <2>1
  <2>3. Modulus * Modulus = Modulus * H_TOT + Modulus * (Modulus - H_TOT)
    BY <1>1
  <2> QED
    BY <1>1, <2>2, <2>3 DEF Lines
<1>5. Lines(lcnt + 1) \in Nat /\ Lines(Modulus) \in Nat /\ Longest \in Nat
  <2>1. Lines(lcnt + 1) \in Nat
    <3>1. lcnt + 1 \in Nat
      BY <1>1
    <3> QED
      BY <1>1, <3>1, LinesAre
  <2>2. Lines(Modulus) \in Nat
    BY <1>1, LinesAre
  <2>3. Longest \in Nat
    BY <1>1 DEF Longest
  <2> QED
    BY <2>1, <2>2, <2>3
<1> QED
  BY <1>2, <1>3, <1>4, <1>5 DEF Longest

\* When it rises, and nowhere else.
LEMMA VsRises ==
  ASSUME Fits, TypeOK, InFrame, steady, Clock
  PROVE  /\ Rose(vs, vs') <=> \/ hcnt = H_TOT - 1 /\ lcnt = FRAME_LINES - 1
                              \/ t.interlace /\ lcnt = V_TOT /\ hcnt + 1 = H_HALF
         /\ OddSync' <=> \/ OddSync /\ ~(hcnt = H_TOT - 1 /\ lcnt = FRAME_LINES - 1)
                         \/ t.interlace /\ lcnt = V_TOT /\ hcnt + 1 = H_HALF
<1>1. /\ hcnt \in Nat /\ lcnt \in Nat /\ hcnt < H_TOT /\ lcnt < FRAME_LINES
      /\ hcnt' = IF hcnt = H_TOT - 1 THEN 0 ELSE hcnt + 1
      /\ lcnt' = IF hcnt = H_TOT - 1 THEN (IF lcnt = FRAME_LINES - 1 THEN 0 ELSE lcnt + 1)
                 ELSE lcnt
      /\ t' = t
  BY SteadyClock
<1>2. /\ H_TOT \in Nat /\ H_HALF \in Nat /\ 2 * H_HALF <= H_TOT /\ H_TOT <= 2 * H_HALF + 1
      /\ H_HALF >= 1 /\ H_HALF < H_TOT
  BY Across DEF TypeOK
<1>3. /\ V_TOT \in Nat /\ FRAME_LINES = (IF t.interlace THEN 2 * V_TOT + 1 ELSE V_TOT)
      /\ t.v_sy \in Nat /\ t.v_sy >= 1 /\ t.v_sy < V_TOT
      /\ t.interlace \in BOOLEAN
  BY Down DEF TypeOK
<1>4. V_TOT' = V_TOT /\ H_HALF' = H_HALF /\ t'.v_sy = t.v_sy /\ t'.interlace = t.interlace
  BY <1>1 DEF H_TOT, V_TOT, H_HALF
<1>5. CASE t.interlace
  <2>1. /\ field <=> lcnt >= V_TOT
        /\ field' <=> lcnt' >= V_TOT
        /\ FRAME_LINES = 2 * V_TOT + 1
    BY <1>3, <1>4, <1>5 DEF field
  <2>2. vs <=> IF lcnt >= V_TOT
               THEN \/ lcnt = V_TOT /\ hcnt >= H_HALF
                    \/ lcnt > V_TOT /\ lcnt < V_TOT + t.v_sy
                    \/ lcnt = V_TOT + t.v_sy /\ hcnt < H_HALF
               ELSE lcnt < t.v_sy
    BY <2>1 DEF vs
  <2>3. vs' <=> IF lcnt' >= V_TOT
                THEN \/ lcnt' = V_TOT /\ hcnt' >= H_HALF
                     \/ lcnt' > V_TOT /\ lcnt' < V_TOT + t.v_sy
                     \/ lcnt' = V_TOT + t.v_sy /\ hcnt' < H_HALF
                ELSE lcnt' < t.v_sy
    BY <1>4, <2>1 DEF vs
  <2>4. OddSync <=> lcnt >= V_TOT /\ (lcnt > V_TOT \/ hcnt >= H_HALF)
    BY <2>1 DEF OddSync
  <2>5. OddSync' <=> lcnt' >= V_TOT /\ (lcnt' > V_TOT \/ hcnt' >= H_HALF)
    BY <1>4, <2>1 DEF OddSync
  <2>6. CASE hcnt = H_TOT - 1
    BY <1>1, <1>2, <1>3, <1>5, <2>1, <2>2, <2>3, <2>4, <2>5, <2>6 DEF Rose
  <2>7. CASE hcnt # H_TOT - 1
    BY <1>1, <1>2, <1>3, <1>5, <2>1, <2>2, <2>3, <2>4, <2>5, <2>7 DEF Rose
  <2> QED
    BY <2>6, <2>7
<1>6. CASE ~t.interlace
  <2>1. ~field /\ ~field' /\ FRAME_LINES = V_TOT
    BY <1>3, <1>4, <1>6 DEF field
  <2>2. (vs <=> lcnt < t.v_sy) /\ (vs' <=> lcnt' < t.v_sy)
    BY <1>4, <2>1 DEF vs
  <2>3. ~OddSync /\ ~OddSync'
    BY <2>1 DEF OddSync
  <2> QED
    BY <1>1, <1>2, <1>3, <1>6, <2>1, <2>2, <2>3 DEF Rose
<1> QED
  BY <1>3, <1>5, <1>6

LEMMA VsInvStep == ASSUME Fits, TypeOK, InFrame, VsInv, [Next]_vars PROVE VsInv'
<1>1. CASE Clock
  <2>1. CASE steady
    <3>1. /\ hcnt \in Nat /\ lcnt \in Nat /\ hcnt < H_TOT /\ lcnt < FRAME_LINES
          /\ hcnt' = IF hcnt = H_TOT - 1 THEN 0 ELSE hcnt + 1
          /\ lcnt' = IF hcnt = H_TOT - 1 THEN (IF lcnt = FRAME_LINES - 1 THEN 0 ELSE lcnt + 1)
                     ELSE lcnt
          /\ steady' /\ t' = t
          /\ sinceVs' = Since(sinceVs, Rose(vs, vs'))
      BY <1>1, <2>1, SteadyClock
    <3>2. /\ Rose(vs, vs') <=> \/ hcnt = H_TOT - 1 /\ lcnt = FRAME_LINES - 1
                               \/ t.interlace /\ lcnt = V_TOT /\ hcnt + 1 = H_HALF
          /\ OddSync' <=> \/ OddSync /\ ~(hcnt = H_TOT - 1 /\ lcnt = FRAME_LINES - 1)
                          \/ t.interlace /\ lcnt = V_TOT /\ hcnt + 1 = H_HALF
      BY <1>1, <2>1, VsRises
    <3>3. H_TOT \in Nat /\ H_HALF \in Nat /\ H_HALF < H_TOT /\ V_TOT \in Nat /\ None = -1
      BY Across, Down DEF TypeOK, None
    <3>4. /\ H_HALF' = H_HALF /\ OddPlace' = OddPlace
          /\ Place' = Lines(lcnt') + hcnt'
      BY <3>1 DEF H_HALF, H_TOT, V_TOT, OddPlace, Place, Lines
    <3>5. Place \in Nat /\ Place < Longest /\ Place = Lines(lcnt) + hcnt
      BY <2>1, FrameHeld DEF Place
    <3>6. Lines(lcnt + 1) = Lines(lcnt) + H_TOT /\ Lines(0) = 0 /\ Lines(lcnt) \in Nat
          /\ Lines(V_TOT) \in Nat
      BY <3>1, <3>3, LinesAre
    <3>7. CASE hcnt = H_TOT - 1 /\ lcnt = FRAME_LINES - 1
      <4>1. sinceVs' = 0
        BY <3>1, <3>2, <3>7 DEF Since
      <4>2. Place' = 0 /\ ~OddSync'
        BY <3>1, <3>2, <3>3, <3>4, <3>6, <3>7
      <4> QED
        BY <3>1, <4>1, <4>2 DEF VsInv
    <3>8. CASE t.interlace /\ lcnt = V_TOT /\ hcnt + 1 = H_HALF
      <4>1. sinceVs' = 0 /\ OddSync'
        BY <3>1, <3>2, <3>8 DEF Since
      <4>2. Place' = Lines(V_TOT) + H_HALF
        BY <3>1, <3>3, <3>4, <3>8
      <4>3. Place' = OddPlace' /\ Place' \in Nat
        BY <3>3, <3>4, <3>6, <4>2 DEF OddPlace
      <4>4. PICK p \in Nat : p = Place' /\ p = OddPlace'
        BY <4>3
      <4>5. p - p = 0 /\ sinceVs' = 0
        BY <4>1
      <4>6. sinceVs' = Place' - OddPlace'
        BY <4>4, <4>5, Zenon
      <4> QED
        BY <3>1, <4>1, <4>6 DEF VsInv
    <3>9. CASE ~Rose(vs, vs')
      <4>1. (OddSync' <=> OddSync) /\ ~(hcnt = H_TOT - 1 /\ lcnt = FRAME_LINES - 1)
        BY <3>2, <3>9
      <4>2. Place' = Place + 1
        BY <3>1, <3>3, <3>4, <3>5, <3>6, <4>1
      <4>3. CASE sinceVs = None
        BY <3>1, <3>9, <4>3 DEF Since, VsInv
      <4>4. CASE sinceVs # None
        <5>1. sinceVs = Place - (IF OddSync THEN OddPlace ELSE 0)
          BY <4>4 DEF VsInv
        <5>2. OddPlace \in Nat
          BY <3>3, <3>6 DEF OddPlace
        <5>3. Longest \in Nat
          BY Counters DEF Longest
        <5>4. sinceVs # Longest
          BY <3>5, <5>1, <5>2, <5>3
        <5>5. sinceVs' = sinceVs + 1
          BY <3>1, <3>9, <4>4, <5>4 DEF Since
        <5> QED
          BY <3>1, <3>4, <3>5, <4>1, <4>2, <5>1, <5>2, <5>5 DEF VsInv
      <4> QED
        BY <4>3, <4>4
    <3> QED
      BY <3>2, <3>7, <3>8, <3>9
  <2>2. CASE ~steady
    BY <1>1, <2>2 DEF Clock, VsInv
  <2> QED
    BY <2>1, <2>2
<1>2. CASE Retime
  BY <1>2 DEF Retime, VsInv
<1>3. CASE UNCHANGED vars
  BY <1>3 DEF vars, counters, history, VsInv, Place, Lines, OddSync, OddPlace, field,
     H_HALF, H_TOT, V_TOT
<1> QED
  BY <1>1, <1>2, <1>3 DEF Next

LEMMA VsInvInit == Init => VsInv
  BY DEF Init, VsInv

\* For every raster whose totals fit: the two vertical syncs of an interlaced frame are
\* half a frame apart, to the clock, and the lines of the odd field half a line below
\* those of the even one (video_timing.v, vs_odd and V_ACT_S1).
THEOREM FieldsInterleaved == ASSUME Fits PROVE Spec => FieldsInterleave
<1>1. Fits
  OBVIOUS
<1>2. Init => Inv /\ InFrame /\ VsInv
  BY <1>1, InvInit, InFrameInit, VsInvInit
<1>3. Inv /\ InFrame /\ VsInv /\ [Next]_vars => (Inv /\ InFrame /\ VsInv)'
  <2>1. Inv => TypeOK
    BY DEF Inv
  <2> QED
    BY <1>1, <2>1, InvStep, InFrameStep, VsInvStep
<1>4. Inv /\ InFrame /\ VsInv /\ [Next]_vars =>
        [sinceVs # None =>
           /\ Rose(vs, vs') /\ steady' => VsApart
           /\ hcnt = 0 /\ lcnt = v_start => FirstLineLate]_vars
  <2> SUFFICES ASSUME Inv, InFrame, VsInv, Next, sinceVs # None
               PROVE  /\ Rose(vs, vs') /\ steady' => VsApart
                      /\ hcnt = 0 /\ lcnt = v_start => FirstLineLate
    OBVIOUS
  <2>1. TypeOK /\ steady /\ sinceVs = Place - (IF OddSync THEN OddPlace ELSE 0)
    BY DEF Inv, VsInv
  <2>2. /\ H_TOT \in Nat /\ H_HALF \in Nat /\ 2 * H_HALF <= H_TOT /\ H_TOT <= 2 * H_HALF + 1
        /\ H_HALF >= 1
    BY <1>1, <2>1, Across DEF TypeOK
  <2>3. /\ V_TOT \in Nat /\ FRAME_LINES = (IF t.interlace THEN 2 * V_TOT + 1 ELSE V_TOT)
        /\ t.v_sy \in Nat /\ t.v_sy >= 1 /\ t.v_bp \in Nat /\ t.interlace \in BOOLEAN
        /\ FRAME_LINES \in Nat
    BY <1>1, <2>1, Down DEF TypeOK
  <2>4. hcnt \in Nat /\ lcnt \in Nat /\ hcnt < H_TOT /\ lcnt < FRAME_LINES
    BY <2>1, Counters DEF TypeOK, InFrame
  <2>5. Lines(lcnt) \in Nat /\ Lines(V_TOT) \in Nat /\ Lines(lcnt + 1) = Lines(lcnt) + H_TOT
    BY <2>2, <2>3, <2>4, LinesAre
  <2>6. Place = Lines(lcnt) + hcnt /\ OddPlace = Lines(V_TOT) + H_HALF
    BY DEF Place, OddPlace
  <2>7. ASSUME Rose(vs, vs'), steady' PROVE VsApart
    <3>1. Clock
      BY <2>7 DEF Next, Retime
    <3>2. \/ hcnt = H_TOT - 1 /\ lcnt = FRAME_LINES - 1
          \/ t.interlace /\ lcnt = V_TOT /\ hcnt + 1 = H_HALF
      BY <1>1, <2>1, <2>7, <3>1, VsRises
    <3>3. FRAME_LINES * H_TOT = Lines(FRAME_LINES)
      BY DEF Lines
    <3>4. t.interlace => Lines(FRAME_LINES) = Lines(V_TOT) + Lines(V_TOT) + H_TOT
      <4> SUFFICES ASSUME t.interlace PROVE Lines(V_TOT + V_TOT + 1) = Lines(V_TOT) + Lines(V_TOT) + H_TOT
        BY <2>3
      <4>1. V_TOT + V_TOT \in Nat
        BY <2>3
      <4> QED
        BY <2>2, <2>3, <4>1, LinesAre
    <3>5. CASE hcnt = H_TOT - 1 /\ lcnt = FRAME_LINES - 1
      <4>1. Place + 1 = Lines(FRAME_LINES)
        <5>1. lcnt + 1 = FRAME_LINES /\ hcnt + 1 = H_TOT
          BY <2>2, <2>3, <3>5
        <5>2. Lines(FRAME_LINES) = Lines(lcnt) + H_TOT
          BY <2>5, <5>1
        <5> QED
          BY <2>2, <2>4, <2>5, <2>6, <5>1, <5>2
      <4>2. OddSync <=> t.interlace
        BY <2>2, <2>3, <3>5 DEF OddSync, field
      <4>3. CASE t.interlace
        <5>1. (sinceVs + 1) * 2 - FRAME_LINES * H_TOT = H_TOT - 2 * H_HALF
          BY <2>1, <2>2, <2>5, <2>6, <3>3, <3>4, <4>1, <4>2, <4>3
        <5> QED
          BY <2>2, <4>3, <5>1 DEF VsApart
      <4>4. CASE ~t.interlace
        <5>1. (sinceVs + 1) * 1 - FRAME_LINES * H_TOT = 0
          BY <2>1, <2>4, <2>5, <2>6, <3>3, <4>1, <4>2, <4>4
        <5> QED
          BY <4>4, <5>1 DEF VsApart
      <4> QED
        BY <4>3, <4>4
    <3>6. CASE t.interlace /\ lcnt = V_TOT /\ hcnt + 1 = H_HALF
      <4>1. ~OddSync
        BY <2>2, <2>3, <2>4, <3>6 DEF OddSync
      <4>2. (sinceVs + 1) * 2 - FRAME_LINES * H_TOT = 2 * H_HALF - H_TOT
        BY <2>1, <2>2, <2>4, <2>5, <2>6, <3>3, <3>4, <3>6, <4>1
      <4> QED
        BY <2>2, <3>6, <4>2 DEF VsApart
    <3> QED
      BY <3>2, <3>5, <3>6
  <2>8. ASSUME hcnt = 0, lcnt = v_start PROVE FirstLineLate
    <3>1. Lines(t.v_sy + t.v_bp) = (t.v_sy + t.v_bp) * H_TOT /\ Lines(t.v_sy + t.v_bp) \in Nat
      BY <2>2, <2>3, LinesAre DEF Lines
    <3>2. CASE field
      <4>1. lcnt = V_TOT + 1 + (t.v_sy + t.v_bp) /\ OddSync
        BY <2>3, <2>8, <3>2 DEF v_start, OddSync
      <4>2. Lines(lcnt) = Lines(V_TOT) + H_TOT + Lines(t.v_sy + t.v_bp)
        <5>1. V_TOT + 1 \in Nat /\ t.v_sy + t.v_bp \in Nat
          BY <2>3
        <5> QED
          BY <2>2, <2>3, <4>1, <5>1, LinesAre
      <4>3. 2 * (sinceVs - Lines(t.v_sy + t.v_bp)) - H_TOT = H_TOT - 2 * H_HALF
        BY <2>1, <2>2, <2>5, <2>6, <2>8, <3>1, <4>1, <4>2
      <4>4. FirstLineLate <=> 2 * (sinceVs - Lines(t.v_sy + t.v_bp)) - H_TOT \in {-1, 0, 1}
        BY <3>1, <3>2 DEF FirstLineLate
      <4> QED
        BY <2>2, <4>3, <4>4
    <3>3. CASE ~field
      <4>1. lcnt = t.v_sy + t.v_bp /\ ~OddSync
        BY <2>3, <2>8, <3>3 DEF v_start, OddSync
      <4>2. 2 * (sinceVs - Lines(t.v_sy + t.v_bp)) - 0 = 0
        BY <2>1, <2>5, <2>6, <2>8, <4>1
      <4>3. FirstLineLate <=> 2 * (sinceVs - Lines(t.v_sy + t.v_bp)) - 0 \in {-1, 0, 1}
        BY <3>1, <3>3 DEF FirstLineLate
      <4> QED
        BY <4>2, <4>3
    <3> QED
      BY <3>2, <3>3
  <2> QED
    BY <2>7, <2>8
<1> QED
  BY <1>2, <1>3, <1>4, PTL DEF Spec, FieldsInterleave

-----------------------------------------------------------------------------
(* The picture *)

\* A frame does not end on a pixel: the output register holds the last one a clock later.
Porched == \A tt \in Timings : tt.h_fp + tt.v_fp >= 1

Pixels(n) == n * t.h_act
\* The displayed rows above line l, of a window that starts at line s.
Above(s, l) == IF l <= s THEN 0 ELSE IF l - s >= t.v_act THEN t.v_act ELSE l - s
First == t.v_sy + t.v_bp
RowsAt(l) == Above(First, l) + (IF t.interlace THEN Above(V_TOT + 1 + First, l) ELSE 0)
ColsBefore ==
  IF ~v_active \/ hcnt <= h_start THEN 0
  ELSE IF hcnt - h_start >= t.h_act THEN t.h_act ELSE hcnt - h_start
Bit(p) == IF p THEN 1 ELSE 0

\* What has been shown, with the pixel in the output register, is what lies before the
\* place of the beam.
ShownSoFar == IF AtTop THEN ~out.de /\ shown \in {0, Pixels(Rows)}
              ELSE shown + Bit(out.de) = Pixels(RowsAt(lcnt)) + ColsBefore
OnDisplay ==
  out.de => \E k \in 0..Rows - 1 :
              shown = Pixels(k) + out.x /\ out.x \in 0..t.h_act - 1 /\ out.y = Row(k)
PixelInv ==
  /\ ~steady => shown = 0
  /\ steady => shown \in Nat /\ ShownSoFar /\ OnDisplay

LEMMA PixelsAre ==
  ASSUME t.h_act \in Nat
  PROVE  /\ \A n \in Nat : Pixels(n) \in Nat /\ Pixels(n + 1) = Pixels(n) + t.h_act
         /\ Pixels(0) = 0
  BY DEF Pixels

LEMMA TakeApart ==
  ASSUME NEW h \in Nat \ {0}, NEW k \in Nat, NEW c \in 0..h - 1
  PROVE  (k * h + c) % h = c /\ (k * h + c) \div h = k
<1> DEFINE e == k * h + c
           q == e \div h
<1>0. e \in Nat
  OBVIOUS
<1> HIDE DEF e
<1>1. q \in Int /\ e = h * q + (e % h) /\ e % h \in 0..h - 1
  BY <1>0
<1> HIDE DEF q
<1> DEFINE hq == h * q
           hk == h * k
           over == h * (q - k)
<1>2. e = hk + c /\ e = hq + (e % h) /\ e % h \in Int
  BY <1>1 DEF e
<1>3. over \in Int /\ hq \in Int /\ hk \in Int /\ over = hq - hk
  BY <1>1
<1>7. e % h = c - over
  <2> HIDE DEF hq, hk, over
  <2> QED
    BY <1>2, <1>3
<1>4. CASE q - k >= 1
  <2>1. over >= h
    BY <1>1, <1>4
  <2> HIDE DEF over
  <2> QED
    BY <1>1, <1>3, <1>7, <2>1
<1>5. CASE q - k <= -1
  <2>1. over <= -h
    BY <1>1, <1>5
  <2> HIDE DEF over
  <2> QED
    BY <1>1, <1>3, <1>7, <2>1
<1>6. CASE q = k
  <2>1. e % h = c
    BY <1>1, <1>2, <1>6
  <2> QED
    BY <1>6, <2>1 DEF e, q
<1> QED
  BY <1>1, <1>4, <1>5, <1>6

LEMMA AboveNext ==
  ASSUME NEW s \in Nat, NEW l \in Nat, t.v_act \in Nat, t.v_act >= 1
  PROVE  /\ Above(s, l) \in Nat
         /\ Above(s, l + 1) = Above(s, l) + Bit(l >= s /\ l < s + t.v_act)
  BY DEF Above, Bit

\* The rows above a line, one line further down, at the two ends of the frame, and the
\* row of a line in the picture.
LEMMA RowsCount ==
  ASSUME Fits, t \in Timings, NEW l \in Nat, l = lcnt
  PROVE  /\ RowsAt(l) \in Nat /\ RowsAt(0) = 0
         /\ l < FRAME_LINES => RowsAt(l + 1) = RowsAt(l) + Bit(v_active)
         /\ RowsAt(FRAME_LINES) = Rows
         /\ v_active => /\ RowsAt(l) \in 0..Rows - 1 /\ ypos = Row(RowsAt(l))
                        /\ l < FRAME_LINES - t.v_fp
         /\ l = 0 => ~v_active
<1>1. /\ V_TOT = t.v_sy + t.v_bp + t.v_act + t.v_fp /\ V_TOT \in Nat
      /\ FRAME_LINES = (IF t.interlace THEN 2 * V_TOT + 1 ELSE V_TOT)
      /\ t.v_sy \in Nat /\ t.v_sy >= 1 /\ t.v_bp \in Nat /\ t.v_fp \in Nat
      /\ t.v_act \in Nat /\ t.v_act >= 1
      /\ t.interlace \in BOOLEAN
  BY Down
<1>2. First = t.v_sy + t.v_bp /\ First \in Nat /\ First >= 1
  BY <1>1 DEF First
<1>3. v_active <=> \/ ~field /\ l >= First /\ l < First + t.v_act
                   \/ field /\ l >= V_TOT + 1 + First /\ l < V_TOT + 1 + First + t.v_act
  BY <1>1, <1>2 DEF v_active, v_start
<1>4. field <=> t.interlace /\ l >= V_TOT
  BY DEF field
<1>5. ypos = IF t.interlace
             THEN (IF field THEN 2 * (l - (V_TOT + 1 + First)) + 1 ELSE 2 * (l - First))
             ELSE l - First
  BY <1>1, <1>2, <1>4 DEF ypos, v_start
<1>6. /\ Rows = IF t.interlace THEN 2 * t.v_act ELSE t.v_act
      /\ \A n : Row(n) = IF ~t.interlace THEN n
                         ELSE IF n < t.v_act THEN 2 * n ELSE 2 * (n - t.v_act) + 1
  BY DEF Rows, Row
<1>7. CASE t.interlace
  <2>1. \A n : RowsAt(n) = Above(First, n) + Above(V_TOT + 1 + First, n)
    BY <1>7 DEF RowsAt
  <2>2. RowsAt(l) \in Nat /\ RowsAt(0) = 0
    BY <1>1, <1>2, <2>1 DEF Above
  <2>3. RowsAt(l + 1) = RowsAt(l) + Bit(v_active)
    <3>1. /\ Above(First, l + 1) = Above(First, l) + Bit(l >= First /\ l < First + t.v_act)
          /\ Above(V_TOT + 1 + First, l + 1) = Above(V_TOT + 1 + First, l)
               + Bit(l >= V_TOT + 1 + First /\ l < V_TOT + 1 + First + t.v_act)
          /\ Above(First, l) \in Nat /\ Above(V_TOT + 1 + First, l) \in Nat
      <4>1. PICK s \in Nat : s = V_TOT + 1 + First
        BY <1>1, <1>2
      <4>2. /\ Above(First, l) \in Nat
            /\ Above(First, l + 1) = Above(First, l) + Bit(l >= First /\ l < First + t.v_act)
        BY <1>1, <1>2, AboveNext
      <4>3. /\ Above(s, l) \in Nat
            /\ Above(s, l + 1) = Above(s, l) + Bit(l >= s /\ l < s + t.v_act)
        BY <1>1, AboveNext
      <4> QED
        BY <4>1, <4>2, <4>3
    <3>2. /\ v_active <=> \/ l >= First /\ l < First + t.v_act
                          \/ l >= V_TOT + 1 + First /\ l < V_TOT + 1 + First + t.v_act
          /\ ~(l < First + t.v_act /\ l >= V_TOT + 1 + First)
      BY <1>1, <1>2, <1>3, <1>4, <1>7
    <3> QED
      BY <2>1, <3>1, <3>2 DEF Bit
  <2>4. RowsAt(FRAME_LINES) = Rows
    BY <1>1, <1>2, <1>6, <1>7, <2>1 DEF Above
  <2>5. v_active => RowsAt(l) = IF field THEN t.v_act + (l - (V_TOT + 1 + First)) ELSE l - First
    BY <1>1, <1>2, <1>3, <1>4, <1>7, <2>1 DEF Above
  <2>6. v_active => RowsAt(l) \in 0..Rows - 1 /\ l < FRAME_LINES - t.v_fp
    BY <1>1, <1>2, <1>3, <1>4, <1>6, <1>7, <2>5
  <2>7. v_active => ypos = Row(RowsAt(l))
    BY <1>1, <1>2, <1>3, <1>4, <1>5, <1>6, <1>7, <2>5
  <2>8. l = 0 => ~v_active
    BY <1>1, <1>2, <1>3, <1>4
  <2> QED
    BY <2>2, <2>3, <2>4, <2>6, <2>7, <2>8
<1>8. CASE ~t.interlace
  <2>1. ~field /\ \A n : RowsAt(n) = Above(First, n) + 0
    BY <1>4, <1>8 DEF RowsAt
  <2>2. RowsAt(l) \in Nat /\ RowsAt(0) = 0
    BY <1>1, <1>2, <2>1 DEF Above
  <2>3. l < FRAME_LINES => RowsAt(l + 1) = RowsAt(l) + Bit(v_active)
    BY <1>1, <1>2, <1>3, <1>8, <2>1 DEF Above, Bit
  <2>4. RowsAt(FRAME_LINES) = Rows
    BY <1>1, <1>2, <1>6, <1>8, <2>1 DEF Above
  <2>5. v_active => RowsAt(l) = l - First
    BY <1>1, <1>2, <1>3, <1>8, <2>1 DEF Above
  <2>6. v_active => RowsAt(l) \in 0..Rows - 1 /\ l < FRAME_LINES - t.v_fp
    BY <1>1, <1>2, <1>3, <1>6, <1>8, <2>1, <2>5
  <2>7. v_active => ypos = Row(RowsAt(l))
    BY <1>5, <1>6, <1>8, <2>5
  <2>8. l = 0 => ~v_active
    BY <1>1, <1>2, <1>3, <2>1
  <2> QED
    BY <2>2, <2>3, <2>4, <2>6, <2>7, <2>8
<1> QED
  BY <1>1, <1>7, <1>8

\* The pixels of a line, likewise.
LEMMA ColsCount ==
  ASSUME Fits, TypeOK
  PROVE  /\ ColsBefore \in Nat
         /\ hcnt = H_TOT - 1 => ColsBefore + Bit(h_active /\ v_active) = IF v_active THEN t.h_act ELSE 0
         /\ h_active /\ v_active =>
              /\ ColsBefore = hcnt - h_start /\ hcnt - h_start \in 0..t.h_act - 1
              /\ hcnt < H_TOT - t.h_fp
<1>1. /\ t.h_sy \in Nat /\ t.h_bp \in Nat /\ t.h_act \in Nat /\ t.h_fp \in Nat /\ hcnt \in Nat
  BY Parts, Counters DEF TypeOK
<1>2. H_TOT = t.h_sy + t.h_bp + t.h_act + t.h_fp
  BY Across DEF TypeOK
<1>3. h_start = t.h_sy + t.h_bp /\ h_start \in Nat
  BY <1>1 DEF h_start
<1>4. h_active <=> hcnt >= h_start /\ hcnt < h_start + t.h_act
  BY DEF h_active
<1>5. t.h_act >= 1
  BY Down DEF TypeOK
<1>6. CASE v_active
  BY <1>1, <1>2, <1>3, <1>4, <1>5, <1>6 DEF ColsBefore, Bit
<1>7. CASE ~v_active
  BY <1>1, <1>7 DEF ColsBefore, Bit
<1> QED
  BY <1>6, <1>7

\* The step into the top of a frame leaves no pixel in the output register.
LEMMA TopIsClear ==
  ASSUME Fits, Porched, TypeOK, Clock, AtTop'
  PROVE  ~(h_active /\ v_active)
<1>1. /\ hcnt \in 0..Modulus - 1 /\ lcnt \in 0..Modulus - 1 /\ Modulus \in Nat \ {0}
      /\ H_TOT \in Nat /\ FRAME_LINES \in Nat /\ FRAME_LINES < Modulus
  BY Across, Down, Counters DEF TypeOK
<1>2. t.h_fp \in Nat /\ t.v_fp \in Nat /\ t.h_fp + t.v_fp >= 1
  BY Parts DEF TypeOK, Porched
<1>3. PICK l \in Nat : l = lcnt
  BY <1>1
<1>4. v_active => l < FRAME_LINES - t.v_fp
  BY <1>3, RowsCount DEF TypeOK
<1>5. l = 0 => ~v_active
  BY <1>3, RowsCount DEF TypeOK
<1>6. h_active /\ v_active => hcnt < H_TOT - t.h_fp
  BY ColsCount
<1>7. CASE hcnt = H_TOT - 1
  <2>1. l >= FRAME_LINES - 1
    <3>1. CASE l = FRAME_LINES - 1
      BY <1>1, <3>1
    <3>2. CASE l # FRAME_LINES - 1
      <4>1. Wrap(lcnt + 1) = 0
        BY <1>3, <1>7, <3>2 DEF Clock, Count, AtTop
      <4>2. CASE l + 1 < Modulus
        <5>1. Wrap(l + 1) = l + 1
          BY <1>1, <4>2, WrapBelow
        <5> QED
          BY <1>3, <4>1, <5>1
      <4> QED
        BY <1>1, <1>3, <4>2
    <3> QED
      BY <3>1, <3>2
  <2> QED
    BY <1>1, <1>2, <1>3, <1>4, <1>6, <1>7, <2>1
<1>8. CASE hcnt # H_TOT - 1
  BY <1>3, <1>5, <1>8 DEF Clock, Count, AtTop
<1> QED
  BY <1>7, <1>8

\* A clock in the frame: what has been shown by then is what lies before this place.
LEMMA ShownThen ==
  ASSUME Fits, TypeOK, InFrame, steady, PixelInv, Clock, NEW l \in Nat, l = lcnt
  PROVE  shown' = Pixels(RowsAt(l)) + ColsBefore
<1>1. RowsAt(0) = 0 /\ (l = 0 => ~v_active)
  BY RowsCount DEF TypeOK
<1>2. Pixels(0) = 0
  BY Down, PixelsAre DEF TypeOK
<1>3. CASE AtTop
  <2>1. shown' = 0 /\ l = 0
    BY <1>3 DEF Clock, AtTop
  <2>2. ColsBefore = 0
    BY <1>1, <2>1 DEF ColsBefore
  <2> QED
    BY <1>1, <1>2, <2>1, <2>2
<1>4. CASE ~AtTop
  <2>1. shown + Bit(out.de) = Pixels(RowsAt(l)) + ColsBefore /\ shown \in Nat
    BY <1>4 DEF PixelInv, ShownSoFar
  <2>2. shown' = shown + Bit(out.de)
    BY <1>4, <2>1 DEF Clock, Bit
  <2> QED
    BY <2>1, <2>2
<1> QED
  BY <1>3, <1>4

LEMMA PixelInvStep ==
  ASSUME Fits, Porched, TypeOK, InFrame, PixelInv, [Next]_vars
  PROVE  PixelInv'
<1>1. CASE Clock
  <2> DEFINE A == h_active /\ v_active
  <2>1. /\ out'.de <=> A
        /\ A => out'.x = hcnt - h_start /\ out'.y = ypos
    BY <1>1 DEF Clock, Off
  <2>2. t' = t
    BY <1>1 DEF Clock
  <2>3. \A n \in Nat : Pixels(n)' = Pixels(n) /\ RowsAt(n)' = RowsAt(n) /\ Row(n)' = Row(n)
    BY <2>2 DEF Pixels, RowsAt, Above, First, V_TOT, Row
  <2>4. H_TOT' = H_TOT /\ FRAME_LINES' = FRAME_LINES /\ Rows' = Rows /\ h_start' = h_start
    BY <2>2 DEF H_TOT, V_TOT, FRAME_LINES, Rows, h_start
  <2>5. AtTop' => ~A
    BY <1>1, TopIsClear
  <2>6. PICK l \in Nat : l = lcnt
    BY Counters DEF TypeOK
  <2>7. /\ RowsAt(l) \in Nat
        /\ l < FRAME_LINES => RowsAt(l + 1) = RowsAt(l) + Bit(v_active)
        /\ RowsAt(FRAME_LINES) = Rows
    BY <2>6, RowsCount DEF TypeOK
  <2>8. v_active => RowsAt(l) \in 0..Rows - 1 /\ ypos = Row(RowsAt(l))
    BY <2>6, RowsCount DEF TypeOK
  <2>9. /\ ColsBefore \in Nat
        /\ hcnt = H_TOT - 1 => ColsBefore + Bit(A) = IF v_active THEN t.h_act ELSE 0
        /\ A => ColsBefore = hcnt - h_start /\ hcnt - h_start \in 0..t.h_act - 1
    BY ColsCount
  <2>10. /\ \A n \in Nat : Pixels(n) \in Nat /\ Pixels(n + 1) = Pixels(n) + t.h_act
         /\ t.h_act \in Nat
    BY Down, PixelsAre DEF TypeOK
  <2>11. Bit(A) \in {0, 1} /\ (~A => Bit(A) = 0)
    BY DEF Bit
  <2>12. Bit(out.de)' = Bit(A)
    BY <2>1 DEF Bit
  <2> HIDE DEF A
  <2>13. CASE steady
    <3>1. /\ hcnt \in Nat /\ hcnt < H_TOT /\ lcnt < FRAME_LINES
          /\ hcnt' = IF hcnt = H_TOT - 1 THEN 0 ELSE hcnt + 1
          /\ lcnt' = IF hcnt = H_TOT - 1 THEN (IF lcnt = FRAME_LINES - 1 THEN 0 ELSE lcnt + 1)
                     ELSE lcnt
          /\ steady'
      BY <1>1, <2>13, SteadyClock
    <3>2. H_TOT \in Nat /\ FRAME_LINES \in Nat
      BY Across, Down DEF TypeOK
    <3>3. shown' = Pixels(RowsAt(l)) + ColsBefore
      BY <1>1, <2>6, <2>13, ShownThen
    <3>4. Pixels(RowsAt(l)) \in Nat
      BY <2>7, <2>10
    <3>5. shown' \in Nat
      BY <2>9, <3>3, <3>4
    <3>6. OnDisplay'
      <4> SUFFICES ASSUME A
                   PROVE \E k \in 0..Rows - 1 :
                           shown' = Pixels(k) + out'.x /\ out'.x \in 0..t.h_act - 1 /\ out'.y = Row(k)
        <5>1. ASSUME NEW k \in 0..Rows - 1 PROVE k \in Nat
          OBVIOUS
        <5> QED
          BY <2>1, <2>2, <2>3, <2>4, <5>1 DEF OnDisplay
      <4>1. v_active
        BY DEF A
      <4>2. RowsAt(l) \in 0..Rows - 1
        BY <2>8, <4>1
      <4> WITNESS RowsAt(l) \in 0..Rows - 1
      <4> QED
        BY <2>1, <2>8, <2>9, <3>3, <4>1
    <3>7. ShownSoFar'
      <4>1. CASE hcnt # H_TOT - 1
        <5>1. hcnt' = hcnt + 1 /\ lcnt' = lcnt
          BY <3>1, <4>1
        <5>2. ~AtTop'
          BY <3>1, <5>1 DEF AtTop
        <5>3. ColsBefore' = ColsBefore + Bit(A)
          <6>1. v_active' <=> v_active
            BY <2>2, <5>1 DEF v_active, v_start, field, V_TOT
          <6>2. h_start \in Nat /\ t.h_act \in Nat /\ t.h_act >= 1
            BY Parts, Down DEF TypeOK, h_start
          <6>3. CASE v_active
            <7>1. A <=> hcnt >= h_start /\ hcnt < h_start + t.h_act
              BY <6>3 DEF A, h_active
            <7>2. ColsBefore = IF hcnt <= h_start THEN 0
                               ELSE IF hcnt - h_start >= t.h_act THEN t.h_act
                               ELSE hcnt - h_start
              BY <6>3 DEF ColsBefore
            <7>3. ColsBefore' = IF hcnt' <= h_start' THEN 0
                                ELSE IF hcnt' - h_start' >= t'.h_act THEN t'.h_act
                                ELSE hcnt' - h_start'
              BY <6>1, <6>3 DEF ColsBefore
            <7>4. hcnt' = hcnt + 1 /\ h_start' = h_start /\ t'.h_act = t.h_act
              BY <2>2, <2>4, <5>1
            <7>5. PICK x \in Int : x = ColsBefore'
              BY <3>1, <6>2, <7>3, <7>4
            <7>6. x = IF hcnt + 1 <= h_start THEN 0
                      ELSE IF hcnt + 1 - h_start >= t.h_act THEN t.h_act
                      ELSE hcnt + 1 - h_start
              BY <3>1, <6>2, <7>3, <7>4, <7>5
            <7>7. x = ColsBefore + Bit(A)
              BY <3>1, <6>2, <7>1, <7>2, <7>6 DEF Bit
            <7> QED
              BY <7>5, <7>7
          <6>4. CASE ~v_active
            BY <2>11, <6>1, <6>4 DEF ColsBefore, A
          <6> QED
            BY <6>3, <6>4
        <5>4. Pixels(RowsAt(lcnt))' = Pixels(RowsAt(l))
          BY <2>3, <2>6, <2>7, <5>1
        <5>5. shown' + Bit(A) = Pixels(RowsAt(l)) + ColsBefore'
          BY <2>9, <2>11, <3>3, <3>4, <5>3
        <5> QED
          BY <2>12, <5>2, <5>4, <5>5 DEF ShownSoFar
      <4>2. CASE hcnt = H_TOT - 1
        <5>1. RowsAt(l + 1) = RowsAt(l) + Bit(v_active) /\ RowsAt(l + 1) \in Nat
          <6>1. RowsAt(l + 1) = RowsAt(l) + Bit(v_active)
            BY <2>6, <2>7, <3>1
          <6>2. Bit(v_active) \in Nat
            BY DEF Bit
          <6> QED
            BY <2>7, <6>1, <6>2
        <5>2. Pixels(RowsAt(l + 1)) = Pixels(RowsAt(l)) + (IF v_active THEN t.h_act ELSE 0)
          <6>1. CASE v_active
            <7>1. RowsAt(l + 1) = RowsAt(l) + 1
              BY <5>1, <6>1 DEF Bit
            <7> QED
              BY <2>7, <2>10, <6>1, <7>1
          <6>2. CASE ~v_active
            <7>1. RowsAt(l + 1) = RowsAt(l)
              BY <2>7, <5>1, <6>2 DEF Bit
            <7> QED
              BY <3>4, <6>2, <7>1
          <6> QED
            BY <6>1, <6>2
        <5>3. shown' + Bit(A) = Pixels(RowsAt(l + 1))
          BY <2>9, <2>11, <3>3, <3>4, <4>2, <5>2
        <5>4. hcnt' = 0
          BY <3>1, <4>2
        <5>5. CASE lcnt = FRAME_LINES - 1
          <6>1. AtTop'
            BY <3>1, <4>2, <5>5 DEF AtTop
          <6>2. l + 1 = FRAME_LINES
            BY <2>6, <3>2, <5>5
          <6>3. shown' = Pixels(RowsAt(FRAME_LINES)) + 0
            BY <2>5, <2>11, <3>5, <5>3, <6>1, <6>2
          <6>4. shown' = Pixels(Rows)
            BY <2>7, <2>10, <5>1, <6>2, <6>3
          <6>5. Pixels(Rows)' = Pixels(Rows)
            BY <2>2, <2>4 DEF Pixels
          <6> QED
            BY <2>1, <2>5, <6>1, <6>4, <6>5 DEF ShownSoFar
        <5>6. CASE lcnt # FRAME_LINES - 1
          <6>1. lcnt' = l + 1
            BY <2>6, <3>1, <4>2, <5>6
          <6>2. ~AtTop'
            BY <6>1 DEF AtTop
          <6>3. ColsBefore' = 0
            <7>1. h_start \in Nat
              BY Parts DEF TypeOK, h_start
            <7> QED
              BY <2>4, <5>4, <7>1 DEF ColsBefore
          <6>4. Pixels(RowsAt(lcnt))' = Pixels(RowsAt(l + 1))
            BY <2>3, <5>1, <6>1
          <6>5. shown' + Bit(A) = Pixels(RowsAt(l + 1)) + 0
            BY <2>10, <5>1, <5>3
          <6> QED
            BY <2>12, <6>2, <6>3, <6>4, <6>5 DEF ShownSoFar
        <5> QED
          BY <5>5, <5>6
      <4> QED
        BY <4>1, <4>2
    <3> QED
      BY <3>1, <3>5, <3>6, <3>7 DEF PixelInv
  <2>14. CASE ~steady
    <3>1. shown' = 0 /\ (steady' => AtTop')
      BY <1>1, <2>14 DEF Clock, PixelInv
    <3>2. steady' => ~out'.de
      BY <2>1, <2>5, <3>1
    <3> QED
      BY <3>1, <3>2 DEF PixelInv, ShownSoFar, OnDisplay
  <2> QED
    BY <2>13, <2>14
<1>2. CASE Retime
  BY <1>2 DEF Retime, PixelInv
<1>3. CASE UNCHANGED vars
  BY <1>3 DEF vars, counters, history, PixelInv, ShownSoFar, OnDisplay, AtTop, Pixels, Rows, Row,
     RowsAt, Above, First, V_TOT, ColsBefore, v_active, v_start, field, h_start, Bit
<1> QED
  BY <1>1, <1>2, <1>3 DEF Next

LEMMA PixelInvInit == Init => PixelInv
  BY DEF Init, Off, PixelInv, ShownSoFar, OnDisplay, AtTop

\* For every raster whose totals fit and whose frame does not end on a pixel, under any
\* changes of timing: a frame displays each pixel of the framebuffer once, the even rows
\* and then the odd ones when it is interlaced (video_timing.v, the active window and
\* xpos, ypos).
THEOREM PixelsOnce == ASSUME Fits, Porched PROVE Spec => []EachPixelOnce
<1>1. Fits /\ Porched
  OBVIOUS
<1>2. Init => Inv /\ InFrame /\ PixelInv
  BY <1>1, InvInit, InFrameInit, PixelInvInit
<1>3. Inv /\ InFrame /\ PixelInv /\ [Next]_vars => (Inv /\ InFrame /\ PixelInv)'
  <2>1. Inv => TypeOK
    BY DEF Inv
  <2> QED
    BY <1>1, <2>1, InvStep, InFrameStep, PixelInvStep
<1>4. Inv /\ InFrame /\ PixelInv => EachPixelOnce
  <2> SUFFICES ASSUME TypeOK, PixelInv PROVE EachPixelOnce
    BY DEF Inv
  <2>1. t.h_act \in Nat \ {0} /\ t.v_act \in Nat
    BY <1>1, Down DEF TypeOK
  <2>2. Rows \in Nat
    BY <2>1 DEF Rows
  <2>3. ASSUME steady, out.de PROVE out.x = shown % t.h_act /\ out.y = Row(shown \div t.h_act)
    <3>1. PICK k \in 0..Rows - 1 :
            shown = k * t.h_act + out.x /\ out.x \in 0..t.h_act - 1 /\ out.y = Row(k)
      BY <2>3 DEF PixelInv, OnDisplay, Pixels
    <3>2. PICK h \in Nat \ {0} : h = t.h_act
      BY <2>1
    <3>3. PICK c \in 0..h - 1 : c = out.x
      BY <3>1, <3>2
    <3>4. k \in Nat
      BY <2>2
    <3>5. (k * h + c) % h = c /\ (k * h + c) \div h = k
      BY <3>4, TakeApart
    <3>6. shown = k * h + c
      BY <3>1, <3>2, <3>3
    <3> QED
      BY <3>1, <3>2, <3>3, <3>5, <3>6
  <2>4. AtTop => shown \in {0, Rows * t.h_act}
    BY DEF PixelInv, ShownSoFar, Pixels
  <2> QED
    BY <2>3, <2>4 DEF EachPixelOnce
<1> QED
  BY <1>2, <1>3, <1>4, PTL DEF Spec
=============================================================================
