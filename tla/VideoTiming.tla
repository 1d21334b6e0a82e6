----------------------------- MODULE VideoTiming -----------------------------
(***************************************************************************)
(* The raster generator, rtl/video_timing.v, one pixel clock a step, under *)
(* the timing that rtl/blitscrt_top.v muxes into it.                       *)
(*                                                                         *)
(* Interlace is in vsync alone: the odd field's sync is half a line late   *)
(* and the frame is 2 * V_TOT + 1 lines.  The counters compare for         *)
(* equality, so they run on to the end of their bits when the timing       *)
(* changes under them to something they have already passed.               *)
(***************************************************************************)
EXTENDS Integers

CONSTANTS
  Timings,   \* records of the porches; vertical values are per field
  Modulus,   \* values of a counter: 2^12 in the code
  Retimes    \* bound: how often the timing changes

ASSUME TimingAssumption ==
  /\ \A t \in Timings :
       /\ DOMAIN t = {"h_sy", "h_bp", "h_act", "h_fp", "v_sy", "v_bp", "v_act", "v_fp", "interlace"}
       /\ t.interlace \in BOOLEAN
       /\ \A k \in DOMAIN t \ {"interlace"} : t[k] \in Nat
       /\ t.h_sy >= 2 /\ t.v_sy >= 1 /\ t.h_act >= 1 /\ t.v_act >= 1
  /\ Modulus \in Nat \ {0} /\ Retimes \in Nat

VARIABLES
  t,            \* the muxed timing
  retimes,      \* changes so far
  hcnt, lcnt,   \* the counters
  out,          \* de, xpos and ypos, registered
  (* history, kept from the top of a frame until the timing changes *)
  steady,       \* it is being kept
  shown,        \* pixels displayed so far in this frame
  sinceVs,      \* clocks since vsync last rose, None before it has twice
  sinceCs       \* clocks since composite sync last rose, None before it has

counters == <<hcnt, lcnt>>
history == <<steady, shown, sinceVs, sinceCs>>
vars == <<t, retimes, counters, out, history>>

None == -1
Wrap(n) == n % Modulus

H_TOT == Wrap(t.h_sy + t.h_bp + t.h_act + t.h_fp)
V_TOT == Wrap(t.v_sy + t.v_bp + t.v_act + t.v_fp)
H_HALF == H_TOT \div 2
FRAME_LINES == IF t.interlace THEN Wrap(2 * V_TOT + 1) ELSE V_TOT

\* field is the odd one; a progressive raster has none.
field == t.interlace /\ lcnt >= V_TOT

vs ==
  IF field
  THEN \/ lcnt = V_TOT /\ hcnt >= H_HALF
       \/ lcnt > V_TOT /\ lcnt < V_TOT + t.v_sy
       \/ lcnt = V_TOT + t.v_sy /\ hcnt < H_HALF
  ELSE lcnt < t.v_sy

(* Composite sync: ordinary, equalising and broad pulses. *)
fld_line == IF field THEN lcnt - V_TOT ELSE lcnt
hc_half == IF hcnt >= H_HALF THEN hcnt - H_HALF ELSE hcnt
half_sy == t.h_sy \div 2
SolidBroad == TRUE
serr_pulse == hc_half < H_HALF - half_sy
equalising == fld_line >= V_TOT - t.v_sy \/ (fld_line >= t.v_sy /\ fld_line < 2 * t.v_sy)
cs == IF vs THEN serr_pulse ELSE IF equalising THEN hc_half < half_sy ELSE hcnt < t.h_sy

(* The active window; the odd field's is a line further down. *)
StartTogether == (IF field THEN V_TOT ELSE 0) + t.v_sy + t.v_bp
v_start == (IF field THEN V_TOT + 1 ELSE 0) + t.v_sy + t.v_bp
v_active == lcnt >= v_start /\ lcnt < v_start + t.v_act
h_start == t.h_sy + t.h_bp
h_active == hcnt >= h_start /\ hcnt < h_start + t.h_act
vblank == ~v_active
Stacked == lcnt - v_start
ypos == IF t.interlace THEN 2 * (lcnt - v_start) + (IF field THEN 1 ELSE 0) ELSE lcnt - v_start

Off == [de |-> FALSE, x |-> 0, y |-> 0]

Init ==
  /\ t \in Timings /\ retimes = 0
  /\ hcnt = 0 /\ lcnt = 0 /\ out = Off
  /\ steady = TRUE /\ shown = 0 /\ sinceVs = None /\ sinceCs = None

\* The counters, by equality.
StopAtTop ==
  IF hcnt = H_TOT - 1
  THEN hcnt' = 0 /\ lcnt' = IF lcnt = FRAME_LINES - 1 THEN 0 ELSE lcnt + 1
  ELSE hcnt' = (IF Wrap(hcnt + 1) = 0 THEN hcnt ELSE hcnt + 1) /\ lcnt' = lcnt
Count ==
  IF hcnt = H_TOT - 1
  THEN hcnt' = 0 /\ lcnt' = IF lcnt = FRAME_LINES - 1 THEN 0 ELSE Wrap(lcnt + 1)
  ELSE hcnt' = Wrap(hcnt + 1) /\ lcnt' = lcnt

Rose(was, is) == is /\ ~was
\* Clocks since an edge, once there has been one, up to the longest frame there is.
Longest == Modulus * Modulus
Since(n, rose) == IF rose THEN 0 ELSE IF n \in {None, Longest} THEN n ELSE n + 1

AtTop == hcnt = 0 /\ lcnt = 0

Clock ==
  /\ UNCHANGED <<t, retimes>>
  /\ Count
  /\ out' = IF h_active /\ v_active THEN [de |-> TRUE, x |-> hcnt - h_start, y |-> ypos] ELSE Off
  /\ IF steady
     THEN /\ shown' = IF AtTop THEN 0 ELSE IF out.de THEN shown + 1 ELSE shown
          /\ sinceVs' = Since(sinceVs, Rose(vs, vs'))
          /\ sinceCs' = Since(sinceCs, Rose(cs, cs'))
          /\ UNCHANGED steady
     ELSE steady' = AtTop' /\ UNCHANGED <<shown, sinceVs, sinceCs>>

\* The staged set latches at a vblank and the owner's mux switches at any time:
\* neither waits for the generator to be in reset.
Retime ==
  /\ retimes < Retimes /\ retimes' = retimes + 1
  /\ t' \in Timings
  /\ steady' = FALSE /\ shown' = 0 /\ sinceVs' = None /\ sinceCs' = None
  /\ UNCHANGED <<counters, out>>

Next == Clock \/ Retime

Spec == Init /\ [][Next]_vars
FairSpec == Spec /\ WF_vars(Clock)

-----------------------------------------------------------------------------
(* Properties *)

TypeOK ==
  /\ t \in Timings /\ retimes \in 0..Retimes
  /\ hcnt \in 0..Modulus - 1 /\ lcnt \in 0..Modulus - 1
  /\ out.de \in BOOLEAN /\ steady \in BOOLEAN

\* A frame shows each pixel of the framebuffer once, even rows first and then
\* odd when it is interlaced, and nothing outside it; after a change of timing,
\* from the next top of a frame on.
Rows == IF t.interlace THEN 2 * t.v_act ELSE t.v_act
Row(n) == IF ~t.interlace THEN n ELSE IF n < t.v_act THEN 2 * n ELSE 2 * (n - t.v_act) + 1
EachPixelOnce ==
  /\ steady /\ out.de => out.x = shown % t.h_act /\ out.y = Row(shown \div t.h_act)
  /\ AtTop => shown \in {0, Rows * t.h_act}

\* The fields are one length, to the clock H_TOT may not divide by: an interlaced
\* frame has its two vertical syncs half a frame apart.  And the odd field's lines
\* fall half a line below the even field's, measured from each field's own sync.
\* That is what interleaves.
VsApart ==
  LET apart == (sinceVs + 1) * (IF t.interlace THEN 2 ELSE 1)
  IN  apart - FRAME_LINES * H_TOT \in {-1, 0, 1}
FirstLineLate ==
  LET late == 2 * (sinceVs - (t.v_sy + t.v_bp) * H_TOT)
  IN  late - (IF field THEN H_TOT ELSE 0) \in {-1, 0, 1}
FieldsInterleave ==
  [][sinceVs # None =>
       /\ Rose(vs, vs') /\ steady' => VsApart
       /\ hcnt = 0 /\ lcnt = v_start => FirstLineLate]_vars

\* Composite sync never leaves the horizontal oscillator without an edge, through
\* the vertical interval of either field, and never gives it one early.
SyncPeriod ==
  [][Rose(cs, cs') /\ sinceCs # None /\ steady' => sinceCs + 1 \in {H_HALF, H_TOT - H_HALF, H_TOT}]_vars

\* After any changes of timing the raster finds its frame again.
FramesResume == []<>AtTop
=============================================================================
