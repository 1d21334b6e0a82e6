------------------------------- MODULE Arith -------------------------------
(***************************************************************************)
(* The daemon's functions that keep no state, called once each: the        *)
(* decompressor, the rect writers, the mode check, the PLL solver with its *)
(* write sequence.  A behaviour is one call, from its arguments to its     *)
(* result; the properties say what a result has to do with its call.       *)
(***************************************************************************)
EXTENDS Lz4, Blit, ModeCheck, Pll

CONSTANTS
  Blocks, Caps, Pads,   \* what a host packs, the room it has, the zeros that follow
  Noise,                \* what arrives that nobody packed
  Geometries, Rects,    \* [w, h, bpp, ddr] in force, [x, y, w, h] sent
  Modelines,            \* [clock, hdisplay, ..., vtotal, interlace] of a host
  Targets, Indexes      \* hertz to reach, output counters to reach it on

\* What the callers hand over: unsigned fields, and formats of at least a byte a pixel.
ASSUME ArithAssumption ==
  /\ Blocks \subseteq Seq(Sequence) /\ Noise \subseteq Seq(0..Last) /\ Caps \subseteq Nat /\ Pads \subseteq Nat
  /\ Geometries \subseteq [w : Nat, h : Nat, bpp : Nat \ {0}, ddr : BOOLEAN]
  /\ Rects \subseteq [x : Nat, y : Nat, w : Nat, h : Nat]
  /\ Modelines \subseteq
       [clock : Nat, hdisplay : Nat, hss : Nat, hse : Nat, htotal : Nat,
        vdisplay : Nat, vss : Nat, vse : Nat, vtotal : Nat, interlace : BOOLEAN]
  /\ Targets \subseteq Nat \ {0} /\ Indexes \subseteq Nat

VARIABLES call, done, result
vars == <<call, done, result>>

Init ==
  /\ \/ call \in [fn : {"unpack"}, block : {q \in Blocks : Legal(q)}, cap : Caps, pad : Pads]
     \/ call \in [fn : {"unpack noise"}, src : Noise, cap : Caps]
     \/ call \in [fn : {"blit", "fill"}, geometry : Geometries, rect : Rects]
     \/ call \in [fn : {"check"}, mode : Modelines]
     \/ call \in [fn : {"retune"}, hz : Targets, fractional : BOOLEAN, index : Indexes]
  /\ done = FALSE
  /\ result = <<>>

Return(fn, value) ==
  /\ ~done
  /\ call.fn = fn
  /\ done' = TRUE
  /\ result' = value
  /\ UNCHANGED call

Unpack == Return("unpack", Decompress(BytesOf(call.block) \o Zeros(call.pad), call.cap))
UnpackNoise == Return("unpack noise", Decompress(call.src, call.cap))

\* The geometry with the stride blitscrt_scanout_configure gives it.
Configured(g) == [w |-> g.w, h |-> g.h, bpp |-> g.bpp, ddr |-> g.ddr, stride |-> Stride(g.w, g.bpp)]
BlitRect == Return("blit", ScanoutBlit(Configured(call.geometry), call.rect))

\* Past the end of the row buffer lies the heap: the fill completes, or kills the daemon.
FillRect ==
  \/ Return("fill", ScanoutFill(Configured(call.geometry), call.rect))
  \/ Return("fill", Killed) /\ Overruns(Configured(call.geometry), call.rect)

CheckMode == Return("check", Check(call.mode))

Retune ==
  LET solved == PllSolveBest(call.hz, call.fractional)
  IN Return("retune", [solved |-> solved,
                       writes |-> IF solved.found THEN ReconfigBuild(solved, call.index) ELSE <<>>])

Next == Unpack \/ UnpackNoise \/ BlitRect \/ FillRect \/ CheckMode \/ Retune
Spec == Init /\ [][Next]_vars

Returned(fn) == done /\ call.fn = fn
-----------------------------------------------------------------------------
(* The decompressor *)

\* A block packed by the rules comes out as what it stands for, or is refused for want of
\* room, and only then; and the zeros of a padded transfer never change the bytes
\* before them, they are refused or add nothing (lz4dec.c:34, gadget.c:549).  Whatever else
\* arrives, no turn of the loop leaves more in the buffer than it holds (lz4dec.c:65, 84, 103).
Lz4Exact ==
  /\ Returned("unpack") =>
       LET meant == Meaning(call.block)
           fits == Len(meant) <= call.cap
       IN \/ result = Fail /\ (call.pad > 0 \/ ~fits)
          \/ result = [out |-> meant] /\ fits
  /\ Returned("unpack noise") =>
       \A k \in 0..Len(call.src) :
         LET s == Turns(call.src, call.cap)[k]
         IN s # Fail => Len(s.out) <= call.cap /\ s.at <= Len(call.src) + 1
-----------------------------------------------------------------------------
(* The rect writers *)

\* A rect lands where it belongs and nowhere else, cropped to the picture whatever its
\* size: a blit with each pixel from its own place of the source, at any pixel size
\* (fabric.c:538); a fill with the colour in every pixel, where a pixel is the 16 bits the
\* colour has or the on-chip port takes it as a word (fabric.c:591).  The padding of a
\* line and the rest of the memory keep what they held.
OwnFormat(g) == g.ddr => g.bpp = ColourBytes
BlitExact ==
  /\ Returned("blit") => result = Shows(Configured(call.geometry), call.rect)
  /\ Returned("fill") /\ OwnFormat(call.geometry) =>
       result = Filled(Configured(call.geometry), call.rect)
-----------------------------------------------------------------------------
(* The mode check *)

\* Lines after the end of sync that let the back porch take up all the rounding of a field.
RoomyPorch == 6
Roomy(m) == m.vtotal - m.vse >= RoomyPorch

\* The raster the fabric is given is the raster whose rates were checked: its parts add up
\* to the totals the rates were computed from, and its line and field rates, taken from
\* the parts, are the ones checked (modes.c:245-308).
RasterAsChecked ==
  (Returned("check") /\ result.ok /\ Roomy(call.mode)) =>
    LET e == Effective(call.mode)
    IN /\ result.h.h_sy + result.h.h_bp + result.h.h_act + result.h.h_fp = e.htotal
       /\ result.v_total_field = VTotalField(e)
       /\ result.v.v_sy > 0 \/ ~result.interlace
       /\ result.frame_lines \in {e.vtotal, e.vtotal - 1}
       /\ result.frame_lines = e.vtotal - 1 => e.interlace /\ e.vtotal % 2 = 0

\* A progressive mode shown interlaced keeps its refresh to the hertz and below: two fields of the
\* fabric's frame on the fabric's clock last exactly two frames of the host's (modes.c:163-204).
RefreshKept ==
  (Returned("check") /\ result.ok /\ result.converted /\ Roomy(call.mode)) =>
    LET m == call.mode
    IN SameRate(Rate(2 * Clock(m).num, Clock(m).den * result.h_total * result.frame_lines),
                Rate(m.clock * Kilo, m.htotal * m.vtotal))
-----------------------------------------------------------------------------
(* The PLL *)

WholeSettings ==
  UNION {{Whole(m, n, c) : m \in {w \in Counters : VcoInBand(WholeVco(w, n))}} :
           n \in {x \in Counters : PfdInBand(x)}, c \in Counters}

\* No setting of the whole counters, of all there are and not only of those looked at, comes
\* closer to the clock that was asked for, and a clock one of them makes exactly
\* is never refused (pll.c:55-145, 306-339).
ClockSolved ==
  Returned("retune") =>
    \A s \in WholeSettings :
      IF result.solved.found
      THEN Distance(result.solved.hz, call.hz) <= Distance(s.hz, call.hz)
      ELSE s.hz # call.hz

\* What the reconfiguration core runs after a sequence of writes: it stages counters and takes
\* them all at START.
Latched(writes) ==
  LET After[k \in 0..Len(writes)] ==
        IF k = 0 THEN [staged |-> [N |-> 0, M |-> 0, K |-> 0, C |-> 0, MODE |-> "wait"], live |-> <<>>]
        ELSE LET s == After[k - 1]
                 w == writes[k]
             IN IF w.register = "START" THEN [s EXCEPT !.live = s.staged]
                ELSE [s EXCEPT !.staged[w.register] = w.value]
  IN After[Len(writes)].live

\* The clock that leaves the PLL after the writes is the clock the solver promised, on the counter that
\* was meant, up to the rounding of its own arithmetic (pll_reconfig.c:71-141).
ReconfigReaches ==
  (Returned("retune") /\ result.solved.found) =>
    IF call.index > CIndexMax THEN result.writes = <<>>
    ELSE LET r == Latched(result.writes)
             n == DecodeCounter(r.N)
             m == DecodeCounter(r.M)
             c == DecodeCounter(r.C.counter)
         IN /\ r.MODE = "poll" /\ r.C.index = call.index
            /\ Distance(Fin * (m * Fraction + r.K), result.solved.hz * n * c * Fraction)
                 < (c + 1) * n * Fraction
            /\ ~call.fractional => r.K = 0
=============================================================================
