------------------------------- MODULE ModeSet -------------------------------
(***************************************************************************)
(* One modeset, across two clock domains: blitscrt_fabric_set_mode         *)
(* (sw/fabric.c) against the register block's vblank latch                 *)
(* (rtl/blitscrt_regs.v) and the PLL's lock, which resets that latch       *)
(* through vid_cfg_rst_n (rtl/blitscrt_top.v).                             *)
(*                                                                         *)
(* The daemon stages the timing, moves the pixel clock, stages the scanout *)
(* set, toggles APPLY, claims the raster and waits until LIVE shows the    *)
(* mode.  The video side copies all that is staged at a vblank after the   *)
(* toggle: any time later, for what the daemon can tell.                   *)
(***************************************************************************)
EXTENDS Integers

CONSTANTS
  Modes,        \* what set_mode may be given, see ModeSetAssumption
  Default       \* the reset values of the register block, and the panel's clock

Timing  == {"h", "v"}
Scanout == {"base", "geom", "stride", "format"}
Staged  == Timing \cup Scanout

(* A mode gives each staged group a value and names its clock.  Of h and v   *)
(* the first part is what LIVE is compared on (active width, totals,         *)
(* interlace) and the second the porches, which are not.                     *)
ASSUME ModeSetAssumption ==
  \A m \in Modes \cup {Default} :
    DOMAIN m = Staged \cup {"clk"} /\ m.h \in Nat \X Nat /\ m.v \in Nat \X Nat

VARIABLES
  pc,       \* the next thing set_mode does, "idle" outside it
  mode,     \* its argument
  ret,      \* its last answer
  stage,    \* the staged registers, bus domain
  req,      \* apply_req, the toggle
  claim,    \* CTRL_HPS_TIMING
  keepsLock, \* whether the PLL may take new counters without losing lock: constant
  pll,      \* "locked", "starting" (counters going in), "unlocked"
  want,     \* the clock in the PLL counters
  clk,      \* the clock the PLL last locked to
  latched,  \* the video-side set
  ack       \* apply_ack

daemon == <<pc, mode, ret>>
vars == <<daemon, stage, req, claim, keepsLock, pll, want, clk, latched, ack>>

Groups(m) == [g \in Staged |-> m[g]]

\* What set_mode compares: the active width, the totals and the scan.
Seen(t) == <<t.h[1], t.v[1]>>

Init ==
  /\ pc = "idle" /\ mode = Default /\ ret = "none"
  /\ stage = Groups(Default) /\ latched = Groups(Default)
  /\ req = FALSE /\ ack = FALSE /\ claim = FALSE
  /\ keepsLock \in BOOLEAN /\ pll = "locked" /\ want = Default.clk /\ clk = Default.clk

-----------------------------------------------------------------------------
(* The video domain *)

\* At vblank, if a request is outstanding.
Latch ==
  /\ pll = "locked" /\ req # ack
  /\ latched' = stage /\ ack' = req
  /\ UNCHANGED <<daemon, stage, req, claim, pll, want, clk>>

\* Out of reset the timing generator is at line 0, which is blanked.
ActiveAtReset == FALSE
VblankAtReset == TRUE

\* Lock gone: rst_sr clears and with it vid_cfg_rst_n, the latch's reset.
Drop ==
  /\ pll = "starting" /\ pll' = "unlocked"
  /\ latched' = Groups(Default) /\ ack' = FALSE
  /\ UNCHANGED <<daemon, stage, req, claim, want, clk>>

\* Lock back.  An odd toggle looks like a request, and the blanked line 0
\* takes it in a few pixel clocks, long before another register write.
Relock ==
  /\ pll = "unlocked" /\ pll' = "locked" /\ clk' = want
  /\ IF VblankAtReset /\ req # ack
     THEN latched' = stage /\ ack' = req
     ELSE UNCHANGED <<latched, ack>>
  /\ UNCHANGED <<daemon, stage, req, claim, want>>

\* Counters taken with the lock kept, where the PLL can.
Retune ==
  /\ keepsLock /\ pll = "starting" /\ pll' = "locked" /\ clk' = want
  /\ UNCHANGED <<daemon, stage, req, claim, want, latched, ack>>

-----------------------------------------------------------------------------
(* The daemon *)

\* The order of the register writes, and of what comes between.
ApplyFirst == [h |-> "v", v |-> "start", base |-> "geom", geom |-> "apply",
               stride |-> "format", format |-> "claim", apply |-> "stride"]
After == [h |-> "v", v |-> "start", base |-> "geom", geom |-> "stride",
          stride |-> "format", format |-> "apply", apply |-> "claim"]

Begin(m) ==
  /\ pc = "idle" /\ pc' = "h" /\ mode' = m /\ ret' = "none"
  /\ UNCHANGED <<stage, req, claim, pll, want, clk, latched, ack>>

\* One group: four porch registers, or one of the scanout's.
Write(g) ==
  /\ pc = g /\ pc' = After[g]
  /\ stage' = [stage EXCEPT ![g] = mode[g]]
  /\ UNCHANGED <<mode, ret, req, claim, pll, want, clk, latched, ack>>

\* The counters, then START.
StartPll ==
  /\ pc = "start" /\ pc' = "wait"
  /\ want' = mode.clk /\ pll' = IF pll = "unlocked" THEN pll ELSE "starting"
  /\ UNCHANGED <<mode, ret, stage, req, claim, clk, latched, ack>>

\* The 200 us floor outlives the old lock.
NoFloor == TRUE
Settled == pll # "starting"

\* STATUS reads ready while the old lock holds and after the new one.
PllReady ==
  /\ pc = "wait" /\ Settled /\ pll # "unlocked" /\ pc' = "base"
  /\ UNCHANGED <<mode, ret, stage, req, claim, pll, want, clk, latched, ack>>

Return(r) ==
  /\ pc' = "idle" /\ ret' = r
  /\ UNCHANGED <<mode, stage, req, claim, pll, want, clk, latched, ack>>

\* 20 ms without STATUS ready.
PllDeadline == pc = "wait" /\ pll = "unlocked" /\ Return("no lock")

\* The scanout window cannot be mapped.
NoWindow == pc = "base" /\ Return("no window")

SetApply == TRUE
Toggle == ~req
Apply ==
  /\ pc = "apply" /\ pc' = After["apply"] /\ req' = Toggle
  /\ UNCHANGED <<mode, ret, stage, claim, pll, want, clk, latched, ack>>

Claim ==
  /\ pc = "claim" /\ pc' = "confirm" /\ claim' = TRUE
  /\ UNCHANGED <<mode, ret, stage, req, pll, want, clk, latched, ack>>

Confirmed == claim /\ Seen(latched) = Seen(mode)

Confirm == pc = "confirm" /\ Confirmed /\ Return("ok")

\* 100 ms, several frames: a vblank has come and gone unless the clock stands.
ConfirmDeadline ==
  /\ pc = "confirm" /\ ~Confirmed /\ (pll = "locked" => req = ack)
  /\ Return("not taken")

\* blitscrt_fabric_enable(0) between modesets hands the raster back.
Release ==
  /\ pc = "idle" /\ claim /\ claim' = FALSE
  /\ UNCHANGED <<daemon, stage, req, pll, want, clk, latched, ack>>

Hardware == Latch \/ Drop \/ Relock \/ Retune
SetMode ==
  \/ \E g \in Staged : Write(g)
  \/ StartPll \/ PllReady \/ PllDeadline \/ NoWindow
  \/ Apply \/ Claim \/ Confirm \/ ConfirmDeadline

Next ==
  /\ Hardware \/ SetMode \/ (\E m \in Modes : Begin(m)) \/ Release
  /\ UNCHANGED keepsLock

Spec == Init /\ [][Next]_vars

\* Frames keep coming while there is a clock.
FairSpec == Spec /\ WF_vars(Latch /\ UNCHANGED keepsLock)

-----------------------------------------------------------------------------
(* Properties *)

Values(g) == {m[g] : m \in Modes \cup {Default}}
Whole == [h : Values("h"), v : Values("v"), base : Values("base"), geom : Values("geom"),
          stride : Values("stride"), format : Values("format")]
Clocks == {m.clk : m \in Modes \cup {Default}}

TypeOK ==
  /\ pc \in Staged \cup {"idle", "start", "wait", "apply", "claim", "confirm"}
  /\ mode \in Modes \cup {Default}
  /\ ret \in {"none", "ok", "no lock", "no window", "not taken"}
  /\ stage \in Whole /\ latched \in Whole
  /\ req \in BOOLEAN /\ ack \in BOOLEAN /\ claim \in BOOLEAN
  /\ keepsLock \in BOOLEAN /\ pll \in {"locked", "starting", "unlocked"}
  /\ want \in Clocks /\ clk \in Clocks

\* A modeset reported as done runs on its own pixel clock, and the clock is up.
OkOnItsClock ==
  [][pc = "confirm" /\ ret' = "ok" => pll = "locked" /\ clk = mode.clk]_vars

\* The fetcher never reads a new width at an old stride or format (fabric.c):
\* what is latched of the scanout set is one mode's, or the reset values, given a
\* PLL that loses lock on new counters.
Torn(t) == \A m \in Modes \cup {Default} : \E g \in Scanout : t[g] # m[g]
ScanoutTogether == keepsLock \/ ~Torn(latched)

\* The toggles never cancel, through any number of clock losses: a mode whose
\* clock came up is never reported as not taken, given such a PLL.
TakenOnceLocked == keepsLock \/ ret # "not taken"

\* A modeset reported as done is on the raster soon, all of it, given such a PLL.
OkIsLatched ==
  (pc = "idle" /\ ret = "ok" /\ ~keepsLock) ~> (latched = Groups(mode) \/ pc # "idle")
=============================================================================
