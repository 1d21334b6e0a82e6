------------------------------- MODULE Device -------------------------------
(***************************************************************************)
(* The display device behind the control endpoint: sw/device.c, with what  *)
(* its calls do to the control register and the scanout geometry           *)
(* (sw/fabric.c) and the events the ep0 loop feeds it (sw/gadget.c).       *)
(*                                                                         *)
(* One thread runs all of this.  A batch of ep0 events ends in a heartbeat,*)
(* and so does an idle poll.  The rects accepted and not yet blitted are a *)
(* queue (module Gadget has its threads); the steps of a modeset inside    *)
(* the fabric are an outcome here (module ModeSet has them one by one).    *)
(***************************************************************************)
EXTENDS Integers, Sequences

CONSTANTS
  Modes,     \* what a host may ask for: [w, h, ok], ok when mode_check passes it
  Formats,   \* GUD pixel formats a host may name
  Accepted,  \* those SET_STATE_CHECK takes
  Offered,   \* the modes blitscrt_modelist_defaults proposes, in order
  MaxWidth,  \* SCANOUT_MAXW, 0 from a fabric that does not tell
  ListRoom,  \* BLITSCRT_MAX_MODES
  Rects,     \* [w, h], the far corner of a rect
  Delay,     \* BLITSCRT_TESTCARD_DELAY_MS, in heartbeat periods
  Pipeline   \* accepted rects that can wait: RECTQ + 1 + NSLOT

ASSUME DeviceAssumption ==
  /\ Modes \subseteq [w : Nat, h : Nat, ok : BOOLEAN]
  /\ Rects \subseteq [w : Nat, h : Nat]
  /\ Accepted \subseteq Formats
  /\ Offered \in Seq(Modes) /\ MaxWidth \in Nat /\ ListRoom \in Nat
  /\ Delay \in Nat \ {0} /\ Pipeline \in Nat

VARIABLES
  udc,          \* the gadget really is bound (external)
  disable,      \* the kernel holds a DISABLE that an unbind raised (external)
  pc,           \* ep0: "poll", "attached" (ENABLE handled), "beat" (batch done)
  (* struct blitscrt_dev *)
  bound, hostAttached, controllerEnabled,
  pending, active,      \* the mode and format, None when not valid
  idle,                 \* heartbeat periods since idle_since
  testcardShown,
  parity,               \* stat_modeset, modulo 2
  status,               \* last_status, good or not
  changed,              \* modes_changed: to be told at the next connector status
  (* fabric handle and fabric *)
  sc,           \* f->sc_w, sc_h, and the format behind sc_bpp
  ctrl,         \* CTRL, the bits the daemon drives
  latched, clk, \* the timing last applied, the mode whose clock was programmed
  hostState,    \* HOSTSTATE
  overlay,      \* the lines of the character memory that tell of the host
  (* rects accepted, waiting for their pixels or for the processor *)
  inflight,
  (* history *)
  checked,      \* the last SET_STATE_CHECK, if it passed and is not used up
  offFor,       \* heartbeat periods since the controller was last enabled
  fresh         \* a heartbeat has run in this period

devVars  == <<bound, hostAttached, controllerEnabled, pending, active, parity>>
cardVars == <<idle, testcardShown, hostState>>
fabVars  == <<sc, ctrl, latched, clk>>
timeVars == <<offFor, fresh>>
told     == <<status, changed>>
vars == <<udc, disable, pc, devVars, cardVars, fabVars, inflight, checked, timeVars, told, overlay>>

None == [none |-> TRUE]
Unset == -1  \* idle_since is zero
State(m, f) == [mode |-> m, format |-> f]
Bits == {"ENABLE", "TESTCARD", "OVERLAY", "HPS_TIMING"}
Panel == [panel |-> TRUE]

\* blitscrt_fabric_enable: off hands the raster back and blanks, on shows it.
KeepCard(on, c) == IF on THEN c \cup {"ENABLE"} ELSE (c \ {"HPS_TIMING", "TESTCARD"}) \cup {"ENABLE"}
FabricEnable(on, c) ==
  IF on THEN (c \cup {"ENABLE"}) \ {"TESTCARD"}
  ELSE (c \ {"HPS_TIMING", "TESTCARD"}) \cup {"ENABLE"}

HostState(attached, enabled, isBound) ==
  [host |-> IF attached THEN IF enabled THEN "STREAMING" ELSE "ATTACHED" ELSE "NONE",
   bound |-> isBound]

\* blitscrt_modelist_add: nothing the check refuses, nothing the line buffer cannot hold.
Advertisable(m) == m.ok /\ (MaxWidth = 0 \/ m.w <= MaxWidth)
Advertised ==
  LET good == SelectSeq(Offered, Advertisable)
  IN SubSeq(good, 1, IF Len(good) < ListRoom THEN Len(good) ELSE ListRoom)

\* blitscrt_dev_refresh_overlay: who is on the cable, and whose timing is on the raster.
Overlay(attached, enabled, c, act) ==
  [usb |-> IF ~attached THEN "NO HOST" ELSE IF enabled THEN "STREAMING" ELSE "ATTACHED",
   timing |-> IF "HPS_TIMING" \notin c THEN "PANEL" ELSE IF act = None THEN "HOST (STALE)" ELSE "HOST"]
RefreshEarly == overlay' = Overlay(hostAttached', controllerEnabled', ctrl', active)
Refresh == overlay' = Overlay(hostAttached', controllerEnabled', ctrl', active')

\* After main: reset values, blitscrt_dev_init, on_host(0), gadget_open.
Init ==
  /\ udc = TRUE /\ disable = FALSE /\ pc = "poll"
  /\ bound = TRUE /\ hostAttached = FALSE /\ controllerEnabled = FALSE
  /\ pending = None /\ active = None /\ parity = 0
  /\ idle = Unset /\ testcardShown = FALSE /\ hostState = HostState(FALSE, FALSE, FALSE)
  /\ sc = [w |-> 0, h |-> 0, format |-> "RGB565"]
  /\ ctrl = FabricEnable(FALSE, {"TESTCARD", "OVERLAY"}) /\ latched = Panel /\ clk = Panel
  /\ inflight = <<>> /\ checked = None /\ offFor = 0 /\ fresh = TRUE
  /\ status = "ok" /\ changed = (Advertised # <<>>)
  /\ overlay = Overlay(FALSE, FALSE, ctrl, None)

-----------------------------------------------------------------------------
(* Time and the heartbeat *)

\* A period passes.  The poll times out every period, so the heartbeat does not
\* fall further behind than that.
Tick ==
  /\ fresh /\ fresh' = FALSE
  /\ idle' = IF idle = Unset \/ idle = Delay THEN idle ELSE idle + 1
  /\ offFor' = IF controllerEnabled THEN 0 ELSE IF offFor = Delay THEN Delay ELSE offFor + 1
  /\ UNCHANGED <<udc, disable, pc, devVars, testcardShown, hostState, fabVars, inflight, checked, told, overlay>>

\* What the heartbeat does with the card, from the control register c.
RestartWhenIdle(c) ==
  /\ IF controllerEnabled \/ ~testcardShown THEN idle' = 0 ELSE UNCHANGED idle
  /\ testcardShown' = (testcardShown /\ ~controllerEnabled)
  /\ ctrl' = IF controllerEnabled /\ testcardShown THEN c \ {"TESTCARD"} ELSE c
NeverRestart(c) ==
  IF ~controllerEnabled /\ ~testcardShown /\ idle = Delay
  THEN testcardShown' = TRUE /\ ctrl' = c \cup {"TESTCARD"} /\ UNCHANGED idle
  ELSE /\ ctrl' = IF controllerEnabled /\ testcardShown THEN c \ {"TESTCARD"} ELSE c
       /\ testcardShown' = (testcardShown /\ ~controllerEnabled)
       /\ idle' = IF idle = Unset THEN 0 ELSE idle
CardTimer(c) ==
  \/ /\ controllerEnabled
     /\ idle' = 0 /\ testcardShown' = FALSE
     /\ ctrl' = IF testcardShown THEN c \ {"TESTCARD"} ELSE c
  \/ /\ ~controllerEnabled /\ testcardShown
     /\ ctrl' = c /\ UNCHANGED <<idle, testcardShown>>
  \/ /\ ~controllerEnabled /\ ~testcardShown /\ idle # Delay
     /\ idle' = (IF idle = Unset THEN 0 ELSE idle)
     /\ ctrl' = c /\ UNCHANGED testcardShown
  \/ /\ ~controllerEnabled /\ ~testcardShown /\ idle = Delay
     /\ ctrl' = c \cup {"TESTCARD"} /\ testcardShown' = TRUE /\ UNCHANGED idle

Report == hostState' = HostState(hostAttached, controllerEnabled, bound)

\* blitscrt_dev_heartbeat, from the ep0 loop.
Heartbeat ==
  /\ pc' = "poll" /\ fresh' = TRUE
  /\ CardTimer(ctrl) /\ Report
  /\ UNCHANGED <<udc, disable, devVars, sc, latched, clk, inflight, checked, offFor, told, overlay>>
-----------------------------------------------------------------------------
(* Host attach and detach: blitscrt_dev_on_host *)

\* An ENABLE the kernel raises discards a DISABLE not read yet, so the daemon may
\* see one host follow another with nothing between, and then keeps its state.
Attach ==
  /\ pc = "poll" /\ udc /\ disable' = FALSE
  /\ hostAttached' = TRUE /\ ctrl' = ctrl \ {"OVERLAY"}
  /\ pc' = "attached"
  /\ UNCHANGED <<udc, checked, bound, controllerEnabled, pending, active, parity, cardVars, sc, latched, clk, inflight, timeVars, told>>
  /\ Refresh

ForgetAll == pending' = None /\ active' = None

OnHostGone ==
  /\ hostAttached' = FALSE /\ controllerEnabled' = FALSE
  /\ ForgetAll
  /\ ctrl' = FabricEnable(FALSE, ctrl \cup {"OVERLAY"})
  /\ checked' = None /\ Refresh
  /\ UNCHANGED <<parity, cardVars, sc, latched, clk, timeVars, told>>

\* FUNCTIONFS_DISABLE: the queued headers go, the slots already filled stay.
Detach ==
  /\ pc = "poll" /\ (hostAttached \/ disable) /\ disable' = FALSE
  /\ OnHostGone /\ pc' = "beat"
  /\ \E k \in 0..Len(inflight) : inflight' = SubSeq(inflight, 1, k)
  /\ UNCHANGED <<udc, bound>>

\* The user button: unbind and go, or bind again, whether or not that works.
PressUnbind ==
  /\ pc = "poll" /\ bound
  /\ OnHostGone /\ udc' = FALSE /\ bound' = FALSE /\ pc' = "beat"
  /\ disable' = (disable \/ hostAttached)
  /\ UNCHANGED inflight
PressBind ==
  /\ pc = "poll" /\ ~bound
  /\ udc' \in BOOLEAN /\ bound' = TRUE /\ pc' = "beat"
  /\ UNCHANGED <<disable, hostAttached, controllerEnabled, pending, active, parity, cardVars, fabVars, inflight, checked, timeVars, told, overlay>>
-----------------------------------------------------------------------------
(* Control requests: blitscrt_handle_ctrl *)

Request == pc \in {"poll", "attached"} /\ hostAttached /\ pc' = "beat"

\* GET_STATUS reports last_status and leaves it.
GetStatus ==
  /\ Request
  /\ UNCHANGED <<udc, disable, devVars, cardVars, fabVars, inflight, checked, timeVars, told, overlay>>

\* The replies that say what the device is: each leaves a good status, and the connector
\* status tells once that the modes have changed.
Query(q) ==
  /\ Request
  /\ status' = "ok" /\ changed' = (changed /\ q # "connector status")
  /\ UNCHANGED <<udc, disable, devVars, cardVars, fabVars, inflight, checked, timeVars, overlay>>

\* SET_DISPLAY_ENABLE keeps a flag nothing reads; one with too little data, or a request
\* nobody knows, leaves its error.
OtherSet(result) ==
  /\ Request /\ status' = result
  /\ UNCHANGED <<udc, disable, devVars, cardVars, fabVars, inflight, checked, timeVars, changed, overlay>>

RejectKeeps == UNCHANGED pending
Reject == pending' = None

\* SET_STATE_CHECK: mode_check, then the format; a refusal drops what was pending.
StateCheck(m, f) ==
  /\ Request
  /\ \/ /\ m.ok /\ f \in Accepted
        /\ pending' = State(m, f) /\ checked' = State(m, f) /\ status' = "ok"
     \/ /\ ~(m.ok /\ f \in Accepted)
        /\ Reject /\ checked' = None /\ status' = "error"
  /\ UNCHANGED <<udc, disable, bound, hostAttached, controllerEnabled, active, parity, cardVars, fabVars, inflight, timeVars, changed, overlay>>

\* SET_STATE_COMMIT of a state that passed, the fabric agreeing.
Commit ==
  /\ Request /\ pending # None
  /\ sc' = [w |-> pending.mode.w, h |-> pending.mode.h, format |-> pending.format]
  /\ latched' = pending.mode /\ clk' = pending.mode /\ ctrl' = ctrl \cup {"HPS_TIMING"}
  /\ active' = pending /\ pending' = None /\ parity' = 1 - parity
  /\ UNCHANGED <<udc, disable, bound, hostAttached, controllerEnabled, cardVars, inflight, timeVars, changed>>
  /\ checked' = None /\ status' = "ok" /\ Refresh

\* set_mode failing: the PLL does not come ready in time, and a heartbeat runs
\* from its wait; the geometry does not read back; the raster is not confirmed.
CommitFails ==
  /\ Request /\ pending # None
  /\ clk' = pending.mode
  /\ \/ /\ CardTimer(ctrl) /\ Report /\ UNCHANGED <<sc, latched>>
     \/ /\ sc' = [w |-> pending.mode.w, h |-> pending.mode.h, format |-> pending.format]
        /\ latched' \in {latched, pending.mode}
        /\ ctrl' \in {ctrl, ctrl \cup {"HPS_TIMING"}}
        /\ UNCHANGED cardVars
  /\ UNCHANGED <<udc, disable, bound, hostAttached, controllerEnabled, active, parity, inflight, timeVars, changed>>
  /\ pending' = None /\ checked' = None /\ status' = "error" /\ Refresh

CommitRefused ==
  /\ Request /\ pending = None /\ status' = "error"
  /\ UNCHANGED <<udc, disable, devVars, cardVars, fabVars, inflight, checked, timeVars, changed, overlay>>

ControllerEnable(on) ==
  /\ Request
  /\ UNCHANGED <<udc, disable, bound, hostAttached, pending, active, parity, cardVars, sc, latched, clk, inflight, checked, timeVars, changed>>
  /\ controllerEnabled' = on /\ ctrl' = FabricEnable(on, ctrl)
  /\ status' = "ok" /\ Refresh

\* SET_BUFFER is taken only inside the active mode.
Fits(x) == active # None /\ x.w <= active.mode.w /\ x.h <= active.mode.h

\* handle_bulk queues the header while the rect queue has room.
Room == Len(inflight) < Pipeline

SetBuffer(x) ==
  /\ Request
  /\ IF Fits(x) /\ Room
     THEN inflight' = Append(inflight, x) ELSE UNCHANGED inflight
  /\ status' = IF Fits(x) THEN "ok" ELSE "error"
  /\ UNCHANGED <<udc, disable, devVars, cardVars, fabVars, checked, timeVars, changed, overlay>>

\* blit_worker finishes the oldest rect.
Blit ==
  /\ inflight # <<>> /\ inflight' = Tail(inflight)
  /\ UNCHANGED <<udc, disable, pc, devVars, cardVars, fabVars, checked, timeVars, told, overlay>>

Next ==
  \/ Tick \/ Heartbeat \/ Attach \/ Detach \/ PressUnbind \/ PressBind
  \/ GetStatus \/ \E q \in {"connector status", "other"} : Query(q)
  \/ \E result \in {"ok", "error"} : OtherSet(result)
  \/ \E m \in Modes, f \in Formats : StateCheck(m, f)
  \/ Commit \/ CommitFails \/ CommitRefused
  \/ \E on \in BOOLEAN : ControllerEnable(on)
  \/ \E x \in Rects : SetBuffer(x)
  \/ Blit

Spec == Init /\ [][Next]_vars

\* Time passes, and the loop's poll returns at least every 250 ms.
FairSpec == Spec /\ WF_vars(Tick) /\ WF_vars(Heartbeat)
-----------------------------------------------------------------------------
(* Properties *)

StateRec == {None} \cup [mode : Modes, format : Formats]
TypeOK ==
  /\ udc \in BOOLEAN /\ disable \in BOOLEAN /\ pc \in {"poll", "attached", "beat"}
  /\ bound \in BOOLEAN /\ hostAttached \in BOOLEAN /\ controllerEnabled \in BOOLEAN
  /\ pending \in StateRec /\ active \in StateRec /\ parity \in {0, 1}
  /\ idle \in {Unset} \cup 0..Delay /\ testcardShown \in BOOLEAN
  /\ ctrl \subseteq Bits
  /\ latched \in {Panel} \cup Modes /\ clk \in {Panel} \cup Modes
  /\ inflight \in Seq(Rects) /\ Len(inflight) <= Pipeline
  /\ offFor \in 0..Delay /\ fresh \in BOOLEAN
  /\ status \in {"ok", "error"} /\ changed \in BOOLEAN
  /\ overlay \in [usb : {"NO HOST", "ATTACHED", "STREAMING"}, timing : {"PANEL", "HOST", "HOST (STALE)"}]

\* A host that drives the display sees its own picture: the idle timer never
\* puts the card over it, and enabling the controller always takes it away.
NoCardOverHost == controllerEnabled => "ENABLE" \in ctrl /\ "TESTCARD" \notin ctrl

\* The overlay says who is there and whose timing runs as it is, whichever of the paths that change
\* it was taken last, a modeset that failed halfway included (device.c:249-262, 688, 696).
OverlayTells == overlay = Overlay(hostAttached, controllerEnabled, ctrl, active)

\* The card means idle: a mode change, which is over within a period or two,
\* never shows it (ROADMAP: "The test card no longer flashes between modes").
NoFlash ==
  [][("TESTCARD" \in ctrl' /\ "TESTCARD" \notin ctrl) => offFor >= Delay - 1]_vars

\* What a commit makes active is the state this host last had checked, in the
\* raster, the clock and the geometry alike: never an older or a refused one,
\* never one from before a host was seen to go.
CommitsWhatWasChecked ==
  [][parity' # parity =>
       /\ checked # None /\ active' = checked
       /\ latched' = checked.mode /\ clk' = checked.mode
       /\ sc' = [w |-> checked.mode.w, h |-> checked.mode.h, format |-> checked.format]]_vars

\* While the card is known to be down, the timer brings it back.
CardWhenArmed ==
  (~controllerEnabled /\ ~testcardShown) ~> (controllerEnabled \/ "TESTCARD" \in ctrl)

\* fabric.c: the card "comes back on a timer rather than immediately".
CardReturns == ~controllerEnabled ~> (controllerEnabled \/ "TESTCARD" \in ctrl)
=============================================================================
