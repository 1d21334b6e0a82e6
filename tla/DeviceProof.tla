----------------------------- MODULE DeviceProof -----------------------------
(***************************************************************************)
(* Theorems of Device, for any modes, formats, rects, delay and pipeline.  *)
(*                                                                         *)
(* NoCardOverHost is inductive as it stands.  NoFlash is not: the timer    *)
(* counts from a heartbeat and the property from a request, so the         *)
(* invariant has to say how far one may run ahead of the other.            *)
(***************************************************************************)
EXTENDS Device, TLAPS

\* What the timer knows: while a host drives and its batch is over, idle_since is
\* a heartbeat old at most, and otherwise idle never runs a period ahead of the
\* time the controller has been off.
TimerType == idle \in {Unset} \cup (0..Delay) /\ offFor \in 0..Delay
Trailing == idle <= offFor + 1 \/ (controllerEnabled /\ pc = "beat")
RecentBeat == (controllerEnabled /\ pc # "beat") => idle <= (IF fresh THEN 0 ELSE 1)
TimerInv == TimerType /\ Trailing /\ RecentBeat

\* The heartbeat's timer leaves a driving host's picture alone.
LEMMA CardTimerCard ==
  ASSUME NoCardOverHost, CardTimer(ctrl), controllerEnabled' = controllerEnabled
  PROVE  NoCardOverHost'
  BY DEF NoCardOverHost, CardTimer

\* Every step keeps the card off a host that drives the display.
LEMMA CardStep == NoCardOverHost /\ [Next]_vars => NoCardOverHost'
<1> SUFFICES ASSUME NoCardOverHost, [Next]_vars PROVE NoCardOverHost'
  OBVIOUS
<1> USE DEF NoCardOverHost
<1>1. CASE Tick
  BY <1>1 DEF Tick, devVars, fabVars
<1>2. CASE Heartbeat
  BY <1>2, CardTimerCard DEF Heartbeat, devVars
<1>3. CASE Attach
  BY <1>3 DEF Attach
<1>4. CASE Detach
  BY <1>4 DEF Detach, OnHostGone
<1>5. CASE PressUnbind
  BY <1>5 DEF PressUnbind, OnHostGone
<1>6. CASE PressBind
  BY <1>6 DEF PressBind, fabVars
<1>7. ASSUME NEW m \in Modes, NEW f \in Formats, StateCheck(m, f) PROVE NoCardOverHost'
  BY <1>7 DEF StateCheck, fabVars
<1>8. CASE Commit
  BY <1>8 DEF Commit
<1>9. CASE CommitFails
  BY <1>9, CardTimerCard DEF CommitFails
<1>10. CASE CommitRefused
  BY <1>10 DEF CommitRefused, devVars, fabVars
<1>11. ASSUME NEW on \in BOOLEAN, ControllerEnable(on) PROVE NoCardOverHost'
  BY <1>11 DEF ControllerEnable, FabricEnable
<1>12. ASSUME NEW x \in Rects, SetBuffer(x) PROVE NoCardOverHost'
  BY <1>12 DEF SetBuffer, devVars, fabVars
<1>13. CASE Blit
  BY <1>13 DEF Blit, devVars, fabVars
<1>14. CASE UNCHANGED vars
  BY <1>14 DEF vars, devVars, fabVars
<1>15. ASSUME UNCHANGED <<devVars, fabVars>> PROVE NoCardOverHost'
  BY <1>15 DEF devVars, fabVars
<1>16. ASSUME GetStatus \/ (\E q : Query(q)) \/ (\E result : OtherSet(result)) PROVE NoCardOverHost'
  BY <1>15, <1>16 DEF GetStatus, Query, OtherSet
<1> QED
  BY <1>1, <1>2, <1>3, <1>4, <1>5, <1>6, <1>7, <1>8, <1>9, <1>10, <1>11, <1>12, <1>13, <1>14, <1>16 DEF Next

\* The test card never covers a host that drives the display, whatever the order
\* of requests, heartbeats, unplugs and failed commits.
THEOREM HostKeepsItsPicture == Spec => []NoCardOverHost
<1>1. Init => NoCardOverHost
  BY DEF Init, NoCardOverHost
<1> QED
  BY <1>1, CardStep, PTL DEF Spec

-----------------------------------------------------------------------------

\* What the heartbeat's timer does to idle: nothing, or a restart.
LEMMA CardTimerIdle ==
  ASSUME TimerType, CardTimer(ctrl)
  PROVE  /\ idle' \in {idle, 0}
         /\ idle = Unset => idle' = 0 \/ testcardShown
         /\ controllerEnabled => idle' = 0
  BY DeviceAssumption DEF TimerType, CardTimer, Unset

\* Every step keeps the timer invariant.
LEMMA TimerStep == TimerInv /\ [Next]_vars => TimerInv'
<1> SUFFICES ASSUME TimerInv, [Next]_vars PROVE TimerInv'
  OBVIOUS
<1>0. Delay \in Nat \ {0}
  BY DeviceAssumption
<1>1. CASE Tick
  <2> idle' = IF idle = Unset \/ idle = Delay THEN idle ELSE idle + 1
    BY <1>1 DEF Tick
  <2> offFor' = IF controllerEnabled THEN 0 ELSE IF offFor = Delay THEN Delay ELSE offFor + 1
    BY <1>1 DEF Tick
  <2> fresh /\ fresh' = FALSE /\ pc' = pc
    BY <1>1 DEF Tick
  <2> controllerEnabled' = controllerEnabled
    BY <1>1 DEF Tick, devVars
  <2>1. TimerType'
    BY <1>0 DEF TimerInv, TimerType, Unset
  <2>2. Trailing'
    <3>1. CASE controllerEnabled
      BY <1>0, <3>1 DEF TimerInv, TimerType, Trailing, RecentBeat, Unset
    <3>2. CASE ~controllerEnabled
      BY <1>0, <3>2 DEF TimerInv, TimerType, Trailing, Unset
    <3> QED BY <3>1, <3>2
  <2>3. RecentBeat'
    BY <1>0 DEF TimerInv, TimerType, RecentBeat, Unset
  <2> QED BY <2>1, <2>2, <2>3 DEF TimerInv
<1>2. CASE Heartbeat
  <2> idle' \in {idle, 0} /\ (controllerEnabled => idle' = 0)
    BY <1>2, CardTimerIdle DEF Heartbeat, TimerInv
  <2> pc' = "poll" /\ fresh' = TRUE /\ offFor' = offFor
    BY <1>2 DEF Heartbeat
  <2> controllerEnabled' = controllerEnabled
    BY <1>2 DEF Heartbeat, devVars
  <2> QED
    BY <1>0 DEF TimerInv, TimerType, Trailing, RecentBeat, Unset
<1>3. ASSUME idle' = idle, offFor' = offFor, fresh' = fresh,
             pc' # "beat" => pc # "beat", 
             controllerEnabled' = controllerEnabled \/ pc # "beat",
             pc' = "beat" \/ controllerEnabled' = controllerEnabled,
             controllerEnabled' /\ pc = "beat" => pc' = "beat"
      PROVE  TimerInv'
  BY <1>0, <1>3 DEF TimerInv, TimerType, Trailing, RecentBeat, Unset
<1>4. CASE Attach
  BY <1>3, <1>4 DEF Attach, cardVars, timeVars
<1>5. CASE Detach
  BY <1>3, <1>5 DEF Detach, OnHostGone, cardVars, timeVars
<1>6. CASE PressUnbind
  BY <1>3, <1>6 DEF PressUnbind, OnHostGone, cardVars, timeVars
<1>7. CASE PressBind
  BY <1>3, <1>7 DEF PressBind, cardVars, timeVars
<1>8. ASSUME NEW m \in Modes, NEW f \in Formats, StateCheck(m, f) PROVE TimerInv'
  BY <1>3, <1>8 DEF StateCheck, Request, cardVars, timeVars
<1>9. CASE Commit
  BY <1>3, <1>9 DEF Commit, Request, cardVars, timeVars
<1>10. CASE CommitFails
  <2> pc # "beat" /\ pc' = "beat" /\ controllerEnabled' = controllerEnabled /\ UNCHANGED timeVars
    BY <1>10 DEF CommitFails, Request
  <2>1. CASE UNCHANGED cardVars
    BY <1>3, <2>1 DEF cardVars, timeVars
  <2>2. CASE CardTimer(ctrl)
    <3> idle' \in {idle, 0} /\ (controllerEnabled => idle' = 0)
      BY <2>2, CardTimerIdle DEF TimerInv
    <3> QED
      BY <1>0 DEF TimerInv, TimerType, Trailing, RecentBeat, Unset, timeVars
  <2> QED
    BY <1>10, <2>1, <2>2 DEF CommitFails
<1>11. CASE CommitRefused
  BY <1>3, <1>11 DEF CommitRefused, Request, devVars, cardVars, timeVars
<1>12. ASSUME NEW on \in BOOLEAN, ControllerEnable(on) PROVE TimerInv'
  BY <1>3, <1>12 DEF ControllerEnable, Request, cardVars, timeVars
<1>13. ASSUME NEW x \in Rects, SetBuffer(x) PROVE TimerInv'
  BY <1>3, <1>13 DEF SetBuffer, Request, devVars, cardVars, timeVars
<1>14. CASE Blit
  BY <1>3, <1>14 DEF Blit, devVars, cardVars, timeVars
<1>15. CASE UNCHANGED vars
  BY <1>3, <1>15 DEF vars, devVars, cardVars, timeVars
<1>16. ASSUME Request, UNCHANGED <<devVars, cardVars, timeVars>> PROVE TimerInv'
  BY <1>3, <1>16 DEF Request, devVars, cardVars, timeVars
<1>17. ASSUME GetStatus \/ (\E q : Query(q)) \/ (\E result : OtherSet(result)) PROVE TimerInv'
  BY <1>16, <1>17 DEF GetStatus, Query, OtherSet
<1> QED
  BY <1>1, <1>2, <1>4, <1>5, <1>6, <1>7, <1>8, <1>9, <1>10, <1>11, <1>12, <1>13, <1>14, <1>15, <1>17 DEF Next

\* The card goes up only by the heartbeat's timer, run out.
LEMMA CardUp ==
  ASSUME NoCardOverHost, TimerInv, [Next]_vars, "TESTCARD" \in ctrl', "TESTCARD" \notin ctrl
  PROVE  offFor >= Delay - 1
<1>0. Delay \in Nat \ {0}
  BY DeviceAssumption
<1>1. CardTimer(ctrl) => ~controllerEnabled /\ idle = Delay
  BY DEF CardTimer
<1>2. CardTimer(ctrl) => offFor >= Delay - 1
  BY <1>0, <1>1 DEF TimerInv, TimerType, Trailing, Unset
<1>3. CASE Tick
  BY <1>3 DEF Tick, fabVars
<1>4. CASE Heartbeat
  BY <1>2, <1>4 DEF Heartbeat
<1>5. CASE Attach
  BY <1>5 DEF Attach
<1>6. CASE Detach
  BY <1>6 DEF Detach, OnHostGone, FabricEnable
<1>7. CASE PressUnbind
  BY <1>7 DEF PressUnbind, OnHostGone, FabricEnable
<1>8. CASE PressBind
  BY <1>8 DEF PressBind, fabVars
<1>9. ASSUME NEW m \in Modes, NEW f \in Formats, StateCheck(m, f) PROVE FALSE
  BY <1>9 DEF StateCheck, fabVars
<1>10. CASE Commit
  BY <1>10 DEF Commit
<1>11. CASE CommitFails
  BY <1>2, <1>11 DEF CommitFails
<1>12. CASE CommitRefused
  BY <1>12 DEF CommitRefused, fabVars
<1>13. ASSUME NEW on \in BOOLEAN, ControllerEnable(on) PROVE FALSE
  BY <1>13 DEF ControllerEnable, FabricEnable
<1>14. ASSUME NEW x \in Rects, SetBuffer(x) PROVE FALSE
  BY <1>14 DEF SetBuffer, fabVars
<1>15. CASE Blit
  BY <1>15 DEF Blit, fabVars
<1>16. CASE UNCHANGED vars
  BY <1>16 DEF vars, fabVars
<1>17. ASSUME GetStatus \/ (\E q : Query(q)) \/ (\E result : OtherSet(result)) PROVE FALSE
  BY <1>17 DEF GetStatus, Query, OtherSet, fabVars
<1> QED
  BY <1>3, <1>4, <1>5, <1>6, <1>7, <1>8, <1>9, <1>10, <1>11, <1>12, <1>13, <1>14, <1>15, <1>16, <1>17 DEF Next

\* A mode change never flashes the test card: whenever the card goes up, the
\* controller has been off for the whole delay, less the period the count began in.
THEOREM CardMeansIdle == Spec => NoFlash
<1>1. Init => NoCardOverHost /\ TimerInv
  <2> SUFFICES ASSUME Init PROVE NoCardOverHost /\ TimerInv
    OBVIOUS
  <2>1. idle = -1 /\ offFor = 0 /\ controllerEnabled = FALSE
    BY DEF Init, Unset
  <2>2. NoCardOverHost
    BY <2>1 DEF NoCardOverHost
  <2>3. TimerInv
    BY <2>1, DeviceAssumption DEF TimerInv, TimerType, Trailing, RecentBeat, Unset
  <2> QED BY <2>2, <2>3
<1>2. NoCardOverHost /\ TimerInv /\ [Next]_vars => (NoCardOverHost /\ TimerInv)'
  BY CardStep, TimerStep
<1>3. NoCardOverHost /\ TimerInv /\ [Next]_vars
        => [("TESTCARD" \in ctrl' /\ "TESTCARD" \notin ctrl) => offFor >= Delay - 1]_vars
  BY CardUp
<1> QED
  BY <1>1, <1>2, <1>3, PTL DEF Spec, NoFlash

-----------------------------------------------------------------------------

\* What is pending is what was last checked, and not used up since.
PendingChecked == pending # None => checked = pending

\* Every step keeps it.
LEMMA PendingStep == PendingChecked /\ [Next]_vars => PendingChecked'
<1> SUFFICES ASSUME PendingChecked, [Next]_vars PROVE PendingChecked'
  OBVIOUS
<1> USE DEF PendingChecked
<1>1. ASSUME UNCHANGED <<pending, checked>> PROVE PendingChecked'
  BY <1>1
<1>2. ASSUME pending' = None PROVE PendingChecked'
  BY <1>2
<1>3. CASE Tick \/ Heartbeat \/ PressBind \/ Attach
  BY <1>1, <1>3 DEF Tick, Heartbeat, PressBind, Attach, devVars
<1>4. CASE Detach \/ PressUnbind
  BY <1>2, <1>4 DEF Detach, PressUnbind, OnHostGone, ForgetAll
<1>5. ASSUME NEW m \in Modes, NEW f \in Formats, StateCheck(m, f) PROVE PendingChecked'
  BY <1>5 DEF StateCheck, Reject
<1>6. CASE Commit \/ CommitFails
  BY <1>2, <1>6 DEF Commit, CommitFails
<1>7. CASE CommitRefused
  BY <1>1, <1>7 DEF CommitRefused, devVars
<1>8. ASSUME NEW on \in BOOLEAN, ControllerEnable(on) PROVE PendingChecked'
  BY <1>1, <1>8 DEF ControllerEnable
<1>9. ASSUME NEW x \in Rects, SetBuffer(x) PROVE PendingChecked'
  BY <1>1, <1>9 DEF SetBuffer, devVars
<1>10. CASE Blit \/ UNCHANGED vars
  BY <1>1, <1>10 DEF Blit, vars, devVars
<1>11. ASSUME GetStatus \/ (\E q : Query(q)) \/ (\E result : OtherSet(result)) PROVE PendingChecked'
  BY <1>1, <1>11 DEF GetStatus, Query, OtherSet, devVars
<1> QED
  BY <1>3, <1>4, <1>5, <1>6, <1>7, <1>8, <1>9, <1>10, <1>11 DEF Next

\* Only a commit that succeeds counts as one, and it applies what is pending.
LEMMA CommitStep ==
  ASSUME PendingChecked, [Next]_vars, parity' # parity
  PROVE  /\ checked # None /\ active' = checked
         /\ latched' = checked.mode /\ clk' = checked.mode
         /\ sc' = [w |-> checked.mode.w, h |-> checked.mode.h, format |-> checked.format]
<1>1. CASE Commit
  BY <1>1 DEF Commit, PendingChecked
<1>2. CASE Tick \/ Heartbeat \/ PressBind \/ Attach
  BY <1>2 DEF Tick, Heartbeat, PressBind, Attach, devVars
<1>3. CASE Detach \/ PressUnbind
  BY <1>3 DEF Detach, PressUnbind, OnHostGone
<1>4. ASSUME NEW m \in Modes, NEW f \in Formats, StateCheck(m, f) PROVE FALSE
  BY <1>4 DEF StateCheck
<1>5. CASE CommitFails \/ CommitRefused
  BY <1>5 DEF CommitFails, CommitRefused, devVars
<1>6. ASSUME NEW on \in BOOLEAN, ControllerEnable(on) PROVE FALSE
  BY <1>6 DEF ControllerEnable
<1>7. ASSUME NEW x \in Rects, SetBuffer(x) PROVE FALSE
  BY <1>7 DEF SetBuffer, devVars
<1>8. CASE Blit \/ UNCHANGED vars
  BY <1>8 DEF Blit, vars, devVars
<1>9. ASSUME GetStatus \/ (\E q : Query(q)) \/ (\E result : OtherSet(result)) PROVE FALSE
  BY <1>9 DEF GetStatus, Query, OtherSet, devVars
<1> QED
  BY <1>1, <1>2, <1>3, <1>4, <1>5, <1>6, <1>7, <1>8, <1>9 DEF Next

\* A commit makes active the state last checked, in the raster, the clock and the
\* scanout geometry alike.
THEOREM CommitsAreChecked == Spec => CommitsWhatWasChecked
<1>1. Init => PendingChecked
  BY DEF Init, PendingChecked
<1>2. PendingChecked /\ [Next]_vars
        => [parity' # parity =>
             /\ checked # None /\ active' = checked
             /\ latched' = checked.mode /\ clk' = checked.mode
             /\ sc' = [w |-> checked.mode.w, h |-> checked.mode.h, format |-> checked.format]]_vars
  BY CommitStep
<1> QED
  BY <1>1, <1>2, PendingStep, PTL DEF Spec, CommitsWhatWasChecked

-----------------------------------------------------------------------------

\* The host's timing is claimed in the control register by modesets and released by blanking
\* alone: the heartbeat's timer does not touch it.
LEMMA CardTimerClaim ==
  ASSUME CardTimer(ctrl)
  PROVE  "HPS_TIMING" \in ctrl' <=> "HPS_TIMING" \in ctrl
  BY DEF CardTimer

\* Every step rewrites the overlay or leaves alone all it tells of.
LEMMA OverlayStep == OverlayTells /\ [Next]_vars => OverlayTells'
<1> SUFFICES ASSUME OverlayTells, [Next]_vars PROVE OverlayTells'
  OBVIOUS
<1>1. ASSUME Refresh PROVE OverlayTells'
  BY <1>1 DEF Refresh, OverlayTells, Overlay
<1>2. ASSUME UNCHANGED <<overlay, hostAttached, controllerEnabled, active>>,
             "HPS_TIMING" \in ctrl' <=> "HPS_TIMING" \in ctrl
      PROVE  OverlayTells'
  BY <1>2 DEF OverlayTells, Overlay
<1>3. CASE Tick \/ PressBind
  BY <1>2, <1>3 DEF Tick, PressBind, devVars, fabVars
<1>4. CASE Heartbeat
  BY <1>2, <1>4, CardTimerClaim DEF Heartbeat, devVars
<1>5. CASE Attach \/ Detach \/ PressUnbind
  BY <1>1, <1>5 DEF Attach, Detach, PressUnbind, OnHostGone
<1>6. ASSUME GetStatus \/ (\E q : Query(q)) \/ (\E result : OtherSet(result)) PROVE OverlayTells'
  BY <1>2, <1>6 DEF GetStatus, Query, OtherSet, devVars, fabVars
<1>7. ASSUME NEW m \in Modes, NEW f \in Formats, StateCheck(m, f) PROVE OverlayTells'
  BY <1>2, <1>7 DEF StateCheck, fabVars
<1>8. CASE Commit \/ CommitFails
  BY <1>1, <1>8 DEF Commit, CommitFails
<1>9. CASE CommitRefused
  BY <1>2, <1>9 DEF CommitRefused, devVars, fabVars
<1>10. ASSUME NEW on \in BOOLEAN, ControllerEnable(on) PROVE OverlayTells'
  BY <1>1, <1>10 DEF ControllerEnable
<1>11. ASSUME NEW x \in Rects, SetBuffer(x) PROVE OverlayTells'
  BY <1>2, <1>11 DEF SetBuffer, devVars, fabVars
<1>12. CASE Blit \/ UNCHANGED vars
  BY <1>2, <1>12 DEF Blit, vars, devVars, fabVars
<1> QED
  BY <1>3, <1>4, <1>5, <1>6, <1>7, <1>8, <1>9, <1>10, <1>11, <1>12 DEF Next

\* The overlay's account of the host and of whose timing runs is never out of date.
THEOREM OverlayIsTrue == Spec => []OverlayTells
<1>1. Init => OverlayTells
  BY DEF Init, OverlayTells, Overlay
<1> QED
  BY <1>1, OverlayStep, PTL DEF Spec

-----------------------------------------------------------------------------

\* The parts of the type invariant, as the steps disturb them.
HostType == udc \in BOOLEAN /\ disable \in BOOLEAN /\ pc \in {"poll", "attached", "beat"}
            /\ bound \in BOOLEAN /\ hostAttached \in BOOLEAN /\ controllerEnabled \in BOOLEAN
StateType == pending \in StateRec /\ active \in StateRec /\ parity \in {0, 1}
RasterType == latched \in {Panel} \cup Modes /\ clk \in {Panel} \cup Modes
CardType == idle \in {Unset} \cup 0..Delay /\ testcardShown \in BOOLEAN /\ ctrl \subseteq Bits
TimeType == offFor \in 0..Delay /\ fresh \in BOOLEAN
QueueType == inflight \in Seq(Rects) /\ Len(inflight) <= Pipeline
ToldType == /\ status \in {"ok", "error"} /\ changed \in BOOLEAN
            /\ overlay \in [usb : {"NO HOST", "ATTACHED", "STREAMING"},
                             timing : {"PANEL", "HOST", "HOST (STALE)"}]

\* A state with a mode names one that was offered to the device.
LEMMA StateOf ==
  ASSUME NEW x \in StateRec, x # None
  PROVE  x.mode \in Modes
  BY DEF StateRec, None

\* What the heartbeat does to the card is well typed.
LEMMA CardTimerType ==
  ASSUME CardType, CardTimer(ctrl)
  PROVE  CardType'
<1>1. ctrl' \in {ctrl, ctrl \ {"TESTCARD"}, ctrl \cup {"TESTCARD"}}
  BY DEF CardTimer
<1>2. idle' \in {idle, 0} /\ testcardShown' \in {testcardShown, TRUE, FALSE}
  BY DEF CardTimer
<1>3. 0 \in 0..Delay
  BY DeviceAssumption
<1> QED
  BY <1>1, <1>2, <1>3 DEF CardType, Bits

\* So is every text of the overlay.
LEMMA OverlayType ==
  ASSUME NEW a, NEW e, NEW c, NEW x
  PROVE  Overlay(a, e, c, x) \in [usb : {"NO HOST", "ATTACHED", "STREAMING"},
                                  timing : {"PANEL", "HOST", "HOST (STALE)"}]
  BY DEF Overlay

\* The queue of rects only ever loses from its ends or grows within its room.
LEMMA QueueStep ==
  ASSUME QueueType, [Next]_vars
  PROVE  QueueType'
<1> USE DEF QueueType
<1>0. Pipeline \in Nat
  BY DeviceAssumption
<1>1. ASSUME inflight' = inflight PROVE QueueType'
  BY <1>1
<1>2. CASE Detach
  <2>1. PICK k \in 0..Len(inflight) : inflight' = SubSeq(inflight, 1, k)
    BY <1>2 DEF Detach
  <2>2. inflight' \in Seq(Rects) /\ Len(inflight') = k
    BY <2>1
  <2> QED BY <1>0, <2>1, <2>2
<1>3. ASSUME NEW x \in Rects, SetBuffer(x) PROVE QueueType'
  <2>1. CASE Fits(x) /\ Room
    <3>1. inflight' = Append(inflight, x)
      BY <1>3, <2>1 DEF SetBuffer
    <3>2. Len(inflight) < Pipeline
      BY <2>1 DEF Room
    <3> QED BY <1>0, <3>1, <3>2
  <2>2. CASE ~(Fits(x) /\ Room)
    BY <1>1, <1>3, <2>2 DEF SetBuffer
  <2> QED BY <2>1, <2>2
<1>4. CASE Blit
  <2>1. inflight # <<>> /\ inflight' = Tail(inflight)
    BY <1>4 DEF Blit
  <2>2. inflight' \in Seq(Rects) /\ Len(inflight') = Len(inflight) - 1
    BY <2>1
  <2> QED BY <1>0, <2>2
<1>5. CASE Tick \/ Heartbeat \/ Attach \/ PressUnbind \/ PressBind
  BY <1>1, <1>5 DEF Tick, Heartbeat, Attach, PressUnbind, PressBind
<1>6. ASSUME GetStatus \/ (\E q : Query(q)) \/ (\E result : OtherSet(result)) PROVE QueueType'
  BY <1>1, <1>6 DEF GetStatus, Query, OtherSet
<1>7. ASSUME NEW m \in Modes, NEW f \in Formats, StateCheck(m, f) PROVE QueueType'
  BY <1>1, <1>7 DEF StateCheck
<1>8. CASE Commit \/ CommitFails \/ CommitRefused
  BY <1>1, <1>8 DEF Commit, CommitFails, CommitRefused
<1>9. ASSUME NEW on \in BOOLEAN, ControllerEnable(on) PROVE QueueType'
  BY <1>1, <1>9 DEF ControllerEnable
<1>10. CASE UNCHANGED vars
  BY <1>1, <1>10 DEF vars
<1> QED
  BY <1>2, <1>3, <1>4, <1>5, <1>6, <1>7, <1>8, <1>9, <1>10 DEF Next

\* Time, the card and the states.
LEMMA RestStep ==
  ASSUME HostType, StateType, RasterType, CardType, TimeType, ToldType, [Next]_vars
  PROVE  (HostType /\ StateType /\ RasterType /\ CardType /\ TimeType /\ ToldType)'
<1>0. Delay \in Nat \ {0}
  BY DeviceAssumption
<1>1. CASE Tick
  <2>1. CardType'
    <3>1. idle' = IF idle = Unset \/ idle = Delay THEN idle ELSE idle + 1
      BY <1>1 DEF Tick
    <3>2. idle' \in {Unset} \cup 0..Delay
      BY <1>0, <3>1 DEF CardType, Unset
    <3> QED BY <1>1, <3>2 DEF Tick, CardType, fabVars
  <2>2. TimeType'
    <3>1. offFor' = IF controllerEnabled THEN 0 ELSE IF offFor = Delay THEN Delay ELSE offFor + 1
      BY <1>1 DEF Tick
    <3>2. offFor' \in 0..Delay
      BY <1>0, <3>1 DEF TimeType
    <3> QED BY <1>1, <3>2 DEF Tick, TimeType
  <2>3. HostType'
    BY <1>1 DEF Tick, HostType, devVars
  <2>4. StateType' /\ RasterType'
    BY <1>1 DEF Tick, StateType, RasterType, devVars, fabVars
  <2>5. ToldType'
    BY <1>1 DEF Tick, ToldType, told
  <2> QED BY <2>1, <2>2, <2>3, <2>4, <2>5
<1>2. CASE Heartbeat
  <2>1. CardType'
    BY <1>2, CardTimerType DEF Heartbeat
  <2>2. HostType'
    BY <1>2 DEF Heartbeat, HostType, devVars
  <2>3. StateType' /\ RasterType'
    BY <1>2 DEF Heartbeat, StateType, RasterType, devVars
  <2>4. TimeType' /\ ToldType'
    BY <1>2 DEF Heartbeat, TimeType, ToldType, told
  <2> QED BY <2>1, <2>2, <2>3, <2>4
<1>3. CASE Attach
  <2>1. ToldType'
    BY <1>3, OverlayType DEF Attach, Refresh, ToldType, told
  <2> QED
    BY <1>3, <2>1 DEF Attach, HostType, StateType, RasterType, CardType, TimeType, cardVars, timeVars
<1>4. CASE Detach \/ PressUnbind
  <2> OnHostGone
    BY <1>4 DEF Detach, PressUnbind
  <2>1. ToldType'
    <3>1. Refresh /\ UNCHANGED told
      BY DEF OnHostGone
    <3> QED BY <3>1, OverlayType DEF Refresh, ToldType, told
  <2>2. CardType'
    BY <1>4 DEF Detach, PressUnbind, OnHostGone, FabricEnable, CardType, cardVars, Bits
  <2>3. StateType'
    BY <1>4 DEF Detach, PressUnbind, OnHostGone, ForgetAll, StateType, StateRec
  <2> QED
    BY <1>4, <2>1, <2>2, <2>3
    DEF Detach, PressUnbind, OnHostGone, HostType, RasterType, TimeType, timeVars
<1>5. CASE PressBind
  <2>1. HostType'
    BY <1>5 DEF PressBind, Request, HostType, devVars
  <2>2. StateType' /\ RasterType'
    BY <1>5 DEF PressBind, StateType, RasterType, devVars, fabVars
  <2>3. CardType'
    BY <1>5 DEF PressBind, CardType, cardVars, fabVars
  <2>4. TimeType'
    BY <1>5 DEF PressBind, TimeType, timeVars
  <2>5. ToldType'
    BY <1>5 DEF PressBind, ToldType, told
  <2> QED BY <2>1, <2>2, <2>3, <2>4, <2>5
<1>6. ASSUME GetStatus \/ (\E q : Query(q)) \/ (\E result \in {"ok", "error"} : OtherSet(result))
      PROVE  (HostType /\ StateType /\ RasterType /\ CardType /\ TimeType /\ ToldType)'
  <2>1. HostType'
    BY <1>6 DEF GetStatus, Query, OtherSet, Request, HostType, devVars
  <2>2. StateType' /\ RasterType'
    BY <1>6 DEF GetStatus, Query, OtherSet, StateType, RasterType, devVars, fabVars
  <2>3. CardType'
    BY <1>6 DEF GetStatus, Query, OtherSet, CardType, cardVars, fabVars
  <2>4. TimeType'
    BY <1>6 DEF GetStatus, Query, OtherSet, TimeType, timeVars
  <2>5. ToldType'
    BY <1>6 DEF GetStatus, Query, OtherSet, ToldType, told
  <2> QED BY <2>1, <2>2, <2>3, <2>4, <2>5
<1>7. ASSUME NEW m \in Modes, NEW f \in Formats, StateCheck(m, f)
      PROVE  (HostType /\ StateType /\ RasterType /\ CardType /\ TimeType /\ ToldType)'
  <2>1. active' = active /\ parity' = parity /\ pending' \in {State(m, f), None}
    BY <1>7 DEF StateCheck, Reject
  <2>2. StateType' /\ RasterType'
    BY <1>7, <2>1 DEF StateCheck, StateType, RasterType, StateRec, State, fabVars
  <2>3. HostType'
    BY <1>7 DEF StateCheck, Request, HostType
  <2>4. CardType' /\ TimeType'
    BY <1>7 DEF StateCheck, CardType, TimeType, cardVars, fabVars, timeVars
  <2>5. ToldType'
    BY <1>7 DEF StateCheck, ToldType
  <2> QED BY <2>2, <2>3, <2>4, <2>5
<1>8. CASE Commit
  <2>1. pending.mode \in Modes
    BY <1>8, StateOf DEF Commit, StateType
  <2>2. ToldType'
    BY <1>8, OverlayType DEF Commit, Refresh, ToldType
  <2>3. CardType'
    BY <1>8 DEF Commit, CardType, cardVars, Bits
  <2>4. StateType' /\ RasterType'
    BY <1>8, <2>1 DEF Commit, StateType, RasterType, StateRec
  <2> QED
    BY <1>8, <2>2, <2>3, <2>4 DEF Commit, Request, HostType, TimeType, timeVars
<1>9. CASE CommitFails
  <2>1. pending.mode \in Modes
    BY <1>9, StateOf DEF CommitFails, StateType
  <2>2. ToldType'
    BY <1>9, OverlayType DEF CommitFails, Refresh, ToldType
  <2>3. CardType' /\ latched' \in {latched, pending.mode}
    <3>1. CASE CardTimer(ctrl) /\ UNCHANGED <<sc, latched>>
      BY <3>1, CardTimerType
    <3>2. CASE UNCHANGED cardVars /\ ctrl' \in {ctrl, ctrl \cup {"HPS_TIMING"}}
               /\ latched' \in {latched, pending.mode}
      BY <3>2 DEF CardType, cardVars, Bits
    <3> QED BY <1>9, <3>1, <3>2 DEF CommitFails
  <2>4. StateType' /\ RasterType'
    BY <1>9, <2>1, <2>3 DEF CommitFails, StateType, RasterType, StateRec
  <2> QED
    BY <1>9, <2>2, <2>3, <2>4 DEF CommitFails, Request, HostType, TimeType, timeVars
<1>10. CASE CommitRefused
  <2>1. HostType'
    BY <1>10 DEF CommitRefused, Request, HostType, devVars
  <2>2. StateType' /\ RasterType'
    BY <1>10 DEF CommitRefused, StateType, RasterType, devVars, fabVars
  <2>3. CardType'
    BY <1>10 DEF CommitRefused, CardType, cardVars, fabVars
  <2>4. TimeType'
    BY <1>10 DEF CommitRefused, TimeType, timeVars
  <2>5. ToldType'
    BY <1>10 DEF CommitRefused, ToldType, told
  <2> QED BY <2>1, <2>2, <2>3, <2>4, <2>5
<1>11. ASSUME NEW on \in BOOLEAN, ControllerEnable(on)
       PROVE  (HostType /\ StateType /\ RasterType /\ CardType /\ TimeType /\ ToldType)'
  <2>1. ToldType'
    BY <1>11, OverlayType DEF ControllerEnable, Refresh, ToldType
  <2>2. CardType'
    BY <1>11 DEF ControllerEnable, FabricEnable, CardType, cardVars, Bits
  <2> QED
    BY <1>11, <2>1, <2>2 DEF ControllerEnable, Request, HostType, StateType, RasterType,
                             TimeType, timeVars
<1>12. ASSUME NEW x \in Rects, SetBuffer(x)
       PROVE  (HostType /\ StateType /\ RasterType /\ CardType /\ TimeType /\ ToldType)'
  <2>1. HostType'
    BY <1>12 DEF SetBuffer, Request, HostType, devVars
  <2>2. StateType' /\ RasterType'
    BY <1>12 DEF SetBuffer, StateType, RasterType, devVars, fabVars
  <2>3. CardType'
    BY <1>12 DEF SetBuffer, CardType, cardVars, fabVars
  <2>4. TimeType'
    BY <1>12 DEF SetBuffer, TimeType, timeVars
  <2>5. ToldType'
    BY <1>12 DEF SetBuffer, ToldType, told
  <2> QED BY <2>1, <2>2, <2>3, <2>4, <2>5
<1>13. CASE Blit
  <2>1. HostType'
    BY <1>13 DEF Blit, Request, HostType, devVars
  <2>2. StateType' /\ RasterType'
    BY <1>13 DEF Blit, StateType, RasterType, devVars, fabVars
  <2>3. CardType'
    BY <1>13 DEF Blit, CardType, cardVars, fabVars
  <2>4. TimeType'
    BY <1>13 DEF Blit, TimeType, timeVars
  <2>5. ToldType'
    BY <1>13 DEF Blit, ToldType, told
  <2> QED BY <2>1, <2>2, <2>3, <2>4, <2>5
<1>14. CASE UNCHANGED vars
  <2>1. HostType'
    BY <1>14 DEF vars, Request, HostType, devVars
  <2>2. StateType' /\ RasterType'
    BY <1>14 DEF vars, StateType, RasterType, devVars, fabVars
  <2>3. CardType'
    BY <1>14 DEF vars, CardType, cardVars, fabVars
  <2>4. TimeType'
    BY <1>14 DEF vars, TimeType, timeVars
  <2>5. ToldType'
    BY <1>14 DEF vars, ToldType, told
  <2> QED BY <2>1, <2>2, <2>3, <2>4, <2>5
<1> QED
  BY <1>1, <1>2, <1>3, <1>4, <1>5, <1>6, <1>7, <1>8, <1>9, <1>10, <1>11, <1>12, <1>13, <1>14
  DEF Next

\* The types of the device's state: in particular the rects under way never outgrow the pipeline and the
\* timer never outruns the delay.
THEOREM TypeCorrect == Spec => []TypeOK
<1> DEFINE Types == /\ HostType /\ StateType /\ RasterType /\ CardType /\ TimeType
                    /\ ToldType /\ QueueType
<1>1. Init => Types
  <2> SUFFICES ASSUME Init PROVE Types
    OBVIOUS
  <2>1. HostType /\ StateType /\ RasterType
    BY DEF Init, HostType, StateType, RasterType, StateRec
  <2>2. CardType
    BY DEF Init, CardType, FabricEnable, Bits
  <2>3. TimeType /\ QueueType
    BY DeviceAssumption DEF Init, TimeType, QueueType
  <2>4. ToldType
    BY OverlayType DEF Init, ToldType
  <2> QED BY <2>1, <2>2, <2>3, <2>4
<1>2. Types /\ [Next]_vars => Types'
  BY QueueStep, RestStep
<1>3. Types => TypeOK
  BY DEF TypeOK, HostType, StateType, RasterType, CardType, TimeType, ToldType, QueueType
<1> QED
  BY <1>1, <1>2, <1>3, PTL DEF Spec
=============================================================================
