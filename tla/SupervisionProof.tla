-------------------------- MODULE SupervisionProof --------------------------
(***************************************************************************)
(* Theorems about Supervision and the Watchdog under it: for any timeout   *)
(* longer than the daemon's period, any board and any number of deaths and *)
(* restarts.                                                               *)
(***************************************************************************)
EXTENDS Supervision, TLAPS

-----------------------------------------------------------------------------
(* The watchdog *)

Counts ==
  /\ hb_stale \in 0..HB_TIMEOUT /\ waited \in 0..Period
  /\ kills \in Nat /\ changes \in Nat
Flags ==
  /\ up \in BOOLEAN /\ echo \in BOOLEAN /\ written \in BOOLEAN /\ moved \in BOOLEAN
  /\ progressive \in BOOLEAN /\ hps_alive \in BOOLEAN

\* Before the first death no number can repeat, and while the daemon is thought alive
\* the field edges that saw the same number are fewer than the fields since its beat.
Alive == kills = 0 /\ hps_alive
First == kills = 0 => ~echo /\ (written \/ moved => up)
Ahead ==
  /\ Alive => up
  /\ Alive /\ ~moved => hb_stale < waited
DogInv == Counts /\ Flags /\ First /\ Ahead

LEMMA Bounds ==
  HB_TIMEOUT \in Nat /\ Period \in Nat /\ Period < HB_TIMEOUT /\ Kills \in Nat /\ Changes \in Nat
BY WatchdogAssumption DEF WatchdogAssumption

LEMMA DogInit == Init => DogInv
<1> SUFFICES ASSUME Init PROVE DogInv
  OBVIOUS
<1>1. Counts
  BY Bounds DEF Init, Counts
<1>2. Flags /\ First /\ Ahead
  BY Zenon DEF Init, Flags, First, Ahead, Alive
<1> QED
  BY <1>1, <1>2 DEF DogInv

LEMMA BeatStep == DogInv /\ Beat => DogInv'
<1> SUFFICES ASSUME Counts, Flags, First, Ahead, Beat PROVE DogInv'
  BY DEF DogInv
<1>1. Counts'
  BY Bounds DEF Counts, Beat, dog
<1>2. Flags'
  BY Zenon DEF Flags, Beat, dog
<1>3. First'
  BY Zenon DEF First, Beat, dog
<1>4. Ahead'
  <2>1. kills = 0 => moved'
    BY Zenon DEF First, Beat
  <2> QED
    BY <2>1, Zenon DEF Ahead, Alive, Beat, dog
<1> QED
  BY <1>1, <1>2, <1>3, <1>4, Zenon DEF DogInv

LEMMA StartStep == DogInv /\ Start => DogInv'
<1> SUFFICES ASSUME Counts, Flags, First, Ahead, Start PROVE DogInv'
  BY DEF DogInv
<1>1. Counts'
  BY Bounds DEF Counts, Start, dog
<1>2. Flags' /\ First'
  BY Zenon DEF Flags, First, Start, dog
<1>3. Ahead'
  BY Zenon DEF Ahead, Alive, Start, dog
<1> QED
  BY <1>1, <1>2, <1>3, Zenon DEF DogInv

LEMMA DieStep == DogInv /\ Die => DogInv'
<1> SUFFICES ASSUME Counts, Flags, First, Ahead, Die PROVE DogInv'
  BY DEF DogInv
<1>1. Counts' /\ kills' # 0
  BY Bounds DEF Counts, Die, dog
<1>2. Flags'
  BY Zenon DEF Flags, Die, dog
<1>3. First' /\ Ahead'
  BY <1>1, Zenon DEF First, Ahead, Alive
<1> QED
  BY <1>1, <1>2, <1>3, Zenon DEF DogInv

\* One more field since the beat, one more edge with the same number at the most.
Edge ==
  /\ Passes /\ (UNCHANGED <<moved, dog>> \/ FieldEdge)
  /\ UNCHANGED <<up, echo, kills, written>>
  /\ progressive' \in BOOLEAN /\ changes' \in Nat
LEMMA EdgeStep == DogInv /\ Edge => DogInv'
<1> SUFFICES ASSUME Counts, Flags, First, Ahead, Edge PROVE DogInv'
  BY DEF DogInv
<1>1. /\ progressive' \in BOOLEAN /\ changes' \in Nat
      /\ kills' = kills /\ up' = up /\ echo' = echo /\ written' = written
      /\ up => waited < Period /\ waited' = waited + 1
      /\ ~up => waited' = waited
  BY DEF Edge, Passes
<1>2. \/ moved' = moved /\ hb_stale' = hb_stale /\ hps_alive' = hps_alive
      \/ FieldEdge
  BY DEF Edge, dog
<1>3. ASSUME FieldEdge
      PROVE  /\ moved' = FALSE /\ hps_alive' \in BOOLEAN
             /\ moved => hb_stale' = 0
             /\ ~moved => \/ hb_stale < HB_TIMEOUT /\ hb_stale' = hb_stale + 1 /\ hps_alive' = hps_alive
                          \/ hb_stale' = hb_stale /\ hps_alive' = FALSE
             /\ moved => hps_alive' = TRUE
  <2>1. CASE moved
    BY <1>3, <2>1 DEF FieldEdge
  <2>2. CASE ~moved
    BY <1>3, <2>2, Zenon DEF FieldEdge, Waste, Expire, Flags
  <2> QED
    BY <1>3, <2>1, <2>2 DEF FieldEdge
<1>4. waited' \in 0..Period
  BY Bounds, <1>1 DEF Counts, Flags
<1>5. hb_stale' \in 0..HB_TIMEOUT
  <2>1. hb_stale \in 0..HB_TIMEOUT
    BY DEF Counts
  <2>2. \/ hb_stale' \in {0, hb_stale}
        \/ hb_stale < HB_TIMEOUT /\ hb_stale' = hb_stale + 1
    BY <1>2, <1>3
  <2> QED
    BY <2>1, <2>2, Bounds
<1>6. Counts'
  BY <1>1, <1>4, <1>5 DEF Counts
<1>7. Flags'
  BY <1>1, <1>2, <1>3, Zenon DEF Flags
<1>8. First'
  <2>1. moved' => moved
    <3>1. CASE moved' = moved
      BY <3>1
    <3>2. CASE FieldEdge
      BY <1>3, <3>2
    <3> QED
      BY <1>2, <3>1, <3>2
  <2> QED
    BY <1>1, <2>1, Zenon DEF First
<1>9. Alive' => Alive \/ (kills = 0 /\ moved)
  BY <1>1, <1>2, <1>3, Zenon DEF Alive, Flags
<1>10. Alive' => up
  BY <1>9, Zenon DEF First, Ahead, Alive
<1>11. Alive' /\ ~moved' => hb_stale' < waited'
  <2> SUFFICES ASSUME Alive', ~moved' PROVE hb_stale' < waited'
    OBVIOUS
  <2>1. waited' = waited + 1 /\ waited \in Nat
    BY <1>1, <1>10 DEF Counts
  <2>2. CASE moved
    <3>1. moved' # moved
      BY <2>2
    <3>2. hb_stale' = 0
      BY <1>2, <1>3, <2>2, <3>1
    <3> QED
      BY <2>1, <3>2
  <2>3. CASE ~moved
    <3>1. hb_stale < waited /\ hb_stale \in Nat
      BY <1>9, <2>3 DEF Ahead, Counts
    <3>2. hb_stale' \in {hb_stale, hb_stale + 1}
      BY <1>2, <1>3, <2>3
    <3> QED
      BY <2>1, <3>1, <3>2
  <2> QED
    BY <2>2, <2>3
<1>12. Ahead'
  BY <1>1, <1>10, <1>11, Zenon DEF Ahead
<1> QED
  BY <1>6, <1>7, <1>8, <1>12, Zenon DEF DogInv

LEMMA FieldStep == DogInv /\ Field => DogInv'
<1> SUFFICES ASSUME DogInv, Field PROVE DogInv'
  OBVIOUS
<1>1. progressive' \in BOOLEAN /\ changes' \in Nat
  BY DEF Field, DogInv, Counts, Flags
<1>2. Edge
  BY <1>1, Zenon DEF Field, Edge
<1> QED
  BY <1>2, EdgeStep

LEMMA ResetStep == DogInv /\ VideoReset => DogInv'
<1> SUFFICES ASSUME Counts, Flags, First, Ahead, VideoReset PROVE DogInv'
  BY DEF DogInv
<1>1. Counts'
  BY Bounds DEF Counts, VideoReset, daemon
<1>2. Flags' /\ First' /\ Ahead'
  BY Zenon DEF Flags, First, Ahead, Alive, VideoReset, daemon
<1> QED
  BY <1>1, <1>2, Zenon DEF DogInv

LEMMA RetimeStep == DogInv /\ Retime => DogInv'
<1> SUFFICES ASSUME DogInv, Retime PROVE DogInv'
  OBVIOUS
<1>1. UNCHANGED <<up, echo, kills, written>> /\ progressive' \in BOOLEAN /\ changes' = changes + 1
  BY DEF Retime
<1>2. changes' \in Nat
  BY <1>1 DEF DogInv, Counts
<1>3. CASE UNCHANGED <<waited, moved, dog>>
  <2>1. Counts'
    BY <1>1, <1>2, <1>3 DEF DogInv, Counts, dog
  <2>2. Flags' /\ First' /\ Ahead'
    BY <1>1, <1>3, Zenon DEF DogInv, Flags, First, Ahead, Alive, dog
  <2> QED
    BY <2>1, <2>2, Zenon DEF DogInv
<1>4. CASE Passes /\ FieldEdge
  BY <1>1, <1>2, <1>4, EdgeStep DEF Edge
<1> QED
  BY <1>3, <1>4 DEF Retime

LEMMA DogStep == DogInv /\ [Next]_vars => DogInv'
<1> SUFFICES ASSUME DogInv, [Next]_vars PROVE DogInv'
  OBVIOUS
<1>1. CASE UNCHANGED vars
  BY <1>1, Zenon DEF vars, daemon, dog, DogInv, Counts, Flags, First, Ahead, Alive
<1> QED
  BY <1>1, BeatStep, StartStep, DieStep, FieldStep, ResetStep, RetimeStep DEF Next

LEMMA AlarmStep ==
  DogInv /\ [Next]_vars => (hps_alive /\ ~hps_alive' /\ kills = 0 => VideoReset)
<1> SUFFICES ASSUME DogInv, [Next]_vars, hps_alive, ~hps_alive', kills = 0
             PROVE  VideoReset
  OBVIOUS
<1>1. ASSUME FieldEdge PROVE FALSE
  <2>1. moved \/ hb_stale < waited
    BY DEF DogInv, Ahead, Alive
  <2>2. hb_stale \in 0..HB_TIMEOUT /\ waited \in 0..Period
    BY DEF DogInv, Counts
  <2>3. moved \/ hb_stale # HB_TIMEOUT
    BY <2>1, <2>2, Bounds
  <2> QED
    BY <1>1, <2>3 DEF FieldEdge, Waste, Expire
<1>2. CASE Beat \/ Start \/ Die \/ UNCHANGED vars
  BY <1>2 DEF Beat, Start, Die, vars, dog
<1>3. CASE Field \/ Retime
  BY <1>1, <1>3 DEF Field, Retime, dog
<1> QED
  BY <1>2, <1>3 DEF Next

-----------------------------------------------------------------------------
(* The processes above it *)

LEMMA InitLeavesDog ==
  ASSUME \/ InitSteps \/ ScriptEnds \/ ShellExit \/ ByHand
  PROVE  UNCHANGED vars
BY DEF InitSteps, Mount, Stage, Launch, Shell, ScriptEnds, ShellExit, ByHand

LEMMA MainOnDog ==
  ASSUME MainSteps \/ Reader \/ Stop \/ Close \/ Crash
  PROVE  Start \/ Die \/ UNCHANGED vars
<1>1. CASE Open \/ GadgetStep \/ GadgetOpen \/ GadgetFails \/ Join \/ Reader
  BY <1>1 DEF Open, GadgetStep, GadgetOpen, GadgetFails, Join, Reader
<1>2. CASE Prepare \/ Unwind \/ Signals \/ Close
  BY <1>2 DEF Prepare, Unwind, Signals, Close, Exit, Enter
<1>3. CASE Stop \/ Crash
  BY <1>3 DEF Stop, Crash
<1> QED
  BY <1>1, <1>2, <1>3 DEF MainSteps

\* Init, the daemon and the shell move the watchdog by its own steps only.
LEMMA BootOnDog == [BootNext]_all => [Next]_vars
<1> SUFFICES ASSUME [BootNext]_all PROVE [Next]_vars
  OBVIOUS
<1>1. CASE Dog
  BY <1>1 DEF Dog, Next
<1>2. CASE UNCHANGED all
  BY <1>2 DEF all
<1> QED
  BY <1>1, <1>2, InitLeavesDog, MainOnDog DEF BootNext, Next

\* The supervised system is the watchdog's: each of its steps is one of the watchdog's
\* or leaves it alone, so whatever holds of any daemon's beats holds of this one's.
THEOREM BootRefinesWatchdog == BootSpec => Spec
<1>1. BootInit => Init
  BY DEF BootInit
<1> QED
  BY <1>1, BootOnDog, PTL DEF BootSpec, Spec

LEMMA DogAlways == Spec => []DogInv
BY DogInit, DogStep, PTL DEF Spec

\* No false alarm (blitscrt_regs.v:808-818): a daemon that has not died is never called
\* down, short of a reset of the video side, for any timeout longer than its period.
THEOREM NeverFalse == BootSpec => NoFalseAlarm
BY BootRefinesWatchdog, DogAlways, AlarmStep, PTL DEF Spec, NoFalseAlarm

-----------------------------------------------------------------------------
(* The gadget *)

Leaving == {"join", "unwind", "signals", "run", "close"}

\* How far the opening has come: what is bound has been described, and by a daemon that
\* was started with a gadget.
Opening ==
  /\ dpc \in {"none", "open", "prepare", "gadget"} \cup Leaving
  /\ described \in BOOLEAN /\ bound \in BOOLEAN /\ gadget \in BOOLEAN
  /\ dpc \in {"none", "open", "prepare"} => step = 1 /\ ~bound /\ ~described
  /\ dpc = "gadget" => gadget
  /\ bound => described /\ gadget
OpenInv ==
  /\ Opening /\ step \in 1..7
  /\ dpc = "gadget" /\ step > 3 => described
  /\ dpc = "gadget" /\ step <= 5 => ~bound

LEMMA Steps ==
  \A n \in 1..7 : /\ OpenSteps[n] = "describe" <=> n = 3
                  /\ OpenSteps[n] = "bind" <=> n = 5
                  /\ OpenSteps[n] = "blit" <=> n = 7
BY DEF OpenSteps

LEMMA OpenInitially == BootInit => OpenInv
<1> SUFFICES ASSUME BootInit PROVE OpenInv
  OBVIOUS
<1>1. dpc = "none" /\ step = 1 /\ ~bound /\ ~described /\ ~gadget
  BY Zenon DEF BootInit, NoProcess
<1>2. Opening
  <2>1. bound \in BOOLEAN /\ described \in BOOLEAN /\ gadget \in BOOLEAN
    BY Zenon DEF BootInit, NoProcess
  <2> QED
    BY <1>1, <2>1, Zenon DEF Opening
<1> QED
  BY <1>1, <1>2 DEF OpenInv

LEMMA OpenGone == Gone => OpenInv'
<1> SUFFICES ASSUME Gone PROVE OpenInv'
  OBVIOUS
<1>1. dpc' = "none" /\ step' = 1 /\ ~bound' /\ ~described' /\ ~gadget'
  BY Zenon DEF Gone
<1>2. Opening'
  <2>1. bound' \in BOOLEAN /\ described' \in BOOLEAN /\ gadget' \in BOOLEAN
    BY Zenon DEF Gone
  <2> QED
    BY <1>1, <2>1, Zenon DEF Opening
<1> QED
  BY <1>1, <1>2 DEF OpenInv

LEMMA GadgetStepKeeps == OpenInv /\ GadgetStep => OpenInv'
<1> SUFFICES ASSUME OpenInv, GadgetStep PROVE OpenInv'
  OBVIOUS
<1>1. dpc = "gadget" /\ dpc' = "gadget" /\ gadget /\ gadget' = gadget /\ step' = step + 1
  BY DEF GadgetStep, OpenInv, Opening
<1>2. step \in 1..7 /\ step # 7
  BY Steps DEF GadgetStep, OpenInv, Now
<1>3. described' = (described \/ step = 3)
  BY Steps, <1>2, Zenon DEF GadgetStep, Now
<1>4. /\ step # 5 => bound' = bound
      /\ bound' \in BOOLEAN
  <2>1. CASE step = 5
    BY Steps, <1>2, <2>1, Zenon DEF GadgetStep, Now
  <2>2. CASE step # 5
    BY Steps, <1>2, <2>2, Zenon DEF GadgetStep, Now, OpenInv, Opening
  <2> QED
    BY <2>1, <2>2
<1>5. step' \in 1..7
  BY <1>1, <1>2
<1>6. step' > 3 => step > 3 \/ step = 3
  BY <1>1, <1>2
<1>7. step' > 3 => described'
  BY <1>1, <1>3, <1>6, Zenon DEF OpenInv
<1>8. step' <= 5 => step <= 5 /\ step # 5
  BY <1>1, <1>2
<1>9. step' <= 5 => ~bound'
  BY <1>1, <1>4, <1>8, Zenon DEF OpenInv
<1>10. bound' => described'
  <2>1. step > 3 \/ step' <= 5
    BY <1>1, <1>2
  <2> QED
    BY <1>1, <1>3, <1>9, <2>1, Zenon DEF OpenInv
<1>11. Opening'
  <2>1. described' \in BOOLEAN
    BY <1>3
  <2> QED
    BY <1>1, <1>4, <1>10, <2>1, Zenon DEF OpenInv, Opening
<1> QED
  BY <1>1, <1>5, <1>7, <1>9, <1>11, Zenon DEF OpenInv

\* Until init has launched the daemon there is none.
Booting == {"mount", "stage", "script", "launch"}
InitInv ==
  /\ ep0 \in BOOLEAN
  /\ ipc \in Booting => dpc = "none"

LEMMA InitInvStep == InitInv /\ [BootNext]_all => InitInv'
<1> SUFFICES ASSUME InitInv, [BootNext]_all PROVE InitInv'
  OBVIOUS
<1>1. CASE UNCHANGED all \/ Dog
  BY <1>1 DEF all, Dog, init, process, InitInv
<1>2. CASE Mount \/ Stage \/ ScriptEnds \/ Shell \/ ShellExit
  BY <1>2 DEF Mount, Stage, ScriptEnds, Shell, ShellExit, process, InitInv, Booting
<1>3. CASE Launch \/ ByHand
  BY <1>3 DEF Launch, ByHand, init, InitInv, Booting
<1>4. ASSUME UNCHANGED init, dpc # "none" \/ dpc' = dpc PROVE InitInv'
  BY <1>4 DEF init, InitInv
<1>5. CASE Open \/ GadgetStep \/ GadgetOpen \/ GadgetFails \/ Join \/ Signals \/ Reader
  BY <1>4, <1>5 DEF Open, GadgetStep, GadgetOpen, GadgetFails, Join, Signals, Reader
<1>6. CASE Prepare \/ Unwind \/ Stop \/ Close \/ Crash
  BY <1>4, <1>6 DEF Prepare, Unwind, Stop, Close, Crash, Exit
<1> QED
  BY <1>1, <1>2, <1>3, <1>5, <1>6 DEF BootNext, InitSteps, MainSteps

LEMMA InitKeeps == InitInv /\ OpenInv /\ (InitSteps \/ ScriptEnds \/ ShellExit \/ ByHand) => OpenInv'
<1> SUFFICES ASSUME InitInv, OpenInv, InitSteps \/ ScriptEnds \/ ShellExit \/ ByHand PROVE OpenInv'
  OBVIOUS
<1>1. CASE UNCHANGED process
  BY <1>1 DEF process, usb, threads, OpenInv, Opening
<1>2. ASSUME NEW with \in BOOLEAN, dpc = "none", Exec(with) PROVE OpenInv'
  <2>1. dpc' = "open" /\ gadget' = with
    BY <1>2 DEF Exec
  <2>2. step' = step /\ described' = described /\ bound' = bound
    BY <1>2 DEF Exec, usb
  <2>3. step = 1 /\ ~bound /\ ~described
    BY <1>2 DEF OpenInv, Opening
  <2>4. Opening'
    BY <1>2, <2>1, <2>2, <2>3, Zenon DEF OpenInv, Opening
  <2> QED
    BY <2>1, <2>2, <2>3, <2>4 DEF OpenInv
<1>3. CASE Launch
  BY <1>1, <1>2, <1>3 DEF Launch, InitInv, Booting
<1>4. CASE ByHand
  BY <1>2, <1>4 DEF ByHand
<1> QED
  BY <1>1, <1>3, <1>4 DEF InitSteps, Mount, Stage, Shell, ScriptEnds, ShellExit

LEMMA MainKeeps ==
  OpenInv /\ (MainSteps \/ Reader \/ Stop \/ Close \/ Crash) => OpenInv'
<1> SUFFICES ASSUME OpenInv, MainSteps \/ Reader \/ Stop \/ Close \/ Crash PROVE OpenInv'
  OBVIOUS
<1>0. ASSUME UNCHANGED <<gadget, step, described, bound>>,
             \/ dpc = "open" /\ dpc' = "prepare"
             \/ dpc = "prepare" /\ dpc' = "gadget" /\ gadget
             \/ dpc' \in Leaving
             \/ dpc' = dpc
      PROVE  OpenInv'
  <2>1. Opening'
    BY <1>0, Zenon DEF OpenInv, Opening, Leaving
  <2>2. step' = step /\ described' = described /\ bound' = bound
    BY <1>0
  <2>3. dpc' = "gadget" => (dpc = "gadget" \/ (step = 1 /\ ~bound))
    BY <1>0 DEF OpenInv, Opening, Leaving
  <2>4. step' \in 1..7
    BY <2>2 DEF OpenInv
  <2>5. step = 1 => ~(step > 3)
    OBVIOUS
  <2> QED
    BY <2>1, <2>2, <2>3, <2>4, <2>5, Zenon DEF OpenInv
<1>1. CASE Open \/ GadgetOpen \/ GadgetFails \/ Join \/ Reader \/ Signals
  BY <1>0, <1>1 DEF Open, GadgetOpen, GadgetFails, Join, Reader, Signals, Enter, usb, threads, Leaving
<1>2. CASE Prepare
  BY <1>0, <1>2, OpenGone DEF Prepare, Exit, Enter, usb, threads, Leaving
<1>3. CASE Stop
  BY <1>0, <1>3, OpenGone DEF Stop, usb, threads, Leaving
<1>4. CASE Unwind \/ Close \/ Crash
  BY <1>4, OpenGone DEF Unwind, Close, Crash, Exit
<1> QED
  BY <1>1, <1>2, <1>3, <1>4, GadgetStepKeeps DEF MainSteps

LEMMA OpenStep == InitInv /\ OpenInv /\ [BootNext]_all => OpenInv'
<1> SUFFICES ASSUME InitInv, OpenInv, [BootNext]_all PROVE OpenInv'
  OBVIOUS
<1>1. CASE Dog \/ UNCHANGED all
  BY <1>1 DEF Dog, all, process, usb, threads, OpenInv, Opening
<1> QED
  BY <1>1, InitKeeps, MainKeeps DEF BootNext

\* A host is never offered a gadget with nothing behind it (gadget.c:820-828): what is
\* bound has its descriptors and a process that opened it, on every way in and out.
THEOREM NeverBoundBare == BootSpec => []BoundBacked
<1>1. OpenInv => BoundBacked
  BY DEF OpenInv, Opening, BoundBacked
<1>2. BootInit => InitInv
  BY DEF BootInit, NoProcess, InitInv
<1> QED
  BY <1>1, <1>2, OpenInitially, OpenStep, InitInvStep, PTL DEF BootSpec

-----------------------------------------------------------------------------
(* Types *)

InitType ==
  /\ board \in Boards /\ sweep \in 0..Sweeps
  /\ ipc \in {"mount", "stage", "script", "launch", "shell", "child", "pause"}
ThreadType ==
  /\ fab \in BOOLEAN /\ running \in BOOLEAN /\ between \in BOOLEAN
  /\ reader \in {"none", "check", "checked", "asleep", "ended"}

LEMMA InitTypeStep == InitType /\ [BootNext]_all => InitType'
<1> SUFFICES ASSUME InitType, [BootNext]_all PROVE InitType'
  OBVIOUS
<1>1. CASE UNCHANGED init
  BY <1>1 DEF init, InitType
<1>2. CASE Mount
  <2>1. Sweeps \in Nat
    BY SupervisionAssumption DEF SupervisionAssumption
  <2> QED
    BY <1>2, <2>1 DEF Mount, Last, InitType
<1>3. CASE Stage \/ ScriptEnds \/ Launch \/ Shell \/ ShellExit
  BY <1>3 DEF Stage, ScriptEnds, Launch, Shell, ShellExit, InitType
<1>4. CASE MainSteps
  BY <1>1, <1>4 DEF MainSteps, Open, Prepare, Exit, GadgetStep, GadgetOpen, GadgetFails, Join,
     Unwind, Signals
<1>5. CASE ByHand \/ Reader \/ Stop \/ Close \/ Crash \/ Dog \/ UNCHANGED all
  BY <1>1, <1>5 DEF ByHand, Reader, Stop, Close, Crash, Exit, Dog, all
<1> QED
  BY <1>2, <1>3, <1>4, <1>5 DEF BootNext, InitSteps

LEMMA ThreadTypeStep == InitType /\ ThreadType /\ [BootNext]_all => ThreadType'
<1> SUFFICES ASSUME InitType, ThreadType, [BootNext]_all PROVE ThreadType'
  OBVIOUS
<1>1. CASE UNCHANGED <<fab, threads>>
  BY <1>1, Zenon DEF threads, ThreadType
<1>2. CASE Gone
  BY <1>2 DEF Gone, ThreadType
<1>3. CASE Open
  <2>1. board.core \in BOOLEAN
    BY SupervisionAssumption DEF SupervisionAssumption, InitType
  <2>2. fab' \in BOOLEAN
    BY <1>3, <2>1 DEF Open
  <2> QED
    BY <1>3, <2>2, Zenon DEF Open, threads, ThreadType
<1>4. CASE GadgetStep
  <2>1. fab' = fab /\ between' = between
    BY <1>4 DEF GadgetStep
  <2>2. running' \in BOOLEAN
    BY <1>4 DEF GadgetStep
  <2>3. reader' \in {reader, "check"}
    BY <1>4 DEF GadgetStep
  <2> QED
    BY <2>1, <2>2, <2>3 DEF ThreadType
<1>5. CASE GadgetFails
  <2>1. CASE Now = "blit"
    BY <1>5, <2>1 DEF GadgetFails, Broadcast, ThreadType
  <2>2. CASE Now # "blit"
    BY <1>1, <1>5, <2>2 DEF GadgetFails
  <2> QED
    BY <2>1, <2>2
<1>6. CASE Reader
  BY <1>6 DEF Reader, ThreadType
<1>7. CASE Prepare \/ Unwind \/ Stop \/ Close \/ Crash
  BY <1>1, <1>2, <1>7 DEF Prepare, Unwind, Stop, Close, Crash, Exit
<1>8. CASE GadgetOpen \/ Join \/ Signals
  BY <1>1, <1>8 DEF GadgetOpen, Join, Signals
<1>9. CASE InitSteps \/ ScriptEnds \/ ShellExit \/ ByHand \/ Dog \/ UNCHANGED all
  BY <1>1, <1>9 DEF InitSteps, Mount, Stage, Launch, Shell, ScriptEnds, ShellExit, ByHand, Exec, Dog,
     all, process
<1> QED
  BY <1>3, <1>4, <1>5, <1>6, <1>7, <1>8, <1>9 DEF BootNext, MainSteps

\* The types of the watchdog, of init and of the daemon's start.
THEOREM TypeCorrect == BootSpec => [](TypeOK /\ BootTypeOK)
<1>1. DogInv => TypeOK
  BY DEF DogInv, Counts, Flags, TypeOK
<1>2. InitType /\ ThreadType /\ InitInv /\ OpenInv => BootTypeOK
  <2>1. Len(OpenSteps) = 7
    BY DEF OpenSteps
  <2> QED
    BY <2>1 DEF InitType, ThreadType, InitInv, OpenInv, Opening, Leaving, BootTypeOK
<1>3. BootInit => InitType /\ ThreadType /\ InitInv
  <2>1. Sweeps \in Nat
    BY SupervisionAssumption DEF SupervisionAssumption
  <2>2. 0 \in 0..Sweeps
    BY <2>1
  <2>3. BootInit => ThreadType /\ InitInv
    BY Zenon DEF BootInit, NoProcess, ThreadType, InitInv
  <2>4. BootInit => InitType
    BY <2>2, Zenon DEF BootInit, InitType
  <2> QED
    BY <2>3, <2>4
<1> QED
  BY <1>1, <1>2, <1>3, BootRefinesWatchdog, DogAlways, OpenInitially, OpenStep, InitInvStep,
     InitTypeStep, ThreadTypeStep, PTL DEF BootSpec
=============================================================================
