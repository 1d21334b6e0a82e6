---------------------------- MODULE ModeSetProof ----------------------------
(***************************************************************************)
(* Theorems of ModeSet, for any set of modes.                              *)
(*                                                                         *)
(* OkOnItsClock holds of any PLL.  The other two need one that loses lock  *)
(* whenever its counters change: the lock resets the acknowledge, and the  *)
(* blanked line after it brings the two toggles together, so that nothing  *)
(* is pending from the moment the new clock is up until APPLY.             *)
(***************************************************************************)
EXTENDS ModeSet, TLAPS

Staging == {"base", "geom", "stride", "format", "apply"}
Tuned == Staging \cup {"claim", "confirm"}

\* Past the wait the clock is up and is the mode's.
ClockInv ==
  /\ pll \in {"locked", "starting", "unlocked"}
  /\ pc = "wait" \/ pc \in Tuned => want = mode.clk
  /\ pc \in Tuned => pll = "locked"
  /\ pll = "locked" => clk = want

\* A staged group's write is one of the daemon's steps before the claim.
LEMMA WriteSteps ==
  ASSUME NEW g \in Staged, Write(g)
  PROVE  /\ pc = g
         /\ pc' \in {"v", "start", "geom", "stride", "format", "apply"}
         /\ pc' = IF g = "h" THEN "v" ELSE IF g = "v" THEN "start"
                  ELSE IF g = "base" THEN "geom" ELSE IF g = "geom" THEN "stride"
                  ELSE IF g = "stride" THEN "format" ELSE "apply"
  BY DEF Write, After, Staged, Timing, Scanout

\* Every step keeps the clock invariant.
LEMMA ClockStep == ClockInv /\ [Next]_vars => ClockInv'
<1> SUFFICES ASSUME ClockInv, [Next]_vars PROVE ClockInv'
  OBVIOUS
<1> USE DEF ClockInv, Tuned, Staging
<1>1. CASE Latch \/ Release
  BY <1>1 DEF Latch, Release, daemon
<1>2. CASE Drop
  BY <1>2 DEF Drop, daemon
<1>3. CASE Relock
  BY <1>3 DEF Relock, daemon
<1>4. CASE Retune
  BY <1>4 DEF Retune, daemon
<1>5. ASSUME NEW g \in Staged, Write(g) PROVE ClockInv'
  <2>1. UNCHANGED <<mode, pll, want, clk>>
    BY <1>5 DEF Write
  <2> QED
    BY <1>5, <2>1, WriteSteps DEF Staged, Timing, Scanout
<1>6. CASE StartPll
  BY <1>6 DEF StartPll
<1>7. CASE PllReady
  BY <1>7 DEF PllReady, Settled
<1>8. CASE PllDeadline \/ NoWindow \/ Confirm \/ ConfirmDeadline
  BY <1>8 DEF PllDeadline, NoWindow, Confirm, ConfirmDeadline, Return
<1>9. CASE Apply \/ Claim
  BY <1>9 DEF Apply, Claim, After
<1>10. ASSUME NEW m \in Modes, Begin(m) PROVE ClockInv'
  BY <1>10 DEF Begin
<1>11. CASE UNCHANGED vars
  BY <1>11 DEF vars, daemon
<1> QED
  BY <1>1, <1>2, <1>3, <1>4, <1>5, <1>6, <1>7, <1>8, <1>9, <1>10, <1>11 DEF Next, Hardware, SetMode

\* A modeset reported as done runs on its own clock, with the clock up, whether or
\* not the PLL loses lock on the way.
THEOREM DoneOnItsClock == Spec => OkOnItsClock
<1>1. Init => ClockInv
  BY DEF Init, ClockInv, Tuned, Staging
<1>2. ClockInv /\ [Next]_vars
        => [pc = "confirm" /\ ret' = "ok" => pll = "locked" /\ clk = mode.clk]_vars
  BY DEF ClockInv, Tuned, Staging
<1> QED
  BY <1>1, <1>2, ClockStep, PTL DEF Spec, OkOnItsClock

-----------------------------------------------------------------------------

\* What the daemon has staged of its mode when it stands at p.
Done(p) ==
  CASE p = "v" -> {"h"}
    [] p \in {"start", "wait", "base"} -> {"h", "v"}
    [] p = "geom" -> {"h", "v", "base"}
    [] p = "stride" -> {"h", "v", "base", "geom"}
    [] p = "format" -> {"h", "v", "base", "geom", "stride"}
    [] p \in {"apply", "claim", "confirm"} -> Staged
    [] OTHER -> {}

HalfStaged == {"geom", "stride", "format"}

\* The shape of the staged registers.
StageType ==
  /\ mode \in Modes \cup {Default}
  /\ DOMAIN stage = Staged
\* What is staged is the mode's so far, and whole outside the scanout writes.
StageInv ==
  /\ \A g \in Done(pc) : stage[g] = mode[g]
  /\ pc \notin HalfStaged => ~Torn(stage)

\* The toggles: apart only while a mode waits for its vblank.
ToggleInv ==
  /\ req \in BOOLEAN /\ ack \in BOOLEAN
  /\ pc \in Staging => req = ack
  /\ pc = "wait" /\ pll = "locked" => req = ack

\* After APPLY the mode is on the raster or its request is pending.
TakenInv ==
  /\ pc \in {"claim", "confirm"} /\ req = ack => \A g \in Staged : latched[g] = mode[g]
  /\ pc = "confirm" => claim
  /\ ret # "not taken"

SetInv == ClockInv /\ StageType /\ StageInv /\ ToggleInv /\ ScanoutTogether /\ TakenInv

\* A set that agrees with one mode on the scanout groups is not torn.
LEMMA WholeNotTorn ==
  ASSUME NEW t, NEW m \in Modes \cup {Default}, \A g \in Scanout : t[g] = m[g]
  PROVE  ~Torn(t)
  BY DEF Torn

\* Every step keeps the staged registers in step with the daemon.
LEMMA StageStep == StageType /\ StageInv /\ [Next]_vars => StageType' /\ StageInv'
<1> SUFFICES ASSUME StageType, StageInv, [Next]_vars PROVE StageType' /\ StageInv'
  OBVIOUS
<1>1. ASSUME UNCHANGED <<mode, stage>>, Done(pc') \subseteq Done(pc),
             pc' \in HalfStaged => pc \in HalfStaged, pc \in HalfStaged => pc' \in HalfStaged
      PROVE  StageType' /\ StageInv'
  BY <1>1 DEF StageType, StageInv, Torn
<1>2. ASSUME NEW g \in Staged, Write(g) PROVE StageType' /\ StageInv'
  <2>1. stage' = [stage EXCEPT ![g] = mode[g]] /\ mode' = mode
    BY <1>2 DEF Write
  <2>2. StageType'
    BY <2>1 DEF StageType
  <2>3. stage'[g] = mode[g] /\ \A k \in Staged \ {g} : stage'[k] = stage[k]
    BY <2>1 DEF StageType
  <2>4. Done(pc') \subseteq Done(pc) \cup {g} /\ Done(pc) \subseteq Staged
    BY <1>2, WriteSteps DEF Done, Staged, Timing, Scanout
  <2>5. \A k \in Done(pc') : stage'[k] = mode'[k]
    BY <2>1, <2>3, <2>4 DEF StageInv
  <2>6. pc' \notin HalfStaged => ~Torn(stage')
    <3>1. CASE g \in Timing
      <4>1. \A k \in Scanout : stage'[k] = stage[k]
        BY <2>3, <3>1 DEF Staged, Timing, Scanout
      <4>2. pc \notin HalfStaged
        BY <1>2, <3>1, WriteSteps DEF HalfStaged, Timing
      <4> QED
        BY <4>1, <4>2 DEF StageInv, Torn
    <3>2. CASE g = "format"
      <4>1. Done(pc') = Staged
        BY <1>2, <3>2, WriteSteps DEF Done
      <4>2. \A k \in Scanout : stage'[k] = mode[k]
        BY <2>1, <2>5, <4>1 DEF Staged
      <4> QED
        BY <4>2, WholeNotTorn DEF StageType
    <3>3. CASE g \in {"base", "geom", "stride"}
      BY <1>2, <3>3, WriteSteps DEF HalfStaged
    <3> QED
      BY <3>1, <3>2, <3>3 DEF Staged, Timing, Scanout
  <2> QED
    BY <2>2, <2>5, <2>6 DEF StageInv
<1>3. CASE Latch \/ Drop \/ Relock \/ Retune \/ Release
  BY <1>1, <1>3 DEF Latch, Drop, Relock, Retune, Release, daemon
<1>4. CASE StartPll \/ PllReady
  BY <1>1, <1>4 DEF StartPll, PllReady, Done, HalfStaged
<1>5. CASE PllDeadline \/ NoWindow \/ Confirm \/ ConfirmDeadline
  BY <1>1, <1>5 DEF PllDeadline, NoWindow, Confirm, ConfirmDeadline, Return, Done, HalfStaged
<1>6. CASE Apply \/ Claim
  BY <1>1, <1>6 DEF Apply, Claim, After, Done, HalfStaged
<1>7. ASSUME NEW m \in Modes, Begin(m) PROVE StageType' /\ StageInv'
  <2>1. Done(pc') = {} /\ pc \notin HalfStaged /\ stage' = stage /\ mode' = m
    BY <1>7 DEF Begin, Done, HalfStaged
  <2> QED
    BY <2>1 DEF StageType, StageInv, Torn
<1>8. CASE UNCHANGED vars
  BY <1>1, <1>8 DEF vars, daemon
<1> QED
  BY <1>2, <1>3, <1>4, <1>5, <1>6, <1>7, <1>8 DEF Next, Hardware, SetMode

\* With a PLL that always loses lock, nothing is pending from the new clock to APPLY.
LEMMA ToggleStep ==
  ~keepsLock /\ ClockInv /\ ToggleInv /\ [Next]_vars => ToggleInv'
<1> SUFFICES ASSUME ~keepsLock, ClockInv, ToggleInv, [Next]_vars PROVE ToggleInv'
  OBVIOUS
<1> USE DEF ToggleInv, Staging
<1>1. CASE Latch \/ Release
  BY <1>1 DEF Latch, Release, daemon
<1>2. CASE Drop
  BY <1>2 DEF Drop, daemon, ClockInv, Tuned
<1>3. CASE Relock
  <2>1. req' = ack' /\ req' \in BOOLEAN
    <3>1. CASE req = ack
      BY <1>3, <3>1 DEF Relock
    <3>2. CASE req # ack
      BY <1>3, <3>2 DEF Relock, VblankAtReset
    <3> QED BY <3>1, <3>2
  <2> QED
    BY <1>3, <2>1 DEF Relock
<1>4. CASE Retune
  BY <1>4 DEF Retune
<1>5. ASSUME NEW g \in Staged, Write(g) PROVE ToggleInv'
  <2>1. UNCHANGED <<req, ack, pll>>
    BY <1>5 DEF Write
  <2> QED
    BY <1>5, <2>1, WriteSteps DEF Staged, Timing, Scanout
<1>6. CASE StartPll
  BY <1>6 DEF StartPll
<1>7. CASE PllReady
  BY <1>7 DEF PllReady, Settled, ClockInv
<1>8. CASE PllDeadline \/ NoWindow \/ Confirm \/ ConfirmDeadline
  BY <1>8 DEF PllDeadline, NoWindow, Confirm, ConfirmDeadline, Return
<1>9. CASE Apply
  BY <1>9 DEF Apply, After, Toggle
<1>10. CASE Claim
  BY <1>10 DEF Claim
<1>11. ASSUME NEW m \in Modes, Begin(m) PROVE ToggleInv'
  BY <1>11 DEF Begin
<1>12. CASE UNCHANGED vars
  BY <1>12 DEF vars, daemon
<1> QED
  BY <1>1, <1>2, <1>3, <1>4, <1>5, <1>6, <1>7, <1>8, <1>9, <1>10, <1>11, <1>12 DEF Next, Hardware, SetMode

\* Nothing half staged is ever latched: what is pending was staged whole.
LEMMA TogetherStep ==
  ~keepsLock /\ SetInv /\ [Next]_vars => ScanoutTogether'
<1> SUFFICES ASSUME ~keepsLock, SetInv, [Next]_vars PROVE ScanoutTogether'
  OBVIOUS
<1>1. ASSUME latched' = latched PROVE ScanoutTogether'
  BY <1>1 DEF SetInv, ScanoutTogether, Torn
<1>2. ASSUME latched' = stage, pc \notin HalfStaged PROVE ScanoutTogether'
  BY <1>2 DEF SetInv, StageInv, ScanoutTogether, Torn
<1>3. CASE Latch
  BY <1>2, <1>3 DEF Latch, SetInv, ToggleInv, HalfStaged, Staging
<1>4. CASE Drop
  <2>1. \A g \in Scanout : latched'[g] = Default[g]
    BY <1>4 DEF Drop, Groups, Staged
  <2> QED
    BY <2>1 DEF ScanoutTogether, Torn
<1>5. CASE Relock
  <2>1. pc \notin HalfStaged
    BY <1>5 DEF Relock, SetInv, ClockInv, Tuned, Staging, HalfStaged
  <2> QED
    BY <1>1, <1>2, <1>5, <2>1 DEF Relock
<1>6. CASE Retune \/ Release \/ UNCHANGED vars
  BY <1>1, <1>6 DEF Retune, Release, vars
<1>7. CASE SetMode
  BY <1>1, <1>7 DEF SetMode, Write, StartPll, PllReady, PllDeadline, NoWindow, Apply, Claim, Confirm,
     ConfirmDeadline, Return
<1>8. ASSUME NEW m \in Modes, Begin(m) PROVE ScanoutTogether'
  BY <1>1, <1>8 DEF Begin
<1> QED
  BY <1>3, <1>4, <1>5, <1>6, <1>7, <1>8 DEF Next, Hardware

\* After APPLY the mode is on the raster or on its way, so the confirmation finds
\* it once nothing is pending.
LEMMA TakenStep ==
  ~keepsLock /\ SetInv /\ [Next]_vars => TakenInv'
<1> SUFFICES ASSUME ~keepsLock, SetInv, [Next]_vars PROVE TakenInv'
  OBVIOUS
<1> USE DEF TakenInv
<1>0. pc \in {"claim", "confirm"} => pll = "locked" /\ \A g \in Staged : stage[g] = mode[g]
  BY DEF SetInv, ClockInv, Tuned, StageInv, Done
<1>1. CASE Latch
  BY <1>0, <1>1 DEF Latch, SetInv, daemon
<1>2. CASE Drop \/ Relock
  BY <1>0, <1>2 DEF Drop, Relock, SetInv, daemon
<1>3. CASE Retune
  BY <1>3 DEF Retune
<1>4. CASE Release
  BY <1>4 DEF Release, SetInv, daemon
<1>5. ASSUME NEW g \in Staged, Write(g) PROVE TakenInv'
  <2>1. UNCHANGED <<ret, claim>>
    BY <1>5 DEF Write
  <2> QED
    BY <1>5, <2>1, WriteSteps DEF SetInv
<1>6. CASE StartPll \/ PllReady
  BY <1>6 DEF StartPll, PllReady, SetInv
<1>7. CASE PllDeadline \/ NoWindow \/ Confirm
  BY <1>7 DEF PllDeadline, NoWindow, Confirm, Return
<1>8. CASE ConfirmDeadline
  <2>1. pc = "confirm" /\ req = ack /\ claim /\ ~Confirmed
    BY <1>0, <1>8 DEF ConfirmDeadline, SetInv
  <2>2. latched["h"] = mode["h"] /\ latched["v"] = mode["v"]
    BY <2>1 DEF SetInv, Staged, Timing
  <2> QED
    BY <2>1, <2>2 DEF Confirmed, Seen
<1>9. CASE Apply
  <2>1. req' # ack'
    BY <1>9 DEF Apply, Toggle, SetInv, ToggleInv, Staging
  <2> QED
    BY <1>9, <2>1 DEF Apply, After, SetInv
<1>10. CASE Claim
  BY <1>10 DEF Claim, SetInv
<1>11. ASSUME NEW m \in Modes, Begin(m) PROVE TakenInv'
  BY <1>11 DEF Begin
<1>12. CASE UNCHANGED vars
  BY <1>12 DEF vars, daemon, SetInv
<1> QED
  BY <1>1, <1>2, <1>3, <1>4, <1>5, <1>6, <1>7, <1>8, <1>9, <1>10, <1>11, <1>12 DEF Next, Hardware, SetMode

\* The invariant holds to begin with.
LEMMA SetInit == Init => SetInv
<1> SUFFICES ASSUME Init PROVE SetInv
  OBVIOUS
<1>1. ClockInv
  BY DEF Init, ClockInv, Tuned, Staging
<1>2. \A g \in Scanout : stage[g] = Default[g] /\ latched[g] = Default[g]
  BY DEF Init, Groups, Staged
<1>3. ~Torn(stage) /\ ~Torn(latched)
  BY <1>2 DEF Torn
<1>4. StageType /\ StageInv
  BY <1>3 DEF Init, StageType, StageInv, Done, Groups
<1>5. ToggleInv /\ TakenInv
  BY DEF Init, ToggleInv, TakenInv, Staging
<1> QED
  BY <1>1, <1>3, <1>4, <1>5 DEF SetInv, ScanoutTogether

\* The invariant, of a PLL that always loses lock.
Inv == keepsLock \/ SetInv
LEMMA SetInvariant == Spec => []Inv
<1>1. Inv /\ [Next]_vars => Inv'
  <2> SUFFICES ASSUME Inv, [Next]_vars, ~keepsLock PROVE SetInv'
    BY DEF Next, vars, Inv
  <2> QED
    BY ClockStep, StageStep, ToggleStep, TogetherStep, TakenStep DEF Inv, SetInv
<1>2. Init => Inv
  BY SetInit DEF Inv
<1> QED
  BY <1>1, <1>2, PTL DEF Spec

\* The fetcher never gets a width with another mode's stride or format, from a PLL
\* that loses lock on new counters.
THEOREM NeverTorn == Spec => []ScanoutTogether
<1>1. Inv => ScanoutTogether
  BY DEF Inv, SetInv, ScanoutTogether
<1> QED
  BY <1>1, SetInvariant, PTL

\* A mode whose clock came up is never reported as not taken: over any number of
\* clock losses the toggles never cancel.
THEOREM NeverCancelled == Spec => []TakenOnceLocked
<1>1. Inv => TakenOnceLocked
  BY DEF Inv, SetInv, TakenInv, TakenOnceLocked
<1> QED
  BY <1>1, SetInvariant, PTL

-----------------------------------------------------------------------------
(* Types *)

LEMMA ModeValues ==
  ASSUME NEW m \in Modes \cup {Default}
  PROVE  m.clk \in Clocks /\ \A g \in Staged : m[g] \in Values(g)
BY DEF Clocks, Values

LEMMA WholeGroups ==
  ASSUME NEW m \in Modes \cup {Default}
  PROVE  Groups(m) \in Whole
BY ModeValues DEF Groups, Whole, Staged, Timing, Scanout

LEMMA WholeWrite ==
  ASSUME NEW t \in Whole, NEW g \in Staged, NEW x \in Values(g)
  PROVE  [t EXCEPT ![g] = x] \in Whole
BY DEF Whole, Staged, Timing, Scanout

\* The types of the daemon's step, the staged and the latched set, the toggles and
\* the PLL, whatever the modes hold.
THEOREM TypeCorrect == Spec => []TypeOK
<1>1. Init => TypeOK
  <2> SUFFICES ASSUME Init PROVE TypeOK
    OBVIOUS
  <2>1. Default \in Modes \cup {Default}
    OBVIOUS
  <2>2. Groups(Default) \in Whole /\ Default.clk \in Clocks
    BY <2>1, ModeValues, WholeGroups
  <2> QED
    BY <2>1, <2>2 DEF Init, TypeOK
<1>2. TypeOK /\ [Next]_vars => TypeOK'
  <2> SUFFICES ASSUME TypeOK, [Next]_vars PROVE TypeOK'
    OBVIOUS
  <2>1. CASE Hardware /\ UNCHANGED keepsLock
    <3>1. Groups(Default) \in Whole
      BY WholeGroups
    <3>2. UNCHANGED daemon
      BY <2>1 DEF Hardware, Latch, Drop, Relock, Retune
    <3>3. latched' \in {latched, stage, Groups(Default)} /\ ack' \in {ack, req, FALSE}
      BY <2>1 DEF Hardware, Latch, Drop, Relock, Retune
    <3>4. /\ pll' \in {pll, "locked", "unlocked"} /\ clk' \in {clk, want}
          /\ UNCHANGED <<stage, req, claim, want, keepsLock>>
      BY <2>1 DEF Hardware, Latch, Drop, Relock, Retune
    <3>5. latched' \in Whole /\ stage' \in Whole
      BY <3>1, <3>3, <3>4 DEF TypeOK
    <3>6. ack' \in BOOLEAN /\ req' \in BOOLEAN /\ claim' \in BOOLEAN /\ keepsLock' \in BOOLEAN
      BY <3>3, <3>4 DEF TypeOK
    <3>7. pll' \in {"locked", "starting", "unlocked"} /\ clk' \in Clocks /\ want' \in Clocks
      BY <3>4 DEF TypeOK
    <3> QED
      BY <3>2, <3>5, <3>6, <3>7 DEF TypeOK, daemon
  <2>2. ASSUME NEW g \in Staged, Write(g), UNCHANGED keepsLock PROVE TypeOK'
    <3>1. mode[g] \in Values(g)
      BY ModeValues DEF TypeOK
    <3>2. stage' \in Whole
      BY <2>2, <3>1, WholeWrite DEF Write, TypeOK
    <3>3. pc' \in Staged \cup {"start", "apply"}
      BY <2>2, WriteSteps DEF Staged, Timing, Scanout
    <3> QED
      BY <2>2, <3>2, <3>3 DEF Write, TypeOK
  <2>3. CASE StartPll /\ UNCHANGED keepsLock
    BY <2>3, ModeValues DEF StartPll, TypeOK
  <2>4. CASE (PllReady \/ Claim) /\ UNCHANGED keepsLock
    BY <2>4 DEF PllReady, Claim, TypeOK, Staged, Scanout
  <2>5. CASE (PllDeadline \/ NoWindow \/ Confirm \/ ConfirmDeadline) /\ UNCHANGED keepsLock
    BY <2>5 DEF PllDeadline, NoWindow, Confirm, ConfirmDeadline, Return, TypeOK
  <2>6. CASE Apply /\ UNCHANGED keepsLock
    <3>1. pc' = "claim" /\ req' \in BOOLEAN
      BY <2>6 DEF Apply, After, Toggle
    <3> QED
      BY <2>6, <3>1 DEF Apply, TypeOK
  <2>7. ASSUME NEW m \in Modes, Begin(m), UNCHANGED keepsLock PROVE TypeOK'
    BY <2>7 DEF Begin, TypeOK, Staged, Timing
  <2>8. CASE Release /\ UNCHANGED keepsLock
    BY <2>8 DEF Release, TypeOK, daemon
  <2>9. CASE UNCHANGED vars
    <3>1. UNCHANGED <<pc, mode, ret, stage, latched, pll, want, clk>>
      BY <2>9 DEF vars, daemon
    <3>2. ack' \in BOOLEAN /\ req' \in BOOLEAN /\ claim' \in BOOLEAN /\ keepsLock' \in BOOLEAN
      BY <2>9 DEF vars, TypeOK
    <3> QED
      BY <3>1, <3>2 DEF TypeOK
  <2> QED
    BY <2>1, <2>2, <2>3, <2>4, <2>5, <2>6, <2>7, <2>8, <2>9 DEF Next, SetMode
<1> QED
  BY <1>1, <1>2, PTL DEF Spec
=============================================================================
