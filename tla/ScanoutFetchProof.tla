-------------------------- MODULE ScanoutFetchProof --------------------------
(***************************************************************************)
(* Theorems about ScanoutFetch, for rasters of any size and memories of    *)
(* any speed.                                                              *)
(***************************************************************************)
EXTENDS ScanoutFetch, TLAPS

\* The pulse that swaps the buffers belongs to one clock of the line, three
\* before the picture.
SwapInv ==
  /\ hcnt \in 0..H_TOT - 1
  /\ show_pulse \in BOOLEAN
  /\ show_pulse => hcnt = H_ACT_S - 3
  /\ resets \in Nat

LEMMA LineFits == H_ACT_S \in Nat /\ H_TOT \in Nat /\ H_ACT_S > 4 /\ H_TOT > H_ACT_S + 1
  BY FetchAssumption DEF FetchAssumption

LEMMA InitSwapInv == Init => SwapInv
<1> SUFFICES ASSUME Init PROVE SwapInv
  OBVIOUS
<1>1. hcnt = 0 /\ show_pulse \in BOOLEAN /\ ~show_pulse /\ resets = 0
  BY DEF Init, PixelInit
<1>2. hcnt \in 0..H_TOT - 1
  BY <1>1, LineFits
<1>3. resets \in Nat
  BY <1>1
<1> QED
  BY <1>1, <1>2, <1>3, Zenon DEF SwapInv

LEMMA MemKeepsPixelSide ==
  ASSUME Fetch PROVE UNCHANGED <<raster, ask, show, resets>>
  BY DEF Fetch, Rest, Take, Issue, Stall, Answer, Accept, Data, MemEdge

LEMMA StepSwapInv == SwapInv /\ [Next]_vars => SwapInv'
<1> SUFFICES ASSUME SwapInv, [Next]_vars PROVE SwapInv'
  OBVIOUS
<1>1. CASE PixelClock
  <2> hcnt' = (IF hcnt = H_TOT - 1 THEN 0 ELSE hcnt + 1)
    BY <1>1 DEF PixelClock, Count
  <2>1. hcnt' \in 0..H_TOT - 1
    BY LineFits DEF SwapInv
  <2>2. show_pulse' \in BOOLEAN
    BY <1>1 DEF PixelClock, Pulses, SwapPoint
  <2>3. show_pulse' => hcnt' = H_ACT_S - 3
    <3>1. show_pulse' => hcnt = H_ACT_S - 4
      BY <1>1 DEF PixelClock, Pulses, SwapPoint
    <3>2. hcnt = H_ACT_S - 4 => hcnt' = H_ACT_S - 3
      BY LineFits
    <3> QED
      BY <3>1, <3>2
  <2>4. resets' \in Nat
    BY <1>1 DEF PixelClock, SwapInv
  <2> QED
    BY <2>1, <2>2, <2>3, <2>4 DEF SwapInv
<1>2. CASE PixelRestart
  <2>1. hcnt' = 0 /\ show_pulse' \in BOOLEAN /\ ~show_pulse' /\ resets' = resets + 1
    BY <1>2 DEF PixelRestart
  <2>2. hcnt' \in 0..H_TOT - 1
    BY <2>1, LineFits
  <2>3. resets' \in Nat
    BY <2>1 DEF SwapInv
  <2> QED
    BY <2>1, <2>2, <2>3, Zenon DEF SwapInv
<1>3. CASE Fetch
  BY <1>3, MemKeepsPixelSide DEF raster, SwapInv
<1>4. CASE UNCHANGED vars
  BY <1>4 DEF vars, raster, SwapInv
<1> QED
  BY <1>1, <1>2, <1>3, <1>4 DEF Next

\* The buffers change places outside the picture: for any porches of more than
\* four clocks, whatever the memory does (show_pulse in the top).
THEOREM SwapsInBlanking == Spec => SwapInBlanking
<1>1. SwapInv /\ [Next]_vars => [show_sel' # show_sel /\ resets' = resets => ~de]_vars
  <2> SUFFICES ASSUME SwapInv, [Next]_vars, show_sel' # show_sel, resets' = resets PROVE ~de
    BY DEF SwapInv
  <2>1. CASE PixelClock
    <3>1. show_pulse
      BY <2>1 DEF PixelClock, Swap
    <3> QED
      BY <3>1, LineFits DEF de, xpos, SwapInv
  <2>2. CASE PixelRestart
    <3>1. resets' = resets + 1
      BY <2>2 DEF PixelRestart
    <3> QED
      BY <3>1 DEF SwapInv
  <2>3. CASE Fetch
    BY <2>3, MemKeepsPixelSide DEF show
  <2>4. CASE UNCHANGED vars
    BY <2>4 DEF vars, show
  <2> QED
    BY <2>1, <2>2, <2>3, <2>4 DEF Next
<1> QED
  BY <1>1, InitSwapInv, StepSwapInv, PTL DEF Spec, SwapInBlanking

-----------------------------------------------------------------------------
(* Types, and the place of a beat *)

LEMMA ModRange == ASSUME NEW N \in Nat \ {0}, NEW a \in Nat PROVE a % N \in 0..N - 1
  OBVIOUS

LEMMA ModBelow == ASSUME NEW N \in Nat \ {0}, NEW a \in 0..N - 1 PROVE a % N = a
<1> DEFINE q == a \div N
<1>1. q \in Int /\ a = N * q + (a % N) /\ a % N \in 0..N - 1
  OBVIOUS
<1>2. CASE q <= -1
  <2>1. N * q <= -N
    BY <1>1, <1>2
  <2> QED BY <2>1, <1>1
<1>3. CASE q >= 1
  <2>1. N * q >= N
    BY <1>1, <1>3
  <2> QED BY <2>1, <1>1
<1>4. CASE q = 0
  BY <1>1, <1>4
<1> QED BY <1>1, <1>2, <1>3, <1>4

LEMMA ModSelf == ASSUME NEW N \in Nat \ {0} PROVE N % N = 0
<1> DEFINE q == N \div N
<1>1. q \in Int /\ N = N * q + (N % N) /\ N % N \in 0..N - 1
  OBVIOUS
<1>2. CASE q <= 0
  <2>1. N * q <= 0
    BY <1>1, <1>2
  <2> QED BY <2>1, <1>1
<1>3. CASE q >= 2
  <2>1. N * q >= N + N
    BY <1>1, <1>3
  <2> QED BY <2>1, <1>1
<1>4. CASE q = 1
  BY <1>1, <1>4
<1> QED BY <1>1, <1>2, <1>3, <1>4

LEMMA Sizes ==
  /\ Rows \in Nat \ {0} /\ Beats \in Nat \ {0} /\ MaxBurst \in Nat \ {0}
  /\ H_ACT_S \in Nat /\ H_TOT \in Nat \ {0} /\ Ratio \in Nat \ {0} /\ Resets \in Nat
  BY FetchAssumption DEF FetchAssumption

\* The type invariant in three parts, one for each side and one for what both touch.
PixelType ==
  /\ hcnt \in 0..H_TOT - 1 /\ line \in RowNo
  /\ req_pulse \in BOOLEAN /\ show_pulse \in BOOLEAN
  /\ req_y \in RowNo /\ req_arm \in BOOLEAN /\ req_tog \in {0, 1}
  /\ ack_meta \in {0, 1} \X {0, 1} /\ ack_seen \in {0, 1} /\ pending \in BOOLEAN
  /\ show_sel \in {0, 1} /\ has_line \in BOOLEAN /\ resets \in 0..Resets
  /\ last \in RowNo \cup {None}
BurstType ==
  /\ req_meta \in {0, 1} \X {0, 1} /\ req_seen \in {0, 1}
  /\ state \in {"IDLE", "ISSUE", "WAIT", "DATA"}
  /\ addr \in Beat /\ port \in Beat
  /\ beats_left \in 0..Beats /\ burst_left \in 0..MaxBurst /\ cur_burst \in 0..MaxBurst
  /\ fill_sel \in {0, 1} /\ fill_addr \in 0..Beats - 1 /\ ack_tog \in {0, 1}
StoreType ==
  /\ fill \in [we : BOOLEAN, sel : {0, 1}, wa : 0..Beats - 1, data : Beat]
  /\ linebuf \in [{0, 1} -> [0..Beats - 1 -> Beat]]
Clocks == ticks \in 0..Ratio /\ flagged \in BOOLEAN

\* How far the bursts of a line have come: what is asked for and what is still to come
\* add up to the line, and the place being filled follows the port.
BurstInv ==
  /\ state \in {"ISSUE", "WAIT"} =>
       beats_left > 0 /\ addr.x = Beats - beats_left /\ fill_addr = addr.x
  /\ state = "WAIT" => port = addr /\ cur_burst > 0 /\ cur_burst <= beats_left
  /\ state = "DATA" =>
       /\ burst_left > 0 /\ burst_left <= cur_burst
       /\ port.x + cur_burst + beats_left = Beats
       /\ fill_addr = port.x + cur_burst - burst_left
       /\ beats_left > 0 => addr.x = Beats - beats_left

\* Each beat of the row goes to its own place in the buffer.
InPlace ==
  /\ fill.we => fill.data.x = fill.wa
  /\ \A s \in {0, 1}, x \in 0..Beats - 1 : linebuf[s][x] = Blank \/ linebuf[s][x].x = x

TypeInv == PixelType /\ BurstType /\ StoreType /\ Clocks /\ BurstInv /\ InPlace

LEMMA BlankIsBeat == Blank \in Beat /\ 0 \in RowNo /\ None = -1
  BY Sizes DEF Blank, Beat, None, RowNo

LEMMA TypeInit == Init => TypeInv
<1> SUFFICES ASSUME Init PROVE TypeInv
  OBVIOUS
<1> USE Sizes, BlankIsBeat
<1>1. PixelType
  <2>1. hcnt \in 0..H_TOT - 1 /\ line \in RowNo /\ req_y \in RowNo /\ resets \in 0..Resets
    BY DEF Init, PixelInit
  <2>2. /\ req_pulse \in BOOLEAN /\ show_pulse \in BOOLEAN /\ req_arm \in BOOLEAN
        /\ pending \in BOOLEAN /\ has_line \in BOOLEAN
    BY DEF Init, PixelInit
  <2>3. /\ req_tog \in {0, 1} /\ ack_meta \in {0, 1} \X {0, 1} /\ ack_seen \in {0, 1}
        /\ show_sel \in {0, 1} /\ last \in RowNo \cup {None}
    BY DEF Init, PixelInit
  <2> QED
    BY <2>1, <2>2, <2>3 DEF PixelType
<1>2. BurstType
  BY DEF Init, BurstType
<1>3. StoreType /\ InPlace
  BY DEF Init, NoFill, StoreType, InPlace
<1>4. Clocks
  <2>1. ticks \in 0..Ratio
    BY DEF Init
  <2>2. flagged \in BOOLEAN
    BY DEF Init
  <2> QED
    BY <2>1, <2>2 DEF Clocks
<1>5. BurstInv
  BY DEF Init, BurstInv
<1> QED
  BY <1>1, <1>2, <1>3, <1>4, <1>5 DEF TypeInv

LEMMA TypePixel == TypeInv /\ PixelClock => TypeInv'
<1> SUFFICES ASSUME TypeInv, PixelClock PROVE TypeInv'
  OBVIOUS
<1> USE Sizes
<1>1. UNCHANGED <<mem, resets>> /\ ticks' = 0 /\ flagged' = (flagged \/ Late)
  BY DEF PixelClock
<1>2. BurstType' /\ StoreType' /\ BurstInv' /\ InPlace'
  BY <1>1 DEF mem, burst, TypeInv, BurstType, StoreType, BurstInv, InPlace
<1>3. Clocks'
  <2>1. ticks' \in 0..Ratio
    BY <1>1
  <2>2. flagged' \in BOOLEAN
    BY <1>1 DEF TypeInv, Clocks, Late
  <2> QED
    BY <2>1, <2>2 DEF Clocks
<1>4. hcnt' \in 0..H_TOT - 1
  BY DEF PixelClock, Count, TypeInv, PixelType
<1>5. line' \in RowNo
  <2>1. (line + 1) % Rows \in 0..Rows - 1
    BY ModRange DEF TypeInv, PixelType, RowNo
  <2> QED
    BY <2>1 DEF PixelClock, Count, TypeInv, PixelType, RowNo
<1>6. req_pulse' \in BOOLEAN /\ show_pulse' \in BOOLEAN
  BY DEF PixelClock, Pulses, SwapPoint
<1>7. req_y' \in RowNo
  <2>1. y_src_next \in RowNo
    BY ModRange DEF TypeInv, PixelType, RowNo, y_src_next
  <2> QED
    BY <2>1 DEF PixelClock, Ask, TypeInv, PixelType
<1>8. req_arm' \in BOOLEAN /\ req_tog' \in {0, 1}
  BY DEF PixelClock, Ask, Announce, TypeInv, PixelType
<1>9. ack_meta' \in {0, 1} \X {0, 1} /\ ack_seen' \in {0, 1} /\ show_sel' \in {0, 1}
  BY DEF PixelClock, Swap, TypeInv, PixelType, BurstType
<1>10. pending' \in BOOLEAN /\ has_line' \in BOOLEAN
  <2>1. pending \in BOOLEAN /\ has_line \in BOOLEAN /\ show_pulse \in BOOLEAN /\ Landed \in BOOLEAN
    BY DEF TypeInv, PixelType, Landed
  <2> QED
    BY <2>1 DEF PixelClock, Swap
<1>11. last' \in RowNo \cup {None}
  <2>1. show_sel \in {0, 1} /\ 0 \in 0..Beats - 1 /\ last \in RowNo \cup {None}
    BY DEF TypeInv, PixelType
  <2>2. Displayed[0] \in Beat
    BY <2>1 DEF TypeInv, StoreType, Displayed
  <2>3. Displayed[0].y \in RowNo \cup {None}
    BY <2>2 DEF Beat
  <2> QED
    BY <2>1, <2>3 DEF PixelClock
<1>12. PixelType'
  BY <1>1, <1>4, <1>5, <1>6, <1>7, <1>8, <1>9, <1>10, <1>11 DEF PixelType, TypeInv
<1> QED
  BY <1>2, <1>3, <1>12 DEF TypeInv

LEMMA TypeRestart == TypeInv /\ PixelRestart => TypeInv'
<1> SUFFICES ASSUME TypeInv, PixelRestart PROVE TypeInv'
  OBVIOUS
<1> USE Sizes, BlankIsBeat
<1>1. UNCHANGED <<mem, ticks, flagged>>
  BY DEF PixelRestart
<1>2. BurstType' /\ StoreType' /\ BurstInv' /\ InPlace'
  BY <1>1 DEF mem, burst, TypeInv, BurstType, StoreType, BurstInv, InPlace
<1>3. Clocks'
  BY <1>1 DEF Clocks, TypeInv
<1>4. PixelType'
  <2>1. hcnt' \in 0..H_TOT - 1 /\ line' \in RowNo /\ req_y' \in RowNo /\ resets' \in 0..Resets
    BY DEF PixelRestart, PixelType, TypeInv
  <2>2. /\ req_pulse' \in BOOLEAN /\ show_pulse' \in BOOLEAN /\ req_arm' \in BOOLEAN
        /\ pending' \in BOOLEAN /\ has_line' \in BOOLEAN
    BY DEF PixelRestart
  <2>3. /\ req_tog' \in {0, 1} /\ ack_meta' \in {0, 1} \X {0, 1} /\ ack_seen' \in {0, 1}
        /\ show_sel' \in {0, 1} /\ last' \in RowNo \cup {None}
    BY DEF PixelRestart
  <2> QED
    BY <2>1, <2>2, <2>3 DEF PixelType
<1> QED
  BY <1>2, <1>3, <1>4 DEF TypeInv

\* What every edge of the memory clock does.
LEMMA TypeEdge ==
  TypeInv /\ MemEdge =>
    /\ PixelType' /\ Clocks' /\ req_meta' \in {0, 1} \X {0, 1}
    /\ linebuf' \in [{0, 1} -> [0..Beats - 1 -> Beat]]
    /\ \A s \in {0, 1}, x \in 0..Beats - 1 : linebuf'[s][x] = Blank \/ linebuf'[s][x].x = x
<1> SUFFICES ASSUME TypeInv, MemEdge
    PROVE /\ PixelType' /\ Clocks' /\ req_meta' \in {0, 1} \X {0, 1}
          /\ linebuf' \in [{0, 1} -> [0..Beats - 1 -> Beat]]
          /\ \A s \in {0, 1}, x \in 0..Beats - 1 :
               linebuf'[s][x] = Blank \/ linebuf'[s][x].x = x
  OBVIOUS
<1> USE Sizes
<1>1. UNCHANGED <<raster, ask, show, resets>>
  BY DEF MemEdge
<1>2. PixelType'
  BY <1>1 DEF raster, ask, show, PixelType, TypeInv
<1>3. ticks' \in 0..Ratio
  BY DEF MemEdge, TypeInv, Clocks
<1>4. flagged' \in BOOLEAN
  BY DEF MemEdge, TypeInv, Clocks, Requested
<1>5. req_meta' \in {0, 1} \X {0, 1}
  BY DEF MemEdge, TypeInv, BurstType, PixelType
<1>6. CASE fill.we
  <2>1. /\ fill.sel \in {0, 1} /\ fill.wa \in 0..Beats - 1 /\ fill.data \in Beat
        /\ fill.data.x = fill.wa
    BY <1>6 DEF TypeInv, StoreType, InPlace
  <2>2. linebuf' = [linebuf EXCEPT ![fill.sel][fill.wa] = fill.data]
    BY <1>6 DEF MemEdge, WriteSelect
  <2>3. linebuf' \in [{0, 1} -> [0..Beats - 1 -> Beat]]
    BY <2>1, <2>2 DEF TypeInv, StoreType
  <2>4. ASSUME NEW s \in {0, 1}, NEW x \in 0..Beats - 1
        PROVE linebuf'[s][x] = Blank \/ linebuf'[s][x].x = x
    <3>1. linebuf'[s][x] = IF s = fill.sel /\ x = fill.wa THEN fill.data ELSE linebuf[s][x]
      BY <2>1, <2>2 DEF TypeInv, StoreType
    <3> QED
      BY <2>1, <3>1 DEF TypeInv, InPlace
  <2> QED
    BY <1>2, <1>3, <1>4, <1>5, <2>3, <2>4 DEF Clocks
<1>7. CASE ~fill.we
  <2>1. linebuf' = linebuf
    BY <1>7 DEF MemEdge
  <2>2. linebuf' \in [{0, 1} -> [0..Beats - 1 -> Beat]]
    BY <2>1 DEF TypeInv, StoreType
  <2>3. \A s \in {0, 1}, x \in 0..Beats - 1 : linebuf'[s][x] = Blank \/ linebuf'[s][x].x = x
    BY <2>1 DEF TypeInv, InPlace
  <2> QED
    BY <1>2, <1>3, <1>4, <1>5, <2>2, <2>3 DEF Clocks
<1> QED
  BY <1>6, <1>7

\* The steps of the fetch that put nothing into the buffer.
LEMMA NoBeat ==
  ASSUME TypeInv, fill' = [fill EXCEPT !.we = FALSE]
  PROVE  fill' \in [we : BOOLEAN, sel : {0, 1}, wa : 0..Beats - 1, data : Beat] /\ ~fill'.we
BY DEF TypeInv, StoreType

LEMMA TypeFetch == TypeInv /\ Fetch => TypeInv'
<1> SUFFICES ASSUME TypeInv, Fetch PROVE TypeInv'
  OBVIOUS
<1> USE Sizes
<1>1. MemEdge
  BY DEF Fetch, Rest, Take, Issue, Stall, Answer, Accept, Data
<1>2. /\ PixelType' /\ Clocks' /\ req_meta' \in {0, 1} \X {0, 1}
      /\ linebuf' \in [{0, 1} -> [0..Beats - 1 -> Beat]]
      /\ \A s \in {0, 1}, x \in 0..Beats - 1 : linebuf'[s][x] = Blank \/ linebuf'[s][x].x = x
  BY <1>1, TypeEdge
<1>3. ASSUME fill' = [fill EXCEPT !.we = FALSE] PROVE StoreType' /\ InPlace'
  BY <1>2, <1>3, NoBeat DEF StoreType, InPlace
<1>4. CASE Rest \/ Stall
  <2>1. UNCHANGED <<req_seen, state, burst, fill_sel, fill_addr, ack_tog>>
    BY <1>4 DEF Rest, Stall
  <2>2. BurstType' /\ BurstInv'
    BY <1>2, <2>1 DEF burst, BurstType, BurstInv, TypeInv
  <2> QED
    BY <1>2, <1>3, <1>4, <2>2 DEF Rest, Stall, TypeInv
<1>5. CASE Take
  <2>1. /\ state' = "ISSUE" /\ addr' = [y |-> req_y, x |-> 0] /\ beats_left' = Beats
        /\ fill_addr' = 0 /\ req_seen' = req_meta[2]
        /\ UNCHANGED <<port, burst_left, cur_burst, fill_sel, ack_tog>>
    BY <1>5 DEF Take
  <2>2. addr' \in Beat /\ addr'.x = 0
    BY <2>1 DEF Beat, TypeInv, PixelType
  <2>3. BurstType'
    BY <1>2, <2>1, <2>2 DEF BurstType, TypeInv
  <2>4. BurstInv'
    BY <2>1, <2>2 DEF BurstInv
  <2> QED
    BY <1>2, <1>3, <1>5, <2>3, <2>4 DEF Take, TypeInv
<1>6. CASE Issue
  <2>1. /\ state = "ISSUE" /\ state' = "WAIT" /\ port' = addr /\ cur_burst' = this_burst
        /\ UNCHANGED <<req_seen, addr, beats_left, burst_left, fill_sel, fill_addr, ack_tog>>
    BY <1>6 DEF Issue
  <2>2. this_burst \in 1..MaxBurst /\ this_burst <= beats_left
    BY <2>1 DEF this_burst, TypeInv, BurstType, BurstInv
  <2>3. BurstType'
    BY <1>2, <2>1, <2>2 DEF BurstType, TypeInv
  <2>4. BurstInv'
    BY <2>1, <2>2 DEF BurstInv, TypeInv
  <2> QED
    BY <1>2, <1>3, <1>6, <2>3, <2>4 DEF Issue, TypeInv
<1>7. CASE Accept
  <2>1. /\ state = "WAIT" /\ state' = "DATA" /\ burst_left' = cur_burst
        /\ beats_left' = beats_left - cur_burst
        /\ addr' = [addr EXCEPT !.x = (@ + cur_burst) % Beats]
        /\ UNCHANGED <<req_seen, port, cur_burst, fill_sel, fill_addr, ack_tog>>
    BY <1>7 DEF Accept
  <2>2. /\ cur_burst \in 1..MaxBurst /\ cur_burst <= beats_left /\ beats_left \in 1..Beats
        /\ addr \in Beat /\ port = addr /\ addr.x = Beats - beats_left /\ fill_addr = addr.x
    BY <2>1 DEF TypeInv, BurstType, BurstInv
  <2>3. /\ (addr.x + cur_burst) % Beats \in 0..Beats - 1
        /\ beats_left' > 0 => (addr.x + cur_burst) % Beats = Beats - beats_left'
    <3>1. addr.x + cur_burst \in Nat
      BY <2>2
    <3>2. (addr.x + cur_burst) % Beats \in 0..Beats - 1
      BY <3>1, ModRange
    <3>3. ASSUME beats_left' > 0 PROVE addr.x + cur_burst = Beats - beats_left'
      BY <2>1, <2>2
    <3>4. ASSUME beats_left' > 0 PROVE addr.x + cur_burst \in 0..Beats - 1
      BY <2>1, <2>2, <3>4
    <3> QED
      BY <3>2, <3>3, <3>4, ModBelow
  <2>4. addr' \in Beat /\ addr'.x = (addr.x + cur_burst) % Beats
    BY <2>1, <2>2, <2>3 DEF Beat
  <2>5. BurstType'
    <3>1. beats_left' \in 0..Beats /\ burst_left' \in 0..MaxBurst
      BY <2>1, <2>2
    <3> QED
      BY <1>2, <2>1, <2>4, <3>1 DEF BurstType, TypeInv
  <2>6. BurstInv'
    BY <2>1, <2>2, <2>3, <2>4 DEF BurstInv
  <2> QED
    BY <1>2, <1>3, <1>7, <2>5, <2>6 DEF Accept, TypeInv
<1>8. CASE Data
  <2>1. /\ state = "DATA" /\ fill' = FillHere /\ fill_addr' = (fill_addr + 1) % Beats
        /\ burst_left' = burst_left - 1
        /\ state' = IF burst_left > 1 THEN "DATA" ELSE IF beats_left = 0 THEN "IDLE" ELSE "ISSUE"
        /\ UNCHANGED <<req_seen, addr, port, beats_left, cur_burst>>
    BY <1>8 DEF Data
  <2>2. /\ burst_left \in 1..MaxBurst /\ burst_left <= cur_burst /\ cur_burst \in 1..MaxBurst
        /\ beats_left \in 0..Beats /\ port \in Beat /\ port.x \in 0..Beats - 1
        /\ port.x + cur_burst + beats_left = Beats
        /\ fill_addr \in 0..Beats - 1 /\ fill_addr = port.x + cur_burst - burst_left
        /\ beats_left > 0 => addr.x = Beats - beats_left
    BY <2>1 DEF TypeInv, BurstType, BurstInv, Beat
  <2>3. fill_sel' \in {0, 1} /\ ack_tog' \in {0, 1}
    BY <1>8 DEF Data, Acknowledge, TypeInv, BurstType
  <2>4. fill_addr' \in 0..Beats - 1
    <3>1. fill_addr + 1 \in Nat
      BY <2>2
    <3> QED
      BY <2>1, <3>1, ModRange
  <2>5. fill_addr + 1 < Beats => fill_addr' = fill_addr + 1
    <3>1. ASSUME fill_addr + 1 < Beats PROVE fill_addr + 1 \in 0..Beats - 1
      BY <2>2, <3>1
    <3> QED
      BY <2>1, <3>1, ModBelow
  <2>6. [port EXCEPT !.x = @ + cur_burst - burst_left] \in Beat
    BY <2>2 DEF Beat
  <2>7. /\ fill' \in [we : BOOLEAN, sel : {0, 1}, wa : 0..Beats - 1, data : Beat]
        /\ fill'.data.x = fill'.wa
    BY <2>1, <2>2, <2>6 DEF FillHere, TypeInv, BurstType, Beat
  <2>8. StoreType' /\ InPlace'
    BY <1>2, <2>7 DEF StoreType, InPlace
  <2>9. BurstType'
    BY <1>2, <2>1, <2>2, <2>3, <2>4 DEF BurstType, TypeInv
  <2>10. BurstInv'
    <3>1. CASE burst_left > 1
      BY <2>1, <2>2, <2>5, <3>1 DEF BurstInv
    <3>2. CASE burst_left = 1 /\ beats_left > 0
      <4>1. state' = "ISSUE" /\ beats_left' > 0 /\ addr'.x = Beats - beats_left'
        BY <2>1, <2>2, <3>2
      <4>2. fill_addr + 1 = addr.x /\ fill_addr + 1 < Beats
        BY <2>2, <3>2
      <4>3. fill_addr' = addr'.x
        BY <2>1, <2>5, <4>2
      <4> QED
        BY <4>1, <4>3 DEF BurstInv
    <3>3. CASE burst_left = 1 /\ beats_left = 0
      BY <2>1, <3>3 DEF BurstInv
    <3> QED
      BY <2>2, <3>1, <3>2, <3>3
  <2> QED
    BY <1>2, <2>8, <2>9, <2>10 DEF TypeInv
<1> QED
  BY <1>4, <1>5, <1>6, <1>7, <1>8 DEF Fetch, Answer

LEMMA TypeStep == TypeInv /\ [Next]_vars => TypeInv'
<1>1. ASSUME TypeInv, UNCHANGED vars PROVE TypeInv'
  <2>1. UNCHANGED <<raster, ask, show, mem, ticks, resets, flagged>>
    BY <1>1 DEF vars
  <2>2. PixelType' /\ Clocks'
    BY <1>1, <2>1 DEF TypeInv, PixelType, Clocks, raster, ask, show
  <2>3. BurstType' /\ StoreType' /\ BurstInv' /\ InPlace'
    BY <1>1, <2>1 DEF TypeInv, mem, burst, BurstType, StoreType, BurstInv, InPlace
  <2> QED
    BY <2>2, <2>3 DEF TypeInv
<1> QED
  BY <1>1, TypePixel, TypeRestart, TypeFetch DEF Next

LEMMA TypeInvariant == Spec => []TypeInv
BY TypeInit, TypeStep, PTL DEF Spec

\* The types of both sides, the port and the two buffers: with bursts of any length, the
\* address never leaves the row.
THEOREM TypeCorrect == Spec => []TypeOK
<1>1. TypeInv => TypeOK
  BY DEF TypeInv, PixelType, BurstType, StoreType, Clocks, TypeOK
<1> QED
  BY <1>1, TypeInvariant, PTL

\* Whatever is torn is torn between rows: a beat in a buffer is always in the place it
\* was read from, for any length of row and burst (ST_DATA, fill_wa).
THEOREM BeatsInPlace == Spec => []InPlace
BY TypeInvariant, PTL DEF TypeInv

-----------------------------------------------------------------------------
(* The handshake: what is shown, what is filled, and how far the request and    *)
(* the acknowledges have come.                                                  *)

\* The top starts the scanout when H_ACT_S > 4; this is what the handshake needs.  With 5
\* to 9 the swap of the very first line can pass before its acknowledge has crossed and
\* before has_line is set, so that nothing counts it, and a later fetch tears the buffer
\* on display in silence.
LateSwap == H_ACT_S >= 10

Nxt(y) == (y + 1) % Rows
busy == state # "IDLE"
\* The request of this line has been taken.
Quiet == req_tog = req_meta[1] /\ req_meta[1] = req_meta[2] /\ req_meta[2] = req_seen
Taken == hcnt >= 3 /\ Quiet
\* Between taking it and the swap.
Filling == Taken /\ hcnt <= H_ACT_S - 3
\* The lines that landed and were not shown are an even number.
Even == fill_sel # show_sel

Raster ==
  /\ req_pulse <=> hcnt = 1
  /\ req_arm <=> hcnt = 2
  /\ show_pulse <=> hcnt = H_ACT_S - 3
  /\ hcnt >= 2 => req_y = Nxt(line)

\* The toggle crosses in the clocks after the pulse, an edge a stage.
Asked(k) ==
  CASE k = 1 -> req_tog # req_meta[1] /\ req_meta[1] = req_meta[2] /\ req_meta[2] = req_seen
    [] k = 2 -> req_tog = req_meta[1] /\ req_meta[1] # req_meta[2] /\ req_meta[2] = req_seen
    [] k = 3 -> req_tog = req_meta[1] /\ req_meta[1] = req_meta[2] /\ req_meta[2] # req_seen
    [] OTHER -> Quiet
Crossing ==
  /\ hcnt \notin 3..5 => Quiet
  /\ hcnt = 3 /\ ticks = 0 => Asked(1)
  /\ hcnt = 3 /\ ticks # 0 => Asked(2) \/ Asked(3) \/ Quiet
  /\ hcnt = 4 /\ ticks = 0 => Asked(2) \/ Asked(3) \/ Quiet
  /\ hcnt = 4 /\ ticks # 0 => Asked(3) \/ Quiet
  /\ hcnt = 5 /\ ticks = 0 => Asked(3) \/ Quiet
  /\ hcnt = 5 /\ ticks # 0 => Quiet

\* The acknowledges on their way, and the one that waits.
One(p) == IF p THEN 1 ELSE 0
Tokens == One(ack_tog # ack_meta[1]) + One(ack_meta[1] # ack_meta[2])
          + One(ack_meta[2] # ack_seen) + One(pending)

Ahead == ack_meta[1] # ack_meta[2] \/ ack_meta[2] # ack_seen \/ pending
Tokened ==
  IF Filling
  THEN /\ busy /\ Even => Tokens = 0
       /\ ~Even => Tokens <= 1
       /\ ~busy /\ Even => Tokens <= 2
  ELSE /\ busy => Even
       /\ Even => Tokens = 0
       /\ ~Even => Tokens <= 1

Progress ==
  CASE state = "ISSUE" -> 1 + fill_addr
    [] state = "WAIT"  -> 2 + fill_addr
    [] OTHER           -> 3 + fill_addr
FirstSwap ==
  ~has_line =>
    /\ last = None
    /\ ~busy /\ ~Even => Tokens >= 1
    /\ ~busy /\ ~Even /\ ~Taken /\ hcnt = 5 => Ahead
    /\ Filling /\ (busy <=> ~Even) =>
         /\ hcnt <= 4 => Tokens >= 1
         /\ hcnt = 5 => Ahead
         /\ hcnt = 6 => ack_meta[2] # ack_seen \/ pending
         /\ hcnt >= 7 => pending
    /\ Filling /\ busy /\ ~Even /\ ~Ahead /\ hcnt <= 4 => ticks >= Progress

Stored(s, x) == IF fill.we /\ fill.sel = s /\ fill.wa = x THEN fill.data ELSE linebuf[s][x]
RowOf(s) == Stored(s, 0).y
Whole(s) == \A x \in 0..Beats - 1 : Stored(s, x) = [y |-> RowOf(s), x |-> x]

Writes ==
  /\ fill.we => fill.sel = IF busy THEN fill_sel ELSE 1 - fill_sel
  /\ ~Filling /\ ~busy /\ Even => ~fill.we
  /\ Filling /\ ~busy /\ ~Even /\ fill.we =>
       ack_tog # ack_meta[1] \/ (ticks = 0 /\ ack_meta[1] # ack_meta[2])

Buffers ==
  /\ busy =>
       /\ addr.y = IF Taken THEN Nxt(line) ELSE line
       /\ state # "ISSUE" => port.y = addr.y
       /\ \A x \in 0..fill_addr - 1 : Stored(fill_sel, x) = [y |-> addr.y, x |-> x]
  /\ has_line \/ ~Even \/ (Filling /\ ~busy) =>
       /\ Whole(1 - fill_sel)
       /\ Taken /\ ~busy => RowOf(1 - fill_sel) = Nxt(line)
       /\ (Taken <=> busy) => RowOf(1 - fill_sel) = line
       /\ ~Taken /\ busy => Nxt(RowOf(1 - fill_sel)) = line
  /\ ~busy /\ ((has_line /\ ~Even) \/ (Filling /\ Even)) =>
       /\ Whole(fill_sel)
       /\ Taken => RowOf(fill_sel) = line
       /\ ~Taken => Nxt(RowOf(fill_sel)) = line

\* The rows come one line after they were asked for, or two.
Fresh == IF Filling THEN busy <=> Even ELSE ~busy /\ Even
LastRow ==
  last # None =>
    /\ last \in Nat
    /\ IF hcnt <= H_ACT_S + 1 THEN (IF Fresh THEN last ELSE Nxt(last)) = line
       ELSE last = IF Fresh THEN Nxt(line) ELSE line

StepInv == /\ Raster /\ Crossing /\ Tokened /\ FirstSwap /\ Writes /\ Buffers /\ LastRow
FetchInv == resets = 0 /\ ~flagged => StepInv

\* A step that flags nothing, and the kinds of edge there are: the last beat of a row, and
\* those that neither take a request nor hand a row over.
Live == TypeInv /\ StepInv /\ resets = 0 /\ ~flagged
LiveNext == resets' = 0 /\ ~flagged'
Land == Data /\ burst_left = 1 /\ beats_left = 0
Carry == Rest \/ Stall \/ Issue \/ Accept \/ (Data /\ ~(burst_left = 1 /\ beats_left = 0))

LEMMA LongLine == LateSwap => H_ACT_S \in Nat /\ H_TOT \in Nat /\ H_ACT_S >= 10 /\ H_TOT > H_ACT_S + Beats
                             /\ Beats \in Nat \ {0}
  BY FetchAssumption DEF FetchAssumption, LateSwap

LEMMA PixelMoves ==
  ASSUME LateSwap, TypeInv, Raster, PixelClock
  PROVE  /\ hcnt \in 0..H_TOT - 1
         /\ hcnt' = IF hcnt = H_TOT - 1 THEN 0 ELSE hcnt + 1
         /\ line' = IF hcnt = H_TOT - 1 THEN Nxt(line) ELSE line
         /\ ticks \in Nat /\ ticks > 0 /\ ticks' = 0
         /\ UNCHANGED <<mem, resets>>
         /\ req_tog' = IF hcnt = 2 THEN 1 - req_tog ELSE req_tog
<1>1. PixelType /\ Clocks
  BY DEF TypeInv
<1>2. hcnt \in 0..H_TOT - 1 /\ ticks \in Nat
  BY <1>1, Sizes DEF PixelType, Clocks
<1>3. req_tog' = IF hcnt = 2 THEN 1 - req_tog ELSE req_tog
  BY DEF Raster, PixelClock, Ask, Announce
<1> QED
  BY <1>2, <1>3 DEF PixelClock, Count, Nxt

LEMMA RasterPixel ==
  ASSUME LateSwap, TypeInv, Raster, PixelClock PROVE Raster'
<1>1. /\ hcnt \in 0..H_TOT - 1
      /\ hcnt' = IF hcnt = H_TOT - 1 THEN 0 ELSE hcnt + 1
      /\ line' = IF hcnt = H_TOT - 1 THEN Nxt(line) ELSE line
  BY PixelMoves
<1>2. req_pulse' <=> hcnt' = 1
  <2>1. req_pulse' <=> hcnt = 0
    BY DEF PixelClock, Pulses
  <2> QED
    BY <1>1, <2>1, LongLine
<1>3. req_arm' <=> hcnt' = 2
  BY <1>1, LongLine DEF PixelClock, Ask, Raster
<1>4. show_pulse' <=> hcnt' = H_ACT_S - 3
  <2>1. show_pulse' <=> hcnt = H_ACT_S - 4
    BY DEF PixelClock, Pulses, SwapPoint
  <2> QED
    BY <1>1, <2>1, LongLine
<1>5. hcnt' >= 2 => req_y' = Nxt(line')
  <2>1. hcnt' >= 2 => line' = line /\ hcnt >= 1 /\ (req_pulse <=> hcnt = 1) /\ (hcnt >= 2 => req_y = Nxt(line))
    BY <1>1 DEF Raster
  <2>2. req_y' = IF req_pulse THEN Nxt(line) ELSE req_y
    BY DEF PixelClock, Ask, y_src_next, Nxt
  <2>3. hcnt' >= 2 => req_y' = Nxt(line)
    BY <1>1, <2>1, <2>2
  <2> QED
    BY <2>1, <2>3 DEF Nxt
<1> QED
  BY <1>2, <1>3, <1>4, <1>5, Zenon DEF Raster

LEMMA ShiftOut ==
  ASSUME TypeInv, UNCHANGED <<req_meta, req_seen>>, req_tog' = req_tog
  PROVE  (Quiet' <=> Quiet) /\ (\A k \in 1..3 : Asked(k)' <=> Asked(k))
  BY DEF Quiet, Asked

LEMMA CrossingPixel ==
  ASSUME LateSwap, TypeInv, Raster, Crossing, PixelClock
  PROVE  Crossing' /\ (Taken' <=> hcnt # H_TOT - 1 /\ Taken) /\ (hcnt >= 6 => Taken)
         /\ (hcnt <= 2 => ~Taken)
<1>1. /\ hcnt \in 0..H_TOT - 1
      /\ hcnt' = IF hcnt = H_TOT - 1 THEN 0 ELSE hcnt + 1
      /\ ticks \in Nat /\ ticks > 0 /\ ticks' = 0
      /\ req_tog' = IF hcnt = 2 THEN 1 - req_tog ELSE req_tog
      /\ UNCHANGED <<req_meta, req_seen>>
  BY PixelMoves DEF mem
<1>2. hcnt = 2 => Asked(1)' /\ ~Quiet'
  <2>1. hcnt = 2 => Quiet
    BY DEF Crossing
  <2>2. req_tog \in {0, 1}
    BY DEF TypeInv, PixelType
  <2> QED
    BY <1>1, <2>1, <2>2 DEF Asked, Quiet
<1>3. hcnt # 2 => (Quiet' <=> Quiet) /\ (\A k \in 1..3 : Asked(k)' <=> Asked(k))
  BY <1>1, ShiftOut
<1>4. hcnt # 2 => (Quiet' <=> Quiet) /\ (Asked(2)' <=> Asked(2)) /\ (Asked(3)' <=> Asked(3))
  BY <1>3
<1>5. /\ hcnt \notin 3..5 => Quiet
      /\ hcnt = 3 /\ ticks # 0 => Asked(2) \/ Asked(3) \/ Quiet
      /\ hcnt = 4 /\ ticks # 0 => Asked(3) \/ Quiet
      /\ hcnt = 5 /\ ticks # 0 => Quiet
  BY DEF Crossing
<1>6. Crossing'
  <2>1. hcnt' \notin 3..5 => Quiet'
    BY <1>1, <1>4, <1>5, LongLine
  <2>2. hcnt' = 3 /\ ticks' = 0 => Asked(1)'
    BY <1>1, <1>2
  <2>3. hcnt' = 4 /\ ticks' = 0 => Asked(2)' \/ Asked(3)' \/ Quiet'
    BY <1>1, <1>4, <1>5
  <2>4. hcnt' = 5 /\ ticks' = 0 => Asked(3)' \/ Quiet'
    BY <1>1, <1>4, <1>5
  <2> QED
    BY <1>1, <2>1, <2>2, <2>3, <2>4 DEF Crossing
<1>7. (Taken' <=> hcnt # H_TOT - 1 /\ Taken) /\ (hcnt >= 6 => Taken) /\ (hcnt <= 2 => ~Taken)
  BY <1>1, <1>2, <1>4, <1>5, LongLine DEF Taken
<1> QED
  BY <1>6, <1>7

LEMMA FillingPixel ==
  ASSUME LateSwap, TypeInv, Raster, Crossing, PixelClock
  PROVE  /\ Filling' <=> Filling /\ hcnt # H_ACT_S - 3
         /\ show_pulse => Filling /\ hcnt = H_ACT_S - 3
         /\ (Filling /\ ~Filling') => show_pulse
         /\ busy' <=> busy
<1>1. hcnt \in 0..H_TOT - 1 /\ hcnt' = IF hcnt = H_TOT - 1 THEN 0 ELSE hcnt + 1
  BY PixelMoves
<1>2. (Taken' <=> hcnt # H_TOT - 1 /\ Taken) /\ (hcnt >= 6 => Taken)
  BY CrossingPixel
<1>3. Filling' <=> Filling /\ hcnt # H_ACT_S - 3
  BY <1>1, <1>2, LongLine DEF Filling
<1>4. show_pulse <=> hcnt = H_ACT_S - 3
  BY DEF Raster
<1>5. show_pulse => Filling /\ hcnt = H_ACT_S - 3
  BY <1>1, <1>2, <1>4, LongLine DEF Filling
<1>6. busy' <=> busy
  BY PixelMoves DEF mem, busy
<1> QED
  BY <1>3, <1>4, <1>5, <1>6

-----------------------------------------------------------------------------
(* The acknowledges, as they cross *)

LEMMA TokensRange == TypeInv => Tokens \in 0..4
  BY DEF Tokens, One

\* The swap takes one, two that meet become one, and nothing else is lost.
LEMMA TokensPixel ==
  ASSUME TypeInv, PixelClock
  PROVE  /\ Tokens \in 0..4 /\ Tokens' \in 0..4 /\ Tokens' <= Tokens
         /\ show_pulse /\ pending => Tokens' <= Tokens - 1
         /\ ~(show_pulse /\ pending) /\ Tokens >= 1 => Tokens' >= 1 /\ Ahead'
         /\ ~pending => Tokens' = Tokens
         /\ pending => Tokens >= 1
<1> DEFINE a == ack_tog # ack_meta[1]
           b == ack_meta[1] # ack_meta[2]
           c == ack_meta[2] # ack_seen
<1>1. ack_meta'[1] = ack_tog /\ ack_meta'[2] = ack_meta[1] /\ ack_seen' = ack_meta[2]
      /\ ack_tog' = ack_tog
  BY DEF PixelClock, Swap, mem
<1>2. pending' <=> IF show_pulse /\ pending THEN FALSE ELSE pending \/ c
  BY DEF PixelClock, Swap, Landed
<1>3. Tokens = One(a) + One(b) + One(c) + One(pending)
  BY DEF Tokens
<1>4. Tokens' = 0 + One(a) + One(b) + (IF show_pulse /\ pending THEN 0 ELSE One(pending \/ c))
  BY <1>1, <1>2 DEF Tokens, One
<1>5. Ahead' <=> a \/ b \/ pending'
  BY <1>1 DEF Ahead
<1> HIDE DEF a, b, c
<1>6. CASE show_pulse /\ pending
  BY <1>3, <1>4, <1>6 DEF One
<1>7. CASE ~(show_pulse /\ pending)
  BY <1>2, <1>3, <1>4, <1>5, <1>7 DEF One
<1> QED
  BY <1>6, <1>7

LEMMA TokensMem ==
  ASSUME TypeInv, MemEdge
  PROVE  /\ Tokens \in 0..4 /\ Tokens' \in 0..4
         /\ ack_tog' = ack_tog => Tokens' = Tokens
         /\ ack_tog' = 1 - ack_tog => Tokens' <= Tokens + 1
         /\ ack_tog' = 1 - ack_tog /\ Tokens = 0 => Tokens' = 1 /\ ack_tog' # ack_meta'[1]
         /\ Ahead' <=> Ahead
         /\ Ahead => Tokens >= 1
         /\ UNCHANGED <<raster, ask, show, resets>>
<1>1. UNCHANGED <<raster, ask, show, resets>>
  BY DEF MemEdge
<1>2. UNCHANGED <<ack_meta, ack_seen, pending>>
  BY <1>1 DEF show
<1>3. ack_tog \in {0, 1} /\ ack_meta[1] \in {0, 1}
  BY DEF TypeInv, BurstType, PixelType
<1>4. (Ahead' <=> Ahead) /\ (Ahead => Tokens >= 1)
  BY <1>2 DEF Ahead, Tokens, One
<1>5. ack_tog' = 1 - ack_tog /\ Tokens = 0 => Tokens' = 1 /\ ack_tog' # ack_meta'[1]
  BY <1>2, <1>3 DEF Tokens, One
<1>6. Tokens \in 0..4 /\ Tokens' \in 0..4 /\ (ack_tog' = ack_tog => Tokens' = Tokens)
  BY <1>2 DEF Tokens, One
<1>7. ack_tog' = 1 - ack_tog => Tokens' <= Tokens + 1
  BY <1>2, <1>3 DEF Tokens, One
<1> QED
  BY <1>1, <1>4, <1>5, <1>6, <1>7

LEMMA EvenPixel ==
  ASSUME TypeInv, PixelClock
  PROVE  /\ show_pulse /\ pending => (Even' <=> ~Even)
         /\ ~(show_pulse /\ pending) => (Even' <=> Even)
<1>1. fill_sel \in {0, 1} /\ show_sel \in {0, 1} /\ fill_sel' = fill_sel
  BY DEF TypeInv, PixelType, BurstType, PixelClock, mem
<1>2. show_sel' = IF show_pulse /\ pending THEN 1 - show_sel ELSE show_sel
  BY DEF PixelClock, Swap
<1> QED
  BY <1>1, <1>2 DEF Even

LEMMA TokenedPixel ==
  ASSUME LateSwap, Live, PixelClock, LiveNext PROVE Tokened'
<1>1. TypeInv /\ Raster /\ Crossing /\ Tokened /\ FirstSwap
  BY DEF Live, StepInv
<1>2. /\ Filling' <=> Filling /\ hcnt # H_ACT_S - 3
      /\ show_pulse => Filling /\ hcnt = H_ACT_S - 3
      /\ (Filling /\ ~Filling') => show_pulse
      /\ busy' <=> busy
  BY <1>1, FillingPixel
<1>3. /\ Tokens \in 0..4 /\ Tokens' \in 0..4 /\ Tokens' <= Tokens
      /\ show_pulse /\ pending => Tokens' <= Tokens - 1
      /\ pending => Tokens >= 1
  BY <1>1, TokensPixel
<1>4. /\ show_pulse /\ pending => (Even' <=> ~Even)
      /\ ~(show_pulse /\ pending) => (Even' <=> Even)
  BY <1>1, EvenPixel
<1>5. show_pulse /\ ~pending => ~has_line
  BY DEF PixelClock, Late, LiveNext
<1>6. show_pulse /\ ~pending => ~(busy <=> ~Even)
  BY <1>1, <1>2, <1>5, LongLine DEF FirstSwap
<1>7. CASE show_pulse
  BY <1>1, <1>2, <1>3, <1>4, <1>6, <1>7 DEF Tokened
<1>8. CASE ~show_pulse
  BY <1>1, <1>2, <1>3, <1>4, <1>8 DEF Tokened
<1> QED
  BY <1>7, <1>8

LEMMA FirstSwapPixel ==
  ASSUME LateSwap, Live, PixelClock, LiveNext PROVE FirstSwap'
<1> SUFFICES ASSUME ~has_line' PROVE FirstSwap'
  BY DEF FirstSwap
<1>1. TypeInv /\ Raster /\ Crossing /\ Tokened /\ FirstSwap
  BY DEF Live, StepInv
<1>2. ~has_line /\ ~(show_pulse /\ pending)
  BY DEF PixelClock, Swap
<1>3. /\ Filling' <=> Filling /\ hcnt # H_ACT_S - 3
      /\ show_pulse => Filling /\ hcnt = H_ACT_S - 3
      /\ (Filling /\ ~Filling') => show_pulse
      /\ busy' <=> busy
  BY <1>1, FillingPixel
<1>4. /\ Tokens \in 0..4 /\ Tokens' \in 0..4 /\ Tokens' <= Tokens
      /\ Tokens >= 1 => Tokens' >= 1 /\ Ahead'
  BY <1>1, <1>2, TokensPixel
<1>5. Even' <=> Even
  BY <1>1, <1>2, EvenPixel
<1>6. /\ hcnt \in 0..H_TOT - 1 /\ hcnt' = (IF hcnt = H_TOT - 1 THEN 0 ELSE hcnt + 1)
      /\ ticks' = 0
  BY <1>1, PixelMoves
<1>7. (Taken' <=> hcnt # H_TOT - 1 /\ Taken) /\ (hcnt <= 2 => ~Taken)
  BY <1>1, CrossingPixel
<1>8. last' = None
  BY <1>1, <1>2 DEF PixelClock, FirstSwap
<1>9. ~busy' /\ ~Even' => Tokens' >= 1
  BY <1>1, <1>2, <1>3, <1>4, <1>5 DEF FirstSwap
<1>10. ~busy' /\ ~Even' /\ ~Taken' /\ hcnt' = 5 => Ahead'
  BY <1>1, <1>2, <1>3, <1>4, <1>5, LongLine DEF FirstSwap
<1>11. Filling' /\ (busy' <=> ~Even') => Filling /\ (busy <=> ~Even) /\ hcnt' = hcnt + 1
  BY <1>3, <1>5, <1>6, <1>7 DEF Filling
<1>12. /\ (ack_meta[1] # ack_meta[2] \/ ack_meta[2] # ack_seen \/ pending)
            => (ack_meta[2] # ack_seen \/ pending)'
       /\ (ack_meta[2] # ack_seen \/ pending) => pending'
  BY <1>2 DEF PixelClock, Swap, Landed
<1>13. Filling' /\ (busy' <=> ~Even') =>
         /\ hcnt' <= 4 => Tokens' >= 1
         /\ hcnt' = 5 => Ahead'
         /\ hcnt' = 6 => (ack_meta[2] # ack_seen \/ pending)'
         /\ hcnt' >= 7 => pending'
  <2> SUFFICES ASSUME Filling, busy <=> ~Even, hcnt' = hcnt + 1
        PROVE /\ hcnt' <= 4 => Tokens' >= 1
              /\ hcnt' = 5 => Ahead'
              /\ hcnt' = 6 => (ack_meta[2] # ack_seen \/ pending)'
              /\ hcnt' >= 7 => pending'
    BY <1>11
  <2>1. /\ hcnt <= 4 => Tokens >= 1
        /\ hcnt = 5 => (ack_meta[1] # ack_meta[2] \/ ack_meta[2] # ack_seen \/ pending)
        /\ hcnt = 6 => ack_meta[2] # ack_seen \/ pending
        /\ hcnt >= 7 => pending
    BY <1>1, <1>2 DEF FirstSwap, Ahead
  <2>2. hcnt' <= 4 => Tokens' >= 1
    BY <1>4, <1>6, <2>1
  <2>3. hcnt' = 5 => Ahead'
    BY <1>4, <1>6, <2>1
  <2>4. hcnt' = 6 => (ack_meta[2] # ack_seen \/ pending)'
    BY <1>6, <1>12, <2>1
  <2>5. hcnt' >= 7 => pending'
    <3>1. pending => pending'
      BY <1>12
    <3>2. hcnt' >= 7 => hcnt = 6 \/ hcnt >= 7
      BY <1>6
    <3> QED
      BY <1>12, <2>1, <3>1, <3>2
  <2> QED
    BY <2>2, <2>3, <2>4, <2>5
<1>14. ~(Filling' /\ busy' /\ ~Even' /\ ~Ahead' /\ hcnt' <= 4)
  <2> SUFFICES ASSUME Filling', busy', ~Even', ~Ahead', hcnt' <= 4 PROVE FALSE
    OBVIOUS
  <2>1. Filling /\ (busy <=> ~Even) /\ hcnt <= 4
    BY <1>6, <1>11
  <2>2. Tokens >= 1
    BY <1>1, <1>2, <2>1 DEF FirstSwap
  <2> QED
    BY <1>4, <2>2
<1> QED
  BY <1>8, <1>9, <1>10, <1>13, <1>14 DEF FirstSwap

-----------------------------------------------------------------------------
(* The memory's edges *)

LEMMA EdgeOfFetch == Fetch => MemEdge
  BY DEF Fetch, Rest, Take, Issue, Stall, Answer, Accept, Data

\* A request is taken at once: one that finds the fetch busy is counted.
LEMMA EdgeMoves ==
  ASSUME Live, Fetch, LiveNext
  PROVE  /\ UNCHANGED <<raster, ask, show, resets>>
         /\ req_meta'[1] = req_tog /\ req_meta'[2] = req_meta[1]
         /\ req_seen' = req_meta[2]
         /\ Requested => Take
         /\ ticks \in Nat /\ ticks < Ratio /\ ticks' = ticks + 1
<1>1. MemEdge
  BY EdgeOfFetch
<1>2. UNCHANGED <<raster, ask, show, resets>> /\ ticks < Ratio /\ ticks' = ticks + 1
  BY <1>1 DEF MemEdge
<1>3. req_meta'[1] = req_tog /\ req_meta'[2] = req_meta[1]
  BY <1>1 DEF MemEdge
<1>4. Requested => state = "IDLE"
  BY <1>1 DEF MemEdge, Live, LiveNext
<1>5. Requested => Take
  BY <1>4 DEF Fetch, Rest, Issue, Stall, Answer, Accept, Data
<1>6. req_seen' = req_meta[2]
  BY <1>5 DEF Requested, Fetch, Rest, Take, Issue, Stall, Answer, Accept, Data
<1>7. ticks \in Nat
  BY Sizes DEF Live, TypeInv, Clocks
<1> QED
  BY <1>2, <1>3, <1>5, <1>6, <1>7

LEMMA CrossingMem ==
  ASSUME LateSwap, Live, Fetch, LiveNext
  PROVE  /\ Raster' /\ Crossing'
         /\ Taken' <=> Taken \/ Requested
         /\ Requested => ~Taken /\ hcnt \in 3..5
<1>1. /\ UNCHANGED <<hcnt, line, req_pulse, show_pulse, req_y, req_arm, req_tog>>
      /\ req_meta'[1] = req_tog /\ req_meta'[2] = req_meta[1]
      /\ req_seen' = req_meta[2]
      /\ ticks \in Nat /\ ticks' = ticks + 1
  BY EdgeMoves DEF raster, ask
<1>2. Raster /\ Crossing
  BY DEF Live, StepInv
<1>3. Raster'
  BY <1>1, <1>2 DEF Raster, Nxt
<1>4. /\ Quiet => Quiet' /\ ~Requested
      /\ Asked(1) => Asked(2)' /\ ~Quiet' /\ ~Requested /\ ~Quiet
      /\ Asked(2) => Asked(3)' /\ ~Quiet' /\ ~Requested /\ ~Quiet
      /\ Asked(3) => Quiet' /\ Requested /\ ~Quiet
  BY <1>1 DEF Quiet, Asked, Requested
<1>5. Crossing'
  BY <1>1, <1>2, <1>4 DEF Crossing
<1>6. hcnt \in Nat
  BY Sizes DEF Live, TypeInv, PixelType
<1>7. (Taken' <=> Taken \/ Requested) /\ (Requested => ~Taken /\ hcnt \in 3..5)
  BY <1>1, <1>2, <1>4, <1>6 DEF Crossing, Taken
<1> QED
  BY <1>3, <1>5, <1>7

\* Three kinds of edge: the one that takes a request, the one on which a row lands,
\* and the others.
LEMMA EdgeKinds ==
  ASSUME LateSwap, Live, Fetch, LiveNext
  PROVE  \/ /\ Take /\ ~busy /\ busy' /\ fill_sel' = fill_sel /\ ack_tog' = ack_tog
            /\ ~Filling /\ Filling' /\ ~Taken /\ Taken' /\ hcnt \in 3..5
            /\ state' = "ISSUE" /\ fill_addr' = 0
         \/ /\ Land /\ busy /\ ~busy' /\ fill_sel' = 1 - fill_sel /\ ack_tog' = 1 - ack_tog
            /\ (Filling' <=> Filling) /\ (Taken' <=> Taken) /\ Progress = Beats + 2
            /\ ~(hcnt = 5 /\ ~Taken)
         \/ /\ Carry /\ (busy' <=> busy) /\ fill_sel' = fill_sel /\ ack_tog' = ack_tog
            /\ (Filling' <=> Filling) /\ (Taken' <=> Taken)
            /\ (busy => Progress' <= Progress + 1)
            /\ ~(hcnt = 5 /\ ~Taken)
<1>1. hcnt' = hcnt
  BY EdgeMoves DEF raster
<1>2. (Taken' <=> Taken \/ Requested) /\ (Requested => ~Taken /\ hcnt \in 3..5)
  BY CrossingMem
<1>3. hcnt = 5 /\ ~Taken => Requested
  BY DEF Live, StepInv, Crossing, Taken, Asked, Quiet, Requested
<1>4. Requested => Take
  BY EdgeMoves
<1>5. CASE Take
  <2>1. /\ state = "IDLE" /\ state' = "ISSUE" /\ Requested /\ fill_addr' = 0
        /\ fill_sel' = fill_sel /\ ack_tog' = ack_tog
    BY <1>5 DEF Take
  <2>2. ~Taken /\ Taken' /\ hcnt \in 3..5
    BY <1>2, <2>1
  <2>3. ~Filling /\ Filling'
    BY <1>1, <2>2, LongLine DEF Filling
  <2>4. ~busy /\ busy'
    BY <2>1 DEF busy
  <2> QED
    BY <1>5, <2>1, <2>2, <2>3, <2>4
<1>6. CASE ~Take
  <2>1. ~Requested /\ (Taken' <=> Taken) /\ ~(hcnt = 5 /\ ~Taken)
    BY <1>2, <1>3, <1>4, <1>6
  <2>2. Filling' <=> Filling
    BY <1>1, <2>1 DEF Filling
  <2>3. BurstInv /\ BurstType
    BY DEF Live, TypeInv
  <2>4. CASE Land
    <3>1. state = "DATA" /\ state' = "IDLE" /\ fill_sel' = 1 - fill_sel /\ ack_tog' = 1 - ack_tog
      BY <2>4 DEF Land, Data, Acknowledge
    <3>2. Progress = Beats + 2
      BY <2>3, <2>4, <3>1, Sizes DEF Land, Progress, BurstInv, BurstType, Beat
    <3>3. busy /\ ~busy'
      BY <3>1 DEF busy
    <3> QED
      BY <2>1, <2>2, <2>4, <3>1, <3>2, <3>3
  <2>5. CASE Carry
    <3>1. fill_sel' = fill_sel /\ ack_tog' = ack_tog
      BY <2>5 DEF Carry, Rest, Stall, Issue, Accept, Data
    <3>2. busy' <=> busy
      BY <2>3, <2>5, Sizes DEF Carry, Rest, Stall, Issue, Accept, Data, busy, BurstInv, BurstType
    <3>3. busy => Progress' <= Progress + 1
      <4>1. CASE Rest
        BY <4>1 DEF Rest, busy
      <4>2. CASE Stall
        BY <4>2, <2>3, Sizes DEF Stall, Progress, BurstType
      <4>3. CASE Issue
        BY <4>3, <2>3, Sizes DEF Issue, Progress, BurstType
      <4>4. CASE Accept
        BY <4>4, <2>3, Sizes DEF Accept, Progress, BurstType
      <4>5. CASE Data
        <5>1. fill_addr' = (fill_addr + 1) % Beats /\ fill_addr \in 0..Beats - 1
          BY <4>5, <2>3 DEF Data, BurstType
        <5>2. fill_addr' <= fill_addr + 1
          <6>1. CASE fill_addr + 1 \in 0..Beats - 1
            BY <5>1, <6>1, ModBelow, Sizes
          <6>2. CASE fill_addr + 1 = Beats
            BY <5>1, <6>2, ModSelf, Sizes
          <6> QED
            BY <5>1, <6>1, <6>2, Sizes
        <5>3. fill_addr' \in Int /\ state = "DATA"
          BY <4>5, <5>1, Sizes DEF Data
        <5>4. Progress = 3 + fill_addr /\ Progress' <= 3 + fill_addr'
          BY <5>1, <5>3 DEF Progress
        <5> QED
          BY <5>1, <5>2, <5>3, <5>4 DEF Progress
      <4> QED
        BY <2>5, <4>1, <4>2, <4>3, <4>4, <4>5 DEF Carry
    <3> QED
      BY <2>1, <2>2, <2>5, <3>1, <3>2, <3>3
  <2>6. Land \/ Carry
    BY <1>6 DEF Fetch, Answer, Land, Carry
  <2> QED
    BY <2>4, <2>5, <2>6
<1> QED
  BY <1>5, <1>6

LEMMA TokenedMem ==
  ASSUME LateSwap, Live, Fetch, LiveNext PROVE Tokened'
<1>1. TypeInv /\ MemEdge /\ Tokened
  BY EdgeOfFetch DEF Live, StepInv
<1>2. /\ Tokens \in 0..4 /\ Tokens' \in 0..4
      /\ ack_tog' = ack_tog => Tokens' = Tokens
      /\ ack_tog' = 1 - ack_tog => Tokens' <= Tokens + 1
  BY <1>1, TokensMem
<1>3. fill_sel \in {0, 1} /\ show_sel \in {0, 1} /\ show_sel' = show_sel
  BY <1>1, EdgeMoves DEF TypeInv, PixelType, BurstType, show
<1>4. /\ fill_sel' = fill_sel => (Even' <=> Even)
      /\ fill_sel' = 1 - fill_sel => (Even' <=> ~Even)
  BY <1>3 DEF Even
<1>5. CASE Take /\ ~busy /\ busy' /\ fill_sel' = fill_sel /\ ack_tog' = ack_tog /\ ~Filling /\ Filling'
  BY <1>1, <1>2, <1>4, <1>5 DEF Tokened
<1>6. CASE busy /\ ~busy' /\ fill_sel' = 1 - fill_sel /\ ack_tog' = 1 - ack_tog /\ (Filling' <=> Filling)
  BY <1>1, <1>2, <1>4, <1>6 DEF Tokened
<1>7. CASE (busy' <=> busy) /\ fill_sel' = fill_sel /\ ack_tog' = ack_tog /\ (Filling' <=> Filling)
  BY <1>1, <1>2, <1>4, <1>7 DEF Tokened
<1> QED
  BY <1>5, <1>6, <1>7, EdgeKinds

LEMMA FirstSwapMem ==
  ASSUME LateSwap, Live, Fetch, LiveNext PROVE FirstSwap'
<1> SUFFICES ASSUME ~has_line' PROVE FirstSwap'
  BY DEF FirstSwap
<1>1. TypeInv /\ MemEdge /\ Tokened /\ FirstSwap /\ Crossing
  BY EdgeOfFetch DEF Live, StepInv
<1>2. /\ UNCHANGED <<hcnt, last, has_line, ack_meta, ack_seen, pending, show_sel>>
      /\ ticks \in Nat /\ ticks < Ratio /\ ticks' = ticks + 1
  BY EdgeMoves DEF raster, show
<1>3. /\ Tokens \in 0..4 /\ Tokens' \in 0..4
      /\ ack_tog' = ack_tog => Tokens' = Tokens
      /\ ack_tog' = 1 - ack_tog => Tokens' <= Tokens + 1
      /\ ack_tog' = 1 - ack_tog /\ Tokens = 0 => Tokens' = 1
      /\ Ahead' <=> Ahead
      /\ Ahead => Tokens >= 1
  BY <1>1, TokensMem
<1>4. Ahead' => Tokens' >= 1
  BY <1>2 DEF Ahead, Tokens, One
<1>5. fill_sel \in {0, 1} /\ show_sel \in {0, 1}
  BY <1>1 DEF TypeInv, PixelType, BurstType
<1>6. /\ fill_sel' = fill_sel => (Even' <=> Even)
      /\ fill_sel' = 1 - fill_sel => (Even' <=> ~Even)
  BY <1>2, <1>5 DEF Even
<1>7. ~has_line /\ hcnt \in Nat /\ fill_addr \in Nat
  BY <1>1, <1>2, Sizes DEF TypeInv, PixelType, BurstType
<1>8. Progress \in Nat
  BY <1>7 DEF Progress
<1> DEFINE Second == ack_meta[2] # ack_seen \/ pending
<1>9. /\ last = None
      /\ ~busy /\ ~Even => Tokens >= 1
      /\ ~busy /\ ~Even /\ ~Taken /\ hcnt = 5 => Ahead
      /\ Filling /\ (busy <=> ~Even) /\ hcnt <= 4 => Tokens >= 1
      /\ Filling /\ (busy <=> ~Even) /\ hcnt = 5 => Ahead
      /\ Filling /\ (busy <=> ~Even) /\ hcnt = 6 => Second
      /\ Filling /\ (busy <=> ~Even) /\ hcnt >= 7 => pending
      /\ Filling /\ busy /\ ~Even /\ ~Ahead /\ hcnt <= 4 => ticks >= Progress
  BY <1>1, <1>7 DEF FirstSwap
<1>10. Second' <=> Second
  BY <1>2
<1> HIDE DEF Second
<1>11. SUFFICES
      /\ last' = None
      /\ ~busy' /\ ~Even' => Tokens' >= 1
      /\ ~busy' /\ ~Even' /\ ~Taken' /\ hcnt' = 5 => Ahead'
      /\ Filling' /\ (busy' <=> ~Even') /\ hcnt' <= 4 => Tokens' >= 1
      /\ Filling' /\ (busy' <=> ~Even') /\ hcnt' = 5 => Ahead'
      /\ Filling' /\ (busy' <=> ~Even') /\ hcnt' = 6 => Second'
      /\ Filling' /\ (busy' <=> ~Even') /\ hcnt' >= 7 => pending'
      /\ Filling' /\ busy' /\ ~Even' /\ ~Ahead' /\ hcnt' <= 4 => ticks' >= Progress'
  BY DEF FirstSwap, Second
<1>12. CASE /\ ~busy /\ busy' /\ fill_sel' = fill_sel /\ ack_tog' = ack_tog
            /\ ~Filling /\ Filling' /\ ~Taken /\ hcnt \in 3..5
            /\ state' = "ISSUE" /\ fill_addr' = 0
  <2>1. Progress' = 1
    BY <1>12 DEF Progress
  <2> QED
    BY <1>2, <1>3, <1>6, <1>9, <1>12, <2>1
<1>13. CASE /\ busy /\ ~busy' /\ fill_sel' = 1 - fill_sel /\ ack_tog' = 1 - ack_tog
            /\ (Filling' <=> Filling) /\ (Taken' <=> Taken) /\ Progress = Beats + 2
            /\ ~(hcnt = 5 /\ ~Taken)
  <2>1. busy /\ Even => Tokens = 0
    BY <1>1 DEF Tokened
  <2>2. ticks < Progress
    BY <1>2, <1>13, FetchAssumption DEF FetchAssumption
  <2>3. ~busy' /\ ~Even' => Tokens' >= 1
    BY <1>3, <1>6, <1>13, <2>1
  <2>4. Filling' /\ (busy' <=> ~Even') => Filling /\ (busy <=> ~Even) /\ ~Even
    BY <1>6, <1>13
  <2>5. Filling' /\ (busy' <=> ~Even') /\ hcnt' <= 4 => Tokens' >= 1
    <3> SUFFICES ASSUME Filling, busy, ~Even, hcnt <= 4 PROVE Ahead
      BY <1>2, <1>3, <1>4, <1>13, <2>4
    <3> QED
      BY <1>2, <1>8, <1>9, <2>2
  <2> QED
    BY <1>2, <1>3, <1>9, <1>10, <1>13, <2>3, <2>4, <2>5
<1>14. CASE /\ (busy' <=> busy) /\ fill_sel' = fill_sel /\ ack_tog' = ack_tog
            /\ (Filling' <=> Filling) /\ (Taken' <=> Taken)
            /\ (busy => Progress' <= Progress + 1)
  <2>1. Progress' \in Int
    <3>1. TypeInv'
      BY TypeStep DEF Live, Next
    <3> QED
      BY <3>1, Sizes DEF TypeInv, BurstType, Progress
  <2>2. Tokens' = Tokens /\ (Even' <=> Even)
    BY <1>3, <1>6, <1>14
  <2> QED
    BY <1>2, <1>3, <1>8, <1>9, <1>10, <1>14, <2>1, <2>2
<1> QED
  BY <1>12, <1>13, <1>14, EdgeKinds

-----------------------------------------------------------------------------
(* The beat under way, and what the two buffers hold *)

LEMMA BitFlip == ASSUME NEW b \in {0, 1} PROVE 1 - b \in {0, 1} /\ 1 - b # b /\ 1 - (1 - b) = b
  OBVIOUS

LEMMA WritesPixel ==
  ASSUME LateSwap, Live, PixelClock, LiveNext PROVE Writes'
<1>1. TypeInv /\ Raster /\ Crossing /\ Tokened /\ FirstSwap /\ Writes
  BY DEF Live, StepInv
<1>2. /\ Filling' <=> Filling /\ hcnt # H_ACT_S - 3
      /\ show_pulse => Filling /\ hcnt = H_ACT_S - 3
      /\ (Filling /\ ~Filling') => show_pulse
      /\ busy' <=> busy
  BY <1>1, FillingPixel
<1>3. /\ show_pulse /\ pending => (Even' <=> ~Even)
      /\ ~(show_pulse /\ pending) => (Even' <=> Even)
  BY <1>1, EvenPixel
<1>4. UNCHANGED <<fill, fill_sel, ack_tog>> /\ ticks # 0 /\ ticks' = 0
      /\ ack_meta'[1] = ack_tog /\ ack_meta'[2] = ack_meta[1]
  BY <1>1, PixelMoves DEF mem, PixelClock, Swap
<1>5. show_pulse /\ ~pending => ~has_line
  BY DEF PixelClock, Late, LiveNext
<1>6. show_pulse /\ ~pending => ~(busy <=> ~Even)
  BY <1>1, <1>2, <1>5, LongLine DEF FirstSwap
<1>7. (fill.we => fill.sel = IF busy THEN fill_sel ELSE 1 - fill_sel)'
  BY <1>1, <1>2, <1>4 DEF Writes
<1>8. ack_tog # ack_meta[1] /\ pending => Tokens >= 2
  BY DEF Tokens, One
<1>9. (~Filling /\ ~busy /\ Even => ~fill.we)'
  <2> SUFFICES ASSUME ~Filling', ~busy, Even' PROVE ~fill.we
    BY <1>2, <1>4
  <2>1. CASE show_pulse /\ pending
    <3>1. Filling /\ ~Even
      BY <1>2, <1>3, <2>1
    <3>2. Tokens <= 1
      BY <1>1, <3>1 DEF Tokened
    <3>3. Tokens \in 0..4
      BY <1>1, TokensRange
    <3>4. ~(ack_tog # ack_meta[1])
      BY <1>8, <2>1, <3>2, <3>3
    <3> QED
      BY <1>1, <1>4, <3>1, <3>4 DEF Writes
  <2>2. CASE show_pulse /\ ~pending
    BY <1>3, <1>6, <2>2
  <2>3. CASE ~show_pulse
    BY <1>1, <1>2, <1>3, <2>3 DEF Writes
  <2> QED
    BY <2>1, <2>2, <2>3
<1>10. (Filling /\ ~busy /\ ~Even /\ fill.we =>
          ack_tog # ack_meta[1] \/ (ticks = 0 /\ ack_meta[1] # ack_meta[2]))'
  <2> SUFFICES ASSUME Filling', ~busy, ~Even', fill.we PROVE ack_tog # ack_meta[1]
    BY <1>2, <1>4
  <2>1. Filling /\ ~show_pulse
    BY <1>2
  <2> QED
    BY <1>1, <1>3, <1>4, <2>1 DEF Writes
<1> QED
  BY <1>7, <1>9, <1>10 DEF Writes

LEMMA EdgeFill ==
  ASSUME TypeInv, Fetch
  PROVE  /\ ~Data => ~fill'.we
         /\ Data => fill' = [we |-> TRUE, sel |-> fill_sel, wa |-> fill_addr,
                             data |-> [y |-> port.y, x |-> fill_addr]]
<1>1. ~Data => ~fill'.we
  BY NoBeat DEF Fetch, Rest, Take, Issue, Stall, Answer, Accept
<1>2. ASSUME Data PROVE fill' = [we |-> TRUE, sel |-> fill_sel, wa |-> fill_addr,
                                 data |-> [y |-> port.y, x |-> fill_addr]]
  <2>1. port \in Beat /\ fill_addr = port.x + cur_burst - burst_left
    BY <1>2 DEF TypeInv, BurstType, BurstInv, Data
  <2>2. [port EXCEPT !.x = @ + cur_burst - burst_left] = [y |-> port.y, x |-> fill_addr]
    BY <2>1 DEF Beat
  <2> QED
    BY <1>2, <2>2 DEF Data, FillHere
<1> QED
  BY <1>1, <1>2

LEMMA WritesMem ==
  ASSUME LateSwap, Live, Fetch, LiveNext PROVE Writes'
<1>1. TypeInv /\ MemEdge /\ Tokened /\ Writes
  BY EdgeOfFetch DEF Live, StepInv
<1>2. /\ Tokens \in 0..4 /\ Tokens' \in 0..4
      /\ ack_tog' = 1 - ack_tog /\ Tokens = 0 => ack_tog' # ack_meta'[1]
  BY <1>1, TokensMem
<1>3. fill_sel \in {0, 1} /\ show_sel \in {0, 1} /\ show_sel' = show_sel
  BY <1>1, EdgeMoves DEF TypeInv, PixelType, BurstType, show
<1>4. /\ fill_sel' = fill_sel => (Even' <=> Even)
      /\ fill_sel' = 1 - fill_sel => (Even' <=> ~Even)
  BY <1>3 DEF Even
<1>5. /\ ~Data => ~fill'.we
      /\ Data => fill'.sel = fill_sel
  BY <1>1, EdgeFill
<1>6. CASE Take
  BY <1>5, <1>6 DEF Take, Data, Writes
<1>7. CASE /\ Land /\ busy /\ ~busy' /\ fill_sel' = 1 - fill_sel /\ ack_tog' = 1 - ack_tog
           /\ (Filling' <=> Filling)
  <2>1. fill'.sel = 1 - fill_sel'
    BY <1>3, <1>5, <1>7, BitFlip DEF Land
  <2>2. busy /\ Even => Tokens = 0
    BY <1>1 DEF Tokened
  <2>3. ~Filling => ~Even'
    BY <1>1, <1>4, <1>7 DEF Tokened
  <2>4. ~Even' => ack_tog' # ack_meta'[1]
    BY <1>2, <1>4, <1>7, <2>2
  <2> QED
    BY <1>7, <2>1, <2>3, <2>4 DEF Writes
<1>8. CASE /\ Carry /\ (busy' <=> busy) /\ fill_sel' = fill_sel /\ ack_tog' = ack_tog
           /\ (Filling' <=> Filling)
  <2>1. Data => busy
    BY DEF Data, busy
  <2> QED
    BY <1>5, <1>8, <2>1 DEF Writes
<1> QED
  BY <1>6, <1>7, <1>8, EdgeKinds

\* Between two edges of the memory nothing in the buffers changes; an edge writes the
\* beat under way, and the next one is on its way from then on.
LEMMA StoredKept ==
  ASSUME UNCHANGED <<fill, linebuf>>
  PROVE  \A s \in {0, 1} : (Whole(s)' <=> Whole(s)) /\ RowOf(s)' = RowOf(s)
                           /\ \A x \in 0..Beats - 1 : Stored(s, x)' = Stored(s, x)
  BY DEF Whole, RowOf, Stored

LEMMA StoredMem ==
  ASSUME TypeInv, Fetch, NEW s \in {0, 1}, NEW x \in 0..Beats - 1
  PROVE  Stored(s, x)' = IF Data /\ s = fill_sel /\ x = fill_addr
                         THEN [y |-> port.y, x |-> fill_addr] ELSE Stored(s, x)
<1>1. linebuf'[s][x] = Stored(s, x)
  <2>1. linebuf' = IF fill.we THEN [linebuf EXCEPT ![fill.sel][fill.wa] = fill.data] ELSE linebuf
    BY EdgeOfFetch DEF MemEdge, WriteSelect
  <2>2. linebuf \in [{0, 1} -> [0..Beats - 1 -> Beat]]
    BY DEF TypeInv, StoreType
  <2>3. fill.sel \in {0, 1} /\ fill.wa \in 0..Beats - 1
    BY DEF TypeInv, StoreType
  <2> QED
    BY <2>1, <2>2, <2>3 DEF Stored
<1>2. CASE Data
  <2>1. fill' = [we |-> TRUE, sel |-> fill_sel, wa |-> fill_addr,
                 data |-> [y |-> port.y, x |-> fill_addr]]
    BY <1>2, EdgeFill
  <2> QED
    BY <1>1, <1>2, <2>1 DEF Stored
<1>3. CASE ~Data
  <2>1. ~fill'.we
    BY <1>3, EdgeFill
  <2> QED
    BY <1>1, <1>3, <2>1 DEF Stored
<1> QED
  BY <1>2, <1>3

LEMMA WholeMem ==
  ASSUME TypeInv, Fetch, NEW s \in {0, 1}, ~(Data /\ s = fill_sel)
  PROVE  (Whole(s)' <=> Whole(s)) /\ RowOf(s)' = RowOf(s)
<1>1. \A x \in 0..Beats - 1 : Stored(s, x)' = Stored(s, x)
  BY StoredMem
<1>2. 0 \in 0..Beats - 1
  BY Sizes
<1>3. RowOf(s)' = RowOf(s)
  BY <1>1, <1>2 DEF RowOf
<1> QED
  BY <1>1, <1>3 DEF Whole

\* The three parts of Buffers: the row coming in, the buffer that is not being filled,
\* and the other one while it still counts.
Incoming ==
  busy =>
    /\ addr.y = IF Taken THEN Nxt(line) ELSE line
    /\ state # "ISSUE" => port.y = addr.y
    /\ \A x \in 0..fill_addr - 1 : Stored(fill_sel, x) = [y |-> addr.y, x |-> x]
NewerIs(s) ==
  /\ Whole(s)
  /\ Taken /\ ~busy => RowOf(s) = Nxt(line)
  /\ (Taken <=> busy) => RowOf(s) = line
  /\ ~Taken /\ busy => Nxt(RowOf(s)) = line
OlderIs(s) ==
  /\ Whole(s)
  /\ Taken => RowOf(s) = line
  /\ ~Taken => Nxt(RowOf(s)) = line
HasNewer == has_line \/ ~Even \/ (Filling /\ ~busy)
HasOlder == ~busy /\ ((has_line /\ ~Even) \/ (Filling /\ Even))

LEMMA BuffersParts ==
  Buffers <=> Incoming /\ (HasNewer => NewerIs(1 - fill_sel)) /\ (HasOlder => OlderIs(fill_sel))
  BY DEF Buffers, Incoming, NewerIs, OlderIs, HasNewer, HasOlder

LEMMA BuffersPixel ==
  ASSUME LateSwap, Live, PixelClock, LiveNext PROVE Buffers'
<1>1. TypeInv /\ Raster /\ Crossing /\ Tokened
  BY DEF Live, StepInv
<1>2. Incoming /\ (HasNewer => NewerIs(1 - fill_sel)) /\ (HasOlder => OlderIs(fill_sel))
  BY BuffersParts DEF Live, StepInv
<1>3. UNCHANGED <<state, addr, port, fill, linebuf, fill_sel, fill_addr>> /\ (busy' <=> busy)
  BY <1>1, PixelMoves DEF mem, burst, busy
<1>4. \A s \in {0, 1} : (Whole(s)' <=> Whole(s)) /\ RowOf(s)' = RowOf(s)
                        /\ \A x \in 0..Beats - 1 : Stored(s, x)' = Stored(s, x)
  BY <1>3, StoredKept
<1>5. fill_sel \in {0, 1} /\ 1 - fill_sel \in {0, 1} /\ fill_addr \in 0..Beats - 1 /\ hcnt \in Nat
      /\ line \in RowNo
  BY <1>1, Sizes DEF TypeInv, BurstType, PixelType
<1>6. \/ (Taken' <=> Taken) /\ line' = line
      \/ Taken /\ ~Taken' /\ line' = Nxt(line)
  <2>1. (Taken' <=> hcnt # H_TOT - 1 /\ Taken) /\ (hcnt >= 6 => Taken)
    BY <1>1, CrossingPixel
  <2>2. line' = IF hcnt = H_TOT - 1 THEN Nxt(line) ELSE line
    BY <1>1, PixelMoves
  <2>3. hcnt = H_TOT - 1 => Taken
    BY <1>5, <2>1, LongLine
  <2> QED
    BY <2>1, <2>2, <2>3
<1>7. \A y : Nxt(y)' = Nxt(y)
  BY DEF Nxt
<1>8. Incoming'
  <2> SUFFICES ASSUME busy
        PROVE /\ addr.y = IF Taken' THEN Nxt(line') ELSE line'
              /\ state # "ISSUE" => port.y = addr.y
              /\ \A x \in 0..fill_addr - 1 : Stored(fill_sel, x)' = [y |-> addr.y, x |-> x]
    BY <1>3 DEF Incoming, Nxt
  <2>1. addr.y = IF Taken' THEN Nxt(line') ELSE line'
    BY <1>2, <1>6 DEF Incoming
  <2>2. \A x \in 0..fill_addr - 1 : Stored(fill_sel, x)' = [y |-> addr.y, x |-> x]
    <3>1. \A x \in 0..fill_addr - 1 : x \in 0..Beats - 1
      BY <1>5, Sizes
    <3> QED
      BY <1>2, <1>3, <1>4, <1>5, <3>1 DEF Incoming
  <2> QED
    BY <1>2, <2>1, <2>2 DEF Incoming
<1>9. ASSUME NEW s \in {0, 1} PROVE (NewerIs(s) => NewerIs(s)') /\ (OlderIs(s) => OlderIs(s)')
  <2>1. (Whole(s)' <=> Whole(s)) /\ RowOf(s)' = RowOf(s)
    BY <1>4
  <2>2. Nxt(line)' = Nxt(line') /\ Nxt(RowOf(s))' = Nxt(RowOf(s)')
    BY DEF Nxt
  <2>3. NewerIs(s) => NewerIs(s)'
    BY <1>3, <1>6, <2>1, <2>2 DEF NewerIs
  <2>4. OlderIs(s) => OlderIs(s)'
    BY <1>3, <1>6, <2>1, <2>2 DEF OlderIs
  <2> QED
    BY <2>3, <2>4
<1>10. /\ Filling' <=> Filling /\ hcnt # H_ACT_S - 3
       /\ show_pulse => Filling /\ hcnt = H_ACT_S - 3
       /\ (Filling /\ ~Filling') => show_pulse
  BY <1>1, FillingPixel
<1>11. /\ show_pulse /\ pending => (Even' <=> ~Even)
       /\ ~(show_pulse /\ pending) => (Even' <=> Even)
  BY <1>1, EvenPixel
<1>12. has_line' <=> has_line \/ (show_pulse /\ pending)
  BY DEF PixelClock, Swap
<1>13. show_pulse /\ pending => ~(busy /\ Even)
  <2>1. pending => Tokens >= 1
    BY <1>1, TokensPixel
  <2> QED
    BY <1>1, <1>10, <2>1 DEF Tokened
<1>14. HasNewer' => HasNewer
  BY <1>3, <1>10, <1>11, <1>12, <1>13 DEF HasNewer
<1>15. HasOlder' => HasOlder
  BY <1>3, <1>10, <1>11, <1>12 DEF HasOlder
<1>16. HasNewer' => NewerIs(1 - fill_sel)'
  <2>1. HasNewer' => NewerIs(1 - fill_sel) /\ fill_sel' = fill_sel
    BY <1>2, <1>3, <1>14
  <2>2. PICK s \in {0, 1} : s = 1 - fill_sel
    BY <1>5
  <2> QED
    BY <1>3, <1>9, <2>1, <2>2
<1>17. HasOlder' => OlderIs(fill_sel)'
  <2>1. HasOlder' => OlderIs(fill_sel) /\ fill_sel' = fill_sel
    BY <1>2, <1>3, <1>15
  <2>2. PICK s \in {0, 1} : s = fill_sel
    BY <1>5
  <2> QED
    BY <1>3, <1>9, <2>1, <2>2
<1> QED
  BY <1>8, <1>16, <1>17 DEF Buffers, Incoming, NewerIs, OlderIs, HasNewer, HasOlder

LEMMA PlacesBefore ==
  ASSUME NEW N \in Nat, NEW a \in 0..N - 1, NEW n \in Int, n <= a + 1, NEW x \in 0..n - 1
  PROVE  x \in 0..N - 1 /\ (x # a => x \in 0..a - 1)
  OBVIOUS

LEMMA BuffersMem ==
  ASSUME LateSwap, Live, Fetch, LiveNext PROVE Buffers'
<1>1. TypeInv /\ Raster /\ Crossing /\ Tokened
  BY DEF Live, StepInv
<1>2. Incoming /\ (HasNewer => NewerIs(1 - fill_sel)) /\ (HasOlder => OlderIs(fill_sel))
  BY BuffersParts DEF Live, StepInv
<1>3. /\ hcnt' = hcnt /\ line' = line /\ req_y' = req_y /\ has_line' = has_line
      /\ show_sel' = show_sel
  BY EdgeMoves DEF raster, ask, show
<1>4. /\ fill_sel \in {0, 1} /\ 1 - fill_sel \in {0, 1} /\ show_sel \in {0, 1}
      /\ fill_addr \in 0..Beats - 1 /\ 1 - fill_sel # fill_sel /\ 1 - (1 - fill_sel) = fill_sel
      /\ addr \in Beat /\ port \in Beat /\ 0 \in 0..Beats - 1 /\ Beats \in Nat
  BY <1>1, Sizes DEF TypeInv, BurstType, PixelType
<1>5. /\ fill_sel' = fill_sel => (Even' <=> Even)
      /\ fill_sel' = 1 - fill_sel => (Even' <=> ~Even)
  BY <1>3, <1>4 DEF Even
<1>6. \A s \in {0, 1} : ~(Data /\ s = fill_sel) => (Whole(s)' <=> Whole(s)) /\ RowOf(s)' = RowOf(s)
  BY <1>1, WholeMem
<1>7. ASSUME NEW s \in {0, 1}, ~(Data /\ s = fill_sel), (Taken' <=> Taken), (busy' <=> busy)
      PROVE  (NewerIs(s) => NewerIs(s)') /\ (OlderIs(s) => OlderIs(s)')
  <2>1. (Whole(s)' <=> Whole(s)) /\ RowOf(s)' = RowOf(s)
    BY <1>6, <1>7
  <2>2. Nxt(line)' = Nxt(line) /\ Nxt(RowOf(s))' = Nxt(RowOf(s))
    BY <1>3, <2>1 DEF Nxt
  <2> QED
    BY <1>3, <1>7, <2>1, <2>2 DEF NewerIs, OlderIs
<1>8. SUFFICES Incoming' /\ (HasNewer' => NewerIs(1 - fill_sel)') /\ (HasOlder' => OlderIs(fill_sel)')
  BY DEF Buffers, Incoming, NewerIs, OlderIs, HasNewer, HasOlder
<1>9. CASE /\ Take /\ ~busy /\ busy' /\ fill_sel' = fill_sel /\ ~Filling /\ ~Taken /\ Taken'
           /\ hcnt \in 3..5 /\ state' = "ISSUE" /\ fill_addr' = 0
  <2>1. addr'.y = Nxt(line)
    <3>1. req_y = Nxt(line)
      BY <1>1, <1>9 DEF Raster
    <3> QED
      BY <1>9, <3>1 DEF Take
  <2>2. Incoming'
    <3>1. \A x \in 0..fill_addr' - 1 : FALSE
      BY <1>9
    <3> QED
      BY <1>3, <1>9, <2>1, <3>1 DEF Incoming, Nxt
  <2>3. ~HasOlder'
    BY <1>9 DEF HasOlder
  <2>4. HasNewer' => NewerIs(1 - fill_sel)'
    <3> SUFFICES ASSUME HasNewer' PROVE NewerIs(1 - fill_sel)'
      OBVIOUS
    <3>1. HasNewer
      BY <1>3, <1>5, <1>9 DEF HasNewer
    <3>2. PICK s \in {0, 1} : s = 1 - fill_sel
      BY <1>4
    <3>3. NewerIs(s) /\ ~Data
      BY <1>2, <1>9, <3>1, <3>2 DEF Take, Data
    <3>4. Whole(s) /\ RowOf(s) = line
      BY <1>9, <3>3 DEF NewerIs
    <3>5. Whole(s)' /\ RowOf(s)' = line'
      BY <1>3, <1>6, <3>3, <3>4
    <3>6. NewerIs(s)'
      BY <1>9, <3>5 DEF NewerIs
    <3> QED
      BY <1>9, <3>2, <3>6
  <2> QED
    BY <2>2, <2>3, <2>4
<1>10. CASE /\ Land /\ busy /\ ~busy' /\ fill_sel' = 1 - fill_sel
            /\ (Filling' <=> Filling) /\ (Taken' <=> Taken)
  <2>1. Incoming'
    BY <1>10 DEF Incoming
  <2>2. PICK s \in {0, 1} : s = fill_sel
    BY <1>4
  <2>3. PICK t \in {0, 1} : t = 1 - fill_sel
    BY <1>4
  <2>4. /\ Data /\ state = "DATA" /\ fill_addr = Beats - 1 /\ port.y = addr.y
    BY <1>1, <1>2, <1>4, <1>10 DEF Land, Data, TypeInv, BurstInv, BurstType, Beat, Incoming
  <2>5. \A x \in 0..Beats - 1 : Stored(s, x)' = [y |-> addr.y, x |-> x]
    <3> SUFFICES ASSUME NEW x \in 0..Beats - 1 PROVE Stored(s, x)' = [y |-> addr.y, x |-> x]
      OBVIOUS
    <3>1. Stored(s, x)' = IF Data /\ s = fill_sel /\ x = fill_addr
                          THEN [y |-> port.y, x |-> fill_addr] ELSE Stored(s, x)
      BY <1>1, StoredMem
    <3>2. CASE x = fill_addr
      BY <2>2, <2>4, <3>1, <3>2
    <3>3. CASE x # fill_addr
      <4>1. x \in 0..fill_addr - 1
        BY <1>4, <2>4, <3>3
      <4>2. Stored(s, x) = [y |-> addr.y, x |-> x]
        BY <1>2, <1>10, <2>2, <4>1 DEF Incoming
      <4> QED
        BY <3>1, <3>3, <4>2
    <3> QED
      BY <3>2, <3>3
  <2>6. RowOf(s)' = addr.y /\ Whole(s)'
    <3>1. Stored(s, 0)' = [y |-> addr.y, x |-> 0]
      BY <1>4, <2>5
    <3>2. RowOf(s)' = addr.y
      BY <3>1 DEF RowOf
    <3> QED
      BY <2>5, <3>2 DEF Whole
  <2>7. NewerIs(s)'
    <3>1. addr.y = IF Taken THEN Nxt(line) ELSE line
      BY <1>2, <1>10 DEF Incoming
    <3>2. Nxt(line)' = Nxt(line)
      BY <1>3 DEF Nxt
    <3> QED
      BY <1>3, <1>10, <2>6, <3>1, <3>2 DEF NewerIs
  <2>8. NewerIs(1 - fill_sel)'
    <3>1. s = 1 - fill_sel'
      BY <1>4, <1>10, <2>2
    <3> QED
      BY <2>7, <3>1
  <2>9. HasOlder' => HasNewer
    BY <1>3, <1>5, <1>10 DEF HasOlder, HasNewer
  <2>10. HasNewer => OlderIs(t)'
    <3> SUFFICES ASSUME HasNewer PROVE OlderIs(t)'
      OBVIOUS
    <3>1. NewerIs(t)
      BY <1>2, <2>3
    <3>2. (Whole(t)' <=> Whole(t)) /\ RowOf(t)' = RowOf(t)
      BY <1>4, <1>6, <2>3
    <3>3. Nxt(RowOf(t))' = Nxt(RowOf(t))
      BY <3>2 DEF Nxt
    <3> QED
      BY <1>3, <1>10, <3>1, <3>2, <3>3 DEF NewerIs, OlderIs
  <2>11. HasOlder' => OlderIs(fill_sel)'
    <3>1. t = fill_sel'
      BY <1>10, <2>3
    <3> QED
      BY <2>9, <2>10, <3>1
  <2> QED
    BY <2>1, <2>8, <2>11
<1>11. CASE /\ Carry /\ (busy' <=> busy) /\ fill_sel' = fill_sel
            /\ (Filling' <=> Filling) /\ (Taken' <=> Taken)
  <2>1. HasNewer' <=> HasNewer
    BY <1>3, <1>5, <1>11 DEF HasNewer
  <2>2. HasOlder' <=> HasOlder
    BY <1>3, <1>5, <1>11 DEF HasOlder
  <2>3. HasNewer' => NewerIs(1 - fill_sel)'
    <3>1. PICK t \in {0, 1} : t = 1 - fill_sel
      BY <1>4
    <3>2. NewerIs(t) => NewerIs(t)'
      BY <1>4, <1>7, <1>11, <3>1
    <3> QED
      BY <1>2, <1>11, <2>1, <3>1, <3>2
  <2>4. HasOlder' => OlderIs(fill_sel)'
    <3>1. PICK s \in {0, 1} : s = fill_sel
      BY <1>4
    <3>2. HasOlder => ~Data
      BY DEF HasOlder, busy, Data
    <3>3. HasOlder /\ OlderIs(s) => OlderIs(s)'
      BY <1>7, <1>11, <3>2
    <3> QED
      BY <1>2, <1>11, <2>2, <3>1, <3>3
  <2>5. Incoming'
    <3> SUFFICES ASSUME busy PROVE /\ addr'.y = IF Taken THEN Nxt(line) ELSE line
                                   /\ state' # "ISSUE" => port'.y = addr'.y
                                   /\ \A x \in 0..fill_addr' - 1 :
                                        Stored(fill_sel, x)' = [y |-> addr'.y, x |-> x]
      BY <1>3, <1>11 DEF Incoming, Nxt
    <3>1. PICK s \in {0, 1} : s = fill_sel
      BY <1>4
    <3>2. /\ addr.y = IF Taken THEN Nxt(line) ELSE line
          /\ state # "ISSUE" => port.y = addr.y
          /\ \A x \in 0..fill_addr - 1 : Stored(s, x) = [y |-> addr.y, x |-> x]
      BY <1>2, <3>1 DEF Incoming
    <3>3. addr'.y = addr.y
      BY <1>4, <1>11 DEF Carry, Rest, Stall, Issue, Accept, Data, busy, burst, Beat
    <3>4. state' # "ISSUE" => port'.y = addr.y
      BY <1>4, <1>11, <3>2 DEF Carry, Rest, Stall, Issue, Accept, Data, busy, burst
    <3>5. \A x \in 0..fill_addr' - 1 : Stored(s, x)' = [y |-> addr.y, x |-> x]
      <4>1. CASE ~Data
        <5>1. fill_addr' = fill_addr
          BY <1>11, <4>1, <3>1 DEF Carry, Rest, Stall, Issue, Accept
        <5>2. \A x \in 0..fill_addr - 1 : x \in 0..Beats - 1
          BY <1>4
        <5>3. \A x \in 0..fill_addr - 1 : Stored(s, x)' = Stored(s, x)
          BY <1>1, <4>1, <5>2, StoredMem
        <5> QED
          BY <3>2, <5>1, <5>3
      <4>2. CASE Data
        <5>1. port.y = addr.y
          BY <3>2, <4>2 DEF Data
        <5>2. fill_addr' \in 0..fill_addr + 1
          <6>1. fill_addr' = (fill_addr + 1) % Beats
            BY <4>2 DEF Data
          <6>2. CASE fill_addr + 1 \in 0..Beats - 1
            BY <1>4, <6>1, <6>2, ModBelow, Sizes
          <6>3. CASE fill_addr + 1 = Beats
            BY <1>4, <6>1, <6>3, ModSelf, Sizes
          <6> QED
            BY <1>4, <6>2, <6>3
        <5> PICK n \in Int : n = fill_addr' /\ n <= fill_addr + 1
          BY <1>4, <5>2
        <5> SUFFICES ASSUME NEW x \in 0..n - 1
                     PROVE Stored(s, x)' = [y |-> addr.y, x |-> x]
          OBVIOUS
        <5>3. x \in 0..Beats - 1 /\ (x # fill_addr => x \in 0..fill_addr - 1)
          <6>1. fill_addr \in 0..Beats - 1 /\ Beats \in Nat
            BY <1>4
          <6> QED
            BY <6>1, PlacesBefore
        <5>4. Stored(s, x)' = IF Data /\ s = fill_sel /\ x = fill_addr
                              THEN [y |-> port.y, x |-> fill_addr] ELSE Stored(s, x)
          BY <1>1, <5>3, StoredMem
        <5> QED
          BY <3>1, <3>2, <4>2, <5>1, <5>3, <5>4
      <4> QED
        BY <4>1, <4>2
    <3>6. state' # "ISSUE" => port'.y = addr'.y
      BY <3>3, <3>4
    <3>7. \A x \in 0..fill_addr' - 1 : Stored(fill_sel, x)' = [y |-> addr'.y, x |-> x]
      BY <1>11, <3>1, <3>3, <3>5
    <3> QED
      BY <3>2, <3>3, <3>6, <3>7
  <2> QED
    BY <2>3, <2>4, <2>5
<1> QED
  BY <1>9, <1>10, <1>11, EdgeKinds

-----------------------------------------------------------------------------
(* What the beam sees *)

\* From the swap to the end of the line the buffer on display holds one row, and
\* which one it is.
LEMMA Shown ==
  ASSUME LateSwap, Live, hcnt >= H_ACT_S - 2, has_line
  PROVE  /\ ~Filling /\ Taken
         /\ Whole(show_sel)
         /\ RowOf(show_sel) = IF Fresh THEN Nxt(line) ELSE line
         /\ \A x \in 0..Beats - 1 : linebuf[show_sel][x] = Stored(show_sel, x)
<1>1. TypeInv /\ Crossing /\ Tokened /\ Writes
  BY DEF Live, StepInv
<1>2. ~Filling /\ Taken
  <2>1. hcnt \in Nat
    BY <1>1, Sizes DEF TypeInv, PixelType
  <2> QED
    BY <1>1, <2>1, LongLine DEF Filling, Taken, Crossing
<1>3. fill_sel \in {0, 1} /\ show_sel \in {0, 1}
  BY <1>1 DEF TypeInv, PixelType, BurstType
<1>4. /\ Even => show_sel = 1 - fill_sel
      /\ ~Even => show_sel = fill_sel
      /\ fill_sel # 1 - fill_sel
  BY <1>3 DEF Even
<1>5. busy => Even
  BY <1>1, <1>2 DEF Tokened
<1>6. (HasNewer => NewerIs(1 - fill_sel)) /\ (HasOlder => OlderIs(fill_sel))
  BY BuffersParts DEF Live, StepInv
<1>7. Whole(show_sel) /\ RowOf(show_sel) = IF Fresh THEN Nxt(line) ELSE line
  <2>1. CASE Even
    <3>1. NewerIs(show_sel)
      BY <1>4, <1>6, <2>1 DEF HasNewer
    <3> QED
      BY <1>2, <2>1, <3>1 DEF NewerIs, Fresh
  <2>2. CASE ~Even
    <3>1. OlderIs(show_sel) /\ ~Fresh
      BY <1>2, <1>4, <1>5, <1>6, <2>2 DEF HasOlder, Fresh
    <3> QED
      BY <1>2, <3>1 DEF OlderIs
  <2> QED
    BY <2>1, <2>2
<1>8. ~(fill.we /\ fill.sel = show_sel)
  BY <1>1, <1>2, <1>4, <1>5 DEF Writes
<1>9. \A x \in 0..Beats - 1 : linebuf[show_sel][x] = Stored(show_sel, x)
  BY <1>8 DEF Stored
<1> QED
  BY <1>2, <1>7, <1>9

LEMMA LastRowPixel ==
  ASSUME LateSwap, Live, PixelClock, LiveNext PROVE LastRow'
<1> SUFFICES ASSUME last' # None PROVE LastRow'
  BY DEF LastRow
<1>1. TypeInv /\ Raster /\ Crossing /\ Tokened /\ FirstSwap /\ LastRow
  BY DEF Live, StepInv
<1>2. /\ hcnt \in 0..H_TOT - 1
      /\ hcnt' = IF hcnt = H_TOT - 1 THEN 0 ELSE hcnt + 1
      /\ line' = IF hcnt = H_TOT - 1 THEN Nxt(line) ELSE line
  BY <1>1, PixelMoves
<1>3. last' = IF hcnt = H_ACT_S + 1 /\ has_line THEN Displayed[0].y ELSE last
  <2>1. xpos = 0 <=> hcnt = H_ACT_S + 1
    BY <1>2, LongLine DEF xpos
  <2> QED
    BY <2>1 DEF PixelClock, Live, LiveNext
<1>4. has_line
  BY <1>1, <1>3 DEF FirstSwap
<1>5. /\ Filling' <=> Filling /\ hcnt # H_ACT_S - 3
      /\ show_pulse => Filling /\ hcnt = H_ACT_S - 3
      /\ (Filling /\ ~Filling') => show_pulse
      /\ busy' <=> busy
  BY <1>1, FillingPixel
<1>6. /\ show_pulse /\ pending => (Even' <=> ~Even)
      /\ ~(show_pulse /\ pending) => (Even' <=> Even)
  BY <1>1, EvenPixel
<1>7. show_pulse => pending
  BY <1>4 DEF PixelClock, Late, LiveNext
<1>8. Fresh' <=> Fresh
  <2>1. CASE show_pulse
    <3>1. ~(busy /\ Even)
      <4>1. Tokens >= 1
        BY <1>1, <1>7, <2>1, TokensPixel
      <4> QED
        BY <1>1, <1>5, <2>1, <4>1 DEF Tokened
    <3> QED
      BY <1>5, <1>6, <1>7, <2>1, <3>1 DEF Fresh
  <2>2. CASE ~show_pulse
    BY <1>5, <1>6, <2>2 DEF Fresh
  <2> QED
    BY <2>1, <2>2
<1>9. /\ line \in Nat /\ Nxt(line) \in Nat /\ Nxt(last') = Nxt(last)'
      /\ Nxt(line)' = Nxt(line')
  BY <1>1, Sizes, ModRange DEF TypeInv, PixelType, RowNo, Nxt
<1>10. CASE hcnt = H_ACT_S + 1
  <2>1. last' = IF Fresh THEN Nxt(line) ELSE line
    <3>1. 0 \in 0..Beats - 1
      BY Sizes
    <3>2. /\ Whole(show_sel)
          /\ RowOf(show_sel) = IF Fresh THEN Nxt(line) ELSE line
          /\ linebuf[show_sel][0] = Stored(show_sel, 0)
      BY <1>4, <1>10, <3>1, Shown, LongLine
    <3>3. last' = RowOf(show_sel)
      BY <1>3, <1>4, <1>10, <3>2 DEF RowOf, Displayed
    <3> QED
      BY <3>2, <3>3
  <2>2. CASE hcnt = H_TOT - 1
    <3>1. hcnt' = 0 /\ line' = Nxt(line) /\ 0 <= H_ACT_S + 1
      BY <1>2, <2>2, LongLine
    <3>2. (IF Fresh' THEN last' ELSE Nxt(last')) = line'
      BY <1>8, <1>9, <2>1, <3>1
    <3> QED
      BY <1>8, <1>9, <2>1, <3>1, <3>2 DEF LastRow
  <2>3. CASE hcnt # H_TOT - 1
    <3>1. hcnt' = H_ACT_S + 2 /\ line' = line /\ ~(hcnt' <= H_ACT_S + 1)
      BY <1>2, <1>10, <2>3, LongLine
    <3> QED
      BY <1>8, <1>9, <2>1, <3>1 DEF LastRow
  <2> QED
    BY <2>2, <2>3
<1>11. CASE hcnt # H_ACT_S + 1
  <2>1. last' = last /\ last # None
    BY <1>3, <1>11
  <2>2. /\ last \in Nat
        /\ IF hcnt <= H_ACT_S + 1 THEN (IF Fresh THEN last ELSE Nxt(last)) = line
           ELSE last = IF Fresh THEN Nxt(line) ELSE line
    BY <1>1, <2>1 DEF LastRow
  <2>3. CASE hcnt = H_TOT - 1
    <3>1. hcnt' = 0 /\ line' = Nxt(line) /\ 0 <= H_ACT_S + 1 /\ ~(hcnt <= H_ACT_S + 1)
      BY <1>2, <1>11, <2>3, LongLine, Sizes
    <3> QED
      BY <1>8, <1>9, <2>1, <2>2, <3>1 DEF LastRow
  <2>4. CASE hcnt # H_TOT - 1
    <3>1. line' = line /\ (hcnt' <= H_ACT_S + 1 <=> hcnt <= H_ACT_S + 1)
      BY <1>2, <1>11, <2>4, LongLine
    <3> QED
      BY <1>8, <1>9, <2>1, <2>2, <3>1 DEF LastRow
  <2> QED
    BY <2>3, <2>4
<1> QED
  BY <1>10, <1>11

LEMMA LastRowMem ==
  ASSUME LateSwap, Live, Fetch, LiveNext PROVE LastRow'
<1>1. TypeInv /\ Tokened /\ LastRow
  BY DEF Live, StepInv
<1>2. /\ hcnt' = hcnt /\ line' = line /\ last' = last /\ show_sel' = show_sel
  BY EdgeMoves DEF raster, show
<1>3. fill_sel \in {0, 1} /\ show_sel \in {0, 1}
  BY <1>1 DEF TypeInv, PixelType, BurstType
<1>4. /\ fill_sel' = fill_sel => (Even' <=> Even)
      /\ fill_sel' = 1 - fill_sel => (Even' <=> ~Even)
  BY <1>2, <1>3 DEF Even
<1>5. ASSUME ~busy /\ busy' /\ fill_sel' = fill_sel /\ ~Filling /\ Filling' PROVE Fresh' <=> Fresh
  BY <1>4, <1>5 DEF Fresh
<1>6. ASSUME busy /\ ~busy' /\ fill_sel' = 1 - fill_sel /\ (Filling' <=> Filling) PROVE Fresh' <=> Fresh
  BY <1>1, <1>4, <1>6 DEF Fresh, Tokened
<1>7. ASSUME (busy' <=> busy) /\ fill_sel' = fill_sel /\ (Filling' <=> Filling) PROVE Fresh' <=> Fresh
  BY <1>4, <1>7 DEF Fresh
<1>8. Fresh' <=> Fresh
  BY <1>5, <1>6, <1>7, EdgeKinds
<1> QED
  BY <1>1, <1>2, <1>8 DEF LastRow, Nxt

-----------------------------------------------------------------------------
(* The invariant, and the two properties *)

LEMMA FetchInvInit == LateSwap /\ Init => FetchInv
<1> SUFFICES ASSUME LateSwap, Init PROVE StepInv
  BY DEF FetchInv
<1>1. /\ hcnt = 0 /\ line = 0 /\ ~req_pulse /\ ~show_pulse /\ ~req_arm /\ req_tog = 0
      /\ req_meta = <<0, 0>> /\ req_seen = 0 /\ state = "IDLE"
      /\ ack_tog = 0 /\ ack_meta = <<0, 0>> /\ ack_seen = 0 /\ ~pending
      /\ fill_sel = 0 /\ show_sel = 1 /\ ~has_line /\ last = None /\ ~fill.we
  BY DEF Init, PixelInit, NoFill
<1>2. Raster
  BY <1>1, LongLine DEF Raster
<1>3. Quiet /\ Crossing
  BY <1>1 DEF Crossing, Quiet
<1>4. ~Taken /\ ~Filling /\ ~busy /\ Even
  BY <1>1 DEF Taken, Filling, busy, Even
<1>5. Tokens = 0
  BY <1>1 DEF Tokens, One
<1>6. Tokened /\ FirstSwap /\ Writes /\ Buffers /\ LastRow
  BY <1>1, <1>4, <1>5 DEF Tokened, FirstSwap, Writes, Buffers, LastRow
<1> QED
  BY <1>2, <1>3, <1>6 DEF StepInv

LEMMA FetchInvStep == LateSwap /\ TypeInv /\ FetchInv /\ [Next]_vars => FetchInv'
<1> SUFFICES ASSUME LateSwap, TypeInv, FetchInv, [Next]_vars, resets' = 0, ~flagged' PROVE StepInv'
  BY DEF FetchInv
<1>1. resets \in Nat /\ flagged \in BOOLEAN
  BY Sizes DEF TypeInv, PixelType, Clocks
<1>2. CASE PixelClock
  <2>1. Live /\ LiveNext
    BY <1>2 DEF PixelClock, Live, LiveNext, FetchInv
  <2>2. Raster' /\ Crossing'
    BY <1>2, <2>1, RasterPixel, CrossingPixel DEF Live, StepInv
  <2> QED
    BY <1>2, <2>1, <2>2, TokenedPixel, FirstSwapPixel, WritesPixel, BuffersPixel, LastRowPixel
    DEF StepInv
<1>3. CASE PixelRestart
  BY <1>1, <1>3 DEF PixelRestart
<1>4. CASE Fetch
  <2>1. Live /\ LiveNext
    BY <1>4, EdgeOfFetch DEF MemEdge, Live, LiveNext, FetchInv
  <2> QED
    BY <1>4, <2>1, CrossingMem, TokenedMem, FirstSwapMem, WritesMem, BuffersMem, LastRowMem
    DEF StepInv
<1>5. CASE UNCHANGED vars
  <2>1. StepInv
    BY <1>5 DEF vars, FetchInv
  <2>2. UNCHANGED <<raster, ask, show, mem, ticks>>
    BY <1>5 DEF vars
  <2>3. Raster' /\ Crossing' /\ Tokened' /\ FirstSwap'
    BY <2>1, <2>2 DEF StepInv, Raster, Crossing, Tokened, FirstSwap, raster, ask, show, mem, burst,
       Nxt, busy, Quiet, Asked, Taken, Filling, Even, One, Tokens, Ahead, Progress
  <2>4. Writes' /\ Buffers' /\ LastRow'
    BY <2>1, <2>2 DEF StepInv, Writes, Buffers, LastRow, raster, ask, show, mem, burst,
       Nxt, busy, Quiet, Taken, Filling, Even, Stored, RowOf, Whole, Fresh
  <2> QED
    BY <2>3, <2>4 DEF StepInv
<1> QED
  BY <1>2, <1>3, <1>4, <1>5 DEF Next

LEMMA FetchInvariant == ASSUME LateSwap PROVE Spec => [](TypeInv /\ FetchInv)
<1>1. LateSwap
  OBVIOUS
<1>2. Init => TypeInv /\ FetchInv
  BY <1>1, TypeInit, FetchInvInit
<1>3. TypeInv /\ FetchInv /\ [Next]_vars => (TypeInv /\ FetchInv)'
  BY <1>1, TypeStep, FetchInvStep
<1> QED
  BY <1>2, <1>3, PTL DEF Spec

\* A picture made of two rows never goes by in silence: as long as neither the underrun
\* counter nor the late one has moved, what the beam reads is one row with every beat in
\* its place, however slow the memory (late_tog in scanout_fetch.v).
THEOREM TearsAreCounted == ASSUME LateSwap PROVE Spec => []TearIsCounted
<1>1. LateSwap
  OBVIOUS
<1>2. TypeInv /\ FetchInv => TearIsCounted
  <2> SUFFICES ASSUME TypeInv, FetchInv, de, has_line, ~flagged, resets = 0 PROVE OneRow(Displayed)
    BY DEF TearIsCounted
  <2>1. Live /\ hcnt >= H_ACT_S - 2
    <3>1. hcnt \in Nat
      BY Sizes DEF TypeInv, PixelType
    <3>2. hcnt - (H_ACT_S + 1) >= 0
      BY <1>1, <3>1, LongLine DEF de, xpos
    <3> QED
      BY <1>1, <3>1, <3>2, LongLine DEF Live, FetchInv
  <2>2. /\ Whole(show_sel)
        /\ \A x \in 0..Beats - 1 : linebuf[show_sel][x] = Stored(show_sel, x)
    BY <1>1, <2>1, Shown
  <2>3. \A x \in 0..Beats - 1 : Displayed[x] = [y |-> RowOf(show_sel), x |-> x]
    BY <2>2 DEF Displayed, Whole
  <2>4. Displayed[0].y = RowOf(show_sel)
    <3>1. 0 \in 0..Beats - 1
      BY Sizes
    <3>2. Displayed[0] = [y |-> RowOf(show_sel), x |-> 0]
      BY <2>3, <3>1
    <3> QED
      BY <3>2
  <2> QED
    BY <2>3, <2>4 DEF OneRow
<1> QED
  BY <1>2, FetchInvariant, PTL

\* And until one of them moves each line of the picture is the row after the one above
\* it, with fast fetches and slow ones in any order; the row number has settled when the
\* memory side samples it (req_arm).
THEOREM RowsFollow == ASSUME LateSwap PROVE Spec => RowsInStep
<1>1. LateSwap
  OBVIOUS
<1>2. TypeInv /\ FetchInv /\ [Next]_vars => [~flagged /\ resets' = 0 => RowFollows /\ RowSettled]_vars
  <2> SUFFICES ASSUME TypeInv, FetchInv, Next, ~flagged, resets' = 0 PROVE RowFollows /\ RowSettled
    OBVIOUS
  <2>1. resets \in Nat
    BY Sizes DEF TypeInv, PixelType
  <2>2. CASE PixelClock
    <3>1. Live
      BY <2>2 DEF PixelClock, Live, FetchInv
    <3>2. RowSettled
      BY <2>2 DEF PixelClock, mem, RowSettled
    <3>3. RowFollows
      <4> SUFFICES ASSUME xpos = 0, has_line, last # None PROVE last' = (last + 1) % Rows
        BY DEF RowFollows
      <4>1. hcnt = H_ACT_S + 1 /\ hcnt >= H_ACT_S - 2
        <5>1. hcnt \in Nat
          BY Sizes DEF TypeInv, PixelType
        <5> QED
          BY <1>1, <5>1, LongLine DEF xpos
      <4>2. show_pulse <=> hcnt = H_ACT_S - 3
        BY <3>1 DEF Live, StepInv, Raster
      <4>3. ~Late
        BY <1>1, <4>1, <4>2, LongLine DEF Late
      <4>4. last' = Displayed[0].y
        BY <2>2, <4>3 DEF PixelClock
      <4>5. 0 \in 0..Beats - 1
        BY Sizes
      <4>6. last' = IF Fresh THEN Nxt(line) ELSE line
        BY <1>1, <3>1, <4>1, <4>4, <4>5, Shown DEF Displayed, RowOf
      <4>7. (IF Fresh THEN last ELSE Nxt(last)) = line
        BY <1>1, <3>1, <4>1, LongLine DEF Live, StepInv, LastRow
      <4> QED
        BY <4>6, <4>7 DEF Nxt
    <3> QED
      BY <3>2, <3>3
  <2>3. CASE PixelRestart
    BY <2>1, <2>3 DEF PixelRestart
  <2>4. CASE Fetch
    <3>1. UNCHANGED <<raster, ask, show, resets>>
      BY <2>4, EdgeOfFetch DEF MemEdge
    <3>2. Raster /\ Crossing
      BY <3>1 DEF FetchInv, StepInv
    <3>3. RowFollows
      BY <3>1 DEF RowFollows, raster
    <3>4. RowSettled
      <4> SUFFICES ASSUME req_seen' # req_seen, req_arm PROVE FALSE
        BY DEF RowSettled
      <4>1. Requested
        BY <2>4 DEF Fetch, Rest, Take, Issue, Stall, Answer, Accept, Data
      <4>2. Quiet
        BY <3>2 DEF Raster, Crossing
      <4> QED
        BY <4>1, <4>2 DEF Requested, Quiet
    <3> QED
      BY <3>3, <3>4
  <2> QED
    BY <2>2, <2>3, <2>4 DEF Next
<1> QED
  BY <1>2, FetchInvariant, PTL DEF Spec, RowsInStep
=============================================================================
