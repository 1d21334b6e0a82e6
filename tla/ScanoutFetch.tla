---------------------------- MODULE ScanoutFetch ----------------------------
(***************************************************************************)
(* The line fetcher, rtl/scanout_fetch.v, between two clocks, with the     *)
(* pulses rtl/blitscrt_top.v gives it and the memory port it reads from.   *)
(*                                                                         *)
(* Once a line the pixel side asks for a row of the framebuffer, by        *)
(* toggling req_tog; the memory side bursts it into the buffer not on      *)
(* display and toggles ack_tog; shortly before the active part of a line   *)
(* the pixel side changes buffers if an acknowledge has come.  The memory  *)
(* clock is the faster one: from one to Ratio edges of it between two      *)
(* pixel clocks.  The memory itself may stall for as long as it likes.     *)
(*                                                                         *)
(* A beat is the row and the place in the row it was read from.            *)
(***************************************************************************)
EXTENDS Integers, Sequences

CONSTANTS
  Rows,        \* lines of the raster, blanked ones included
  Beats,       \* line_beats
  MaxBurst,    \* MAX_BURST
  H_ACT_S,     \* v_hsy + v_hbp, the first active pixel
  H_TOT,       \* pixel clocks in a line; a pixel is a beat here
  Ratio,       \* memory clocks a pixel clock lasts at most: a line takes longer
  Resets       \* bound: losses of the pixel clock's lock

ASSUME FetchAssumption ==
  /\ Rows \in Nat \ {0} /\ Beats \in Nat \ {0} /\ MaxBurst \in Nat \ {0}
  /\ H_ACT_S \in Nat /\ H_ACT_S > 4 /\ H_TOT \in Nat /\ H_TOT > H_ACT_S + Beats
  /\ Ratio \in Nat \ {0} /\ Ratio <= Beats + 2 /\ Resets \in Nat

VARIABLES
  (* pixel clock: the raster and the pulses of the top *)
  hcnt, line, req_pulse, show_pulse,
  (* pixel clock: scanout_fetch *)
  req_y, req_arm, req_tog,
  ack_meta, ack_seen, pending, show_sel, has_line,
  (* memory clock *)
  req_meta, req_seen, state,
  addr,        \* line_addr, a row and a beat of it
  port,        \* avm_address, held from ISSUE to the last beat of the burst
  beats_left, burst_left, cur_burst,
  fill_sel, fill_addr, ack_tog,
  fill,        \* fill_we, fill_sel_q, fill_wa and fill_data
  linebuf,
  (* the clocks, the bound, history *)
  ticks, resets,
  flagged,     \* underrun_tog or late_tog has ever moved
  last         \* the row last displayed, None when there is none or flagged

raster == <<hcnt, line, req_pulse, show_pulse>>
ask  == <<req_y, req_arm, req_tog>>
show == <<ack_meta, ack_seen, pending, show_sel, has_line, last>>
burst == <<addr, port, beats_left, burst_left, cur_burst>>
mem  == <<req_meta, req_seen, state, burst, fill_sel, fill_addr, ack_tog, fill, linebuf>>
vars == <<raster, ask, show, mem, ticks, resets, flagged>>

None == -1
RowNo == 0..Rows - 1
Beat == [y : RowNo \cup {None}, x : 0..Beats - 1]
Blank == [y |-> None, x |-> 0]
NoFill == [we |-> FALSE, sel |-> 0, wa |-> 0, data |-> Blank]

\* The pixel side out of reset: the first buffer shown is the second one filled.
PixelInit ==
  /\ hcnt = 0 /\ line = 0 /\ req_pulse = FALSE /\ show_pulse = FALSE
  /\ req_y = 0 /\ req_arm = FALSE /\ req_tog = 0
  /\ ack_meta = <<0, 0>> /\ ack_seen = 0 /\ pending = FALSE /\ show_sel = 1
  /\ has_line = FALSE /\ last = None

Init ==
  /\ PixelInit
  /\ req_meta = <<0, 0>> /\ req_seen = 0 /\ state = "IDLE"
  /\ addr = Blank /\ port = Blank /\ beats_left = 0 /\ burst_left = 0 /\ cur_burst = 0
  /\ fill_sel = 0 /\ fill_addr = 0 /\ ack_tog = 0 /\ fill = NoFill
  /\ linebuf = [s \in {0, 1} |-> [x \in 0..Beats - 1 |-> Blank]]
  /\ ticks = 0 /\ resets = 0 /\ flagged = FALSE

-----------------------------------------------------------------------------
(* Pixel clock *)

\* The row of the next displayed line.
y_src_next == (line + 1) % Rows

Count ==
  /\ hcnt' = (IF hcnt = H_TOT - 1 THEN 0 ELSE hcnt + 1)
  /\ line' = IF hcnt = H_TOT - 1 THEN (line + 1) % Rows ELSE line

\* Four clocks before active video.
SwapPoint == hcnt = H_ACT_S - 4
Pulses == req_pulse' = (hcnt = 0) /\ show_pulse' = SwapPoint

\* The row first, the toggle a clock later.
Announce == req_arm
Ask ==
  /\ req_arm' = req_pulse
  /\ req_y' = IF req_pulse THEN y_src_next ELSE req_y
  /\ req_tog' = IF Announce THEN 1 - req_tog ELSE req_tog

Landed == ack_meta[2] # ack_seen
Uncounted == FALSE
Late == show_pulse /\ ~pending /\ has_line

\* A swap when one is asked for and a line has landed.  An acknowledge that comes
\* with it or while another is waiting leaves no trace.
Swap ==
  /\ ack_meta' = <<ack_tog, ack_meta[1]>> /\ ack_seen' = ack_meta[2]
  /\ pending' = IF show_pulse /\ pending THEN FALSE ELSE pending \/ Landed
  /\ show_sel' = IF show_pulse /\ pending THEN 1 - show_sel ELSE show_sel
  /\ has_line' = (has_line \/ (show_pulse /\ pending))

\* The raster reads the displayed buffer, a beat a clock.
xpos == hcnt - (H_ACT_S + 1)
de == xpos \in 0..Beats - 1
Displayed == linebuf[show_sel]

PixelClock ==
  /\ ticks > 0 /\ ticks' = 0
  /\ Count /\ Pulses /\ Ask /\ Swap
  /\ flagged' = (flagged \/ Late)
  /\ last' = IF flagged \/ Late THEN None
             ELSE IF xpos = 0 /\ has_line THEN Displayed[0].y ELSE last
  /\ UNCHANGED <<mem, resets>>

\* Lock lost: everything on the pixel clock starts again, the memory side does not.
PixelRestart ==
  /\ resets < Resets /\ resets' = resets + 1
  /\ hcnt' = 0 /\ line' = 0 /\ req_pulse' = FALSE /\ show_pulse' = FALSE
  /\ req_y' = 0 /\ req_arm' = FALSE /\ req_tog' = 0
  /\ ack_meta' = <<0, 0>> /\ ack_seen' = 0 /\ pending' = FALSE /\ show_sel' = 1
  /\ has_line' = FALSE /\ last' = None
  /\ UNCHANGED <<mem, ticks, flagged>>
-----------------------------------------------------------------------------
(* Memory clock *)

Requested == req_meta[2] # req_seen
this_burst == IF beats_left > MaxBurst THEN MaxBurst ELSE beats_left

\* Every edge: the synchroniser, the write of the beat captured last, and an
\* underrun while a request waits.  LateSelect is the buffer being filled by now.
LateSelect == fill_sel
WriteSelect == fill.sel
MemEdge ==
  /\ req_meta' = <<req_tog, req_meta[1]>>
  /\ linebuf' = IF fill.we THEN [linebuf EXCEPT ![WriteSelect][fill.wa] = fill.data] ELSE linebuf
  /\ flagged' = (flagged \/ (Requested /\ state # "IDLE"))
  /\ ticks < Ratio /\ ticks' = ticks + 1
  /\ UNCHANGED <<raster, ask, show, resets>>

Rest ==
  /\ MemEdge /\ state = "IDLE" /\ ~Requested
  /\ fill' = [fill EXCEPT !.we = FALSE]
  /\ UNCHANGED <<req_seen, state, burst, fill_sel, fill_addr, ack_tog>>

Take ==
  /\ MemEdge /\ state = "IDLE" /\ Requested /\ state' = "ISSUE"
  /\ req_seen' = req_meta[2]
  /\ addr' = [y |-> req_y, x |-> 0] /\ beats_left' = Beats /\ fill_addr' = 0
  /\ fill' = [fill EXCEPT !.we = FALSE]
  /\ UNCHANGED <<port, burst_left, cur_burst, fill_sel, ack_tog>>

Issue ==
  /\ MemEdge /\ state = "ISSUE" /\ state' = "WAIT"
  /\ port' = addr /\ cur_burst' = this_burst
  /\ fill' = [fill EXCEPT !.we = FALSE]
  /\ UNCHANGED <<req_seen, addr, beats_left, burst_left, fill_sel, fill_addr, ack_tog>>

Accept ==
  /\ MemEdge /\ state = "WAIT" /\ state' = "DATA"
  /\ burst_left' = cur_burst /\ beats_left' = beats_left - cur_burst
  /\ addr' = [addr EXCEPT !.x = (@ + cur_burst) % Beats]
  /\ fill' = [fill EXCEPT !.we = FALSE]
  /\ UNCHANGED <<req_seen, port, cur_burst, fill_sel, fill_addr, ack_tog>>

\* The port holds the request back, or has no data yet.
Stall ==
  /\ MemEdge /\ state \in {"WAIT", "DATA"}
  /\ fill' = [fill EXCEPT !.we = FALSE]
  /\ UNCHANGED <<req_seen, state, burst, fill_sel, fill_addr, ack_tog>>

\* A beat is captured with the place and the buffer it belongs to; the last one
\* of the line hands the buffer over.
FillHere == [we |-> TRUE, sel |-> fill_sel, wa |-> fill_addr,
             data |-> [port EXCEPT !.x = @ + cur_burst - burst_left]]

DropAck == ack_tog
Acknowledge == 1 - ack_tog
Data ==
  /\ MemEdge /\ state = "DATA"
  /\ fill' = FillHere
  /\ fill_addr' = (fill_addr + 1) % Beats /\ burst_left' = burst_left - 1
  /\ state' = IF burst_left > 1 THEN "DATA" ELSE IF beats_left = 0 THEN "IDLE" ELSE "ISSUE"
  /\ IF burst_left = 1 /\ beats_left = 0
     THEN fill_sel' = 1 - fill_sel /\ ack_tog' = Acknowledge
     ELSE UNCHANGED <<fill_sel, ack_tog>>
  /\ UNCHANGED <<req_seen, addr, port, beats_left, cur_burst>>

Answer == Accept \/ Data
Fetch == Rest \/ Take \/ Issue \/ Stall \/ Answer
Next == PixelClock \/ PixelRestart \/ Fetch

Spec == Init /\ [][Next]_vars

\* Both clocks run, and the memory answers in the end.
FairSpec == Spec /\ WF_vars(PixelClock) /\ WF_vars(Fetch) /\ SF_vars(Answer)
-----------------------------------------------------------------------------
(* Properties *)

TypeOK ==
  /\ hcnt \in 0..H_TOT - 1 /\ line \in RowNo
  /\ req_pulse \in BOOLEAN /\ show_pulse \in BOOLEAN
  /\ req_y \in RowNo /\ req_arm \in BOOLEAN /\ req_tog \in {0, 1}
  /\ ack_meta \in {0, 1} \X {0, 1} /\ ack_seen \in {0, 1} /\ pending \in BOOLEAN
  /\ show_sel \in {0, 1} /\ has_line \in BOOLEAN
  /\ req_meta \in {0, 1} \X {0, 1} /\ req_seen \in {0, 1}
  /\ state \in {"IDLE", "ISSUE", "WAIT", "DATA"}
  /\ addr \in Beat /\ port \in Beat
  /\ beats_left \in 0..Beats /\ burst_left \in 0..MaxBurst /\ cur_burst \in 0..MaxBurst
  /\ fill_sel \in {0, 1} /\ fill_addr \in 0..Beats - 1 /\ ack_tog \in {0, 1}
  /\ fill \in [we : BOOLEAN, sel : {0, 1}, wa : 0..Beats - 1, data : Beat]
  /\ linebuf \in [{0, 1} -> [0..Beats - 1 -> Beat]]
  /\ ticks \in 0..Ratio /\ resets \in 0..Resets /\ flagged \in BOOLEAN
  /\ last \in RowNo \cup {None}

\* The buffers never change places while the beam is in the picture.
SwapInBlanking == [][show_sel' # show_sel /\ resets' = resets => ~de]_vars

\* What the beam reads is one row, every beat in its place: if it is not, one of
\* the two counters has moved ("late_tog reading zero is what says the guard is
\* holding").
OneRow(b) == \A x \in 0..Beats - 1 : b[x] = [y |-> b[0].y, x |-> x]
TearIsCounted == de /\ has_line /\ ~flagged /\ resets = 0 => OneRow(Displayed)

\* Until then each line shows the row after the one above it, fast fetches and
\* slow ones in any order; and the row number is never sampled in the clock in
\* which it moves (the handshake comment).
RowFollows ==
  xpos = 0 /\ has_line /\ last # None /\ hcnt' # hcnt => last' = (last + 1) % Rows
RowSettled == req_seen' # req_seen => ~req_arm
RowsInStep == [][~flagged /\ resets' = 0 => RowFollows /\ RowSettled]_vars

\* Whatever was lost, stalled or reset, lines go on being swapped in.
LinesKeepComing == []<><<show_sel' # show_sel>>_vars
=============================================================================
