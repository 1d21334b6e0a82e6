# blitsCRT in TLA+

blitsCRT turns a DE10-Nano into a USB display for a 15 kHz CRT. A host sees a
GUD ("Generic USB Display") device; a Linux daemon on the board's ARM side
(`sw/`) answers the protocol and copies rectangles of pixels into memory; the
FPGA fabric (`rtl/`) reads that memory a line ahead of the beam and generates
the raster. This directory models the parts of it where the order of events
decides, checks them with TLC, and proves some of the results with TLAPS.

## 1. The system

### Parts, their state, and what they do

| part | source | state | operations |
|---|---|---|---|
| event loop | `sw/gadget.c` `blitscrt_gadget_run`, `handle_setup`, `handle_bulk`, `_close` | `bound`, `running`, the header queue `rectq` | SETUP, ENABLE, DISABLE, user press, heartbeat, close |
| bulk reader | `sw/gadget.c` `bulk_worker` | popped header, slot being filled, `sin` | pop a header, wait for a slot, read packets, publish |
| frame processor | `sw/gadget.c` `blit_worker` | slot being drained, `sout` | take, decompress, blit, release |
| display device | `sw/device.c` | pending and active mode, `controller_enabled`, `host_attached`, `idle_since`, `testcard_shown`, `buffer` | check, commit, enable, SET_BUFFER, heartbeat, on_host |
| fabric driver | `sw/fabric.c` | strobe, scanout geometry, window | register access, set_mode, enable, blit, fill |
| mode check, PLL solver | `sw/modes.c`, `sw/pll.c`, `sw/pll_reconfig.c` | none | pure |
| LZ4 | `sw/lz4dec.c` | none | pure |
| bridge | `rtl/blitscrt_bridge.v` | strobe synchroniser, request, stall counter | one Avalon transfer for each strobe edge |
| register block | `rtl/blitscrt_regs.v` | staged and latched mode, toggles, heartbeat, button latch | writes, vblank latch, watchdog |
| timing generator | `rtl/video_timing.v` | `hcnt`, `lcnt` | one pixel clock |
| fetcher and scanout | `rtl/scanout_fetch.v`, `rtl/scanout.v` | two line buffers, request toggle | fetch a line, show a line |
| top | `rtl/blitscrt_top.v` | resets, clock select, timing mux | |
| front panel | `rtl/mcp23009.v`, `rtl/i2c_master.v` | expander state | poll buttons, drive LEDs |
| init | `linux/initramfs/init.c` | sweeps made, child pids | mount the card, stage the gadget, launch the daemon once, keep a shell |
| main of the daemon | `sw/main.c`, `blitscrt_gadget_open` | what is open, what is bound | open the fabric and the gadget, run, unwind |

### How they interact

* Host and daemon: control requests over ep0, one at a time, and pixels over one
  bulk endpoint. A rectangle's header and its pixels travel on different
  endpoints and are paired by position only.
* The daemon's three threads share `lock` (queue and slot pool, three condition
  variables) and `fablock` (the fabric).
* Daemon and fabric: registers over a bridge, and a window of DDR3 that the
  fabric reads while the daemon writes it.
* Bus clock and pixel clock: the mode is staged on one side and latched at a
  vblank on the other, with a toggle for "please" and one for "done". The pixel
  clock itself is reprogrammed in between, and its loss of lock resets one side.
* A register access is two words on a pair of 32-bit wires, told from each other
  by a strobe bit that both sides remember, and the daemon may be replaced by
  another in the middle of one.
* init starts the daemon once; nothing restarts it but a hand at the shell.
* Each side watches the other: the daemon beats a register, the fabric counts
  fields since it moved; the daemon counts time without a host and raises the
  test card.

### What is hard, and what must be true

* **Threads.** The slot being filled is never the slot being drained; nobody
  sleeps through a wake-up; the fabric has one user at a time; control requests
  are answered while pixels flow or stall.
* **Pairing.** What is blitted is the rectangle its header described, once and in
  order, through detach, abandoned transfers and full queues.
* **Two clock domains.** A reported modeset is on the raster, on its clock, and
  no mixture of two modes is ever latched; the toggles never cancel. A line of
  pixels crosses from the memory's clock to the pixel clock whole, or is counted.
* **Timers.** The test card never covers a live picture, never flashes in a mode
  change, and comes back when there is none. A dead daemon is found out and a
  live one is not accused.
* **Arithmetic at the edges.** Half a line of interlace, half-line sync pulses,
  counters that compare for equality, counters that wrap.
* **Failure in the middle.** A commit that fails after the clock moved; a thread
  stuck in a read at shutdown; any step of opening the gadget that fails; a
  process that dies with a register half written.

`PROJECT.json` lists these hazards by line, with the properties that watch them.

## 2. The modules

| module | models | abstraction | companion modules |
|---|---|---|---|
| `Gadget` | `sw/gadget.c`: the three threads, one action for each stretch between two points where another thread or the host can be seen | pixels are packets that name the frame they belong to; lengths in packet units | `RectFifo` (abstract), `MCGadget`, `GadgetProof` |
| `Device` | `sw/device.c` with the control bits and geometry it drives through `sw/fabric.c` | a modeset is one step with an outcome; time is heartbeat periods | `MCDevice`, `DeviceProof` |
| `ModeSet` | `blitscrt_fabric_set_mode`, write by write, against the vblank latch and the lock-driven reset | a group of registers that belong together is one write | `MCModeSet`, `ModeSetProof` |
| `VideoTiming` | `rtl/video_timing.v`, clock by clock, under changes of timing | scaled-down porches, counters of `Modulus` values | `MCVideoTiming`, `VideoTimingProof` |
| `ScanoutFetch` | `rtl/scanout_fetch.v` between its two clocks, with the pulses of `rtl/blitscrt_top.v` and a memory that may stall | a pixel is a beat, and a beat is the row and the place it was read from | `MCScanoutFetch`, `ScanoutFetchProof` |
| `Watchdog` | the heartbeat watchdog of `rtl/blitscrt_regs.v` with the daemon's beat | of the count, only whether it moved since the last field | extended by `Supervision` |
| `Supervision` | `linux/initramfs/init.c`, `sw/main.c` and `blitscrt_gadget_open` above the watchdog | a board is five yes-or-no facts; the reader as far as the opening meets it | `MCSupervision`, `SupervisionProof` |
| `Bridge` | `gp_command` and the calls above it in `sw/fabric.c` against `rtl/blitscrt_bridge.v`, cycle by cycle, and `rtl/blitscrt_pllbus.v` | four registers, one of each kind; halves of one bit | `MCBridge`, `BridgeProof` |
| `Lz4`, `Blit`, `ModeCheck`, `Pll` | `sw/lz4dec.c`, the rect writers of `sw/fabric.c`, `sw/modes.c`, `sw/pll.c` with `sw/pll_reconfig.c`, as operators | doubles are exact fractions; the limits and the sizes of the formats are constants | `Arith` |
| `Arith` | the calls of those functions, one a behaviour, from arguments to result | | `MCArith`, `ArithProof` |

Every definition that stands for code is in the `map` of `PROJECT.json` with the
lines it stands for. Definitions that do not stand for code are properties,
history variables (marked as such where they are declared) and the wrong
variants of a definition that the mutants put in its place (`ApplyFirst`,
`StopAtTop`, `EarlySample`, ...), each next to the one it replaces.

### Gadget

`epc`, `rpc` and `bpc` are the program counters of the event loop, the reader
and the processor. A critical section of `lock` never blocks inside, so each is
one action; `fablock` is held across fabric work and is a variable. A condition
variable is a pair of places, asleep and runnable, with explicit signals and
spurious wake-ups. `sin` and `sout` are kept modulo `Wrap`, the code's 2^32.

The host driver and FunctionFS are outside the repository. They are modelled
from what `gadget.c` relies on: a host flushes one rectangle at a time
(SET_BUFFER, GET_STATUS, bulk write), may detach between any two steps, and may
abandon a bulk transfer, which the reader sees as silence or as a zero-length
packet. The kernel keeps one SETUP and lets ENABLE and DISABLE discard what is
before them. A read that asks for less than a packet splits it, and the tail
stays for the next read: that is the bug the `BULK_MAXPACKET` rounding avoids,
and `Aligned` and its mutant are about that rounding.

`RectFifo` is what the pipeline promises: a bounded FIFO of rectangles, each of
which comes out once with its own pixels. `FifoSpec` is that specification with
the refinement mapping, fairness included.

### Device

`blitscrt_dev_heartbeat` runs in every batch of events and in every idle poll.
`Tick` lets a heartbeat period pass, and one passes only after a heartbeat has
run in it, which is what the 250 ms poll timeout gives. A rectangle accepted by
SET_BUFFER waits in `inflight` for the processor, up to `Pipeline` of them.
`CommitFails` leaves what the steps of `ModeSet` can leave: the clock moved or
not, the timing latched or not.
Every request is an action, with the status it leaves (ok or error) and the
refreshes of the overlay it makes, so that a refresh that is missing shows
(`OverlayTells`).

### ModeSet

The daemon's steps follow the order of the register writes (`After`), and the
video side may latch between any two. Loss of lock resets the latched set and
its toggle (`Drop`); the return of lock finds the generator in line 0, which is
blanked, so that an odd request toggle is served there (`Relock`).
`keepsLock` is the one question about silicon, whether the PLL can take new
counters without losing lock: a variable that is chosen in the first state and
never changes. `OkOnItsClock` holds for both answers; `ScanoutTogether`,
`TakenOnceLocked` and `OkIsLatched` claim nothing of a PLL that keeps its lock.
Two further assumptions are timing constants of the code: the 200 us floor
outlives the old lock (`Settled`), and the 100 ms of the confirmation hold at
least one vblank of a running clock (`ConfirmDeadline`).

### ScanoutFetch

`PixelClock` is one edge of the pixel clock, with the raster's counters, the
toggle of a request, the synchroniser of the acknowledge and the swap; `Rest`,
`Take`, `Issue`, `Stall`, `Accept` and `Data` are one edge of the memory clock,
one for each thing its state machine can do. Between two pixel clocks there are
one to `Ratio` memory clocks (`ticks`), so the clocks drift against each other
in every way that ratio allows. `PixelRestart` is what loss of the PLL's lock
does: the pixel side starts again, the memory side goes on in the middle of a
burst; `Resets` bounds how often. `flagged` and `last` are history: whether
either diagnostic has ever moved, and the row shown last.

Left out: the unpacking of a beat into pixels, line doubling and interlace
(which choose the row, not the handshake), a reset of the memory side (power-on
only) and the zero-length line.

### VideoTiming

`VideoTiming` has every wire of the generator that decides a sync edge or a
displayed pixel. `Retime`, at most `Retimes` times, changes the timing at any
clock, as the mux does; the latch, which changes it at a vblank, is a special
case.

### Watchdog and Supervision

`Watchdog` has a daemon that beats, dies and starts again with its count at zero
(a restarted count may by chance repeat the number last seen: `echo`), the
raster change between interlaced and progressive, and the video side be reset.
A change of raster may itself be a field edge, because `field` is computed from the
line counter and the timing in force; `Retime` may therefore count one, of a field cut
short, and `Period` is the edges a live daemon lets pass, such ones included.
`Kills` and `Changes` bound how often.

`Supervision` extends it with how the daemon comes and goes. `ipc` is where init
is, `dpc` where the daemon's main thread is; each place is one call that can
fail or block. `OpenSteps` is the order of `blitscrt_gadget_open`, and
`GadgetFails` its one exit, from any step, to the unwinding of whatever was
done. The steady life of the daemon (`dpc = "run"`) is `Watchdog`'s, and the
threads' is module `Gadget`'s. Every step of `Supervision` is a step of
`Watchdog` or a stutter of it (`BootRefinesWatchdog`), and that is how what is
proved of the watchdog is proved of the whole.

External: the kernel closes what a dead process leaves open, and closing ep0
unbinds the gadget (`Gone`). A person at the shell may start the daemon again
(`ByHand`); no code does.

### Bridge

`Clock` is one cycle of the fabric; the other actions are what the process does
to the pair of words between two cycles. A process polls with `Answered`, and
goes on when the echo in `gp_in` equals its strobe. `cmd`, `req`, `rpend`,
`rhold` and `ack` are the registers of the bridge under their own names
(`r_addr` and `r_write`, `r_req`, `r_rpend`, `r_rhold`, `strobe_ack`); `meta`,
`now` and `seen` are the synchroniser. `bus` and `cap` are the adapter in front
of the PLL window, whose slave answers when it likes, or never.
`Start` takes its strobe from what `gp_in` echoes (`FirstStrobe`), and `Die` may
come between any two words. The one assumption on time is that a process takes
longer to start than the bridge to finish or give up the command a dead one left
behind (`Settled`): milliseconds against 255 cycles of the bus.
`spoiled` is history: this access was given up, or met in the window the
exchange of one that had been.

### Arith

A behaviour of `Arith` is one call: `Init` chooses the function and its
arguments, the one step computes the result, and the properties compare it with
what the function is for: the list of sequences that was packed, a picture
in which each byte knows its pixel, the rates of the parts of a raster, all settings of the
PLL's counters rather than those the search looks at, a PLL that takes the writes
one by one. The four modules themselves hold operators only.

## 3. What is checked

Runs expected to pass:

| run | properties | bounds |
|---|---|---|
| `gadget_stream` | `Aligned`, `FifoSpec` | one host, four frames, transfers of exactly and not exactly a packet's multiple, a pool of 2 and a queue of 2 |
| `gadget_sessions` | `SlotExclusive`, `InOrder`, `HeadersGoWithHost` | two hosts, three frames, every detach and abandoned transfer, a queue of one (it overflows), counters that wrap after 4 |
| `gadget_stop` | `NoLostWakeup`, `StopsUnlessReading`, `ControlAnswered`, `PoolDrains` | SIGTERM anywhere, a pool of one slot, a rectangle that does not fit, two presses, a host that may detach or go silent in the middle of a transfer |
| `device_main` | `NoCardOverHost`, `OverlayTells`, `NoFlash`, `CommitsWhatWasChecked`, `CardWhenArmed` | three modes, one of them refused and one wider than the line buffer, two formats, one refused, a delay of three periods, one rectangle in flight |
| `modeset_main` | `ScanoutTogether`, `TakenOnceLocked`, `OkOnItsClock`, `OkIsLatched` | three modes and the reset values, any number of modesets, either kind of PLL |
| `fetch_main` | `TearIsCounted`, `RowsInStep`, `LinesKeepComing` | three rows of two beats in bursts of one, a line of 15 clocks, up to three memory clocks a pixel, one loss of lock |
| `timing_main` | `EachPixelOnce`, `FieldsInterleave`, `SyncPeriod`, `FramesResume` | four rasters: both scans, odd and even totals, no front porch; counters of 32 values, one change of timing at any clock |
| `bridge_main` | `AnswerIsMine`, `WordLands`, `OpenIsTrue`, `AccessReturns` | halves of one bit, a stall limit of 3 cycles, any number of processes and accesses |
| `supervision_main` | `BoundBacked`, `ShellComes`, `OpenEnds`, `NoFalseAlarm`, `VerdictFound` | boards of five kinds, two sweeps, timeout 3, period 2, two deaths, two resets or changes of raster |
| `arith_main` | `Lz4Exact`, `BlitExact`, `RasterAsChecked`, `RefreshKept`, `ClockSolved`, `ReconfigReaches` | blocks of up to three sequences with up to three bytes of padding and all noise of up to six bytes; pictures of up to 5 by 3 in both memories, at one to four bytes a pixel; fields of five to seven lines; counters up to 12 |

Why the bounds are enough. In `Gadget` the hazards need one more frame than
there are slots, two sessions and one overflow of the queue; the runs have each.
In `ModeSet` nothing is bounded but the set of modes, and that set has the pairs
that matter: one that LIVE cannot tell from the reset values, and two that it
cannot tell from each other. In `VideoTiming` the arithmetic depends on parity
and on a region being empty, and the rasters cover both; its properties about
whole frames speak of frames without a change, and `steady` is the history that
says so. In `ScanoutFetch` a line must be long enough for a fetch to land before
or after the swap, a burst must end before the row does, and a row must wrap to
the first one: two beats, bursts of one and three rows give each of them. In `Bridge` a wrong
answer is told by its register and its half, so values that differ in one bit
tell all of them apart, and nothing is counted but the stall, which must only be
longer than an access that is answered. In `Supervision` a timeout one above the
period is the tightest the code's constants allow (a second against 250 ms is
looser). `Arith` scales the formats and limits down until every edge is met by a
short input: a full nibble is 1 instead of 15, and a match of nine bytes at
distance one runs over two length bytes.

Deadlock is checked everywhere except in `gadget_stop`, which ends when the
daemon has closed, in `arith_main`, whose behaviours are one call long, and in
`bridge_main`, where a board without a fabric has nobody left to move.

Every property of a passing run has a mutant in `PROJECT.json`: a plausible bug
in one mapped definition that makes TLC report that property.

Runs expected to violate, each a finding of `PROJECT.json` with the sentence of
the repository that it contradicts:

| run | what happens |
|---|---|
| `gadget_fabric_race` | the event loop uses the fabric outside `fablock` |
| `device_card_lost` | the card's bit is cleared behind the timer's flag, and never set again |

### Divergences met while modelling, without a run of their own

Each of these was seen as a reachable state or step of the models while they
were written. None is contradicted by a property above: the properties state
what holds in spite of it.

* *The header in the reader's hand.* `gadget.c:993-995`: "the next host starts from
  nothing and stale headers would be matched against its first frames". DISABLE
  empties the queue; a header the reader has already popped (376) stays with it
  and takes the first transfer of the next host. `HeadersGoWithHost` is about the
  queue. And FunctionFS drops an unread DISABLE when ENABLE follows it, so that
  after a quick re-attach nothing is emptied at all.
* *A swap too close to the front of the line.* `scanout_fetch.v` says of the late
  count that zero is what shows the guard is holding. The show pulse falls three
  counts before the picture, and `blitscrt_top.v` admits a sync and back porch of
  five clocks and up. With five to nine of them the first fetch after a start can
  land behind its own swap while the pixel side still has no line to call late:
  nothing is counted, the two selects are out of step, and the next row may be
  written into the buffer on show without either count moving. From ten clocks on
  it cannot happen, which is the hypothesis `LateSwap` of the proof; every mode
  the daemon is given has more (the panel's own 136).
* *The row on the line.* `blitscrt_top.v:504-505` requests "for the line to be
  displayed NEXT", and 555-557 have the show pulse consume "what the previous
  line asked for". A fetch that lands before this same line's show pulse, the
  usual case, is swapped in by it: line k shows row k + 1. `RowsInStep` says that
  rows come one after another all the same.
* *Stopping.* `gadget.c:873-876` wakes the threads because closing the endpoint
  under the reader "would leave it in a read that never completes"; the join at
  883 waits for a reader that may be in such a read. `StopsUnlessReading` says
  that this is the only way to hang.
* *After a detach.* `device.h:61-63` wants no stale pixels on the screen after
  the cable is pulled. Slots filled before the detach are blitted after
  `blitscrt_dev_on_host(0)` at `gadget.c:1016` has blanked the window (the
  comment at 1008-1010 accepts it).
* *A failed commit.* `device.c:683-685`: "whatever was on screen before is still
  what is on screen". The clock may have moved, or the timing may be latched a
  moment later.
* *A rectangle of the wrong size.* `gadget.c:580-584` blames a framebuffer larger
  than the raster. A rectangle that SET_BUFFER accepted (`device.c:576`) and a
  narrower mode committed behind it give the same crop.
* *A failed bind.* `README.md:435-436` says green means the display is there;
  `gadget.c:957-959` ignores the result of `udc_bind`.
* *The panel's mode.* `fabric.c:1006-1008` calls the mode table "a known-good mode
  that needs no software". Line 1009 hands it the raster on whatever clock the
  last host left in the one pixel PLL.
* *The latched set.* `blitscrt_regs.v:764-768` says that what the block latched
  "must not be forgotten just because the clock moved". The reset it uses comes
  from a shift register cleared by loss of lock (`blitscrt_top.v:386`).
* *The confirmation.* `device.c:676-678` has `set_mode` "confirm against the live
  registers". `fabric.c:931` compares widths, totals and scan, so the old mode
  may pass for the new one until the next vblank; `OkIsLatched` says it heals.
* *The order.* `fabric.c:781`: "Reprogram the clock before latching the timing
  that assumes it". The timing is staged from line 767 on, and a request still
  pending from the modeset before latches it on the old clock.
* *A torn set.* `fabric.c:412-413` says that geometry, stride, base and format
  latch together. If the PLL kept lock, that same pending request could fall
  between two of the writes; with a PLL that drops it, it cannot (`NeverTorn`).
* *A stranded counter.* `blitscrt_regs.h:14-15`: "a modeset never tears or
  produces a partial frame", and `video_timing.v:21-22` wants reset held while
  the timing changes. The latch holds none, and a total below the count
  (`video_timing.v:75`) sends the counter round all its bits; `FramesResume`
  says that whole frames come back.
* *A progressive raster.* `blitscrt_regs.h:91-94` promises the banner a second
  after the daemon stops. The count advances on a change of `field`
  (`blitscrt_regs.v:808`), which a progressive raster never has: `VerdictFound` is
  about interlaced ones.
* *An uncounted tear.* `scanout_fetch.v:158-160`: "late_tog reading zero is what
  says the guard is holding". After the pixel side has restarted on its own,
  `show_sel` and `fill_sel` may agree with neither count moving, for as long as
  the fetches keep up; `TearIsCounted` is about the time before. One way there
  is that two acknowledges between two swaps leave a single `pending`.
* *A count of events.* `scanout_fetch.v:86` says that `underrun_tog` flips "once
  per event". Lines 295-296 flip it on every memory clock of the overlap.
* *The opening that hangs.* If the second `pthread_create` fails, `gadget.c:856`
  broadcasts without the lock; a reader between its check and its wait sleeps on,
  and the join at 857 never returns, with the gadget bound. `OpenEnds` excuses
  exactly this (`between`).
* *SIGTERM at the start.* Before `main.c:139-142` installs the handlers a signal
  kills the daemon where it stands; that the gadget is unbound then is the
  kernel's doing.
* *A stall on the last cycle.* `bridge.v:165-167` says that a wrong value comes
  "with bus_stalled set". If the answer comes on the cycle of `give_up`, the
  branch of `give_up` wins and the stale data is echoed with the answer taken.
* *After a stall.* The adapter of the PLL window carries on with the exchange the
  bridge gave up (`blitscrt_pllbus.v`), and its late answer meets the next access
  of the window. `spoiled` excuses that access.
* *Padding.* `gadget.c:545-549` says the decompressor gets "Exactly
  compressed_length"; it gets what arrived, padding included. One byte of zero
  padding adds nothing, two or more make the block refused. `Lz4Exact` says that
  nothing else can come of it.
* *Totals that do not close.* `modes.c:284` absorbs rounding "so the totals still
  close". A back porch too short to give up the difference leaves them open: the
  raster is longer than the one whose rates were checked. `RasterAsChecked` is
  about modes with six lines of back porch (`RoomyPorch`). Interlaced modes with
  an even total lose one line, which it allows; a sync of no width is accepted
  when the host asks for none.
* *Almost exact.* `pll.c:285`: "an integer solution is kept only when it is already
  exact". One whose error truncates to no parts per million is kept as well.
  The solver has no bound on the error of its best.
* *A fill in another format.* RGB332 is offered, and `fabric.c:613` allocates a byte
  a pixel and writes two, past the end of the row buffer; for three and four bytes
  the tail of the buffer is uninitialised. `blitscrt_fabric_enable(0)` makes such a
  fill of the whole picture (`fabric.c:1037`). The model has it: such a fill may
  complete or kill the daemon (`Overruns`, `Killed`), and the bytes nobody wrote are
  `Junk`. Of neither is anything claimed: the half of `BlitExact` about fills, and of
  `RectsLand`, is about a pixel of the colour's own two bytes and about the
  on-chip port, which takes the colour as a word.
* *Half a geometry.* `blitscrt_scanout_configure` sets width, height and stride
  before it finds the window too small for them.
* *The overlay's mode lines.* Nothing refreshes the text when a latch comes after
  the commit failed, or when the panel's own button changes the mode. The USB and
  timing lines are right (`OverlayTells`).
* *A wide mode.* SET_STATE_CHECK does not look at `max_width`; what keeps a line
  within the line buffer is the limit of `modes.c`, 1280, which happens to be the
  buffer's size. It also accepts RGB888, which is not among the formats offered.

### Fairness

* `Gadget`: weak fairness of each thread, and strong fairness of taking
  `fablock`, which its other user holds for an instant at a time; a pthread
  mutex that is free again and again is eventually taken. No fairness of the
  host, except in `LiveSpec`, where a host that stays finishes its own protocol.
  `PoolDrains` and `ControlAnswered` hold under `FairSpec`, host silent or not.
* `Device`: the daemon's heartbeat and the passing of time. No fairness of the
  host.
* `ModeSet`: frames keep coming while there is a clock. Nothing else.
* `ScanoutFetch`: both clocks run, and the memory answers a waiting request in
  the end. That is strong fairness, because an answer can only come on an edge
  of the memory clock and is disabled whenever the other clock is due.
* `VideoTiming`: the clock ticks.
* `Supervision`: fields pass, a running daemon beats, and every process goes on
  when it can; a script need not end (only `ShellComes` cares), a step of the
  opening may fail or not, and nobody need start a dead daemon again.
* `Bridge`: the fabric's clock runs and the process goes on polling. The slave
  behind the window need never answer; the stall count is what ends an access.

## 4. What is proved

For every value of the constants (sizes of the pool and queue, sets of modes,
rectangles and formats, delays), under the named assumptions of each module:

* `GadgetProof`: `TypeCorrect`, `PoolBounded`, `WakeupsKept`, `FablockSound`,
  `SlotsExclusive`. The inductive invariant `PoolInv` joins the bound on the
  pool, the three sleeping conditions and the lock with two facts they need: a
  program counter past a wait implies what was waited for, and no thread is
  joined before `running` is cleared. Exclusion of slots then needs arithmetic:
  two counters less than `NSlot` apart name different slots (`SlotsDiffer`), and
  adding the wrap does not change a slot because `NSlot` divides it
  (`WrapKeepsSlot`, the assumption `Wrap % NSlot = 0`). The pool of the code is
  a power of two, so 2^32 satisfies it.
  `BlitsInOrder`, from `OrderInv`: along the card, the slots and the processor's
  hand the frames are numbered without a gap, and the hand is emptied before the
  next slot is taken. `HeadersFollowHost`, from `KernelInv`: whatever header is in
  the queue was put there by the host whose ENABLE was the last one handled.
  `PixelsAreTheHeaders`, from `AlignInv`: a slot, the card, or the reader's hand
  holds as many packets as its header says and all of them are of that frame
  (`PoolPart`), the packets still on the endpoint are those the headers in the
  queue are waiting for, in that order (`LinkPart`), and what the reader has read
  of a frame and what is left of it on the endpoint make the frame (`ServePart`).
  Its hypothesis `OneHost` is the run's: nobody detaches, and a frame fits the
  kernel's buffer. The largest frame is 720 kB and the buffer 1 MB
  (`gadget.c:389-395`). With a second host the property is false, for the reason
  given under the header in the reader's hand above.
  `StreamIsFifo`: under the same hypothesis, and no stop, (`Steady`) `Gadget`
  implements the initial condition and the steps of `RectFifo`: one case for each
  action, from `SteadyInv`, which says where in the pipeline each frame of the
  abstract queue is.
* `DeviceProof`: `HostKeepsItsPicture`, whose invariant is inductive as it
  stands; `CardMeansIdle`, which needs `TimerInv`, because the timer counts from
  a heartbeat and the property from a request and the two may run a period
  apart; `CommitsAreChecked`, which needs that a pending mode is always the last
  one checked (`PendingChecked`).
* `ModeSetProof`: `DoneOnItsClock`, from `ClockInv` (past the wait the clock is
  up and is the mode's). `NeverTorn` and `NeverCancelled`, from `SetInv`, which
  speaks of a PLL that loses lock: lock loss clears the acknowledge and the
  blanked line after it brings the toggles together, so nothing is pending from
  the moment the clock is up until APPLY, and nothing is latched while the
  scanout set is being written.
* `ScanoutFetchProof`: `SwapsInBlanking`, from `SwapInv`: the pulse that swaps
  the buffers belongs to one count of the line, three before the picture, and
  the memory side touches nothing of the pixel side (`MemKeepsPixelSide`). The
  assumption it needs is a sync and back porch of more than four clocks.
  `BeatsInPlace` needs how far the bursts of a line have come (`BurstInv`): what is
  asked for, what is still to come and the place being filled add up to the row.
  Whatever is torn is therefore torn between rows. `TearsAreCounted` and
  `RowsFollow` are about that: from `FetchInv`, which holds until a count moves
  or a reset comes. Its `StepInv` ties the request, done and show toggles in flight
  between the clocks to the two buffer selects (`Crossing`, `Tokened`), says that
  the memory writes the buffer that is not on show (`Writes`) and which row
  each buffer holds (`Buffers`, `LastRow`), and treats the first line by itself
  (`FirstSwap`). `LateSwap`, a sync and back porch of ten clocks or more, is a
  hypothesis because the two are false without it (section 3).
* `VideoTimingProof`: `PixelsInPicture`, one step deep, except that a change of timing
  leaves a pixel of the old raster in the output register for a clock (`steady`).
  `SyncNeverEarly` and `FieldsInterleaved` are about time between two edges: the
  history variables count clocks from an edge, and the invariants (`CsInv`,
  `VsInv`) give what they hold as a function of the place in the raster.
  Hypothesis `Fits`: totals fit the counters and a line is longer than its sync,
  as at 32 MHz and 15 kHz (2134 clocks of 4096). `PixelsOnce`, from `PixelInv`:
  what has been shown is what lies before the place in the raster. It needs
  `Porched` too, some front porch in either direction: without any, the output
  register shows the last pixel a clock after the history of the field starts again.
* `SupervisionProof`: `BootRefinesWatchdog`, one case for each action of the boot
  and the daemon, so that `NeverFalse` can be proved of `Watchdog` alone. Its
  invariant is about a daemon that has not died yet: the fields that passed with
  the count it showed last are fewer than the fields since its last beat, those a
  change of raster cut short included, and
  those are fewer than the timeout (`WatchdogAssumption`: the timeout is longer
  than the period). `NeverBoundBare` needs where in the order of
  opening and unwinding each of `described` and `bound` is set and cleared.
* `BridgeProof`: everything about safety that is checked of `Bridge`, for words of
  any size. The invariant follows an access through three phases, told by which
  of the copies of the strobe differ from the echo: at rest (all agree), on the
  wire (the bridge has not seen it) and at work (`OnePhase`). In each it says what
  the command register, the halves of the word, the slave's side of the
  transfer and the data on its way back have to be (`Sent`, `Targets`, `Halves`,
  `Serve`, `Reading`). `EchoesAreMine` is the first fruit, and the rest follow
  from it: `AnswersAreMine`, where the bridge's command is that of the process that
  takes the answer because the echo is, `WordsLand`, and `OpensAreTrue`, which needs that a
  register outside the window is never given up (`Prompt`) and what of a word the
  first of two reads brought (`LowHalf`).
* The type invariant of every module with a state is proved (`TypeCorrect` in each
  proof module), and so are `PoolBound`, `FablockHeld` and `SwapInBlanking`; no run
  repeats them. `Arith` has none: its state is a call and its result.
* `ArithProof`: an answer is what the function computes of the arguments it was
  called with (`AnswerInv`); the rest is arithmetic. `RectsLand`: a byte of
  the window, or a word behind the port, changes exactly when the rect covers it and
  gets what the rect has for it; an address is taken apart into row and place and put
  together again (`TakeApart`). Blit and fill are one argument about a source that
  advances by so much a row, for a fill by nothing (`LandedIs`); at two bytes a pixel
  the row it repeats is the colour throughout (`BufferHolds`). `TimingAsChecked`:
  the porches handed to the registers add up to the totals that were
  checked. `RefreshIsKept`, by rounding twice (`DownTwice`, `NearestTwice`).
  `WritesReachTheClock`: the PLL that takes the writes one by one ends at the
  setting the solver chose; that the solver answers with one of its candidates
  (`SolvedIsOne`) is by the least element of a set (`Least`), which stands in for
  induction here and below. Hypothesis `CountersFit`: a counter is two
  halves of a byte each (`pll.c:45-47`).
* `NearestIsSolved` in the same module: the search looks at two multipliers for
  each pair of counters, and its answer is compared with every setting there is. A
  setting with another multiplier is further off than one beside the ideal one
  (`Beaten`), but the one beside it may leave the VCO's band; then another output
  counter makes as good a clock inside the band. That there is such a counter is the
  hypothesis `Homely`: for each clock and each divide of the input one whose VCO
  lies a step inside the band, in its upper half, with a multiplier that fits. It
  is no law of arithmetic, and `CycloneIsHomely` proves it of the board: of the limits
  of `pll.c:35-48` and every clock `modes.c:37-38` lets through. The small PLL of
  `arith_main` meets it for some targets only; TLC checks the property for all.
* `BlocksComeOut` in the same module, for blocks of any length. What a recursive
  definition comes to is first proved value by value (`TurnsAre`, `PackedAre`,
  `ShownAre`, `CopyIs`), then counted up (`UpTo`). The copy in growing pieces is the
  copy byte by byte because a piece never changes what the rest repeats
  (`OnTheWay`); a length reads back as it was written (`LengthReads`); one turn takes
  one sequence (`TurnExact`), so that after k turns the bytes out are what the first k
  sequences stand for (`Taken`, `TakesOne`), until only padding is left
  (`Settled`). For input that nobody packed, each turn keeps `Within`: the bytes
  out fit the buffer and the place read is in the block. Lengths have no width here:
  the overflow tests of `lz4dec.c:55, 84` need more bytes than the reader takes in
  (`gadget.c:389`, a megabyte).

Only model-checked:

* All liveness: the fairness of `FifoSpec`, `StopsUnlessReading`, `ControlAnswered`,
  `PoolDrains`, `CardWhenArmed`, `AccessReturns`, `OkIsLatched`, `LinesKeepComing`,
  `FramesResume`, `ShellComes`, `OpenEnds`, `VerdictFound`. They rest on fairness and
  ENABLED, which the provers here do not handle.

The library's induction theorems take an operator as a parameter, which these
provers cannot instantiate. Where a fact about all numbers is needed, `Least`
takes the first number at which it fails, and the proof shows there is none;
`UpTo` is the same for a set of numbers.

## 5. Plan

Done: `Gadget`, `Device`, `ModeSet`, `VideoTiming`, `ScanoutFetch`, `Watchdog`;
then `Bridge`, `Supervision`, and the pure functions under `Arith`. Questions
about one module share a run, so that the whole project is checked in minutes.

Next:

1. `Button`: the press latch of the registers with its write-one-to-clear, the
   debounced expander and its retries (`mcp23009.v`, `i2c_master.v`).
2. A composition of `Device` and `ModeSet`, in which the outcome of a commit is
   what the steps leave, with `Device` as the abstract specification.

## 6. Not modelled

Vendor cores, boot files, build scripts and test benches: generated, vendored or
configuration. EDID, overlay, test card, fonts and mode tables: functions of
their input with nothing to order. The designs before the present one
(`fabric_oldPolling.c`, `device_648Only.c`): kept beside it and not built. The
bench tools (`peek.c`, `ddrbench.c`) and the LWH2F transport. Two programs on
the gp words at once, of which one is always a bench tool; a 32-bit read torn by
a register that moves on its own. Of errors of the kernel and the fabric: a
poll or read of ep0 that fails and ends the event loop (`gadget.c:969-980`), a
mapping or an allocation that fails inside a rect writer (`fabric.c:572`, `613`), and a
scanout geometry that reads back other than it was written (`fabric.c:472-480`),
which `WordLands` rules out for a bitstream that has the register and a transport that
is not stalled.
Logging and statistics, throughout. Memory
ordering between the daemon's writes to DDR3 and the fetcher's reads: the window
is uncached, and tearing inside a frame is accepted by the design.

## 7. Running it

    tlc -workers 2 -config GadgetStream.cfg MCGadget
    tlapm GadgetProof.tla

Each run's module and configuration are in `PROJECT.json`. Every run takes less
than five minutes, most of them seconds.
