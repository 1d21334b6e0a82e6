------------------------------- MODULE Gadget -------------------------------
(***************************************************************************)
(* The USB transport of the daemon: sw/gadget.c.                           *)
(*                                                                         *)
(* Three threads.  The ep0 thread (blitscrt_gadget_run) polls the control  *)
(* endpoint, answers control requests, and queues one header per accepted  *)
(* SET_BUFFER.  The reader (bulk_worker) pairs each header with the bytes  *)
(* that arrive on the bulk endpoint and fills a slot of a small pool.  The *)
(* processor (blit_worker) decompresses a filled slot and blits it.        *)
(*                                                                         *)
(* A critical section of `lock' never blocks while it holds the lock, so   *)
(* it is one action; condition variables are explicit, with a sleeping and *)
(* a runnable state per waiter.  `fablock' is held across the fabric work  *)
(* and is a variable.  The host driver, the UDC and FunctionFS are outside *)
(* the repository and modelled from what gadget.c relies on.               *)
(***************************************************************************)
EXTENDS Integers, Sequences

CONSTANTS
  Rects,       \* what a header can describe: [want, length, lz4]
  MaxPacket,   \* BULK_MAXPACKET, in the unit the lengths are given in
  BulkBuf,     \* BULK_BUF, same unit
  RectQ,       \* RECTQ
  NSlot,       \* NSLOT
  Wrap,        \* 2^32: sin and sout are unsigned
  MaxFrames,   \* bound: SET_BUFFERs the hosts send in all
  MaxSessions, \* bound: times a host attaches
  MaxPresses,  \* bound: presses of the user button
  MayDetach,   \* whether a host may detach
  GiveUps,     \* how a host may abandon a transfer: subset of {"silent", "zlp"}
  MayStop      \* whether SIGTERM may arrive

ASSUME SizeAssumption ==
  /\ NSlot \in Nat \ {0}
  /\ RectQ \in Nat \ {0}
  /\ Wrap \in Nat /\ NSlot < Wrap
  /\ Wrap % NSlot = 0
ASSUME RectAssumption ==
  /\ MaxPacket \in Nat \ {0}
  /\ BulkBuf \in Nat
  /\ Rects \subseteq [want : Nat, length : Nat, lz4 : BOOLEAN]
ASSUME BoundAssumption ==
  /\ MaxFrames \in Nat /\ MaxSessions \in Nat /\ MaxPresses \in Nat
  /\ GiveUps \subseteq {"silent", "zlp"}
  /\ MayDetach \in BOOLEAN /\ MayStop \in BOOLEAN

VARIABLES
  (* host, UDC and FunctionFS (external) *)
  udc,          \* the gadget is bound to the controller
  enabled,      \* a host has configured it: the bulk endpoint is live
  session,      \* how many hosts have attached so far
  events,       \* ep0 events the kernel holds
  wire,         \* packets on offer to the bulk endpoint, head first
  hpc,          \* where the host driver is in its flush
  flush,        \* the header it is flushing
  (* the user button *)
  button,       \* BTN_EVENT: pressed and not yet taken
  presses,
  (* ep0 thread *)
  running,      \* g->running
  bound,        \* g->bound
  epc, batch,   \* where the thread is, and the events it has read
  buffer,       \* d->buffer, <<>> when buffer_valid is 0
  status,       \* d->last_status, good or not
  hostAttached, \* d->host_attached
  (* shared under lock *)
  rectq, slot, sin, sout,
  (* reader: program counter, header in hand, bytes read of it *)
  rpc, r, done,
  (* processor *)
  bpc,
  (* shared under fablock *)
  fablock, screen,
  blitted       \* history: what the processor blitted, in order

usbVars  == <<udc, enabled, session, events, wire, hpc, flush>>
btnVars  == <<button, presses>>
epVars   == <<running, bound, epc, batch, buffer, status, hostAttached>>
poolVars == <<rectq, slot, sin, sout>>
readVars == <<rpc, r, done>>
fabVars  == <<fablock, screen, blitted>>
vars == <<usbVars, btnVars, epVars, poolVars, readVars, bpc, fabVars>>

-----------------------------------------------------------------------------
(* Data *)

NoHeader == [n |-> 0, s |-> 0, rect |-> [want |-> 0, length |-> 0, lz4 |-> FALSE]]
Event(type, h) == [type |-> type, h |-> h]

Least(a, b) == IF a <= b THEN a ELSE b

\* The packets that carry a header's rect: all full but, perhaps, the last.
PacketsOf(h) ==
  [i \in 1..((h.rect.want + MaxPacket - 1) \div MaxPacket) |->
     [n |-> h.n, s |-> h.s, split |-> FALSE,
      size |-> Least(MaxPacket, h.rect.want - (i - 1) * MaxPacket)]]

\* A slot holds its own header's pixels, all of them and nothing else.
Intact(h, px) == px = PacketsOf(h)

\* sin and sout are free-running unsigned counters.
Succ(c) == IF c = Wrap - 1 THEN 0 ELSE c + 1
Filled == IF sin >= sout THEN sin - sout ELSE sin - sout + Wrap
InIdx  == sin % NSlot
OutIdx == sout % NSlot

PoolFullLate == Filled > NSlot
PoolFull == Filled >= NSlot

QueueFull == Len(rectq) >= RectQ

\* FunctionFS keeps one SETUP at most; an ENABLE or a DISABLE discards
\* everything before it.
AddSetup(q, e) ==
  IF q # <<>> /\ Head(q).type \in {"ENABLE", "DISABLE"} THEN <<Head(q), e>> ELSE <<e>>

Init ==
  /\ udc = TRUE /\ enabled = FALSE /\ session = 0 /\ events = <<>> /\ wire = <<>>
  /\ hpc = "gone" /\ flush = NoHeader /\ button = FALSE /\ presses = 0
  /\ running = TRUE /\ bound = TRUE /\ epc = "poll" /\ batch = <<>> /\ buffer = <<>>
  /\ status = "ok" /\ hostAttached = FALSE
  /\ rectq = <<>> /\ slot = [i \in 0..NSlot - 1 |-> [r |-> NoHeader, px |-> <<>>]]
  /\ sin = 0 /\ sout = 0
  /\ rpc = "work" /\ r = NoHeader /\ done = 0 /\ bpc = "full"
  /\ fablock = "free" /\ screen = 0 /\ blitted = <<>>

-----------------------------------------------------------------------------
(* Host driver, UDC, FunctionFS, user button *)

HostAttach ==
  /\ udc /\ ~enabled /\ session < MaxSessions
  /\ enabled' = TRUE /\ session' = session + 1
  /\ events' = <<Event("ENABLE", NoHeader)>> /\ hpc' = "idle"
  /\ UNCHANGED <<udc, wire, flush, btnVars, epVars, poolVars, readVars, bpc, fabVars>>

\* The endpoint goes down: what was on offer is lost, a read in flight fails
\* with ESHUTDOWN, and DISABLE is raised.
EndpointDown ==
  /\ enabled' = FALSE /\ hpc' = "gone" /\ wire' = <<>>
  /\ events' = IF enabled THEN <<Event("DISABLE", NoHeader)>> ELSE events
  /\ rpc' = IF rpc \in {"read", "reading"} THEN "failed" ELSE rpc
  /\ UNCHANGED <<session, flush, r, done>>

HostDetach ==
  /\ MayDetach /\ enabled /\ EndpointDown
  /\ UNCHANGED <<udc, btnVars, epVars, poolVars, bpc, fabVars>>

\* A flush starts with SET_BUFFER, which STATUS_ON_SET makes the host follow
\* with GET_STATUS; the pixels go out once the status is good.
HostSetBuffer ==
  /\ hpc = "idle" /\ flush.n < MaxFrames
  /\ \E x \in Rects : flush' = [n |-> flush.n + 1, s |-> session, rect |-> x]
  /\ events' = AddSetup(events, Event("SET_BUFFER", flush')) /\ hpc' = "setbuf"
  /\ UNCHANGED <<udc, enabled, session, wire, btnVars, epVars, poolVars, readVars, bpc, fabVars>>

HostGetStatus ==
  /\ hpc = "set" /\ hpc' = "status"
  /\ events' = AddSetup(events, Event("GET_STATUS", flush))
  /\ UNCHANGED <<udc, enabled, session, wire, flush, btnVars, epVars, poolVars, readVars, bpc, fabVars>>

HostBulk ==
  /\ hpc = "bulk" /\ hpc' = "wait"
  /\ wire' = wire \o PacketsOf(flush)
  /\ UNCHANGED <<udc, enabled, session, events, flush, btnVars, epVars, poolVars, readVars, bpc, fabVars>>

\* The host's write returns once its last packet is taken; the tail of a split
\* packet is in the kernel by then.
HostBulkDone ==
  /\ hpc = "wait" /\ \A i \in DOMAIN wire : wire[i].split
  /\ hpc' = "idle"
  /\ UNCHANGED <<udc, enabled, session, events, wire, flush, btnVars, epVars, poolVars, readVars, bpc, fabVars>>

\* Or the host times out mid-transfer: the packets not yet taken never come,
\* and the device sees nothing, or a zero-length packet.
HostGiveUp(how) ==
  /\ hpc = "wait" /\ wire # <<>> /\ how \in GiveUps
  /\ wire' = IF how = "zlp"
             THEN <<[n |-> flush.n, s |-> flush.s, split |-> FALSE, size |-> 0]>> ELSE <<>>
  /\ hpc' = "idle"
  /\ UNCHANGED <<udc, enabled, session, events, flush, btnVars, epVars, poolVars, readVars, bpc, fabVars>>

UserPress ==
  /\ presses < MaxPresses /\ ~button
  /\ button' = TRUE /\ presses' = presses + 1
  /\ UNCHANGED <<usbVars, epVars, poolVars, readVars, bpc, fabVars>>

\* blitscrt_gadget_stop, from the signal handler: no lock, no broadcast.
Stop ==
  /\ MayStop /\ running
  /\ running' = FALSE
  /\ UNCHANGED <<usbVars, btnVars, bound, epc, batch, buffer, status, hostAttached, poolVars, readVars, bpc, fabVars>>
-----------------------------------------------------------------------------
(* The ep0 thread: blitscrt_gadget_run *)

NoSignal(pc) == pc
SignalWork(pc) == IF pc = "sleepWork" THEN "work" ELSE pc
SignalSlotFree(pc) == IF pc = "sleepSlot" THEN "slot" ELSE pc
SignalSlotFull(pc) == IF pc = "sleepFull" THEN "full" ELSE pc
BroadcastWorkOnly(pc) == SignalWork(pc)
BroadcastReader(pc) == SignalWork(SignalSlotFree(pc))

KeepHeaders == UNCHANGED <<rectq, slot, sin, sout>>
DropHeaders == rectq' = <<>> /\ UNCHANGED <<slot, sin, sout>>

KeepBuffer == UNCHANGED buffer
ConsumeBuffer == buffer' = <<>>

DrainOnEp0 == epc = "event" /\ batch = <<>> /\ rpc \notin {"issue", "read", "reading"}
BatchDone == epc = "event" /\ batch = <<>>

\* poll, 250 ms: it returns for an event or for the timeout.
EpPoll ==
  /\ epc = "poll" /\ running
  /\ epc' = IF events = <<>> THEN "pressIdle" ELSE "press"
  /\ UNCHANGED <<usbVars, btnVars, running, bound, batch, buffer, status, hostAttached, poolVars, readVars, bpc, fabVars>>

\* take_user_press read BTN_EVENT and found nothing: tick, or read the events.
EpNoPress ==
  /\ epc \in {"press", "pressIdle"} /\ ~button
  /\ IF epc = "pressIdle"
     THEN epc' = "idlebeat" /\ UNCHANGED <<batch, events>>
     ELSE epc' = "event" /\ batch' = events /\ events' = <<>>
  /\ UNCHANGED <<udc, enabled, session, wire, hpc, flush, btnVars, running, bound, buffer, status, hostAttached, poolVars, readVars, bpc, fabVars>>

\* A press while bound disconnects; blitscrt_dev_on_host(0) runs next, unlocked.
EpPressUnbind ==
  /\ epc \in {"press", "pressIdle"} /\ button /\ bound
  /\ button' = FALSE
  /\ udc' = FALSE /\ EndpointDown
  /\ bound' = FALSE /\ epc' = "unbind"
  /\ UNCHANGED <<presses, running, batch, buffer, status, hostAttached, poolVars, bpc, fabVars>>

\* A press while unbound reconnects; udc_bind may fail, `bound' is set anyway.
EpPressBind ==
  /\ epc \in {"press", "pressIdle"} /\ button /\ ~bound
  /\ button' = FALSE
  /\ udc' \in BOOLEAN
  /\ bound' = TRUE /\ epc' = "idlebeat"
  /\ UNCHANGED <<presses, enabled, session, events, wire, hpc, flush, running, batch, buffer, status, hostAttached, poolVars, readVars, bpc, fabVars>>

\* The heartbeat of the idle and the button paths, without fablock.
EpIdleBeat ==
  /\ epc = "idlebeat" /\ epc' = "poll"
  /\ UNCHANGED <<usbVars, btnVars, running, bound, batch, buffer, status, hostAttached, poolVars, readVars, bpc, fabVars>>

\* handle_setup takes the request, its data stage included.  The read of a
\* request the host has abandoned fails and the request is dropped.
EpSetup ==
  /\ epc = "event" /\ batch # <<>>
  /\ LET e == Head(batch) IN
     \/ /\ e.type = "SET_BUFFER" /\ hpc = "setbuf" /\ flush = e.h
        /\ hpc' = "set" /\ epc' = "setup" /\ UNCHANGED batch
     \/ /\ e.type = "SET_BUFFER" /\ ~(hpc = "setbuf" /\ flush = e.h)
        /\ batch' = Tail(batch) /\ UNCHANGED <<hpc, epc>>
     \/ /\ e.type = "GET_STATUS"
        /\ epc' = "setup" /\ UNCHANGED <<hpc, batch>>
  /\ UNCHANGED <<udc, enabled, session, events, wire, flush, btnVars, running, bound, buffer, status, hostAttached, poolVars, readVars, bpc, fabVars>>

EpCtrlLock ==
  /\ epc = "setup" /\ fablock = "free"
  /\ fablock' = "ep0" /\ epc' = "ctrl"
  /\ UNCHANGED <<usbVars, btnVars, running, bound, batch, buffer, status, hostAttached, poolVars, readVars, bpc, screen, blitted>>

\* blitscrt_handle_ctrl: SET_BUFFER is accepted or refused (device.c decides),
\* GET_STATUS answers a host that still waits for it.
EpCtrl ==
  /\ epc = "ctrl"
  /\ LET e == Head(batch) IN
     \/ /\ e.type = "SET_BUFFER"
        /\ \/ buffer' = <<e.h>> /\ status' = "ok"
           \/ status' = "err" /\ UNCHANGED buffer
        /\ UNCHANGED hpc
     \/ /\ e.type = "GET_STATUS"
        /\ hpc' = IF hpc = "status" /\ flush = e.h
                  THEN IF status = "ok" THEN "bulk" ELSE "idle" ELSE hpc
        /\ UNCHANGED <<buffer, status>>
  /\ fablock' = "free" /\ epc' = "event" /\ batch' = Tail(batch)
  /\ UNCHANGED <<udc, enabled, session, events, wire, flush, btnVars, running, bound, hostAttached, poolVars, readVars, bpc, screen, blitted>>

EpEnable ==
  /\ epc = "event" /\ batch # <<>> /\ Head(batch).type = "ENABLE"
  /\ epc' = "attach"
  /\ UNCHANGED <<usbVars, btnVars, running, bound, batch, buffer, status, hostAttached, poolVars, readVars, bpc, fabVars>>

\* FUNCTIONFS_DISABLE drops the queued headers and leaves the pool alone.
EpDisable ==
  /\ epc = "event" /\ batch # <<>> /\ Head(batch).type = "DISABLE"
  /\ DropHeaders /\ buffer' = <<>> /\ epc' = "detach"
  /\ UNCHANGED <<usbVars, btnVars, running, bound, batch, status, hostAttached, readVars, bpc, fabVars>>

\* blitscrt_dev_on_host, without fablock: attached, or detached and blanked.
EpOnHost ==
  /\ epc \in {"attach", "detach", "unbind"}
  /\ hostAttached' = (epc = "attach")
  /\ IF epc = "attach" THEN UNCHANGED <<screen, buffer>> ELSE screen' = 0 /\ buffer' = <<>>
  /\ IF epc = "unbind" THEN epc' = "idlebeat" /\ UNCHANGED batch
     ELSE epc' = "event" /\ batch' = Tail(batch)
  /\ UNCHANGED <<usbVars, btnVars, running, bound, status, poolVars, readVars, bpc, fablock, blitted>>

\* End of the batch: handle_bulk queues the header, or reports the overflow.
EpBulk ==
  /\ BatchDone
  /\ epc' = "beatlock" /\ ConsumeBuffer
  /\ IF buffer # <<>> /\ ~QueueFull
     THEN /\ rectq' = Append(rectq, Head(buffer))
          /\ rpc' = SignalWork(rpc)
     ELSE UNCHANGED <<rectq, rpc>>
  /\ UNCHANGED <<usbVars, btnVars, running, bound, batch, status, hostAttached, slot, sin, sout, r, done, bpc, fabVars>>

EpBeatLock ==
  /\ epc = "beatlock" /\ fablock = "free"
  /\ fablock' = "ep0" /\ epc' = "beat"
  /\ UNCHANGED <<usbVars, btnVars, running, bound, batch, buffer, status, hostAttached, poolVars, readVars, bpc, screen, blitted>>

EpBeat ==
  /\ epc = "beat" /\ fablock' = "free" /\ epc' = "poll"
  /\ UNCHANGED <<usbVars, btnVars, running, bound, batch, buffer, status, hostAttached, poolVars, readVars, bpc, screen, blitted>>

\* blitscrt_gadget_close: clear running, broadcast all three conditions, join
\* the reader, join the processor, and only then unbind.
EpClose ==
  /\ epc = "poll" /\ ~running
  /\ epc' = "joinReader"
  /\ rpc' = BroadcastReader(rpc) /\ bpc' = SignalSlotFull(bpc)
  /\ UNCHANGED <<usbVars, btnVars, running, bound, batch, buffer, status, hostAttached, poolVars, r, done, fabVars>>

EpJoinReader ==
  /\ epc = "joinReader" /\ rpc = "done" /\ epc' = "joinBlit"
  /\ UNCHANGED <<usbVars, btnVars, running, bound, batch, buffer, status, hostAttached, poolVars, readVars, bpc, fabVars>>

EpJoinBlit ==
  /\ epc = "joinBlit" /\ bpc = "done" /\ epc' = "closed"
  /\ udc' = FALSE /\ EndpointDown
  /\ UNCHANGED <<btnVars, running, bound, batch, buffer, status, hostAttached, poolVars, bpc, fabVars>>

EpAct == \/ EpPoll \/ EpNoPress \/ EpPressUnbind \/ EpPressBind \/ EpIdleBeat
         \/ EpSetup \/ EpCtrl \/ EpEnable \/ EpDisable \/ EpOnHost \/ EpBulk \/ EpBeat
         \/ EpClose \/ EpJoinReader \/ EpJoinBlit
-----------------------------------------------------------------------------
(* The reader: bulk_worker *)

ReaderQuit ==
  /\ rpc \in {"work", "slot"} /\ ~running
  /\ rpc' = "done"
  /\ UNCHANGED <<usbVars, btnVars, epVars, poolVars, r, done, bpc, fabVars>>

ReaderSleep ==
  /\ rpc = "work" /\ running /\ rectq = <<>>
  /\ rpc' = "sleepWork"
  /\ UNCHANGED <<usbVars, btnVars, epVars, poolVars, r, done, bpc, fabVars>>

\* Pop the oldest header and, in the same critical section, look for a slot.
ReaderTake ==
  /\ rpc = "work" /\ running /\ rectq # <<>>
  /\ r' = Head(rectq) /\ rectq' = Tail(rectq)
  /\ rpc' = IF PoolFull THEN "sleepSlot" ELSE "size"
  /\ UNCHANGED <<usbVars, btnVars, epVars, slot, sin, sout, done, bpc, fabVars>>

ReaderSlotDeaf ==
  /\ rpc = "slot"
  /\ rpc' = IF PoolFull THEN "sleepSlot" ELSE "size"
  /\ UNCHANGED <<usbVars, btnVars, epVars, poolVars, r, done, bpc, fabVars>>

ReaderSlot ==
  /\ rpc = "slot" /\ running
  /\ rpc' = IF PoolFull THEN "sleepSlot" ELSE "size"
  /\ UNCHANGED <<usbVars, btnVars, epVars, poolVars, r, done, bpc, fabVars>>

\* A rect larger than the buffer is dropped, its pixels left on the wire.
ReaderSize ==
  /\ rpc = "size" /\ done' = 0
  /\ IF r.rect.want > BulkBuf \/ r.rect.length > BulkBuf
     THEN rpc' = "work" /\ UNCHANGED slot
     ELSE /\ slot' = [slot EXCEPT ![InIdx].px = <<>>]
          /\ rpc' = IF r.rect.want = 0 THEN "publish" ELSE "issue"
  /\ UNCHANGED <<usbVars, btnVars, epVars, rectq, sin, sout, r, bpc, fabVars>>

\* read(ep_out) queues a request, and waits for the endpoint to be live first.
ReaderIssue ==
  /\ rpc = "issue" /\ enabled
  /\ rpc' = "read"
  /\ UNCHANGED <<usbVars, btnVars, epVars, poolVars, r, done, bpc, fabVars>>

\* What the loop does once `take' bytes of packet p are in: a short packet ends
\* the request, an empty one with nothing before it ends the rect, and a whole
\* rect is handed on.
AskWholeBuffer(p, take) ==
  IF take = 0 THEN IF rpc = "read" THEN "work" ELSE "issue"
  ELSE IF p.size = MaxPacket /\ done + take < BulkBuf THEN "reading"
  ELSE IF done + take >= r.rect.want THEN "publish" ELSE "issue"
AfterPacket(p, take) ==
  IF take = 0 THEN IF rpc = "read" THEN "work" ELSE "issue"
  ELSE IF done + take >= r.rect.want THEN "publish"
  ELSE IF p.size < MaxPacket THEN "issue" ELSE "reading"

\* One packet lands in the slot.  The request was rounded up to whole packets
\* and clipped to the buffer, so a packet that overhangs the buffer is split.
ReaderPacket ==
  /\ rpc \in {"read", "reading"} /\ wire # <<>>
  /\ LET p == Head(wire)
         take == Least(p.size, BulkBuf - done)
         taken == [p EXCEPT !.size = take, !.split = @ \/ take < p.size]
         rest == [p EXCEPT !.size = p.size - take, !.split = TRUE]
     IN /\ wire' = IF take < p.size THEN <<rest>> \o Tail(wire) ELSE Tail(wire)
        /\ done' = done + take
        /\ slot' = IF take = 0 THEN slot ELSE [slot EXCEPT ![InIdx].px = Append(@, taken)]
        /\ rpc' = AfterPacket(p, take)
  /\ UNCHANGED <<udc, enabled, session, events, hpc, flush, btnVars, epVars, rectq, sin, sout, r, bpc, fabVars>>

\* The read failed: done = 0, and the header goes with what was read of it.
ReaderFailed ==
  /\ rpc = "failed"
  /\ done' = 0 /\ rpc' = "work"
  /\ UNCHANGED <<usbVars, btnVars, epVars, poolVars, r, bpc, fabVars>>

ReaderPublish ==
  /\ rpc = "publish"
  /\ slot' = [slot EXCEPT ![InIdx].r = r]
  /\ sin' = Succ(sin) /\ rpc' = "work"
  /\ bpc' = SignalSlotFull(bpc)
  /\ UNCHANGED <<usbVars, btnVars, epVars, rectq, sout, r, done, fabVars>>

ReaderAct == \/ ReaderQuit \/ ReaderSleep \/ ReaderTake \/ ReaderSlot \/ ReaderSize
             \/ ReaderIssue \/ ReaderFailed \/ ReaderPublish
-----------------------------------------------------------------------------
(* The processor: blit_worker *)

BlitQuit ==
  /\ bpc = "full" /\ ~running
  /\ bpc' = "done"
  /\ UNCHANGED <<usbVars, btnVars, epVars, poolVars, readVars, fabVars>>

BlitTake ==
  /\ bpc = "full" /\ running
  /\ bpc' = IF sin = sout THEN "sleepFull" ELSE "lz4"
  /\ UNCHANGED <<usbVars, btnVars, epVars, poolVars, readVars, fabVars>>

\* A compressed block that is not the host's own may fail to decode, and the
\* slot is released unseen; raw pixels are never refused.
BlitDecompress ==
  /\ bpc = "lz4"
  /\ \/ bpc' = "fab"
     \/ /\ slot[OutIdx].r.rect.lz4 /\ ~Intact(slot[OutIdx].r, slot[OutIdx].px)
        /\ bpc' = "release"
  /\ UNCHANGED <<usbVars, btnVars, epVars, poolVars, readVars, fabVars>>

BlitLock ==
  /\ bpc = "fab" /\ fablock = "free"
  /\ fablock' = "blit" /\ bpc' = "blit"
  /\ UNCHANGED <<usbVars, btnVars, epVars, poolVars, readVars, screen, blitted>>

BlitDone ==
  /\ bpc = "blit"
  /\ screen' = slot[OutIdx].r.n /\ blitted' = Append(blitted, slot[OutIdx])
  /\ fablock' = "free" /\ bpc' = "release"
  /\ UNCHANGED <<usbVars, btnVars, epVars, poolVars, readVars>>

BlitRelease ==
  /\ bpc = "release"
  /\ sout' = Succ(sout) /\ bpc' = "full"
  /\ rpc' = SignalSlotFree(rpc)
  /\ UNCHANGED <<usbVars, btnVars, epVars, rectq, slot, sin, r, done, fabVars>>

BlitAct == BlitQuit \/ BlitTake \/ BlitDecompress \/ BlitDone \/ BlitRelease

\* pthread_cond_wait may return without a signal; every wait is in a loop.
Spurious ==
  \/ /\ rpc = "sleepWork" /\ rpc' = "work"
     /\ UNCHANGED <<usbVars, btnVars, epVars, poolVars, r, done, bpc, fabVars>>
  \/ /\ rpc = "sleepSlot" /\ rpc' = "slot"
     /\ UNCHANGED <<usbVars, btnVars, epVars, poolVars, r, done, bpc, fabVars>>
  \/ /\ bpc = "sleepFull" /\ bpc' = "full"
     /\ UNCHANGED <<usbVars, btnVars, epVars, poolVars, readVars, fabVars>>
-----------------------------------------------------------------------------
HostAct == \/ HostAttach \/ HostDetach \/ HostSetBuffer \/ HostGetStatus \/ HostBulk
           \/ HostBulkDone \/ UserPress \/ \E how \in {"silent", "zlp"} : HostGiveUp(how)

Next == \/ HostAct \/ Stop \/ EpAct \/ EpCtrlLock \/ EpBeatLock
        \/ ReaderAct \/ ReaderPacket \/ BlitAct \/ BlitLock \/ Spurious

Spec == Init /\ [][Next]_vars

\* Every thread is scheduled.  A mutex that is free again and again is
\* eventually taken: ep0 holds fablock for an instant out of every 250 ms.
ThreadFairness ==
  /\ WF_vars(EpAct) /\ SF_vars(EpCtrlLock) /\ SF_vars(EpBeatLock)
  /\ WF_vars(ReaderAct) /\ WF_vars(BlitAct) /\ SF_vars(BlitLock)
\* A host that stays answers its own protocol, and the controller moves packets.
HostFairness ==
  WF_vars(HostGetStatus) /\ WF_vars(HostBulk) /\ WF_vars(HostBulkDone) /\ WF_vars(ReaderPacket)

FairSpec == Spec /\ ThreadFairness
LiveSpec == FairSpec /\ HostFairness
-----------------------------------------------------------------------------
(* Properties *)

Filling  == {"size", "issue", "read", "reading", "failed", "publish"}
Draining == {"lz4", "fab", "blit", "release"}
Sleeping == {"sleepWork", "sleepSlot"}

Header == [n : Nat, s : Nat, rect : [want : Nat, length : Nat, lz4 : BOOLEAN]]
Packet == [n : Nat, s : Nat, split : BOOLEAN, size : Nat]
Slot   == [r : Header, px : Seq(Packet)]
EventRec == [type : {"ENABLE", "DISABLE", "SET_BUFFER", "GET_STATUS"}, h : Header]

ControlType ==
  /\ hpc \in {"gone", "idle", "setbuf", "set", "status", "bulk", "wait"}
  /\ running \in BOOLEAN /\ bound \in BOOLEAN
  /\ epc \in {"poll", "press", "pressIdle", "unbind", "idlebeat", "event", "setup", "ctrl",
              "attach", "detach", "beatlock", "beat", "joinReader", "joinBlit", "closed"}
  /\ sin \in 0..Wrap - 1 /\ sout \in 0..Wrap - 1
  /\ rpc \in {"work", "slot", "done"} \cup Filling \cup Sleeping
  /\ bpc \in {"full", "sleepFull", "done"} \cup Draining
  /\ fablock \in {"free", "ep0", "blit"}

DataType ==
  /\ session \in Nat /\ flush \in Header /\ wire \in Seq(Packet)
  /\ events \in Seq(EventRec) /\ Len(events) <= 2 /\ batch \in Seq(EventRec) /\ Len(batch) <= 2
  /\ epc \in {"setup", "ctrl", "attach", "detach"} => batch # <<>>
  /\ buffer \in Seq(Header) /\ status \in {"ok", "err"} /\ hostAttached \in BOOLEAN
  /\ rectq \in Seq(Header) /\ Len(rectq) <= RectQ
  /\ slot \in [0..NSlot - 1 -> Slot]
  /\ r \in Header /\ done \in 0..BulkBuf
  /\ screen \in Nat /\ blitted \in Seq(Slot)

\* Where each thread is and what it holds; the header queue never outgrows
\* RECTQ, a slot never BULK_BUF, a batch never the two events the kernel holds.
TypeOK == ControlType /\ DataType

\* The reader never fills the slot the processor is reading, although the two
\* pick their indices from separate counters and each works without the lock.
SlotExclusive ==
  (rpc \in Filling /\ bpc \in Draining) => InIdx # OutIdx

\* sin - sout counts the filled slots and never wraps, whatever DISABLE, a
\* dropped header or a bad block does between a slot's filling and its release
\* (the hang the DISABLE comment describes).
PoolBound ==
  /\ Filled <= NSlot
  /\ rpc \in Filling => Filled < NSlot
  /\ bpc \in Draining => Filled > 0

\* Nobody sleeps on a condition that already holds, and once close has
\* broadcast nobody sleeps at all: no signal of the three is ever missed.
NoLostWakeup ==
  /\ rpc = "sleepWork" => rectq = <<>>
  /\ rpc = "sleepSlot" => Filled = NSlot
  /\ bpc = "sleepFull" => Filled = 0
  /\ epc \in {"joinReader", "joinBlit", "closed"} => rpc \notin Sleeping /\ bpc # "sleepFull"

\* fablock is held by the thread that is in a section it guards, and only then.
FablockHeld ==
  /\ fablock = "ep0" <=> epc \in {"ctrl", "beat"}
  /\ fablock = "blit" <=> bpc = "blit"

\* What is blitted is the header's own rect: header and pixels stay in step
\* (the RECTQ and BULK_MAXPACKET comments).
Aligned == \A i \in DOMAIN blitted : Intact(blitted[i].r, blitted[i].px)

\* No rect is blitted twice, and none overtakes another, across hosts too.
InOrder ==
  \A i, j \in DOMAIN blitted : i < j => blitted[i].r.n < blitted[j].r.n

\* The rects under way between the accepted header and the screen.
PoolContents ==
  [i \in 1..Filled - (IF bpc = "release" THEN 1 ELSE 0) |->
     slot[(sout + i - 1 + (IF bpc = "release" THEN 1 ELSE 0)) % NSlot].r.n]
InHand == IF rpc \in Filling \cup {"sleepSlot", "slot"} THEN <<r.n>> ELSE <<>>
Waiting == [i \in DOMAIN rectq |-> rectq[i].n]
Shown == [i \in DOMAIN blitted |-> blitted[i].r.n]

\* A host that stays and never gives up sees a FIFO: the refinement of RectFifo.
Fifo == INSTANCE RectFifo WITH
  Capacity <- RectQ + 1 + NSlot, Frames <- 1..MaxFrames,
  queued <- Shown \o PoolContents \o InHand \o Waiting, shown <- Shown
FifoSpec == Fifo!Spec

\* A control request is answered whatever the bulk endpoint is doing: this is
\* what the endpoint's own thread is for.
ControlAnswered == (hpc = "status" /\ running) ~> (hpc # "status" \/ ~running)

\* A reader waiting for a slot always gets one, hosts coming and going, and a
\* daemon told to stop does not leave it waiting.
PoolDrains == (rpc = "sleepSlot") ~> (rpc # "sleepSlot")

\* Once asked to stop, the daemon closes, unless the reader sits in a read.
StopsUnlessReading ==
  ~running ~> (epc = "closed" \/ rpc \in {"issue", "read", "reading"})

\* gadget.c: the fabric is not thread-safe, so its users are serialised.
InFabric ==
  epc \in {"press", "pressIdle", "unbind", "idlebeat", "ctrl", "attach", "detach", "beat"}
FabricSerialised == ~(InFabric /\ bpc = "blit")

\* A host that is seen to go takes its headers with it: none waits for the next host's pixels, but for
\* the one the reader has already popped (the DISABLE comment, gadget.c:993-1014).
HeadersGoWithHost ==
  (epc = "poll" /\ ~hostAttached /\ events = <<>>) => rectq = <<>> /\ buffer = <<>>
=============================================================================
