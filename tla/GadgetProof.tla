---------------------------- MODULE GadgetProof ----------------------------
(***************************************************************************)
(* Theorems about Gadget, for every value of its constants.                *)
(***************************************************************************)
EXTENDS Gadget, SequenceTheorems, TLAPS

\* Two counters less than NSlot apart, and not equal, name different slots.
LEMMA SlotsDiffer ==
  ASSUME NEW N \in Nat \ {0}, NEW a \in Nat, NEW b \in Nat, a > b, a - b < N
  PROVE  a % N # b % N
<1> DEFINE q == a \div N
           p == b \div N
<1>1. /\ q \in Int /\ p \in Int
      /\ a = N * q + (a % N) /\ b = N * p + (b % N)
  OBVIOUS
<1>2. SUFFICES ASSUME a % N = b % N PROVE FALSE
  OBVIOUS
<1>3. a - b = N * (q - p)
  BY <1>1, <1>2
<1>4. CASE q - p <= 0
  <2>1. N * (q - p) <= 0
    BY <1>4, <1>1
  <2>2. QED BY <2>1, <1>3
<1>5. CASE q - p >= 1
  <2>1. N * (q - p) >= N
    BY <1>5, <1>1
  <2>2. QED BY <2>1, <1>3
<1>6. QED BY <1>1, <1>4, <1>5

\* Adding a multiple of the pool size does not change the slot.
LEMMA WrapKeepsSlot ==
  ASSUME NEW N \in Nat \ {0}, NEW a \in Nat, NEW w \in Nat, w % N = 0
  PROVE  (a + w) % N = a % N
<1> DEFINE q == a \div N
           p == w \div N
           t == (a + w) \div N
<1>1. /\ q \in Int /\ p \in Int /\ t \in Int
      /\ a = N * q + (a % N) /\ w = N * p
      /\ a + w = N * t + ((a + w) % N)
      /\ a % N \in 0..N - 1 /\ (a + w) % N \in 0..N - 1
  OBVIOUS
<1>2. ((a + w) % N) - (a % N) = N * (q + p - t)
  BY <1>1
<1>3. CASE q + p - t <= -1
  <2>1. N * (q + p - t) <= -N
    BY <1>1, <1>3
  <2>2. QED BY <2>1, <1>1, <1>2
<1>4. CASE q + p - t >= 1
  <2>1. N * (q + p - t) >= N
    BY <1>1, <1>4
  <2>2. QED BY <2>1, <1>1, <1>2
<1>5. CASE q + p - t = 0
  BY <1>1, <1>2, <1>5
<1>6. QED BY <1>1, <1>3, <1>4, <1>5

-----------------------------------------------------------------------------
(* The slot pool, the condition variables and fablock.                     *)
(*                                                                         *)
(* PoolBound alone is not inductive: the processor's place in its loop     *)
(* decides whether it may release, and a reader may only fall asleep while *)
(* the daemon runs, so the control state and the shape of the joins go in. *)

Joining == epc \in {"joinReader", "joinBlit", "closed"} => ~running
PoolInv == ControlType /\ PoolBound /\ NoLostWakeup /\ FablockHeld /\ Joining

\* PoolInv: the counters, the conditions and fablock, strong enough to be inductive.
LEMMA PoolInvInit == Init => PoolInv
BY SizeAssumption DEF Init, PoolInv, ControlType, PoolBound, NoLostWakeup, FablockHeld, Joining,
   Filled, Filling, Draining, Sleeping

\* Every step of every thread keeps it: one case per action.
LEMMA PoolInvNext == PoolInv /\ [Next]_vars => PoolInv'
<1> SUFFICES ASSUME PoolInv, [Next]_vars PROVE PoolInv'
  OBVIOUS
<1> USE SizeAssumption DEF PoolInv, ControlType, PoolBound, NoLostWakeup, FablockHeld, Joining,
      Filled, Filling, Draining, Sleeping, usbVars, btnVars, epVars, poolVars, readVars, fabVars
<1>1. CASE HostAttach
  BY <1>1 DEF HostAttach
<1>2. CASE HostDetach
  BY <1>2 DEF HostDetach, EndpointDown
<1>3. CASE HostSetBuffer
  BY <1>3 DEF HostSetBuffer
<1>4. CASE HostGetStatus
  BY <1>4 DEF HostGetStatus
<1>5. CASE HostBulk
  BY <1>5 DEF HostBulk
<1>6. CASE HostBulkDone
  BY <1>6 DEF HostBulkDone
<1>7. CASE UserPress
  BY <1>7 DEF UserPress
<1>8. CASE \E how \in {"silent", "zlp"} : HostGiveUp(how)
  BY <1>8 DEF HostGiveUp
<1>9. CASE EpPoll
  BY <1>9 DEF EpPoll
<1>10. CASE EpNoPress
  BY <1>10 DEF EpNoPress
<1>11. CASE EpPressUnbind
  <2>1. /\ epc' = "unbind" /\ bound' = FALSE /\ hpc' = "gone"
        /\ rpc' = IF rpc \in {"read", "reading"} THEN "failed" ELSE rpc
    BY <1>11 DEF EpPressUnbind, EndpointDown
  <2>2. UNCHANGED <<running, sin, sout, bpc, fablock, rectq>>
    BY <1>11 DEF EpPressUnbind, EndpointDown
  <2>3. epc \in {"press", "pressIdle"}
    BY <1>11 DEF EpPressUnbind
  <2>4. CASE rpc \in {"read", "reading"}
    BY <2>1, <2>2, <2>3, <2>4
  <2>5. CASE rpc \notin {"read", "reading"}
    <3>1. UNCHANGED rpc
      BY <2>1, <2>5
    <3>2. ControlType'
      BY <2>1, <2>2, <3>1
    <3>6. PoolBound'
      BY <2>2, <3>1
    <3>3. NoLostWakeup'
      BY <2>1, <2>2, <3>1
    <3>4. FablockHeld'
      BY <2>1, <2>2, <2>3
    <3>5. Joining'
      BY <2>1
    <3> QED BY <3>2, <3>3, <3>4, <3>5, <3>6
  <2>6. QED BY <2>4, <2>5
<1>12. CASE EpPressBind
  BY <1>12 DEF EpPressBind
<1>13. CASE EpIdleBeat
  BY <1>13 DEF EpIdleBeat
<1>14. CASE EpSetup
  BY <1>14 DEF EpSetup
<1>15. CASE EpCtrl
  BY <1>15 DEF EpCtrl
<1>16. CASE EpEnable
  BY <1>16 DEF EpEnable
<1>17. CASE EpDisable
  BY <1>17 DEF EpDisable, DropHeaders
<1>18. CASE EpOnHost
  BY <1>18 DEF EpOnHost
<1>19. CASE EpBulk
  BY <1>19 DEF EpBulk, BatchDone, ConsumeBuffer, QueueFull, SignalWork
<1>20. CASE EpBeat
  BY <1>20 DEF EpBeat
<1>21. CASE EpClose
  BY <1>21 DEF EpClose, BroadcastReader, SignalWork, SignalSlotFree, SignalSlotFull
<1>22. CASE EpJoinReader
  BY <1>22 DEF EpJoinReader
<1>23. CASE EpJoinBlit
  BY <1>23 DEF EpJoinBlit, EndpointDown
<1>24. CASE EpCtrlLock
  BY <1>24 DEF EpCtrlLock
<1>25. CASE EpBeatLock
  BY <1>25 DEF EpBeatLock
<1>26. CASE Stop
  <2>1. /\ running' = FALSE
        /\ UNCHANGED <<hpc, bound, epc, sin, sout, rpc, bpc, fablock, rectq>>
    BY <1>26 DEF Stop
  <2>2. Joining' /\ running' \in BOOLEAN
    BY <2>1
  <2>3. QED BY <2>1, <2>2
<1>27. CASE ReaderQuit
  BY <1>27 DEF ReaderQuit
<1>28. CASE ReaderSleep
  BY <1>28 DEF ReaderSleep
<1>29. CASE ReaderTake
  BY <1>29 DEF ReaderTake, PoolFull
<1>30. CASE ReaderSlot
  BY <1>30 DEF ReaderSlot, PoolFull
<1>31. CASE ReaderSize
  BY <1>31 DEF ReaderSize
<1>32. CASE ReaderIssue
  BY <1>32 DEF ReaderIssue
<1>33. CASE ReaderFailed
  BY <1>33 DEF ReaderFailed
<1>34. CASE ReaderPublish
  BY <1>34 DEF ReaderPublish, Succ, SignalSlotFull
<1>35. CASE ReaderPacket
  BY <1>35 DEF ReaderPacket, AfterPacket
<1>36. CASE BlitQuit
  BY <1>36 DEF BlitQuit
<1>37. CASE BlitTake
  BY <1>37 DEF BlitTake
<1>38. CASE BlitDecompress
  BY <1>38 DEF BlitDecompress
<1>39. CASE BlitDone
  BY <1>39 DEF BlitDone
<1>40. CASE BlitRelease
  BY <1>40 DEF BlitRelease, Succ, SignalSlotFree
<1>41. CASE BlitLock
  BY <1>41 DEF BlitLock
<1>42. CASE Spurious
  BY <1>42 DEF Spurious
<1>43. CASE UNCHANGED vars
  BY <1>43 DEF vars
<1> HIDE DEF PoolInv, usbVars, btnVars, epVars, poolVars, readVars, fabVars
<1>44. QED
  BY <1>1, <1>2, <1>3, <1>4, <1>5, <1>6, <1>7, <1>8, <1>9, <1>10, <1>11, <1>12, <1>13, <1>14, <1>15, <1>16, <1>17, <1>18, <1>19, <1>20, <1>21, <1>22, <1>23, <1>24, <1>25, <1>26, <1>27, <1>28, <1>29, <1>30, <1>31, <1>32, <1>33, <1>34, <1>35, <1>36, <1>37, <1>38, <1>39, <1>40, <1>41, <1>42, <1>43
  DEF Next, HostAct, EpAct, ReaderAct, BlitAct

\* So it always holds; the theorems below are its consequences.
LEMMA PoolInvAlways == Spec => []PoolInv
<1>1. QED BY PoolInvInit, PoolInvNext, PTL DEF Spec

\* sin - sout never leaves 0..NSLOT and never wraps (bulk_worker, blit_worker,
\* and the DISABLE handler that leaves both counters alone).
THEOREM PoolBounded == Spec => []PoolBound
<1>1. PoolInv => PoolBound
  BY DEF PoolInv
<1>2. QED BY <1>1, PoolInvAlways, PTL

\* No thread sleeps through its condition, and none sleeps once
\* blitscrt_gadget_close has broadcast.
THEOREM WakeupsKept == Spec => []NoLostWakeup
<1>1. PoolInv => NoLostWakeup
  BY DEF PoolInv
<1>2. QED BY <1>1, PoolInvAlways, PTL

\* fablock is held exactly through the sections that take it.
THEOREM FablockSound == Spec => []FablockHeld
<1>1. PoolInv => FablockHeld
  BY DEF PoolInv
<1>2. QED BY <1>1, PoolInvAlways, PTL

\* The reader and the processor never work in one slot at once, for any pool
\* size that divides the range of the counters.
THEOREM SlotsExclusive == Spec => []SlotExclusive
<1>1. PoolInv => SlotExclusive
  <2> SUFFICES ASSUME PoolInv, rpc \in Filling, bpc \in Draining
               PROVE  sin % NSlot # sout % NSlot
    BY DEF SlotExclusive, InIdx, OutIdx
  <2>1. /\ NSlot \in Nat \ {0} /\ Wrap \in Nat /\ Wrap % NSlot = 0
        /\ sin \in Nat /\ sout \in Nat /\ sin < Wrap /\ sout < Wrap
        /\ Filled < NSlot /\ Filled > 0
    BY SizeAssumption DEF PoolInv, ControlType, PoolBound
  <2>2. CASE sin >= sout
    <3>1. sin > sout /\ sin - sout < NSlot
      BY <2>1, <2>2 DEF Filled
    <3>2. QED BY <3>1, <2>1, SlotsDiffer
  <2>3. CASE sin < sout
    <3>1. /\ sin + Wrap \in Nat /\ sin + Wrap > sout
          /\ (sin + Wrap) - sout < NSlot
      BY <2>1, <2>3 DEF Filled
    <3>2. (sin + Wrap) % NSlot # sout % NSlot
      BY <3>1, <2>1, SlotsDiffer
    <3>3. (sin + Wrap) % NSlot = sin % NSlot
      BY <2>1, WrapKeepsSlot
    <3>4. QED BY <3>2, <3>3
  <2>4. QED BY <2>1, <2>2, <2>3
<1>2. QED BY <1>1, PoolInvAlways, PTL

-----------------------------------------------------------------------------
(* Types.                                                                  *)

LEMMA NegativeProduct ==
  ASSUME NEW m \in Nat, NEW q \in Int, q <= -1
  PROVE  m * q <= -m
<1> DEFINE up == q + 1
<1>1. up \in Int /\ up <= 0 /\ m * q = m * up - m
  OBVIOUS
<1>2. m * up <= 0
  <2> HIDE DEF up
  <2> QED BY <1>1
<1> QED
  <2> HIDE DEF up
  <2> QED BY <1>1, <1>2

LEMMA QuotientNat ==
  ASSUME NEW v \in Nat, NEW m \in Nat \ {0}
  PROVE  v \div m >= 0
<1> DEFINE q == v \div m
<1>1. q \in Int /\ v = m * q + (v % m) /\ v % m \in 0..m - 1
  OBVIOUS
<1>2. CASE q <= -1
  <2>1. m * q <= -m
    BY <1>1, <1>2, NegativeProduct
  <2> QED
    BY <1>1, <2>1
<1> QED
  BY <1>1, <1>2

LEMMA BulkBufNat == BulkBuf \in Nat
  BY RectAssumption

\* What a read takes of a packet fits, and leaves no less than nothing.
LEMMA TakesWhatFits ==
  ASSUME NEW size \in Nat, NEW room \in Nat, NEW used \in 0..room
  PROVE  LET n == Least(size, room - used)
         IN  n \in Nat /\ used + n \in 0..room /\ size - n \in Nat
<1>1. CASE size <= room - used
  BY <1>1 DEF Least
<1>2. CASE ~(size <= room - used)
  BY <1>2 DEF Least
<1> QED BY <1>1, <1>2

\* Every packet of a header's transfer has a size.
LEMMA PacketsType ==
  ASSUME NEW h \in Header
  PROVE  PacketsOf(h) \in Seq(Packet)
<1> DEFINE w == h.rect.want
           k == (w + MaxPacket - 1) \div MaxPacket
<1>1. w \in Nat /\ MaxPacket \in Nat \ {0} /\ h.n \in Nat /\ h.s \in Nat
  BY RectAssumption DEF Header
<1>2. k \in Nat /\ MaxPacket * k <= w + MaxPacket - 1
  <2> DEFINE v == w + MaxPacket - 1
  <2>1. v \in Nat
    BY <1>1
  <2>2. HIDE DEF v
  <2>3. /\ v \div MaxPacket \in Int /\ v = MaxPacket * (v \div MaxPacket) + (v % MaxPacket)
        /\ v % MaxPacket \in 0..MaxPacket - 1
    BY <1>1, <2>1
  <2>4. v \div MaxPacket >= 0
    BY <1>1, <2>1, QuotientNat
  <2>5. QED BY <2>1, <2>3, <2>4, <1>1 DEF v
<1>3. ASSUME NEW i \in 1..k
      PROVE  w - (i - 1) * MaxPacket \in Nat
  <2>1. (i - 1) * MaxPacket <= (k - 1) * MaxPacket
    BY <1>1, <1>2
  <2>2. (k - 1) * MaxPacket <= w - 1
    BY <1>1, <1>2
  <2>3. QED BY <2>1, <2>2, <1>1, <1>2
<1>4. \A i \in 1..k : [n |-> h.n, s |-> h.s, split |-> FALSE,
        size |-> Least(MaxPacket, w - (i - 1) * MaxPacket)] \in Packet
  BY <1>1, <1>3 DEF Packet, Least
<1>5. QED BY <1>2, <1>4, IsASeq DEF PacketsOf

\* Short sequences, for the event queue.
LEMMA ShortSeq ==
  ASSUME NEW S, NEW d \in S, NEW e \in S
  PROVE  /\ <<e>> \in Seq(S) /\ Len(<<e>>) = 1
         /\ <<d, e>> \in Seq(S) /\ Len(<<d, e>>) = 2
OBVIOUS

\* What the initial state and the flushes put in the variables.
LEMMA EmptyTypes ==
  /\ <<>> \in Seq(Packet) /\ <<>> \in Seq(EventRec) /\ <<>> \in Seq(Header) /\ <<>> \in Seq(Slot)
  /\ Len(<<>>) = 0 /\ NoHeader \in Header
<1>1. NoHeader \in Header
  BY DEF NoHeader, Header
<1>2. QED BY <1>1, EmptySeq

\* Writing a slot's header or its pixels leaves slots.
LEMMA SlotsStay ==
  ASSUME NEW f \in [0..NSlot - 1 -> Slot], NEW i
  PROVE  /\ \A h \in Header : [f EXCEPT ![i].r = h] \in [0..NSlot - 1 -> Slot]
         /\ i \in 0..NSlot - 1 =>
              \A x \in Packet : [f EXCEPT ![i].px = Append(@, x)] \in [0..NSlot - 1 -> Slot]
         /\ [f EXCEPT ![i].px = <<>>] \in [0..NSlot - 1 -> Slot]
<1> DEFINE D == 0..NSlot - 1
<1> HIDE DEF D
<1>1. ASSUME NEW g \in [D -> Slot], NEW h \in Header PROVE [g EXCEPT ![i].r = h] \in [D -> Slot]
  BY DEF Slot
<1>2. ASSUME NEW g \in [D -> Slot], NEW q \in Seq(Packet) PROVE [g EXCEPT ![i].px = q] \in [D -> Slot]
  BY DEF Slot
<1>3. ASSUME i \in D, NEW g \in [D -> Slot], NEW x \in Packet
      PROVE  [g EXCEPT ![i].px = Append(@, x)] \in [D -> Slot]
  <2>1. g[i].px \in Seq(Packet)
    BY <1>3 DEF Slot
  <2>2. Append(g[i].px, x) \in Seq(Packet)
    BY <2>1, AppendProperties
  <2> QED BY <2>2, <1>2
<1> QED BY <1>1, <1>2, <1>3, EmptyTypes DEF D

\* An event raised, and a SETUP added to the queue.
LEMMA EventTypes ==
  ASSUME NEW h \in Header, NEW q \in Seq(EventRec),
         NEW type \in {"ENABLE", "DISABLE", "SET_BUFFER", "GET_STATUS"}
  PROVE  /\ <<Event(type, h)>> \in Seq(EventRec) /\ Len(<<Event(type, h)>>) = 1
         /\ AddSetup(q, Event(type, h)) \in Seq(EventRec) /\ Len(AddSetup(q, Event(type, h))) <= 2
<1> DEFINE e == Event(type, h)
<1>1. e \in EventRec
  BY DEF Event, EventRec
<1>2. q # <<>> => Head(q) \in EventRec
  BY HeadTailProperties
<1> HIDE DEF e
<1>3. <<e>> \in Seq(EventRec) /\ Len(<<e>>) = 1
  BY <1>1, ShortSeq
<1>4. q # <<>> => <<Head(q), e>> \in Seq(EventRec) /\ Len(<<Head(q), e>>) = 2
  BY <1>1, <1>2, ShortSeq
<1>5. AddSetup(q, e) = <<e>> \/ (q # <<>> /\ AddSetup(q, e) = <<Head(q), e>>)
  BY DEF AddSetup
<1>6. AddSetup(q, e) \in Seq(EventRec) /\ Len(AddSetup(q, e)) <= 2
  <2>1. CASE AddSetup(q, e) = <<e>>
    BY <1>3, <2>1
  <2>2. CASE q # <<>> /\ AddSetup(q, e) = <<Head(q), e>>
    BY <1>4, <2>2
  <2>3. QED BY <1>5, <2>1, <2>2
<1>7. QED BY <1>3, <1>6 DEF e

\* The ENABLE and DISABLE the kernel raises.
LEMMA StateEvents ==
  /\ <<Event("ENABLE", NoHeader)>> \in Seq(EventRec) /\ Len(<<Event("ENABLE", NoHeader)>>) = 1
  /\ <<Event("DISABLE", NoHeader)>> \in Seq(EventRec) /\ Len(<<Event("DISABLE", NoHeader)>>) = 1
<1>1. NoHeader \in Header /\ <<>> \in Seq(EventRec)
  BY EmptyTypes
<1>2. QED BY <1>1, EventTypes

\* What is left of a batch.
LEMMA BatchTail ==
  ASSUME NEW q \in Seq(EventRec), q # <<>>, Len(q) <= 2
  PROVE  Tail(q) \in Seq(EventRec) /\ Len(Tail(q)) <= 2 /\ Head(q).h \in Header
<1>1. Head(q) \in EventRec /\ Tail(q) \in Seq(EventRec) /\ Len(Tail(q)) = Len(q) - 1 /\ Len(q) \in Nat
  BY HeadTailProperties, LenProperties
<1>2. Head(q).h \in Header
  BY <1>1 DEF EventRec
<1>3. QED BY <1>1, <1>2

\* The sequences start empty.
LEMMA DataInit == Init => DataType
<1> SUFFICES ASSUME Init PROVE DataType
  OBVIOUS
<1>1. slot \in [0..NSlot - 1 -> Slot]
  BY EmptyTypes DEF Init, Slot
<1>2. done \in 0..BulkBuf
  BY RectAssumption DEF Init
<1>3. rectq \in Seq(Header) /\ Len(rectq) <= RectQ
  BY EmptyTypes, SizeAssumption DEF Init
<1>4. /\ wire \in Seq(Packet) /\ events \in Seq(EventRec) /\ Len(events) <= 2
      /\ batch \in Seq(EventRec) /\ Len(batch) <= 2
  BY EmptyTypes DEF Init
<1>5. /\ flush \in Header /\ r \in Header /\ buffer \in Seq(Header) /\ blitted \in Seq(Slot)
  BY EmptyTypes DEF Init
<1>6. /\ session \in Nat /\ screen \in Nat /\ status \in {"ok", "err"}
      /\ hostAttached \in BOOLEAN /\ epc = "poll"
  BY DEF Init
<1>7. QED BY <1>1, <1>2, <1>3, <1>4, <1>5, <1>6 DEF DataType

\* A counter names a slot.
LEMMA SlotIndex ==
  ASSUME NEW c \in Nat
  PROVE  c % NSlot \in 0..NSlot - 1
BY SizeAssumption

\* Every step keeps the sequences well formed and within their limits.
LEMMA DataNext == ControlType /\ DataType /\ [Next]_vars => DataType'
<1> SUFFICES ASSUME ControlType, DataType, [Next]_vars PROVE DataType'
  OBVIOUS
<1> USE SizeAssumption, RectAssumption DEF ControlType, DataType, usbVars, btnVars, epVars, poolVars,
      readVars, fabVars
<1>1. CASE HostAttach
  BY <1>1, EmptyTypes, StateEvents DEF HostAttach
<1>2. CASE HostDetach
  BY <1>2, EmptyTypes, StateEvents DEF HostDetach, EndpointDown
<1>3. CASE HostSetBuffer
  <2>1. flush' \in Header
    <3>1. PICK x \in Rects : flush' = [n |-> flush.n + 1, s |-> session, rect |-> x]
      BY <1>3 DEF HostSetBuffer
    <3>2. flush.n \in Nat
      BY DEF Header
    <3>3. x \in [want : Nat, length : Nat, lz4 : BOOLEAN]
      BY RectAssumption
    <3>4. flush.n + 1 \in Nat /\ session \in Nat
      BY <3>2
    <3> HIDE DEF ControlType, DataType
    <3>5. QED BY <3>1, <3>3, <3>4 DEF Header
  <2>2. QED BY <1>3, <2>1, EventTypes DEF HostSetBuffer
<1>4. CASE HostGetStatus
  BY <1>4, EventTypes DEF HostGetStatus
<1>5. CASE HostBulk
  <2>1. wire \o PacketsOf(flush) \in Seq(Packet)
    BY PacketsType, ConcatProperties
  <2>2. QED BY <1>5, <2>1 DEF HostBulk
<1>6. CASE HostBulkDone
  BY <1>6 DEF HostBulkDone
<1>7. CASE UserPress
  BY <1>7 DEF UserPress
<1>8. CASE \E how \in {"silent", "zlp"} : HostGiveUp(how)
  <2>1. wire' \in Seq(Packet)
    <3>1. [n |-> flush.n, s |-> flush.s, split |-> FALSE, size |-> 0] \in Packet
      BY DEF Header, Packet
    <3>2. QED BY <1>8, <3>1, ShortSeq, EmptyTypes DEF HostGiveUp
  <2>2. QED BY <1>8, <2>1 DEF HostGiveUp
<1>9. CASE EpPoll
  BY <1>9 DEF EpPoll
<1>10. CASE EpNoPress
  <2>1. /\ batch' \in Seq(EventRec) /\ Len(batch') <= 2
        /\ events' \in Seq(EventRec) /\ Len(events') <= 2
    <3>1. \/ batch' = batch /\ events' = events
          \/ batch' = events /\ events' = <<>>
      BY <1>10 DEF EpNoPress
    <3>2. /\ batch \in Seq(EventRec) /\ Len(batch) <= 2
          /\ events \in Seq(EventRec) /\ Len(events) <= 2
      OBVIOUS
    <3>3. <<>> \in Seq(EventRec) /\ Len(<<>>) <= 2
      BY EmptyTypes
    <3> HIDE DEF ControlType, DataType
    <3>4. CASE batch' = batch /\ events' = events
      BY <3>2, <3>4
    <3>5. CASE batch' = events /\ events' = <<>>
      BY <3>2, <3>3, <3>5
    <3>6. QED BY <3>1, <3>4, <3>5
  <2>2. epc' \in {"idlebeat", "event"}
    BY <1>10 DEF EpNoPress
  <2>3. QED BY <1>10, <2>1, <2>2 DEF EpNoPress
<1>11. CASE EpPressUnbind
  BY <1>11, EmptyTypes, StateEvents DEF EpPressUnbind, EndpointDown
<1>12. CASE EpPressBind
  BY <1>12 DEF EpPressBind
<1>13. CASE EpIdleBeat
  BY <1>13 DEF EpIdleBeat
<1>14. CASE EpSetup
  <2>1. batch # <<>> => /\ Tail(batch) \in Seq(EventRec) /\ Len(Tail(batch)) <= 2
                        /\ Head(batch).h \in Header
    BY BatchTail
  <2>2. QED BY <1>14, <2>1 DEF EpSetup
<1>15. CASE EpCtrl
  <2>1. batch # <<>> => /\ Tail(batch) \in Seq(EventRec) /\ Len(Tail(batch)) <= 2
                        /\ Head(batch).h \in Header
    BY BatchTail
  <2>2. batch # <<>>
    BY <1>15 DEF EpCtrl
  <2>3. buffer' \in Seq(Header) /\ status' \in {"ok", "err"}
    <3>1. <<Head(batch).h>> \in Seq(Header)
      BY <2>1, <2>2, ShortSeq
    <3>2. buffer' \in {buffer, <<Head(batch).h>>} /\ status' \in {status, "ok", "err"}
      BY <1>15 DEF EpCtrl
    <3>3. QED BY <3>1, <3>2
  <2>4. QED BY <1>15, <2>1, <2>2, <2>3 DEF EpCtrl
<1>16. CASE EpEnable
  BY <1>16 DEF EpEnable
<1>17. CASE EpDisable
  BY <1>17, EmptyTypes DEF EpDisable, DropHeaders
<1>18. CASE EpOnHost
  <2>1. batch # <<>> => /\ Tail(batch) \in Seq(EventRec) /\ Len(Tail(batch)) <= 2
                        /\ Head(batch).h \in Header
    BY BatchTail
  <2>2. batch' \in Seq(EventRec) /\ Len(batch') <= 2 /\ epc' \in {"idlebeat", "event"}
    BY <1>18, <2>1 DEF EpOnHost
  <2>3. buffer' \in Seq(Header) /\ screen' \in Nat /\ hostAttached' \in BOOLEAN
    <3>1. hostAttached' = (epc = "attach")
      BY <1>18 DEF EpOnHost
    <3>2. hostAttached' \in BOOLEAN
      BY <3>1
    <3>3. (screen' = screen /\ buffer' = buffer) \/ (screen' = 0 /\ buffer' = <<>>)
      BY <1>18 DEF EpOnHost
    <3>4. screen \in Nat /\ buffer \in Seq(Header) /\ <<>> \in Seq(Header)
      BY EmptyTypes
    <3> HIDE DEF ControlType, DataType
    <3>5. screen' \in Nat
      BY <3>3, <3>4
    <3>6. buffer' \in Seq(Header)
      BY <3>3, <3>4
    <3>7. QED BY <3>2, <3>5, <3>6
  <2>4. QED BY <1>18, <2>2, <2>3 DEF EpOnHost
<1>19. CASE EpBulk
  <2>1. buffer # <<>> => /\ Append(rectq, Head(buffer)) \in Seq(Header)
                         /\ Len(Append(rectq, Head(buffer))) = Len(rectq) + 1
    BY HeadTailProperties, AppendProperties
  <2>2. rectq' \in Seq(Header) /\ Len(rectq') <= RectQ
    <3>1. Len(rectq) \in Nat
      BY LenProperties
    <3>2. CASE buffer # <<>> /\ ~QueueFull
      <4>1. rectq' = Append(rectq, Head(buffer)) /\ Len(rectq) < RectQ
        BY <1>19, <3>1, <3>2 DEF EpBulk, QueueFull
      <4>2. QED BY <4>1, <2>1, <3>1, <3>2
    <3>3. CASE ~(buffer # <<>> /\ ~QueueFull)
      BY <1>19, <3>3 DEF EpBulk
    <3>4. QED BY <3>2, <3>3
  <2>3. QED BY <1>19, <2>2, EmptyTypes DEF EpBulk, BatchDone, ConsumeBuffer
<1>20. CASE EpBeat
  BY <1>20 DEF EpBeat
<1>21. CASE EpClose
  BY <1>21 DEF EpClose
<1>22. CASE EpJoinReader
  BY <1>22 DEF EpJoinReader
<1>23. CASE EpJoinBlit
  BY <1>23, EmptyTypes, StateEvents DEF EpJoinBlit, EndpointDown
<1>24. CASE EpCtrlLock
  BY <1>24 DEF EpCtrlLock
<1>25. CASE EpBeatLock
  BY <1>25 DEF EpBeatLock
<1>26. CASE Stop
  BY <1>26 DEF Stop
<1>27. CASE ReaderQuit
  BY <1>27 DEF ReaderQuit
<1>28. CASE ReaderSleep
  BY <1>28 DEF ReaderSleep
<1>29. CASE ReaderTake
  <2>1. Head(rectq) \in Header /\ Tail(rectq) \in Seq(Header) /\ Len(Tail(rectq)) <= RectQ
    BY <1>29, HeadTailProperties DEF ReaderTake
  <2>2. QED BY <1>29, <2>1 DEF ReaderTake
<1>30. CASE ReaderSlot
  BY <1>30 DEF ReaderSlot
<1>31. CASE ReaderSize
  <2>1. slot' \in [0..NSlot - 1 -> Slot]
    <3>1. slot' = slot \/ slot' = [slot EXCEPT ![InIdx].px = <<>>]
      BY <1>31 DEF ReaderSize
    <3>2. slot \in [0..NSlot - 1 -> Slot]
      OBVIOUS
    <3> HIDE DEF ControlType, DataType
    <3> QED BY <3>1, <3>2, SlotsStay
  <2>2. done' \in 0..BulkBuf
    BY <1>31 DEF ReaderSize
  <2>3. QED BY <1>31, <2>1, <2>2 DEF ReaderSize
<1>32. CASE ReaderIssue
  BY <1>32 DEF ReaderIssue
<1>33. CASE ReaderFailed
  BY <1>33 DEF ReaderFailed
<1>34. CASE ReaderPublish
  <2>1. slot' \in [0..NSlot - 1 -> Slot]
    <3>1. slot' = [slot EXCEPT ![InIdx].r = r]
      BY <1>34 DEF ReaderPublish
    <3> QED BY <3>1, SlotsStay
  <2>2. QED BY <1>34, <2>1 DEF ReaderPublish
<1>35. CASE ReaderPacket
  <2> DEFINE p == Head(wire)
             take == Least(p.size, BulkBuf - done)
             taken == [p EXCEPT !.size = take, !.split = @ \/ take < p.size]
             rest == [p EXCEPT !.size = p.size - take, !.split = TRUE]
  <2>1. p \in Packet /\ Tail(wire) \in Seq(Packet)
    BY <1>35, HeadTailProperties DEF ReaderPacket
  <2>2. take \in Nat /\ done + take \in 0..BulkBuf /\ p.size - take \in Nat
    <3>1. p.size \in Nat
      BY <2>1 DEF Packet
    <3>2. done \in 0..BulkBuf
      OBVIOUS
    <3>3. QED BY <3>1, <3>2, BulkBufNat, TakesWhatFits
  <2>3. taken \in Packet /\ rest \in Packet
    <3> HIDE DEF take, ControlType, DataType
    <3>1. p.split \in BOOLEAN
      BY <2>1 DEF Packet
    <3>2. (p.split \/ take < p.size) \in BOOLEAN
      BY <3>1
    <3>3. QED BY <2>1, <2>2, <3>2 DEF Packet
  <2>4. /\ wire' = IF take < p.size THEN <<rest>> \o Tail(wire) ELSE Tail(wire)
        /\ done' = done + take
        /\ slot' = IF take = 0 THEN slot ELSE [slot EXCEPT ![InIdx].px = Append(@, taken)]
    BY <1>35 DEF ReaderPacket
  <2> HIDE DEF p, take, taken, rest
  <2>5. wire' \in Seq(Packet)
    BY <2>1, <2>3, <2>4, ShortSeq, ConcatProperties
  <2>6. slot' \in [0..NSlot - 1 -> Slot]
    <3>1. CASE InIdx \in 0..NSlot - 1
      <4>1. taken \in Packet
        BY <2>3
      <4>2. QED BY <4>1, <2>4, <3>1, SlotsStay
    <3>2. CASE InIdx \notin 0..NSlot - 1
      BY <3>2, <2>4 DEF Slot
    <3>3. QED BY <3>1, <3>2
  <2>7. QED BY <1>35, <2>2, <2>4, <2>5, <2>6 DEF ReaderPacket
<1>36. CASE BlitQuit
  BY <1>36 DEF BlitQuit
<1>37. CASE BlitTake
  BY <1>37 DEF BlitTake
<1>38. CASE BlitDecompress
  BY <1>38 DEF BlitDecompress
<1>39. CASE BlitDone
  <2>1. slot[OutIdx] \in Slot
    <3>1. sout \in Nat
      OBVIOUS
    <3>2. sout % NSlot \in 0..NSlot - 1
      BY <3>1, SlotIndex
    <3>3. QED BY <3>2 DEF OutIdx
  <2>2. Append(blitted, slot[OutIdx]) \in Seq(Slot) /\ slot[OutIdx].r.n \in Nat
    BY <2>1, AppendProperties DEF Slot, Header
  <2>3. QED BY <1>39, <2>2 DEF BlitDone
<1>40. CASE BlitRelease
  BY <1>40 DEF BlitRelease
<1>41. CASE BlitLock
  BY <1>41 DEF BlitLock
<1>42. CASE Spurious
  BY <1>42 DEF Spurious
<1>43. CASE UNCHANGED vars
  BY <1>43 DEF vars
<1> HIDE DEF DataType, usbVars, btnVars, epVars, poolVars, readVars, fabVars
<1>44. QED
  BY <1>1, <1>2, <1>3, <1>4, <1>5, <1>6, <1>7, <1>8, <1>9, <1>10, <1>11, <1>12, <1>13, <1>14, <1>15, <1>16, <1>17, <1>18, <1>19, <1>20, <1>21, <1>22, <1>23, <1>24, <1>25, <1>26, <1>27, <1>28, <1>29, <1>30, <1>31, <1>32, <1>33, <1>34, <1>35, <1>36, <1>37, <1>38, <1>39, <1>40, <1>41, <1>42, <1>43
  DEF Next, HostAct, EpAct, ReaderAct, BlitAct

\* The state is what the program can hold; in particular RECTQ bounds the queue
\* and BULK_BUF what is written to a slot.
THEOREM TypeCorrect == Spec => []TypeOK
<1>1. PoolInv => ControlType
  BY DEF PoolInv
<1>2. Spec => []DataType
  BY <1>1, DataInit, DataNext, PoolInvAlways, PTL DEF Spec
<1>3. QED BY <1>1, <1>2, PoolInvAlways, PTL DEF TypeOK

-----------------------------------------------------------------------------
(* Order: each header has one place on its way, and the places are in turn. *)

\* The slots between the two counters that are not yet blitted, oldest first,
\* and where each stage of the way keeps the numbers of its headers.
At(i)  == slot[(sout + i) % NSlot]
Live   == {i \in 0..Filled - 1 : i > 0 \/ bpc # "release"}
HasHand == rpc \in Filling \cup {"sleepSlot", "slot"}
InCtrl == epc \in {"setup", "ctrl"} /\ Head(batch).type = "SET_BUFFER"

ShownN == {blitted[i].r.n : i \in DOMAIN blitted}
PoolN  == {At(i).r.n : i \in Live}
HandN  == IF HasHand THEN {r.n} ELSE {}
QueueN == {rectq[i].n : i \in DOMAIN rectq}
BufN   == {buffer[i].n : i \in DOMAIN buffer}
CtrlN  == IF InCtrl THEN {Head(batch).h.n} ELSE {}
FlushN == IF hpc = "setbuf" THEN {flush.n} ELSE {}

Below(S, T) == \A x \in S, y \in T : x < y
Chain(a, b, c, d, e, f, g) ==
  /\ Below(a, b \cup c \cup d \cup e \cup f \cup g)
  /\ Below(b, c \cup d \cup e \cup f \cup g)
  /\ Below(c, d \cup e \cup f \cup g)
  /\ Below(d, e \cup f \cup g)
  /\ Below(e, f \cup g)
  /\ Below(f, g)

PoolUp  == \A i, j \in Live : i < j => At(i).r.n < At(j).r.n
QueueUp == \A i, j \in DOMAIN rectq : i < j => rectq[i].n < rectq[j].n
InTurn  == Chain(ShownN, PoolN, HandN, QueueN, BufN, CtrlN, FlushN)
UpToFlush == \A m \in ShownN \cup PoolN \cup HandN \cup QueueN \cup BufN \cup CtrlN : m <= flush.n

OrderInv == InOrder /\ PoolUp /\ QueueUp /\ InTurn /\ UpToFlush

-----------------------------------------------------------------------------
\* Where the slots between the counters are: the reader's is one past the last
\* filled one, and no two of them are the same slot.
LEMMA Positions ==
  ASSUME ControlType, PoolBound
  PROVE  /\ Filled \in 0..NSlot /\ sin \in Nat /\ sout \in Nat
         /\ InIdx = (sout + Filled) % NSlot
         /\ \A i \in Nat : (sout + i) % NSlot \in 0..NSlot - 1
         /\ \A i, j \in 0..NSlot - 1 : i # j => (sout + i) % NSlot # (sout + j) % NSlot
         /\ OutIdx = (sout + 0) % NSlot
<1>1. /\ NSlot \in Nat \ {0} /\ Wrap \in Nat /\ Wrap % NSlot = 0
      /\ sin \in Nat /\ sout \in Nat /\ sin < Wrap /\ sout < Wrap
  BY SizeAssumption DEF ControlType
<1>2. Filled \in 0..NSlot
  BY <1>1 DEF Filled, PoolBound
<1>3. (sout + Filled) % NSlot = sin % NSlot
  <2>1. CASE sin >= sout
    <3>1. sout + Filled = sin
      BY <1>1, <2>1 DEF Filled
    <3> QED BY <3>1
  <2>2. CASE ~(sin >= sout)
    <3>1. sout + Filled = sin + Wrap
      BY <1>1, <2>2 DEF Filled
    <3>2. (sin + Wrap) % NSlot = sin % NSlot
      BY <1>1, WrapKeepsSlot
    <3> QED BY <3>1, <3>2
  <2> QED BY <2>1, <2>2
<1>4. ASSUME NEW i \in Nat PROVE (sout + i) % NSlot \in 0..NSlot - 1
  BY <1>1, SlotIndex
<1>5. ASSUME NEW i \in 0..NSlot - 1, NEW j \in 0..NSlot - 1, i # j
      PROVE (sout + i) % NSlot # (sout + j) % NSlot
  <2>1. CASE i > j
    <3>1. /\ sout + i \in Nat /\ sout + j \in Nat /\ sout + i > sout + j
          /\ (sout + i) - (sout + j) < NSlot
      BY <1>1, <2>1
    <3> QED BY <3>1, <1>1, SlotsDiffer
  <2>2. CASE j > i
    <3>1. /\ sout + i \in Nat /\ sout + j \in Nat /\ sout + j > sout + i
          /\ (sout + j) - (sout + i) < NSlot
      BY <1>1, <2>2
    <3> QED BY <3>1, <1>1, SlotsDiffer
  <2> QED BY <1>1, <1>5, <2>1, <2>2
<1>6. OutIdx = (sout + 0) % NSlot
  BY <1>1 DEF OutIdx
<1>7. InIdx = (sout + Filled) % NSlot
  BY <1>3 DEF InIdx
<1> QED BY <1>1, <1>2, <1>4, <1>5, <1>6, <1>7

\* The slot the reader fills lies past the filled ones.
LEMMA FirstFree ==
  ASSUME ControlType, PoolBound, NEW k \in Nat, k = Filled
  PROVE  InIdx = (sout + k) % NSlot /\ InIdx \in 0..NSlot - 1
<1>1. InIdx = (sout + k) % NSlot
  BY Positions
<1>2. (sout + k) % NSlot \in 0..NSlot - 1
  BY Positions
<1> QED BY <1>1, <1>2

\* Publishing adds a position at the end, and moves none.
LEMMA PublishCounts ==
  ASSUME ControlType, PoolBound, Filled < NSlot, sin' = Succ(sin), sout' = sout
  PROVE  Filled' = Filled + 1
BY SizeAssumption DEF ControlType, PoolBound, Filled, Succ

\* Releasing takes the first position, and moves the others up by one.
LEMMA ReleaseCounts ==
  ASSUME ControlType, PoolBound, Filled > 0, sout' = Succ(sout), sin' = sin
  PROVE  /\ Filled' = Filled - 1
         /\ \A i \in Nat : (sout' + i) % NSlot = (sout + (i + 1)) % NSlot
<1>1. /\ NSlot \in Nat \ {0} /\ Wrap \in Nat /\ Wrap % NSlot = 0 /\ NSlot < Wrap
      /\ sin \in Nat /\ sout \in Nat /\ sin < Wrap /\ sout < Wrap
  BY SizeAssumption DEF ControlType
<1>2. Filled' = Filled - 1
  BY <1>1 DEF PoolBound, Filled, Succ
<1>3. ASSUME NEW i \in Nat PROVE (sout' + i) % NSlot = (sout + (i + 1)) % NSlot
  <2>1. CASE sout # Wrap - 1
    <3>1. sout' + i = sout + (i + 1)
      BY <1>1, <2>1 DEF Succ
    <3> QED BY <3>1
  <2>2. CASE sout = Wrap - 1
    <3>1. sout' + i = i /\ sout + (i + 1) = i + Wrap
      BY <1>1, <2>2 DEF Succ
    <3>2. (i + Wrap) % NSlot = i % NSlot
      BY <1>1, WrapKeepsSlot
    <3> QED BY <3>1, <3>2
  <2> QED BY <2>1, <2>2
<1> QED BY <1>2, <1>3

-----------------------------------------------------------------------------
(* The numbers at each stage. *)

\* The numbers are numbers.
LEMMA NumbersNat ==
  ASSUME DataType
  PROVE  /\ ShownN \subseteq Nat /\ QueueN \subseteq Nat /\ BufN \subseteq Nat /\ HandN \subseteq Nat
         /\ CtrlN \subseteq Nat /\ FlushN \subseteq Nat /\ flush.n \in Nat /\ r.n \in Nat
         /\ batch # <<>> => Head(batch).h.n \in Nat
<1>1. /\ blitted \in Seq(Slot) /\ rectq \in Seq(Header) /\ buffer \in Seq(Header)
      /\ batch \in Seq(EventRec) /\ Len(batch) <= 2 /\ r \in Header /\ flush \in Header
      /\ epc \in {"setup", "ctrl"} => batch # <<>>
  BY DEF DataType
<1>2. batch # <<>> => Head(batch).h \in Header
  BY <1>1, BatchTail
<1>3. flush.n \in Nat /\ r.n \in Nat /\ (batch # <<>> => Head(batch).h.n \in Nat)
  BY <1>1, <1>2 DEF Header
<1>4. ShownN \subseteq Nat
  <2>1. \A i \in DOMAIN blitted : blitted[i] \in Slot
    BY <1>1, ElementOfSeq, LenProperties
  <2> QED BY <2>1 DEF ShownN, Slot, Header
<1>5. QueueN \subseteq Nat
  <2>1. \A i \in DOMAIN rectq : rectq[i] \in Header
    BY <1>1, ElementOfSeq, LenProperties
  <2> QED BY <2>1 DEF QueueN, Header
<1>6. BufN \subseteq Nat
  <2>1. \A i \in DOMAIN buffer : buffer[i] \in Header
    BY <1>1, ElementOfSeq, LenProperties
  <2> QED BY <2>1 DEF BufN, Header
<1>7. HandN \subseteq Nat /\ FlushN \subseteq Nat
  BY <1>3 DEF HandN, FlushN
<1>8. CtrlN \subseteq Nat
  BY <1>1, <1>3 DEF CtrlN, InCtrl
<1> QED BY <1>3, <1>4, <1>5, <1>6, <1>7, <1>8

\* And those in the pool.
LEMMA PoolNat ==
  ASSUME DataType, ControlType, PoolBound
  PROVE  PoolN \subseteq Nat /\ \A i \in Nat : At(i) \in Slot /\ At(i).r.n \in Nat
<1>1. \A i \in Nat : (sout + i) % NSlot \in 0..NSlot - 1
  BY Positions
<1>2. slot \in [0..NSlot - 1 -> Slot]
  BY DEF DataType
<1>3. \A i \in Nat : At(i) \in Slot
  BY <1>1, <1>2 DEF At
<1>4. \A i \in Nat : At(i).r.n \in Nat
  BY <1>3 DEF Slot, Header
<1>5. Live \subseteq Nat
  BY Positions DEF Live
<1> QED BY <1>3, <1>4, <1>5 DEF PoolN

\* A header dropped at any stage leaves the rest in turn.
LEMMA OrderShrinks ==
  ASSUME OrderInv, DataType, DataType', InOrder', PoolUp', QueueUp', PoolN \subseteq Nat,
         ShownN' \subseteq ShownN, PoolN' \subseteq PoolN, HandN' \subseteq HandN,
         QueueN' \subseteq QueueN, BufN' \subseteq BufN, CtrlN' \subseteq CtrlN,
         FlushN' \subseteq FlushN, flush'.n >= flush.n
  PROVE  OrderInv'
<1>1. InTurn'
  BY DEF OrderInv, InTurn, Chain, Below
<1>2. /\ ShownN \subseteq Nat /\ QueueN \subseteq Nat /\ BufN \subseteq Nat /\ HandN \subseteq Nat
      /\ CtrlN \subseteq Nat /\ flush.n \in Nat
  BY NumbersNat
<1>3. flush'.n \in Nat
  BY DEF DataType, Header
<1>4. UpToFlush'
  <2> SUFFICES ASSUME NEW m \in ShownN' \cup PoolN' \cup HandN' \cup QueueN' \cup BufN' \cup CtrlN'
               PROVE  m <= flush'.n
    BY DEF UpToFlush
  <2>1. m \in ShownN \cup PoolN \cup HandN \cup QueueN \cup BufN \cup CtrlN
    OBVIOUS
  <2>2. m <= flush.n /\ m \in Nat
    BY <2>1, <1>2 DEF OrderInv, UpToFlush
  <2> QED BY <2>2, <1>2, <1>3
<1> QED BY <1>1, <1>4 DEF OrderInv

\* Steps that leave a part of the way alone.
HeadersKept == \A i \in Nat : slot'[(sout + i) % NSlot].r = slot[(sout + i) % NSlot].r

LEMMA PoolStays ==
  ASSUME UNCHANGED <<blitted, sin, sout>>, HeadersKept,
         Filled \in Nat, bpc' = "release" <=> bpc = "release"
  PROVE  /\ ShownN' = ShownN /\ PoolN' = PoolN
         /\ InOrder => InOrder'
         /\ PoolUp => PoolUp'
<1>1. Live' = Live /\ Live \subseteq Nat
  BY DEF Live, Filled
<1>2. \A i \in Nat : At(i)'.r = At(i).r
  BY DEF At, HeadersKept
<1>3. ShownN' = ShownN /\ (InOrder => InOrder')
  BY DEF ShownN, InOrder
<1>4. PoolN' = PoolN
  BY <1>1, <1>2 DEF PoolN
<1>5. ASSUME PoolUp PROVE PoolUp'
  <2> SUFFICES ASSUME NEW i \in Live, NEW j \in Live, i < j PROVE At(i)'.r.n < At(j)'.r.n
    BY <1>1 DEF PoolUp
  <2>1. At(i)'.r = At(i).r /\ At(j)'.r = At(j).r
    BY <1>1, <1>2
  <2>2. At(i).r.n < At(j).r.n
    BY <1>5 DEF PoolUp
  <2> QED BY <2>1, <2>2
<1> QED BY <1>3, <1>4, <1>5

\* What a step of the reader leaves alone of the stages before it and after it.
LEMMA ReaderStays ==
  ASSUME UNCHANGED <<r, rectq>>, HasHand' => HasHand
  PROVE  /\ HandN' \subseteq HandN /\ QueueN' = QueueN
         /\ QueueUp => QueueUp'
BY DEF HandN, QueueN, QueueUp

LEMMA EpStays ==
  ASSUME UNCHANGED <<buffer, batch>>, InCtrl' => InCtrl
  PROVE  BufN' = BufN /\ CtrlN' \subseteq CtrlN
BY DEF BufN, CtrlN

\* A step that touches no header: the event loop, the wire, a condition.
LEMMA OrderStays ==
  ASSUME OrderInv, DataType, DataType', ControlType, PoolBound,
         UNCHANGED <<blitted, sin, sout, r, rectq, buffer, batch, flush>>,
         HeadersKept,
         bpc' = "release" <=> bpc = "release",
         HasHand' => HasHand, InCtrl' => InCtrl, hpc' = "setbuf" => hpc = "setbuf"
  PROVE  OrderInv'
<1>1. /\ Filled \in Nat /\ InOrder /\ PoolUp /\ QueueUp
      /\ UNCHANGED <<blitted, sin, sout>> /\ UNCHANGED <<r, rectq>> /\ UNCHANGED <<buffer, batch>>
  BY Positions DEF OrderInv
<1>2. /\ ShownN' = ShownN /\ PoolN' = PoolN /\ InOrder' /\ PoolUp'
  BY <1>1, PoolStays
<1>3. HandN' \subseteq HandN /\ QueueN' = QueueN /\ QueueUp'
  BY <1>1, ReaderStays
<1>4. BufN' = BufN /\ CtrlN' \subseteq CtrlN
  BY <1>1, EpStays
<1>5. FlushN' \subseteq FlushN /\ flush'.n >= flush.n
  BY NumbersNat DEF FlushN
<1>6. PoolN \subseteq Nat
  BY PoolNat
<1> QED BY <1>2, <1>3, <1>4, <1>5, <1>6, OrderShrinks

\* Filling a slot leaves every header where it is.
LEMMA PxOnly ==
  ASSUME DataType, ControlType, PoolBound, NEW k, NEW px,
         slot' \in {slot, [slot EXCEPT ![k].px = px]}
  PROVE  HeadersKept
<1>1. slot \in [0..NSlot - 1 -> Slot]
  BY DEF DataType
<1>2. ASSUME NEW i \in 0..NSlot - 1 PROVE slot'[i].r = slot[i].r
  BY <1>1 DEF Slot
<1>3. \A i \in Nat : (sout + i) % NSlot \in 0..NSlot - 1
  BY Positions
<1> QED BY <1>2, <1>3 DEF HeadersKept

LEMMA OrderNext ==
  ASSUME OrderInv, ControlType, PoolBound, DataType, DataType', [Next]_vars
  PROVE  OrderInv'
<1> USE DEF usbVars, btnVars, epVars, poolVars, readVars, fabVars, HasHand, InCtrl, Filling
<1>a. /\ ShownN \subseteq Nat /\ QueueN \subseteq Nat /\ BufN \subseteq Nat /\ HandN \subseteq Nat
      /\ CtrlN \subseteq Nat /\ FlushN \subseteq Nat /\ flush.n \in Nat /\ r.n \in Nat
      /\ PoolN \subseteq Nat /\ \A i \in Nat : At(i) \in Slot /\ At(i).r.n \in Nat
  BY NumbersNat, PoolNat
<1>b. Filled \in 0..NSlot /\ Filled \in Nat
  BY Positions, SizeAssumption
<1>1. CASE HostAttach
  BY <1>1, OrderStays DEF HeadersKept, HostAttach
<1>2. CASE HostDetach
  BY <1>2, OrderStays DEF HeadersKept, HostDetach, EndpointDown
<1>3. CASE HostGetStatus
  BY <1>3, OrderStays DEF HeadersKept, HostGetStatus
<1>4. CASE HostBulk
  BY <1>4, OrderStays DEF HeadersKept, HostBulk
<1>5. CASE HostBulkDone
  BY <1>5, OrderStays DEF HeadersKept, HostBulkDone
<1>6. CASE UserPress
  BY <1>6, OrderStays DEF HeadersKept, UserPress
<1>7. CASE \E how \in {"silent", "zlp"} : HostGiveUp(how)
  BY <1>7, OrderStays DEF HeadersKept, HostGiveUp
<1>8. CASE Stop
  BY <1>8, OrderStays DEF HeadersKept, Stop
<1>9. CASE EpPoll
  BY <1>9, OrderStays DEF HeadersKept, EpPoll
<1>10. CASE EpPressUnbind
  BY <1>10, OrderStays DEF HeadersKept, EpPressUnbind, EndpointDown
<1>11. CASE EpPressBind
  BY <1>11, OrderStays DEF HeadersKept, EpPressBind
<1>12. CASE EpIdleBeat
  BY <1>12, OrderStays DEF HeadersKept, EpIdleBeat
<1>13. CASE EpCtrlLock
  BY <1>13, OrderStays DEF HeadersKept, EpCtrlLock
<1>14. CASE EpEnable
  BY <1>14, OrderStays DEF HeadersKept, EpEnable
<1>15. CASE EpBeatLock
  BY <1>15, OrderStays DEF HeadersKept, EpBeatLock
<1>16. CASE EpBeat
  BY <1>16, OrderStays DEF HeadersKept, EpBeat
<1>17. CASE EpClose
  BY <1>17, OrderStays DEF HeadersKept, EpClose, BroadcastReader, SignalWork, SignalSlotFree, SignalSlotFull
<1>18. CASE EpJoinReader
  BY <1>18, OrderStays DEF HeadersKept, EpJoinReader
<1>19. CASE EpJoinBlit
  BY <1>19, OrderStays DEF HeadersKept, EpJoinBlit, EndpointDown
<1>20. CASE ReaderQuit
  BY <1>20, OrderStays DEF HeadersKept, ReaderQuit
<1>21. CASE ReaderSleep
  BY <1>21, OrderStays DEF HeadersKept, ReaderSleep
<1>22. CASE ReaderSlot
  BY <1>22, OrderStays DEF HeadersKept, ReaderSlot
<1>23. CASE ReaderSize
  <2>1. HeadersKept
    <3>1. \E px : slot' \in {slot, [slot EXCEPT ![InIdx].px = px]}
      BY <1>23 DEF ReaderSize
    <3> HIDE DEF InIdx
    <3> QED BY <3>1, PxOnly
  <2> QED BY <1>23, <2>1, OrderStays DEF ReaderSize
<1>24. CASE ReaderIssue
  BY <1>24, OrderStays DEF HeadersKept, ReaderIssue
<1>25. CASE ReaderFailed
  BY <1>25, OrderStays DEF HeadersKept, ReaderFailed
<1>26. CASE ReaderPacket
  <2>1. HeadersKept
    <3>1. \E px : slot' \in {slot, [slot EXCEPT ![InIdx].px = px]}
      BY <1>26 DEF ReaderPacket
    <3> HIDE DEF InIdx
    <3> QED BY <3>1, PxOnly
  <2> QED BY <1>26, <2>1, OrderStays DEF ReaderPacket, AfterPacket
<1>27. CASE BlitQuit
  BY <1>27, OrderStays DEF HeadersKept, BlitQuit
<1>28. CASE BlitTake
  BY <1>28, OrderStays DEF HeadersKept, BlitTake
<1>29. CASE BlitLock
  BY <1>29, OrderStays DEF HeadersKept, BlitLock
<1>30. CASE Spurious
  BY <1>30, OrderStays DEF HeadersKept, Spurious
<1>31. CASE UNCHANGED vars
  BY <1>31, OrderStays DEF HeadersKept, vars
<1>32. CASE HostSetBuffer
  <2>1. ShownN' = ShownN /\ PoolN' = PoolN /\ InOrder' /\ PoolUp'
    <3>1. UNCHANGED <<blitted, sin, sout>> /\ HeadersKept /\ (bpc' = "release" <=> bpc = "release")
      BY <1>32 DEF HostSetBuffer, HeadersKept
    <3> QED BY <3>1, <1>b, PoolStays DEF OrderInv
  <2>2. HandN' \subseteq HandN /\ QueueN' = QueueN /\ QueueUp'
    <3>1. UNCHANGED <<r, rectq>> /\ (HasHand' => HasHand)
      BY <1>32 DEF HostSetBuffer
    <3> QED BY <3>1, ReaderStays DEF OrderInv
  <2>3. BufN' = BufN /\ CtrlN' = CtrlN
    BY <1>32 DEF HostSetBuffer, BufN, CtrlN
  <2>4. FlushN' = {flush'.n} /\ flush'.n = flush.n + 1
    BY <1>32 DEF HostSetBuffer, FlushN
  <2> QED
    <3> HIDE DEF HasHand, InCtrl
    <3>1. InTurn'
      BY <2>1, <2>2, <2>3, <2>4, <1>a DEF OrderInv, InTurn, UpToFlush, Chain, Below
    <3>2. UpToFlush'
      BY <2>1, <2>2, <2>3, <2>4, <1>a DEF OrderInv, UpToFlush
    <3> QED BY <2>1, <2>2, <2>3, <2>4, <3>1, <3>2 DEF OrderInv
<1>33. CASE EpNoPress
  <2>1. ShownN' = ShownN /\ PoolN' = PoolN /\ InOrder' /\ PoolUp'
    <3>1. UNCHANGED <<blitted, sin, sout>> /\ HeadersKept /\ (bpc' = "release" <=> bpc = "release")
      BY <1>33 DEF EpNoPress, HeadersKept
    <3> QED BY <3>1, <1>b, PoolStays DEF OrderInv
  <2>2. HandN' \subseteq HandN /\ QueueN' = QueueN /\ QueueUp'
    <3>1. UNCHANGED <<r, rectq>> /\ (HasHand' => HasHand)
      BY <1>33 DEF EpNoPress
    <3> QED BY <3>1, ReaderStays DEF OrderInv
  <2>3. BufN' = BufN /\ CtrlN' = {} /\ FlushN' = FlushN /\ flush' = flush
    BY <1>33 DEF EpNoPress, BufN, CtrlN, FlushN
  <2> QED BY <2>1, <2>2, <2>3, <1>a, OrderShrinks
<1>34. CASE EpSetup
  <2>1. ShownN' = ShownN /\ PoolN' = PoolN /\ InOrder' /\ PoolUp'
    <3>1. UNCHANGED <<blitted, sin, sout>> /\ HeadersKept /\ (bpc' = "release" <=> bpc = "release")
      BY <1>34 DEF EpSetup, HeadersKept
    <3> QED BY <3>1, <1>b, PoolStays DEF OrderInv
  <2>2. HandN' \subseteq HandN /\ QueueN' = QueueN /\ QueueUp'
    <3>1. UNCHANGED <<r, rectq>> /\ (HasHand' => HasHand)
      BY <1>34 DEF EpSetup
    <3> QED BY <3>1, ReaderStays DEF OrderInv
  <2>3. BufN' = BufN /\ flush' = flush
    BY <1>34 DEF EpSetup, BufN
  <2>4. \/ CtrlN' = FlushN /\ FlushN' = {}
        \/ CtrlN' = {} /\ FlushN' = FlushN
    BY <1>34 DEF EpSetup, CtrlN, FlushN
  <2>5. \A m \in FlushN : m <= flush.n
    BY <1>a DEF FlushN
  <2> QED
    <3> HIDE DEF HasHand, InCtrl
    <3>1. InTurn'
      <4>1. CASE CtrlN' = FlushN /\ FlushN' = {}
        BY <2>1, <2>2, <2>3, <4>1 DEF OrderInv, InTurn, Chain, Below
      <4>2. CASE CtrlN' = {} /\ FlushN' = FlushN
        BY <2>1, <2>2, <2>3, <4>2 DEF OrderInv, InTurn, Chain, Below
      <4> QED BY <2>4, <4>1, <4>2
    <3>2. UpToFlush'
      BY <2>1, <2>2, <2>3, <2>4, <2>5 DEF OrderInv, UpToFlush
    <3> QED BY <2>1, <2>2, <3>1, <3>2 DEF OrderInv
<1>35. CASE EpCtrl
  <2>1. ShownN' = ShownN /\ PoolN' = PoolN /\ InOrder' /\ PoolUp'
    <3>1. UNCHANGED <<blitted, sin, sout>> /\ HeadersKept /\ (bpc' = "release" <=> bpc = "release")
      BY <1>35 DEF EpCtrl, HeadersKept
    <3> QED BY <3>1, <1>b, PoolStays DEF OrderInv
  <2>2. HandN' \subseteq HandN /\ QueueN' = QueueN /\ QueueUp'
    <3>1. UNCHANGED <<r, rectq>> /\ (HasHand' => HasHand)
      BY <1>35 DEF EpCtrl
    <3> QED BY <3>1, ReaderStays DEF OrderInv
  <2>3. \/ BufN' = CtrlN /\ InCtrl
        \/ BufN' = BufN
    BY <1>35 DEF EpCtrl, BufN, CtrlN
  <2>4. CtrlN' = {} /\ FlushN' \subseteq FlushN /\ flush' = flush
    BY <1>35 DEF EpCtrl, CtrlN, FlushN
  <2> QED
    <3> HIDE DEF HasHand, InCtrl
    <3>1. InTurn'
      <4>1. CASE BufN' = CtrlN
        BY <2>1, <2>2, <2>4, <4>1 DEF OrderInv, InTurn, Chain, Below
      <4>2. CASE BufN' = BufN
        BY <2>1, <2>2, <2>4, <4>2 DEF OrderInv, InTurn, Chain, Below
      <4> QED BY <2>3, <4>1, <4>2
    <3>2. UpToFlush'
      BY <2>1, <2>2, <2>3, <2>4 DEF OrderInv, UpToFlush
    <3> QED BY <2>1, <2>2, <3>1, <3>2 DEF OrderInv
<1>36. CASE EpDisable
  <2>1. ShownN' = ShownN /\ PoolN' = PoolN /\ InOrder' /\ PoolUp'
    <3>1. UNCHANGED <<blitted, sin, sout>> /\ HeadersKept /\ (bpc' = "release" <=> bpc = "release")
      BY <1>36 DEF EpDisable, DropHeaders, HeadersKept
    <3> QED BY <3>1, <1>b, PoolStays DEF OrderInv
  <2>2. HandN' = HandN /\ QueueN' = {} /\ QueueUp'
    BY <1>36 DEF EpDisable, DropHeaders, HandN, QueueN, QueueUp
  <2>3. BufN' = {} /\ CtrlN' = {} /\ FlushN' = FlushN /\ flush' = flush
    BY <1>36 DEF EpDisable, DropHeaders, BufN, CtrlN, FlushN
  <2> QED BY <2>1, <2>2, <2>3, <1>a, OrderShrinks
<1>37. CASE EpOnHost
  <2>1. ShownN' = ShownN /\ PoolN' = PoolN /\ InOrder' /\ PoolUp'
    <3>1. UNCHANGED <<blitted, sin, sout>> /\ HeadersKept /\ (bpc' = "release" <=> bpc = "release")
      BY <1>37 DEF EpOnHost, HeadersKept
    <3> QED BY <3>1, <1>b, PoolStays DEF OrderInv
  <2>2. HandN' \subseteq HandN /\ QueueN' = QueueN /\ QueueUp'
    <3>1. UNCHANGED <<r, rectq>> /\ (HasHand' => HasHand)
      BY <1>37 DEF EpOnHost
    <3> QED BY <3>1, ReaderStays DEF OrderInv
  <2>3. BufN' \subseteq BufN /\ CtrlN' = {} /\ FlushN' = FlushN /\ flush' = flush
    BY <1>37 DEF EpOnHost, BufN, CtrlN, FlushN
  <2> QED BY <2>1, <2>2, <2>3, <1>a, OrderShrinks
<1>38. CASE EpBulk
  <2>1. ShownN' = ShownN /\ PoolN' = PoolN /\ InOrder' /\ PoolUp'
    <3>1. UNCHANGED <<blitted, sin, sout>> /\ HeadersKept /\ (bpc' = "release" <=> bpc = "release")
      BY <1>38 DEF EpBulk, BatchDone, HeadersKept
    <3> QED BY <3>1, <1>b, PoolStays DEF OrderInv
  <2>2. BufN' = {} /\ CtrlN' = {} /\ CtrlN = {} /\ FlushN' = FlushN /\ flush' = flush
    BY <1>38 DEF EpBulk, BatchDone, ConsumeBuffer, BufN, CtrlN, FlushN
  <2>3. HandN' = HandN
    BY <1>38 DEF EpBulk, SignalWork, HandN
  <2>4. CASE ~(buffer # <<>> /\ ~QueueFull)
    <3>1. QueueN' = QueueN /\ QueueUp'
      BY <1>38, <2>4 DEF EpBulk, QueueN, QueueUp, OrderInv
    <3> QED BY <2>1, <2>2, <2>3, <3>1, <1>a, OrderShrinks
  <2>5. CASE buffer # <<>> /\ ~QueueFull
    <3> DEFINE h == Head(buffer)
    <3>1. /\ rectq' = Append(rectq, h) /\ h \in Header /\ h = buffer[1] /\ 1 \in DOMAIN buffer
          /\ rectq \in Seq(Header)
      BY <1>38, <2>5, HeadTailProperties, LenProperties, EmptySeq DEF EpBulk, DataType
    <3>2. h.n \in BufN
      BY <3>1 DEF BufN
    <3> HIDE DEF h
    <3>3. /\ Len(rectq) \in Nat /\ DOMAIN rectq = 1..Len(rectq)
          /\ DOMAIN rectq' = 1..Len(rectq) + 1
          /\ rectq'[Len(rectq) + 1] = h /\ \A i \in 1..Len(rectq) : rectq'[i] = rectq[i]
      BY <3>1, AppendProperties, LenProperties
    <3>4. QueueN' = QueueN \cup {h.n}
      BY <3>3 DEF QueueN
    <3>5. \A m \in QueueN : m < h.n
      BY <3>2 DEF OrderInv, InTurn, Chain, Below
    <3>6. QueueUp'
      <4> SUFFICES ASSUME NEW i \in 1..Len(rectq) + 1, NEW j \in 1..Len(rectq) + 1, i < j
                   PROVE  rectq'[i].n < rectq'[j].n
        BY <3>3 DEF QueueUp
      <4>1. CASE j = Len(rectq) + 1
        <5>1. rectq'[i] = rectq[i] /\ rectq[i].n \in QueueN /\ rectq'[j] = h
          BY <4>1, <3>3 DEF QueueN
        <5> QED BY <5>1, <3>5
      <4>2. CASE j # Len(rectq) + 1
        <5>1. i \in 1..Len(rectq) /\ j \in 1..Len(rectq)
          BY <4>2, <3>3
        <5> QED BY <5>1, <3>3 DEF OrderInv, QueueUp
      <4> QED BY <4>1, <4>2
    <3> QED
      <4> HIDE DEF HasHand, InCtrl
      <4>1. InTurn'
        BY <2>1, <2>2, <2>3, <3>2, <3>4 DEF OrderInv, InTurn, Chain, Below
      <4>2. UpToFlush'
        BY <2>1, <2>2, <2>3, <3>2, <3>4 DEF OrderInv, UpToFlush
      <4> QED BY <2>1, <3>6, <4>1, <4>2 DEF OrderInv
  <2> QED BY <2>4, <2>5
<1>39. CASE ReaderTake
  <2>1. ShownN' = ShownN /\ PoolN' = PoolN /\ InOrder' /\ PoolUp'
    <3>1. UNCHANGED <<blitted, sin, sout>> /\ HeadersKept /\ (bpc' = "release" <=> bpc = "release")
      BY <1>39 DEF ReaderTake, HeadersKept
    <3> QED BY <3>1, <1>b, PoolStays DEF OrderInv
  <2>2. BufN' = BufN /\ CtrlN' = CtrlN /\ FlushN' = FlushN /\ flush' = flush
    BY <1>39 DEF ReaderTake, BufN, CtrlN, FlushN
  <2>3. HandN = {} /\ HandN' \subseteq {r'.n} /\ r' = Head(rectq)
    BY <1>39 DEF ReaderTake, HandN
  <2>4. /\ rectq # <<>> /\ rectq' = Tail(rectq) /\ rectq \in Seq(Header)
    BY <1>39 DEF ReaderTake, DataType
  <2>5. /\ Len(rectq) \in Nat \ {0} /\ DOMAIN rectq = 1..Len(rectq) /\ Head(rectq) = rectq[1]
        /\ DOMAIN rectq' = 1..Len(rectq) - 1
        /\ \A i \in 1..Len(rectq) - 1 : rectq'[i] = rectq[i + 1]
    BY <2>4, HeadTailProperties, LenProperties, EmptySeq
  <2>6. r'.n \in QueueN /\ QueueN' \subseteq QueueN
    BY <2>3, <2>5 DEF QueueN
  <2>7. QueueUp'
    <3> SUFFICES ASSUME NEW i \in 1..Len(rectq) - 1, NEW j \in 1..Len(rectq) - 1, i < j
                 PROVE  rectq'[i].n < rectq'[j].n
      BY <2>5 DEF QueueUp
    <3>1. i + 1 \in DOMAIN rectq /\ j + 1 \in DOMAIN rectq /\ i + 1 < j + 1
      BY <2>5
    <3>2. rectq[i + 1].n < rectq[j + 1].n
      BY <3>1 DEF OrderInv, QueueUp
    <3> QED BY <3>2, <2>5
  <2>8. \A m \in QueueN' : r'.n < m
    <3> SUFFICES ASSUME NEW i \in 1..Len(rectq) - 1 PROVE r'.n < rectq'[i].n
      BY <2>5 DEF QueueN
    <3>1. 1 \in DOMAIN rectq /\ i + 1 \in DOMAIN rectq /\ 1 < i + 1
      BY <2>5
    <3>2. rectq[1].n < rectq[i + 1].n
      BY <3>1 DEF OrderInv, QueueUp
    <3> QED BY <3>2, <2>3, <2>5
  <2> QED
    <3> HIDE DEF HasHand, InCtrl
    <3>1. InTurn'
      BY <2>1, <2>2, <2>3, <2>6, <2>8 DEF OrderInv, InTurn, Chain, Below
    <3>2. UpToFlush'
      BY <2>1, <2>2, <2>3, <2>6 DEF OrderInv, UpToFlush
    <3> QED BY <2>1, <2>7, <3>1, <3>2 DEF OrderInv
<1>40. CASE ReaderPublish
  <2>1. BufN' = BufN /\ CtrlN' = CtrlN /\ FlushN' = FlushN /\ flush' = flush
    BY <1>40 DEF ReaderPublish, BufN, CtrlN, FlushN
  <2>2. HandN = {r.n} /\ HandN' = {} /\ QueueN' = QueueN /\ QueueUp'
    BY <1>40 DEF ReaderPublish, HandN, QueueN, QueueUp, OrderInv
  <2>3. ShownN' = ShownN /\ InOrder'
    BY <1>40 DEF ReaderPublish, ShownN, InOrder, OrderInv
  <2>4. /\ Filled < NSlot /\ sin' = Succ(sin) /\ sout' = sout /\ slot' = [slot EXCEPT ![InIdx].r = r]
        /\ (bpc' = "release" <=> bpc = "release")
        /\ bpc = "release" => Filled > 0
    BY <1>40 DEF ReaderPublish, PoolBound, SignalSlotFull, Draining
  <2>a. PICK k \in Nat : k = Filled
    BY <1>b
  <2>5. Filled' = k + 1
    BY <2>4, <2>a, PublishCounts
  <2>6. Live' = Live \cup {k} /\ Live \subseteq 0..k - 1
    BY <2>4, <2>5, <2>a DEF Live
  <2>7. /\ \A i \in Live : At(i)'.r = At(i).r
        /\ At(k)'.r = r
    <3>1. /\ slot \in [0..NSlot - 1 -> Slot] /\ InIdx \in 0..NSlot - 1
          /\ InIdx = (sout + k) % NSlot
          /\ \A i \in Live : (sout + i) % NSlot \in 0..NSlot - 1 /\ (sout + i) % NSlot # InIdx
      <4>1. slot \in [0..NSlot - 1 -> Slot]
        BY DEF DataType
      <4>2. InIdx = (sout + k) % NSlot /\ InIdx \in 0..NSlot - 1
        BY <2>a, Positions
      <4>3. k \in 0..NSlot - 1
        BY <2>4, <2>a, SizeAssumption
      <4>4. ASSUME NEW i \in Live
            PROVE  (sout + i) % NSlot \in 0..NSlot - 1 /\ (sout + i) % NSlot # InIdx
        <5>1. i \in 0..NSlot - 1 /\ i # k /\ i \in Nat
          BY <2>6, <4>3, SizeAssumption
        <5> QED BY <5>1, <4>2, <4>3, Positions
      <4> QED BY <4>1, <4>2, <4>4
    <3>2. \A m \in 0..NSlot - 1 : slot'[m].r = IF m = InIdx THEN r ELSE slot[m].r
      BY <3>1, <2>4 DEF Slot
    <3> HIDE DEF InIdx
    <3>3. At(k)' = slot'[InIdx]
      BY <2>4, <3>1 DEF At
    <3>4. \A i \in Live : At(i)' = slot'[(sout + i) % NSlot] /\ At(i) = slot[(sout + i) % NSlot]
      BY <2>4 DEF At
    <3>5. At(k)'.r = r
      BY <3>1, <3>2, <3>3
    <3>6. ASSUME NEW i \in Live PROVE At(i)'.r = At(i).r
      BY <3>1, <3>2, <3>4
    <3> QED BY <3>5, <3>6
  <2>8. PoolN' = PoolN \cup {r.n}
    BY <2>6, <2>7 DEF PoolN
  <2>9. PoolUp'
    <3> SUFFICES ASSUME NEW i \in Live', NEW j \in Live', i < j PROVE At(i)'.r.n < At(j)'.r.n
      BY DEF PoolUp
    <3>1. i \in Live
      BY <2>6
    <3>2. CASE j = k
      <4>1. At(i).r.n \in PoolN
        BY <3>1 DEF PoolN
      <4>2. At(i).r.n < r.n
        BY <4>1, <2>2 DEF OrderInv, InTurn, Chain, Below
      <4> QED BY <4>2, <3>1, <3>2, <2>7
    <3>3. CASE j \in Live
      <4>1. At(i).r.n < At(j).r.n
        BY <3>1, <3>3 DEF OrderInv, PoolUp
      <4> QED BY <4>1, <3>1, <3>3, <2>7
    <3> QED BY <3>2, <3>3, <2>6
  <2> QED
    <3> HIDE DEF HasHand, InCtrl
    <3>1. InTurn'
      BY <2>1, <2>2, <2>3, <2>8 DEF OrderInv, InTurn, Chain, Below
    <3>2. UpToFlush'
      BY <2>1, <2>2, <2>3, <2>8 DEF OrderInv, UpToFlush
    <3> QED BY <2>2, <2>3, <2>9, <3>1, <3>2 DEF OrderInv
<1>41. CASE BlitDecompress
  <2>1. /\ BufN' = BufN /\ CtrlN' = CtrlN /\ FlushN' = FlushN /\ flush' = flush
        /\ HandN' = HandN /\ QueueN' = QueueN /\ QueueUp'
    BY <1>41 DEF BlitDecompress, BufN, CtrlN, FlushN, HandN, QueueN, QueueUp, OrderInv
  <2>2. Live' \subseteq Live /\ Live \subseteq Nat
    BY <1>41, <1>b DEF BlitDecompress, Live, Filled
  <2>3. \A i \in Nat : At(i)' = At(i)
    BY <1>41 DEF BlitDecompress, At
  <2>4. PoolN' \subseteq PoolN
    BY <2>2, <2>3 DEF PoolN
  <2>5. PoolUp'
    BY <2>2, <2>3 DEF PoolUp, OrderInv
  <2>6. ShownN' = ShownN /\ InOrder'
    BY <1>41 DEF BlitDecompress, ShownN, InOrder, OrderInv
  <2> QED BY <2>1, <2>4, <2>5, <2>6, <1>a, OrderShrinks
<1>42. CASE BlitDone
  <2>1. /\ BufN' = BufN /\ CtrlN' = CtrlN /\ FlushN' = FlushN /\ flush' = flush
        /\ HandN' = HandN /\ QueueN' = QueueN /\ QueueUp'
    BY <1>42 DEF BlitDone, BufN, CtrlN, FlushN, HandN, QueueN, QueueUp, OrderInv
  <2>2. /\ bpc = "blit" /\ bpc' = "release" /\ Filled > 0 /\ OutIdx = (sout + 0) % NSlot
        /\ blitted' = Append(blitted, At(0)) /\ UNCHANGED <<slot, sin, sout>>
    BY <1>42, Positions DEF BlitDone, At, PoolBound, Draining
  <2>3. 0 \in Live /\ Live' = Live \ {0} /\ Live \subseteq Nat /\ \A i \in Live' : i > 0
    BY <2>2, <1>b DEF Live, Filled
  <2>4. \A i \in Nat : At(i)' = At(i)
    BY <2>2 DEF At
  <2> DEFINE top == At(0).r.n
  <2>5. /\ top \in PoolN /\ PoolN' \subseteq PoolN /\ PoolUp'
        /\ \A m \in PoolN' : top < m
    <3>1. top \in PoolN /\ PoolN' \subseteq PoolN
      BY <2>3, <2>4 DEF PoolN
    <3>2. PoolUp'
      BY <2>3, <2>4 DEF PoolUp, OrderInv
    <3>3. \A m \in PoolN' : top < m
      <4> SUFFICES ASSUME NEW i \in Live' PROVE top < At(i).r.n
        BY <2>3, <2>4 DEF PoolN
      <4> QED BY <2>3 DEF PoolUp, OrderInv
    <3> QED BY <3>1, <3>2, <3>3
  <2>6. /\ blitted \in Seq(Slot) /\ At(0) \in Slot
    BY <1>a DEF DataType
  <2>7. /\ Len(blitted) \in Nat /\ DOMAIN blitted = 1..Len(blitted)
        /\ DOMAIN blitted' = 1..Len(blitted) + 1
        /\ blitted'[Len(blitted) + 1] = At(0)
        /\ \A i \in 1..Len(blitted) : blitted'[i] = blitted[i]
    BY <2>2, <2>6, AppendProperties, LenProperties
  <2>8. ShownN' = ShownN \cup {top}
    BY <2>7 DEF ShownN
  <2>9. InOrder'
    <3> SUFFICES ASSUME NEW i \in 1..Len(blitted) + 1, NEW j \in 1..Len(blitted) + 1, i < j
                 PROVE  blitted'[i].r.n < blitted'[j].r.n
      BY <2>7 DEF InOrder
    <3>1. CASE j = Len(blitted) + 1
      <4>1. blitted'[i] = blitted[i] /\ blitted[i].r.n \in ShownN /\ blitted'[j].r.n = top
        BY <3>1, <2>7 DEF ShownN
      <4>2. blitted[i].r.n < top
        BY <4>1, <2>5 DEF OrderInv, InTurn, Chain, Below
      <4> QED BY <4>1, <4>2
    <3>2. CASE j # Len(blitted) + 1
      <4>1. i \in 1..Len(blitted) /\ j \in 1..Len(blitted)
        BY <3>2, <2>7
      <4> QED BY <4>1, <2>7 DEF OrderInv, InOrder
    <3> QED BY <3>1, <3>2
  <2> QED
    <3> HIDE DEF HasHand, InCtrl, top
    <3>1. InTurn'
      BY <2>1, <2>5, <2>8 DEF OrderInv, InTurn, Chain, Below
    <3>2. UpToFlush'
      BY <2>1, <2>5, <2>8 DEF OrderInv, UpToFlush
    <3> QED BY <2>1, <2>5, <2>9, <3>1, <3>2 DEF OrderInv
<1>43. CASE BlitRelease
  <2>1. /\ BufN' = BufN /\ CtrlN' = CtrlN /\ FlushN' = FlushN /\ flush' = flush
        /\ HandN' = HandN /\ QueueN' = QueueN /\ QueueUp'
    BY <1>43 DEF BlitRelease, SignalSlotFree, BufN, CtrlN, FlushN, HandN, QueueN, QueueUp, OrderInv
  <2>2. ShownN' = ShownN /\ InOrder'
    BY <1>43 DEF BlitRelease, ShownN, InOrder, OrderInv
  <2>3. /\ bpc = "release" /\ bpc' = "full" /\ Filled > 0 /\ sout' = Succ(sout) /\ sin' = sin /\ slot' = slot
    BY <1>43 DEF BlitRelease, PoolBound, Draining
  <2>4. /\ Filled' = Filled - 1
        /\ \A i \in Nat : (sout' + i) % NSlot = (sout + (i + 1)) % NSlot
    BY <2>3, ReleaseCounts
  <2>5. \A i \in Nat : At(i)' = At(i + 1)
    BY <2>3, <2>4 DEF At
  <2>6. Live = 1..Filled - 1 /\ Live' = 0..Filled - 2
    BY <2>3, <2>4, <1>b DEF Live
  <2>7. PoolN' \subseteq PoolN
    <3> SUFFICES ASSUME NEW i \in 0..Filled - 2 PROVE At(i)'.r.n \in PoolN
      BY <2>6 DEF PoolN
    <3>1. i + 1 \in Live /\ At(i)' = At(i + 1)
      BY <2>5, <2>6, <1>b
    <3> QED BY <3>1 DEF PoolN
  <2>8. PoolUp'
    <3> SUFFICES ASSUME NEW i \in 0..Filled - 2, NEW j \in 0..Filled - 2, i < j
                 PROVE  At(i)'.r.n < At(j)'.r.n
      BY <2>6 DEF PoolUp
    <3>1. i + 1 \in Live /\ j + 1 \in Live /\ i + 1 < j + 1
      BY <2>6, <1>b
    <3>2. At(i + 1).r.n < At(j + 1).r.n
      BY <3>1 DEF OrderInv, PoolUp
    <3> QED BY <3>2, <2>5
  <2> QED BY <2>1, <2>2, <2>7, <2>8, <1>a, OrderShrinks
<1> HIDE DEF usbVars, btnVars, epVars, poolVars, readVars, fabVars, HasHand, InCtrl
<1> QED BY <1>1, <1>2, <1>3, <1>4, <1>5, <1>6, <1>7, <1>8, <1>9, <1>10, <1>11, <1>12, <1>13, <1>14, <1>15, <1>16, <1>17, <1>18, <1>19, <1>20, <1>21, <1>22, <1>23, <1>24, <1>25, <1>26, <1>27, <1>28, <1>29, <1>30, <1>31, <1>32, <1>33, <1>34, <1>35, <1>36, <1>37, <1>38, <1>39, <1>40, <1>41, <1>42, <1>43
  DEF Next, HostAct, EpAct, ReaderAct, BlitAct

\* Nothing has been sent in the initial state.
LEMMA OrderInit == Init => OrderInv
<1> SUFFICES ASSUME Init PROVE OrderInv
  OBVIOUS
<1>1. /\ ShownN = {} /\ QueueN = {} /\ BufN = {}
      /\ InOrder /\ QueueUp
  BY DEF Init, ShownN, QueueN, BufN, InOrder, QueueUp
<1>2. HandN = {} /\ CtrlN = {} /\ FlushN = {}
  BY DEF Init, HandN, HasHand, Filling, CtrlN, InCtrl, FlushN
<1>3. Live = {}
  BY DEF Init, Live, Filled
<1>4. PoolN = {} /\ PoolUp
  BY <1>3 DEF PoolN, PoolUp
<1> QED BY <1>1, <1>2, <1>4 DEF OrderInv, InTurn, UpToFlush, Chain, Below

LEMMA DataAlways == Spec => []DataType
<1>1. TypeOK => DataType
  BY DEF TypeOK
<1> QED BY <1>1, TypeCorrect, PTL

LEMMA OrderAlways == Spec => []OrderInv
<1>1. PoolInv /\ DataType /\ DataType' /\ OrderInv /\ [Next]_vars => OrderInv'
  BY OrderNext DEF PoolInv
<1> QED BY <1>1, OrderInit, PoolInvAlways, DataAlways, PTL DEF Spec

\* No header is blitted twice and none overtakes another, hosts coming and
\* going, transfers abandoned, slots recycled (the order of rectq, the pool and
\* blit_worker).
THEOREM BlitsInOrder == Spec => []InOrder
<1>1. OrderInv => InOrder
  BY DEF OrderInv
<1> QED BY <1>1, OrderAlways, PTL

-----------------------------------------------------------------------------
(* The kernel, the events and the host the device thinks it has. *)

\* An event that says a host came or went, and the queues that start with one.
IsState(e) == e.type \in {"ENABLE", "DISABLE"}
Heads(q) == q # <<>> /\ IsState(Head(q))
\* A second event is a SETUP, behind an ENABLE: FunctionFS discards it otherwise.
OneSetup(q) ==
  /\ Len(q) = 2 => Head(q).type = "ENABLE" /\ ~IsState(q[2])
\* What the thread will believe once it has read what is raised.
Told == IF Heads(events) THEN Head(events).type = "ENABLE"
        ELSE IF Heads(batch) THEN Head(batch).type = "ENABLE" ELSE hostAttached

\* The host the controller has, the events that tell of it and the host the
\* device thinks it has agree; a host that goes takes its headers with it.
KernelInv ==
  /\ hpc = "gone" <=> ~enabled
  /\ ~enabled => events = <<>> \/ Heads(events)
  /\ OneSetup(events) /\ OneSetup(batch)
  /\ batch # <<>> => epc \in {"event", "setup", "ctrl", "attach", "detach"}
  /\ epc = "attach" => Head(batch).type = "ENABLE"
  /\ epc = "detach" => Head(batch).type = "DISABLE" /\ rectq = <<>> /\ buffer = <<>>
  /\ epc \in {"setup", "ctrl"} => ~IsState(Head(batch))
  /\ epc = "unbind" => ~udc /\ ~enabled
  /\ Told <=> enabled
  /\ hostAttached \/ Heads(events) \/ Heads(batch) \/ (rectq = <<>> /\ buffer = <<>> /\ batch = <<>> /\ events = <<>>)

-----------------------------------------------------------------------------
(* What the kernel raises. *)

LEMMA EmptyHeads == ~Heads(<<>>) /\ OneSetup(<<>>)
BY DEF Heads, OneSetup

LEMMA RaisedHeads ==
  ASSUME NEW type \in {"ENABLE", "DISABLE"}
  PROVE  LET q == <<Event(type, NoHeader)>>
         IN  Heads(q) /\ Head(q).type = type /\ OneSetup(q)
BY DEF Heads, IsState, OneSetup, Event

\* A SETUP goes behind the state event that is waiting, or replaces the other SETUP.
LEMMA AddedHeads ==
  ASSUME NEW q \in Seq(EventRec), NEW type \in {"SET_BUFFER", "GET_STATUS"}, NEW h,
         Heads(q) => Head(q).type = "ENABLE"
  PROVE  LET q1 == AddSetup(q, Event(type, h))
         IN  /\ OneSetup(q1)
             /\ Heads(q1) <=> Heads(q)
             /\ Heads(q) => Head(q1) = Head(q)
<1> DEFINE e == Event(type, h)
<1>1. ~IsState(e)
  BY DEF IsState, Event
<1> HIDE DEF e
<1>2. CASE Heads(q)
  <2>1. AddSetup(q, e) = <<Head(q), e>>
    BY <1>2 DEF AddSetup, Heads, IsState
  <2>2. Heads(<<Head(q), e>>) /\ Head(<<Head(q), e>>) = Head(q) /\ OneSetup(<<Head(q), e>>)
    BY <1>1, <1>2 DEF Heads, OneSetup
  <2> QED BY <1>2, <2>1, <2>2 DEF e
<1>3. CASE ~Heads(q)
  <2>1. AddSetup(q, e) = <<e>>
    BY <1>3 DEF AddSetup, Heads, IsState
  <2>2. ~Heads(<<e>>) /\ OneSetup(<<e>>)
    BY <1>1 DEF Heads, OneSetup
  <2> QED BY <1>3, <2>1, <2>2 DEF e
<1> QED BY <1>2, <1>3

\* What follows an event in a batch is a SETUP.
LEMMA TailHeads ==
  ASSUME NEW q \in Seq(EventRec), q # <<>>, Len(q) <= 2, OneSetup(q)
  PROVE  ~Heads(Tail(q)) /\ OneSetup(Tail(q)) /\ (Head(q).type # "ENABLE" => Tail(q) = <<>>)
<1>1. /\ Tail(q) \in Seq(EventRec) /\ Len(Tail(q)) = Len(q) - 1 /\ Len(q) \in Nat
      /\ \A i \in 1..Len(Tail(q)) : Tail(q)[i] = q[i + 1]
  BY HeadTailProperties, LenProperties
<1>2. OneSetup(Tail(q))
  BY <1>1 DEF OneSetup
<1>3. CASE Tail(q) = <<>>
  BY <1>2, <1>3 DEF Heads
<1>4. CASE Tail(q) # <<>>
  <2>1. Len(q) = 2 /\ Head(Tail(q)) = q[2]
    BY <1>1, <1>4, EmptySeq
  <2> QED BY <1>2, <2>1 DEF OneSetup, Heads
<1> QED BY <1>3, <1>4

LEMMA KernelStays ==
  ASSUME KernelInv, UNCHANGED <<enabled, events, batch, hostAttached>>,
         hpc' = "gone" <=> hpc = "gone",
         rectq = <<>> => rectq' = <<>>, buffer' = buffer,
         epc' # epc =>
           \/ batch = <<>> /\ epc' \notin {"attach", "detach", "setup", "ctrl", "unbind"}
           \/ epc = "setup" /\ epc' = "ctrl"
           \/ epc = "event" /\ epc' = "attach" /\ Head(batch).type = "ENABLE",
         epc' = "unbind" => udc' = udc
  PROVE  KernelInv'
BY DEF KernelInv, Told

LEMMA KernelNext == KernelInv /\ ControlType /\ DataType /\ [Next]_vars => KernelInv'
<1> SUFFICES ASSUME KernelInv, ControlType, DataType, [Next]_vars PROVE KernelInv'
  OBVIOUS
<1> USE DEF usbVars, btnVars, epVars, poolVars, readVars, fabVars
<1>a. batch # <<>> => epc \in {"event", "setup", "ctrl", "attach", "detach"}
  BY DEF KernelInv
<1>1. CASE HostBulk
  BY <1>1, <1>a, KernelStays DEF HostBulk
<1>2. CASE HostBulkDone
  BY <1>2, <1>a, KernelStays DEF HostBulkDone
<1>3. CASE UserPress
  BY <1>3, <1>a, KernelStays DEF UserPress
<1>4. CASE \E how \in {"silent", "zlp"} : HostGiveUp(how)
  BY <1>4, <1>a, KernelStays DEF HostGiveUp
<1>5. CASE Stop
  BY <1>5, <1>a, KernelStays DEF Stop
<1>6. CASE EpPoll
  BY <1>6, <1>a, KernelStays DEF EpPoll
<1>7. CASE EpPressBind
  BY <1>7, <1>a, KernelStays DEF EpPressBind
<1>8. CASE EpIdleBeat
  BY <1>8, <1>a, KernelStays DEF EpIdleBeat
<1>9. CASE EpCtrlLock
  BY <1>9, <1>a, KernelStays DEF EpCtrlLock
<1>10. CASE EpEnable
  BY <1>10, <1>a, KernelStays DEF EpEnable
<1>11. CASE EpBeatLock
  BY <1>11, <1>a, KernelStays DEF EpBeatLock
<1>12. CASE EpBeat
  BY <1>12, <1>a, KernelStays DEF EpBeat
<1>13. CASE EpClose
  BY <1>13, <1>a, KernelStays DEF EpClose
<1>14. CASE EpJoinReader
  BY <1>14, <1>a, KernelStays DEF EpJoinReader
<1>15. CASE ReaderQuit
  BY <1>15, <1>a, KernelStays DEF ReaderQuit
<1>16. CASE ReaderSleep
  BY <1>16, <1>a, KernelStays DEF ReaderSleep
<1>17. CASE ReaderSlot
  BY <1>17, <1>a, KernelStays DEF ReaderSlot
<1>18. CASE ReaderSize
  BY <1>18, <1>a, KernelStays DEF ReaderSize
<1>19. CASE ReaderIssue
  BY <1>19, <1>a, KernelStays DEF ReaderIssue
<1>20. CASE ReaderFailed
  BY <1>20, <1>a, KernelStays DEF ReaderFailed
<1>21. CASE ReaderPacket
  BY <1>21, <1>a, KernelStays DEF ReaderPacket
<1>22. CASE ReaderPublish
  BY <1>22, <1>a, KernelStays DEF ReaderPublish
<1>23. CASE BlitQuit
  BY <1>23, <1>a, KernelStays DEF BlitQuit
<1>24. CASE BlitTake
  BY <1>24, <1>a, KernelStays DEF BlitTake
<1>25. CASE BlitDecompress
  BY <1>25, <1>a, KernelStays DEF BlitDecompress
<1>26. CASE BlitDone
  BY <1>26, <1>a, KernelStays DEF BlitDone
<1>27. CASE BlitRelease
  BY <1>27, <1>a, KernelStays DEF BlitRelease
<1>28. CASE BlitLock
  BY <1>28, <1>a, KernelStays DEF BlitLock
<1>29. CASE Spurious
  BY <1>29, <1>a, KernelStays DEF Spurious
<1>30. CASE UNCHANGED vars
  BY <1>30, <1>a, KernelStays DEF vars
<1>31. CASE ReaderTake
  BY <1>31, <1>a, KernelStays DEF ReaderTake
<1>32. CASE HostAttach
  <2>1. /\ events' = <<Event("ENABLE", NoHeader)>> /\ enabled' = TRUE /\ hpc' = "idle" /\ ~enabled /\ udc
        /\ UNCHANGED <<batch, epc, rectq, buffer, hostAttached, udc>>
    BY <1>32 DEF HostAttach
  <2>2. Heads(events') /\ Head(events').type = "ENABLE" /\ OneSetup(events')
    BY <2>1, RaisedHeads
  <2> QED BY <2>1, <2>2 DEF KernelInv, Told
<1>33. CASE HostDetach
  <2>1. /\ enabled' = FALSE /\ hpc' = "gone" /\ events' = IF enabled THEN <<Event("DISABLE", NoHeader)>> ELSE events
        /\ UNCHANGED <<batch, rectq, buffer, hostAttached>>
    BY <1>33 DEF HostDetach, EndpointDown
  <2>2. epc' = epc /\ udc' = udc
    BY <1>33 DEF HostDetach
  <2>3. CASE enabled
    <3>1. Heads(events') /\ Head(events').type = "DISABLE" /\ OneSetup(events')
      BY <2>1, <2>3, RaisedHeads
    <3> QED BY <2>1, <2>2, <3>1 DEF KernelInv, Told
  <2>4. CASE ~enabled
    <3>1. events' = events
      BY <2>1, <2>4
    <3> QED BY <2>1, <2>2, <2>4, <3>1 DEF KernelInv, Told
  <2> QED BY <2>3, <2>4
<1>34. CASE EpPressUnbind
  <2>1. /\ enabled' = FALSE /\ hpc' = "gone" /\ events' = IF enabled THEN <<Event("DISABLE", NoHeader)>> ELSE events
        /\ UNCHANGED <<batch, rectq, buffer, hostAttached>>
    BY <1>34 DEF EpPressUnbind, EndpointDown
  <2>2. epc' = "unbind" /\ udc' = FALSE /\ epc \in {"press", "pressIdle"}
    BY <1>34 DEF EpPressUnbind
  <2>3. CASE enabled
    <3>1. Heads(events') /\ Head(events').type = "DISABLE" /\ OneSetup(events')
      BY <2>1, <2>3, RaisedHeads
    <3> QED BY <2>1, <2>2, <3>1 DEF KernelInv, Told
  <2>4. CASE ~enabled
    <3>1. events' = events
      BY <2>1, <2>4
    <3> QED BY <2>1, <2>2, <2>4, <3>1 DEF KernelInv, Told
  <2> QED BY <2>3, <2>4
<1>35. CASE EpJoinBlit
  <2>1. /\ enabled' = FALSE /\ hpc' = "gone" /\ events' = IF enabled THEN <<Event("DISABLE", NoHeader)>> ELSE events
        /\ UNCHANGED <<batch, rectq, buffer, hostAttached>>
    BY <1>35 DEF EpJoinBlit, EndpointDown
  <2>2. epc' = "closed" /\ udc' = FALSE /\ epc = "joinBlit"
    BY <1>35 DEF EpJoinBlit
  <2>3. CASE enabled
    <3>1. Heads(events') /\ Head(events').type = "DISABLE" /\ OneSetup(events')
      BY <2>1, <2>3, RaisedHeads
    <3> QED BY <2>1, <2>2, <3>1 DEF KernelInv, Told
  <2>4. CASE ~enabled
    <3>1. events' = events
      BY <2>1, <2>4
    <3> QED BY <2>1, <2>2, <2>4, <3>1 DEF KernelInv, Told
  <2> QED BY <2>3, <2>4
<1>36. CASE HostSetBuffer
  <2>1. /\ hpc # "gone" /\ hpc' # "gone" /\ UNCHANGED <<enabled, batch, epc, rectq, buffer, hostAttached, udc>>
        /\ events' = AddSetup(events, Event("SET_BUFFER", flush'))
    BY <1>36 DEF HostSetBuffer
  <2>2. enabled /\ (Heads(events) => Head(events).type = "ENABLE")
    BY <2>1 DEF KernelInv, Told
  <2>3. /\ OneSetup(events') /\ (Heads(events') <=> Heads(events))
        /\ Heads(events) => Head(events') = Head(events)
    BY <2>1, <2>2, AddedHeads DEF KernelInv, DataType
  <2> QED BY <2>1, <2>2, <2>3 DEF KernelInv, Told
<1>37. CASE HostGetStatus
  <2>1. /\ hpc # "gone" /\ hpc' # "gone" /\ UNCHANGED <<enabled, batch, epc, rectq, buffer, hostAttached, udc>>
        /\ events' = AddSetup(events, Event("GET_STATUS", flush'))
    BY <1>37 DEF HostGetStatus
  <2>2. enabled /\ (Heads(events) => Head(events).type = "ENABLE")
    BY <2>1 DEF KernelInv, Told
  <2>3. /\ OneSetup(events') /\ (Heads(events') <=> Heads(events))
        /\ Heads(events) => Head(events') = Head(events)
    BY <2>1, <2>2, AddedHeads DEF KernelInv, DataType
  <2> QED BY <2>1, <2>2, <2>3 DEF KernelInv, Told
<1>38. CASE EpNoPress
  <2>1. /\ epc \in {"press", "pressIdle"} /\ UNCHANGED <<hpc, enabled, rectq, buffer, hostAttached, udc>>
    BY <1>38 DEF EpNoPress
  <2>2. batch = <<>> /\ ~Heads(batch)
    BY <2>1 DEF KernelInv, Heads
  <2>3. CASE epc' = "idlebeat" /\ UNCHANGED <<batch, events>>
    BY <2>1, <2>2, <2>3 DEF KernelInv, Told
  <2>4. CASE epc' = "event" /\ batch' = events /\ events' = <<>>
    <3>1. ~Heads(events') /\ OneSetup(events')
      BY <2>4, EmptyHeads
    <3> QED BY <2>1, <2>2, <2>4, <3>1 DEF KernelInv, Told
  <2> QED BY <1>38, <2>3, <2>4 DEF EpNoPress
<1>39. CASE EpSetup
  <2> DEFINE e == Head(batch)
  <2>1. /\ epc = "event" /\ batch # <<>> /\ UNCHANGED <<enabled, events, rectq, buffer, hostAttached, udc>>
        /\ e.type \in {"SET_BUFFER", "GET_STATUS"}
    BY <1>39 DEF EpSetup
  <2>2. ~Heads(batch) /\ ~IsState(e)
    BY <2>1 DEF Heads, IsState
  <2>3. hpc' = "gone" <=> hpc = "gone"
    BY <1>39 DEF EpSetup
  <2>4. CASE batch' = batch /\ epc' = "setup"
    BY <2>1, <2>2, <2>3, <2>4 DEF KernelInv, Told
  <2>5. CASE batch' = Tail(batch) /\ epc' = epc
    <3>1. ~Heads(batch') /\ OneSetup(batch')
      BY <2>1, <2>5, TailHeads DEF KernelInv, DataType
    <3> QED BY <2>1, <2>2, <2>3, <2>5, <3>1 DEF KernelInv, Told
  <2> QED BY <1>39, <2>4, <2>5 DEF EpSetup
<1>40. CASE EpCtrl
  <2>1. /\ epc = "ctrl" /\ epc' = "event" /\ batch' = Tail(batch) /\ batch # <<>>
        /\ UNCHANGED <<enabled, events, rectq, hostAttached, udc>>
    BY <1>40 DEF EpCtrl, DataType
  <2>2. ~Heads(batch) /\ ~Heads(batch') /\ OneSetup(batch')
    BY <2>1, TailHeads DEF KernelInv, DataType, Heads
  <2>3. hpc' = "gone" <=> hpc = "gone"
    BY <1>40 DEF EpCtrl
  <2> QED BY <2>1, <2>2, <2>3 DEF KernelInv, Told
<1>41. CASE EpDisable
  <2>1. /\ epc = "event" /\ epc' = "detach" /\ rectq' = <<>> /\ buffer' = <<>>
        /\ Head(batch).type = "DISABLE"
        /\ UNCHANGED <<hpc, enabled, events, batch, hostAttached, udc>>
    BY <1>41 DEF EpDisable, DropHeaders
  <2> QED BY <2>1 DEF KernelInv, Told
<1>42. CASE EpOnHost
  <2>1. /\ UNCHANGED <<hpc, enabled, events, rectq, udc>>
        /\ hostAttached' = (epc = "attach") /\ epc \in {"attach", "detach", "unbind"}
    BY <1>42 DEF EpOnHost
  <2>2. CASE epc = "attach"
    <3>1. /\ hostAttached' /\ epc' = "event" /\ batch' = Tail(batch) /\ batch # <<>>
      BY <1>42, <2>1, <2>2 DEF EpOnHost, DataType
    <3>2. Heads(batch) /\ Head(batch).type = "ENABLE"
      BY <2>2, <3>1 DEF KernelInv, Heads, IsState
    <3>3. ~Heads(batch') /\ OneSetup(batch')
      BY <3>1, TailHeads DEF KernelInv, DataType
    <3>4. Told' = Told
      BY <2>1, <3>1, <3>2, <3>3 DEF Told
    <3> QED BY <2>1, <3>1, <3>3, <3>4 DEF KernelInv
  <2>3. CASE epc = "detach"
    <3>1. /\ ~hostAttached' /\ epc' = "event" /\ batch' = Tail(batch) /\ batch # <<>>
          /\ Head(batch).type = "DISABLE" /\ buffer' = <<>> /\ rectq' = <<>>
      BY <1>42, <2>1, <2>3 DEF EpOnHost, DataType, KernelInv
    <3>2. Heads(batch) /\ Head(batch).type = "DISABLE"
      BY <3>1 DEF Heads, IsState
    <3>3. ~Heads(batch') /\ OneSetup(batch') /\ batch' = <<>>
      BY <3>1, TailHeads DEF KernelInv, DataType
    <3>4. Told' = Told
      BY <2>1, <3>1, <3>2, <3>3 DEF Told
    <3>5. Heads(events) \/ events = <<>>
      BY <3>2 DEF KernelInv, Told
    <3> QED BY <2>1, <3>1, <3>3, <3>4, <3>5 DEF KernelInv
  <2>4. CASE epc = "unbind"
    <3>1. /\ ~hostAttached' /\ epc' = "idlebeat" /\ batch' = batch /\ buffer' = <<>> /\ batch = <<>>
          /\ ~enabled
      BY <1>42, <2>1, <2>4 DEF EpOnHost, KernelInv
    <3>2. ~Heads(batch) /\ (events = <<>> => ~Heads(events))
      BY <3>1 DEF Heads
    <3>3. CASE Heads(events)
      BY <2>1, <3>1, <3>2, <3>3 DEF KernelInv, Told
    <3>4. CASE events = <<>>
      <4>1. ~hostAttached
        BY <3>1, <3>2, <3>4 DEF KernelInv, Told
      <4> QED BY <2>1, <3>1, <3>2, <3>4, <4>1 DEF KernelInv, Told
    <3> QED BY <3>1, <3>3, <3>4 DEF KernelInv
  <2> QED BY <2>1, <2>2, <2>3, <2>4
<1>43. CASE EpBulk
  <2>1. /\ epc = "event" /\ epc' = "beatlock" /\ buffer' = <<>> /\ batch = <<>>
        /\ UNCHANGED <<hpc, enabled, events, batch, hostAttached, udc>>
        /\ buffer = <<>> => rectq' = rectq
    BY <1>43 DEF EpBulk, BatchDone, ConsumeBuffer
  <2>2. ~Heads(batch)
    BY <2>1 DEF Heads
  <2> QED BY <2>1, <2>2 DEF KernelInv, Told
<1> HIDE DEF usbVars, btnVars, epVars, poolVars, readVars, fabVars
<1> QED BY <1>1, <1>2, <1>3, <1>4, <1>5, <1>6, <1>7, <1>8, <1>9, <1>10, <1>11, <1>12, <1>13, <1>14, <1>15, <1>16, <1>17, <1>18, <1>19, <1>20, <1>21, <1>22, <1>23, <1>24, <1>25, <1>26, <1>27, <1>28, <1>29, <1>30, <1>31, <1>32, <1>33, <1>34, <1>35, <1>36, <1>37, <1>38, <1>39, <1>40, <1>41, <1>42, <1>43
  DEF Next, HostAct, EpAct, ReaderAct, BlitAct

\* A bound gadget nobody has configured: nothing is raised yet.
LEMMA KernelInit == Init => KernelInv
BY EmptyHeads DEF Init, KernelInv, Told, Heads, OneSetup

LEMMA KernelAlways == Spec => []KernelInv
<1>1. PoolInv => ControlType
  BY DEF PoolInv
<1> QED BY <1>1, KernelInit, KernelNext, PoolInvAlways, DataAlways, PTL DEF Spec

\* When the daemon is back at poll() with no host and no event to read, no
\* header of the host that left is queued (the DISABLE handler and the button's
\* blitscrt_dev_on_host).
THEOREM HeadersFollowHost == Spec => []HeadersGoWithHost
<1>1. KernelInv => HeadersGoWithHost
  BY DEF KernelInv, HeadersGoWithHost, Heads
<1> QED BY <1>1, KernelAlways, PTL

-----------------------------------------------------------------------------
(* Alignment: one host's transfer, packet by packet. *)

\* What `Aligned' asks of the host: it attaches once, gives no transfer up, and
\* sends rects that are not empty and that fit a slot of the pool. The largest
\* advertised frame is 720 kB and BULK_BUF a megabyte (gadget.c:389-395), and a
\* GUD driver flushes damage, which is never empty.
OneHost ==
  /\ MaxSessions <= 1 /\ GiveUps = {}
  /\ \A x \in Rects : x.want > 0 /\ x.want <= BulkBuf /\ x.length <= BulkBuf

\* What k whole packets hold.
Full(k) == k * MaxPacket

\* The reader is in a transfer, or has the header and will be.
Reading == {"issue", "read", "reading"}
ToFill == rpc \in {"sleepSlot", "slot", "size"} \cup Reading
\* The header whose pixels have not been read: in hand, queued, or accepted.
Owed(inHand, queue, buf) == (ToFill <=> inHand) /\ rectq = queue /\ buffer = buf
NoneOwed == Owed(FALSE, <<>>, <<>>)
OneOwed ==
  \/ Owed(TRUE, <<>>, <<>>) /\ r = flush
  \/ Owed(FALSE, <<flush>>, <<>>)
  \/ Owed(FALSE, <<>>, <<flush>>)

\* The transfer is k packets in: those are in the slot, the others on the wire.
Partway(w) ==
  IF rpc \in Reading
  THEN \E k \in 0..Len(PacketsOf(r)) - 1 :
         /\ done = Full(k)
         /\ slot[InIdx].px = SubSeq(PacketsOf(r), 1, k)
         /\ w = SubSeq(PacketsOf(r), k + 1, Len(PacketsOf(r)))
  ELSE w = PacketsOf(flush)
Untouched == rpc # "reading" /\ (rpc \in Reading => done = 0 /\ slot[InIdx].px = <<>>)

\* Where the one header is, for each step of the host's flush.
Serving ==
  /\ hpc \in {"idle", "setbuf"} => NoneOwed /\ wire = <<>> /\ ~InCtrl
  /\ hpc \in {"set", "status"} =>
       /\ wire = <<>>
       /\ IF InCtrl THEN NoneOwed /\ Head(batch).h = flush
          ELSE IF status = "ok" THEN OneOwed /\ Untouched ELSE NoneOwed
  /\ hpc = "bulk" => OneOwed /\ Untouched /\ wire = <<>> /\ ~InCtrl
  /\ hpc = "wait" => ~InCtrl /\ ((NoneOwed /\ wire = <<>>) \/ (OneOwed /\ Partway(wire)))

\* What is published is whole already.
PoolIntact == \A i \in 0..Filled - 1 : Intact(At(i).r, At(i).px)

PoolPart ==
  /\ Aligned /\ PoolIntact
  /\ rpc = "publish" => Intact(r, slot[InIdx].px)
\* What the endpoint's state says of the rest, with one host.
LinkPart ==
  /\ rpc \in {"read", "reading"} => enabled
  /\ rpc = "failed" => ~enabled
  /\ session = 0 => /\ ~enabled /\ wire = <<>> /\ events = <<>> /\ batch = <<>>
                    /\ rectq = <<>> /\ buffer = <<>> /\ rpc \in {"work", "sleepWork", "done"}
  /\ session <= 1
  /\ enabled => batch = <<>> \/ Head(batch).type # "DISABLE"
  /\ hpc \notin {"gone", "idle"} => flush.rect \in Rects
ServePart == enabled /\ rpc # "done" => Serving
AlignInv == PoolPart /\ LinkPart /\ ServePart

LEMMA LinkNext ==
  ASSUME OneHost, LinkPart, KernelInv, ControlType, DataType, [Next]_vars
  PROVE  LinkPart'
<1> USE DEF usbVars, btnVars, epVars, poolVars, readVars, fabVars
<1>1. CASE HostAttach
  <2>1. session = 0
    <3>1. MaxSessions <= 1 /\ MaxSessions \in Nat /\ session \in Nat /\ session < MaxSessions
      BY <1>1, BoundAssumption DEF OneHost, HostAttach, DataType
    <3> QED BY <3>1
  <2> QED BY <1>1, <2>1 DEF HostAttach, LinkPart
<1>2. CASE HostDetach
  BY <1>2 DEF LinkPart, HostDetach, EndpointDown
<1>3. CASE HostSetBuffer
  <2>1. enabled /\ session # 0
    BY <1>3 DEF HostSetBuffer, KernelInv, LinkPart
  <2>2. flush'.rect \in Rects
    <3>1. PICK x \in Rects : flush' = [n |-> flush.n + 1, s |-> session, rect |-> x]
      BY <1>3 DEF HostSetBuffer
    <3> QED BY <3>1
  <2> QED BY <1>3, <2>1, <2>2 DEF HostSetBuffer, LinkPart
<1>4. CASE HostGetStatus
  <2>1. enabled /\ session # 0
    BY <1>4 DEF HostGetStatus, KernelInv, LinkPart
  <2>2. flush'.rect \in Rects
    BY <1>4 DEF HostGetStatus, LinkPart
  <2> QED BY <1>4, <2>1, <2>2 DEF HostGetStatus, LinkPart
<1>5. CASE HostBulk
  <2>1. session # 0
    BY <1>5 DEF HostBulk, KernelInv, LinkPart
  <2> QED BY <1>5, <2>1 DEF HostBulk, LinkPart
<1>6. CASE HostBulkDone
  BY <1>6 DEF LinkPart, HostBulkDone
<1>7. CASE UserPress
  BY <1>7 DEF LinkPart, UserPress
<1>8. CASE \E how \in {"silent", "zlp"} : HostGiveUp(how)
  BY <1>8 DEF HostGiveUp, OneHost
<1>9. CASE Stop
  BY <1>9 DEF LinkPart, Stop
<1>10. CASE EpPoll
  BY <1>10 DEF LinkPart, EpPoll
<1>11. CASE EpNoPress
  <2>1. UNCHANGED <<hpc, enabled, rectq, buffer, rpc, wire, session, flush>>
    BY <1>11 DEF EpNoPress
  <2>2. CASE UNCHANGED <<batch, events>>
    BY <2>1, <2>2 DEF LinkPart
  <2>3. CASE batch' = events /\ events' = <<>>
    <3>1. enabled => events = <<>> \/ Head(events).type # "DISABLE"
      BY DEF KernelInv, Told, Heads, IsState
    <3> QED BY <2>1, <2>3, <3>1 DEF LinkPart
  <2> QED BY <1>11, <2>2, <2>3 DEF EpNoPress
<1>12. CASE EpPressUnbind
  BY <1>12 DEF LinkPart, EpPressUnbind, EndpointDown
<1>13. CASE EpPressBind
  BY <1>13 DEF LinkPart, EpPressBind
<1>14. CASE EpIdleBeat
  BY <1>14 DEF LinkPart, EpIdleBeat
<1>15. CASE EpSetup
  <2>1. UNCHANGED <<enabled, rectq, rpc, wire, session, flush, events>> /\ batch' \in {batch, Tail(batch)}
    BY <1>15 DEF EpSetup
  <2>2. batch # <<>> /\ session # 0 /\ buffer' = buffer /\ (hpc' \notin {"gone", "idle"} => hpc \notin {"gone", "idle"})
    BY <1>15 DEF EpSetup, LinkPart, DataType
  <2>3. enabled => batch' = <<>> \/ Head(batch').type # "DISABLE"
    <3>1. CASE batch' = batch
      BY <2>1, <3>1 DEF LinkPart
    <3>2. CASE batch' = Tail(batch) /\ batch # <<>>
      <4>1. ~Heads(Tail(batch))
        BY <3>2, TailHeads DEF KernelInv, DataType
      <4> QED BY <3>2, <4>1 DEF Heads, IsState
    <3> QED BY <1>15, <2>1, <2>2, <3>1, <3>2 DEF EpSetup
  <2> QED BY <2>1, <2>2, <2>3 DEF LinkPart
<1>16. CASE EpCtrlLock
  BY <1>16 DEF LinkPart, EpCtrlLock
<1>17. CASE EpCtrl
  <2>1. UNCHANGED <<enabled, rectq, rpc, wire, session, flush, events>> /\ batch' \in {batch, Tail(batch)}
    BY <1>17 DEF EpCtrl
  <2>2. batch # <<>> /\ session # 0 /\ (hpc' \notin {"gone", "idle"} => hpc \notin {"gone", "idle"})
    BY <1>17 DEF EpCtrl, LinkPart, DataType
  <2>3. enabled => batch' = <<>> \/ Head(batch').type # "DISABLE"
    <3>1. CASE batch' = batch
      BY <2>1, <3>1 DEF LinkPart
    <3>2. CASE batch' = Tail(batch) /\ batch # <<>>
      <4>1. ~Heads(Tail(batch))
        BY <3>2, TailHeads DEF KernelInv, DataType
      <4> QED BY <3>2, <4>1 DEF Heads, IsState
    <3> QED BY <1>17, <2>1, <2>2, <3>1, <3>2 DEF EpCtrl
  <2> QED BY <2>1, <2>2, <2>3 DEF LinkPart
<1>18. CASE EpEnable
  BY <1>18 DEF LinkPart, EpEnable
<1>19. CASE EpDisable
  BY <1>19 DEF LinkPart, EpDisable, DropHeaders
<1>20. CASE EpOnHost
  <2>1. UNCHANGED <<enabled, rectq, rpc, wire, session, flush, events>> /\ batch' \in {batch, Tail(batch)}
    BY <1>20 DEF EpOnHost
  <2>2. /\ epc # "unbind" => batch # <<>>
        /\ (session = 0 => buffer' = <<>> /\ batch' = <<>>) /\ hpc' = hpc
    BY <1>20 DEF EpOnHost, LinkPart, DataType
  <2>3. enabled => batch' = <<>> \/ Head(batch').type # "DISABLE"
    <3>1. CASE batch' = batch
      BY <2>1, <3>1 DEF LinkPart
    <3>2. CASE batch' = Tail(batch) /\ batch # <<>>
      <4>1. ~Heads(Tail(batch))
        BY <3>2, TailHeads DEF KernelInv, DataType
      <4> QED BY <3>2, <4>1 DEF Heads, IsState
    <3> QED BY <1>20, <2>1, <2>2, <3>1, <3>2 DEF EpOnHost
  <2> QED BY <2>1, <2>2, <2>3 DEF LinkPart
<1>21. CASE EpBulk
  <2>1. UNCHANGED <<enabled, wire, session, flush, events, batch, hpc>> /\ buffer' = <<>>
    BY <1>21 DEF EpBulk, BatchDone, ConsumeBuffer
  <2>2. rpc' = rpc \/ (rpc = "sleepWork" /\ rpc' = "work")
    BY <1>21 DEF EpBulk, SignalWork
  <2>3. buffer = <<>> => rectq' = rectq
    BY <1>21 DEF EpBulk
  <2> QED BY <2>1, <2>2, <2>3 DEF LinkPart
<1>22. CASE EpBeatLock
  BY <1>22 DEF LinkPart, EpBeatLock
<1>23. CASE EpBeat
  BY <1>23 DEF LinkPart, EpBeat
<1>24. CASE EpClose
  BY <1>24 DEF LinkPart, EpClose, BroadcastReader, SignalWork, SignalSlotFree, SignalSlotFull
<1>25. CASE EpJoinReader
  BY <1>25 DEF LinkPart, EpJoinReader
<1>26. CASE EpJoinBlit
  BY <1>26 DEF LinkPart, EpJoinBlit, EndpointDown
<1>27. CASE ReaderQuit
  BY <1>27 DEF LinkPart, ReaderQuit
<1>28. CASE ReaderSleep
  BY <1>28 DEF LinkPart, ReaderSleep
<1>29. CASE ReaderTake
  <2>1. session # 0
    BY <1>29 DEF ReaderTake, LinkPart
  <2> QED BY <1>29, <2>1 DEF ReaderTake, LinkPart
<1>30. CASE ReaderSlot
  BY <1>30 DEF LinkPart, ReaderSlot, PoolFull
<1>31. CASE ReaderSize
  BY <1>31 DEF LinkPart, ReaderSize
<1>32. CASE ReaderIssue
  BY <1>32 DEF LinkPart, ReaderIssue
<1>33. CASE ReaderFailed
  BY <1>33 DEF LinkPart, ReaderFailed
<1>34. CASE ReaderPacket
  BY <1>34 DEF LinkPart, ReaderPacket, AfterPacket
<1>35. CASE ReaderPublish
  BY <1>35 DEF LinkPart, ReaderPublish
<1>36. CASE BlitQuit
  BY <1>36 DEF LinkPart, BlitQuit
<1>37. CASE BlitTake
  BY <1>37 DEF LinkPart, BlitTake
<1>38. CASE BlitDecompress
  BY <1>38 DEF LinkPart, BlitDecompress
<1>39. CASE BlitDone
  BY <1>39 DEF LinkPart, BlitDone
<1>40. CASE BlitRelease
  BY <1>40 DEF LinkPart, BlitRelease, SignalSlotFree
<1>41. CASE BlitLock
  BY <1>41 DEF LinkPart, BlitLock
<1>42. CASE Spurious
  BY <1>42 DEF LinkPart, Spurious
<1>43. CASE UNCHANGED vars
  BY <1>43 DEF LinkPart, vars
<1> HIDE DEF usbVars, btnVars, epVars, poolVars, readVars, fabVars
<1> QED BY <1>1, <1>2, <1>3, <1>4, <1>5, <1>6, <1>7, <1>8, <1>9, <1>10, <1>11, <1>12, <1>13, <1>14, <1>15, <1>16, <1>17, <1>18, <1>19, <1>20, <1>21, <1>22, <1>23, <1>24, <1>25, <1>26, <1>27, <1>28, <1>29, <1>30, <1>31, <1>32, <1>33, <1>34, <1>35, <1>36, <1>37, <1>38, <1>39, <1>40, <1>41, <1>42, <1>43
  DEF Next, HostAct, EpAct, ReaderAct, BlitAct

-----------------------------------------------------------------------------
(* Packets. *)

LEMMA MulMono ==
  ASSUME NEW a \in Nat, NEW b \in Nat, NEW m \in Nat, a <= b
  PROVE  a * m <= b * m
<1> DEFINE d == b - a
<1>1. d \in Nat /\ b = a + d
  OBVIOUS
<1> HIDE DEF d
<1>2. b * m = a * m + d * m
  BY <1>1
<1>3. d * m \in Nat /\ a * m \in Nat
  BY <1>1
<1> QED BY <1>2, <1>3

\* How many packets it takes to carry w.
LEMMA PacketCount ==
  ASSUME NEW w \in Nat
  PROVE  LET k == (w + MaxPacket - 1) \div MaxPacket
         IN  /\ k \in Nat /\ w <= Full(k)
             /\ w = 0 => k = 0
             /\ w > 0 => k > 0 /\ Full(k - 1) < w
<1> DEFINE m == MaxPacket
           v == w + m - 1
           k == v \div m
<1>1. m \in Nat \ {0} /\ v \in Nat
  BY RectAssumption
<1> HIDE DEF v, m
<1>3. /\ k \in Int /\ v = m * k + (v % m) /\ v % m \in 0..m - 1 /\ k >= 0
  BY <1>1, QuotientNat
<1> HIDE DEF k
<1>4. k \in Nat /\ m * k <= v /\ v <= m * k + m - 1
  BY <1>1, <1>3
<1>5. m * k = k * m /\ k * m \in Nat
  BY <1>1, <1>4
<1>6. w <= k * m
  BY <1>1, <1>4, <1>5 DEF v
<1>7. ASSUME w = 0 PROVE k = 0
  <2>1. CASE k >= 1
    <3>1. 1 * m <= k * m
      BY <1>1, <1>4, <2>1, MulMono
    <3> QED BY <3>1, <1>1, <1>4, <1>5, <1>7 DEF v
  <2> QED BY <2>1, <1>4
<1>8. ASSUME w > 0 PROVE k > 0 /\ (k - 1) * m < w
  <2>1. k # 0
    <3>1. SUFFICES ASSUME k = 0 PROVE FALSE
      OBVIOUS
    <3>2. w <= 0 * m
      BY <1>6, <3>1
    <3> QED BY <3>2, <1>1, <1>8
  <2>2. (k - 1) * m = k * m - m
    BY <1>1, <1>4
  <2> QED BY <1>1, <1>4, <1>5, <1>8, <2>1, <2>2 DEF v
<1> QED BY <1>4, <1>6, <1>7, <1>8 DEF k, v, m, Full

\* The size of packet k + 1 of K: a whole packet, or what is left.
LEMMA PacketSize ==
  ASSUME NEW w \in Nat, NEW K \in Nat, NEW k \in Nat, k < K,
         Full(K - 1) < w, w <= Full(K), NEW size, size = Least(MaxPacket, w - Full(k))
  PROVE  /\ Full(k) \in Nat /\ size \in Nat \ {0} /\ size <= w - Full(k)
         /\ k + 1 = K => Full(k) + size = w
         /\ k + 1 # K => size = MaxPacket /\ Full(k) + size = Full(k + 1) /\ Full(k) + size < w
<1> DEFINE m == MaxPacket
<1>a. m \in Nat \ {0}
  BY RectAssumption
<1> HIDE DEF m
<1>b. /\ (K - 1) * m < w /\ w <= K * m /\ size = Least(m, w - k * m)
  BY DEF Full, m
<1> DEFINE at == k * m
<1>1. at \in Nat /\ (k + 1) * m = at + m
  BY <1>a
<1>2. size = Least(m, w - at)
  BY <1>b
<1>3. CASE k + 1 = K
  <2>1. K - 1 = k
    BY <1>3
  <2>2. (K - 1) * m = at /\ K * m = at + m
    BY <1>a, <1>1, <1>3, <2>1
  <2> HIDE DEF at
  <2>3. at < w /\ w <= at + m
    BY <1>b, <2>2
  <2>4. size = w - at
    BY <1>a, <2>3, <1>1, <1>2 DEF Least
  <2> QED BY <2>3, <2>4, <1>1, <1>3, <1>a DEF at, m, Full
<1>4. CASE k + 1 # K
  <2>1. k + 1 \in Nat /\ K - 1 \in Nat /\ k + 1 <= K - 1
    BY <1>4
  <2>2. (k + 1) * m <= (K - 1) * m
    BY <1>a, <2>1, MulMono
  <2>3. (K - 1) * m \in Nat
    BY <1>a, <2>1
  <2> DEFINE last == (K - 1) * m
             next == (k + 1) * m
  <2>4. next <= last /\ last < w /\ last \in Nat /\ next = at + m
    BY <1>b, <1>1, <2>2, <2>3
  <2> HIDE DEF at, last, next
  <2>5. at + m < w
    BY <1>a, <1>1, <2>4
  <2>6. size = m
    BY <1>a, <2>5, <1>1, <1>2 DEF Least
  <2> QED BY <2>4, <2>5, <2>6, <1>1, <1>4, <1>a DEF at, next, m, Full
<1> QED BY <1>3, <1>4

\* A sequence read one element at a time.
LEMMA NextOfRest ==
  ASSUME NEW S, NEW P \in Seq(S), NEW k \in Nat, k < Len(P)
  PROVE  LET K == Len(P)
             w == SubSeq(P, k + 1, K)
         IN  /\ w # <<>> /\ Head(w) = P[k + 1] /\ Tail(w) = SubSeq(P, k + 2, K)
             /\ P[k + 1] \in S
             /\ Append(SubSeq(P, 1, k), P[k + 1]) = SubSeq(P, 1, k + 1)
             /\ DOMAIN w = 1..K - k
             /\ \A i \in 1..K - k : w[i] = P[k + i]
<1> DEFINE K == Len(P)
           w == SubSeq(P, k + 1, K)
           px == SubSeq(P, 1, k)
<1>1. K \in Nat /\ k + 1 \in 1..K /\ k + 1 \in Int /\ 1 \in 1..K /\ K \in k + 1..K
  BY LenProperties
<1>2. \A i \in 1..K : P[i] \in S
  BY ElementOfSeq
<1>3. Head(w) = P[k + 1] /\ Tail(w) = SubSeq(P, (k + 1) + 1, K)
  BY <1>1, HeadTailOfSubSeq
<1>4. \A i \in k + 1..K : P[i] \in S
  BY <1>1, <1>2
<1>5. /\ w \in Seq(S) /\ Len(w) = IF k + 1 <= K THEN K - (k + 1) + 1 ELSE 0
      /\ \A i \in 1..K - (k + 1) + 1 : w[i] = P[(k + 1) + i - 1]
  <2> HIDE DEF K
  <2> QED BY <1>1, <1>4, SubSeqProperties
<1>6. Len(w) = K - k /\ DOMAIN w = 1..Len(w)
  <2>1. DOMAIN w = 1..Len(w)
    <3> HIDE DEF w
    <3> QED BY <1>5, LenProperties
  <2> HIDE DEF w, K
  <2> QED BY <2>1, <1>1, <1>5
<1>7. \A i \in 1..K - k : w[i] = P[k + i]
  <2> HIDE DEF w, K
  <2> SUFFICES ASSUME NEW i \in 1..K - k PROVE w[i] = P[k + i]
    OBVIOUS
  <2>1. i \in 1..K - (k + 1) + 1 /\ (k + 1) + i - 1 = k + i
    BY <1>1
  <2>2. w[i] = P[(k + 1) + i - 1]
    BY <2>1, <1>5
  <2> QED BY <2>1, <2>2
<1>8. w # <<>>
  <2> HIDE DEF w, K
  <2> QED BY <1>1, <1>6, EmptySeq
<1>9. Append(px, P[k + 1]) = SubSeq(P, 1, k + 1)
  <2>1. \A i \in 1..k : P[i] \in S
    BY <1>1, <1>2
  <2>2. px \in Seq(S)
    BY <1>1, <2>1, SubSeqProperties
  <2>3. Append(px, P[k + 1]) = px \o <<P[k + 1]>>
    BY <1>1, <1>2, <2>2, AppendIsConcat
  <2>4. k + 1 \in 1..Len(P)
    BY <1>1
  <2>5. SubSeq(P, 1, k + 1) = SubSeq(P, 1, (k + 1) - 1) \o <<P[k + 1]>>
    BY <1>1, <2>4, SubSeqRecursiveSecond
  <2>6. (k + 1) - 1 = k
    OBVIOUS
  <2> QED BY <2>3, <2>5, <2>6
<1>10. (k + 1) + 1 = k + 2
  OBVIOUS
<1>11. Tail(w) = SubSeq(P, k + 2, K)
  BY <1>3, <1>10
<1> QED
  <2> HIDE DEF w, K
  <2>1. Head(w) = P[k + 1]
    BY <1>3
  <2> QED BY <1>1, <1>2, <2>1, <1>6, <1>7, <1>8, <1>9, <1>11 DEF K, w

\* How a transfer is cut: whole packets and one that ends it, none of them empty.
LEMMA PacketFacts ==
  ASSUME NEW h \in Header, NEW P, P = PacketsOf(h), NEW K, K = Len(P)
  PROVE  /\ P \in Seq(Packet) /\ K \in Nat /\ DOMAIN P = 1..K
         /\ h.rect.want \in Nat
         /\ h.rect.want = 0 => P = <<>>
         /\ h.rect.want > 0 => K > 0 /\ Full(K - 1) < h.rect.want /\ h.rect.want <= Full(K)
         /\ \A i \in 1..K : /\ P[i].size = Least(MaxPacket, h.rect.want - Full(i - 1))
                            /\ P[i].split = FALSE
<1> DEFINE w == h.rect.want
<1>1. w \in Nat /\ MaxPacket \in Nat \ {0} /\ P \in Seq(Packet)
  BY RectAssumption, PacketsType DEF Header
<1>2. PICK k : k = (w + MaxPacket - 1) \div MaxPacket
  OBVIOUS
<1>3. /\ k \in Nat /\ w <= Full(k)
      /\ w = 0 => k = 0
      /\ w > 0 => k > 0 /\ Full(k - 1) < w
  <2> HIDE DEF w
  <2> QED BY <1>1, <1>2, PacketCount
<1>4. /\ DOMAIN P = 1..k
      /\ \A i \in 1..k : /\ P[i].size = Least(MaxPacket, w - Full(i - 1))
                         /\ P[i].split = FALSE
  BY <1>2 DEF PacketsOf, Full
<1>5. K = k
  <2>1. K \in Nat /\ DOMAIN P = 1..K
    BY <1>1, LenProperties
  <2> QED BY <2>1, <1>3, <1>4
<1>6. w = 0 => P = <<>>
  BY <1>1, <1>3, <1>5, EmptySeq
<1> HIDE DEF w
<1>7. QED BY <1>1, <1>3, <1>4, <1>5, <1>6 DEF w

\* Taking the next packet of a transfer: it is whole, and the transfer is
\* complete with the last one.
LEMMA PacketStep ==
  ASSUME NEW h \in Header, h.rect.want > 0, NEW k \in Nat, k < Len(PacketsOf(h))
  PROVE  LET P == PacketsOf(h)
             K == Len(P)
             size == P[k + 1].size
         IN  /\ P[k + 1].split = FALSE
             /\ Full(k) \in Nat /\ size \in Nat \ {0} /\ size <= h.rect.want - Full(k)
             /\ k + 1 = K => Full(k) + size = h.rect.want
             /\ k + 1 # K => /\ size = MaxPacket /\ Full(k) + size = Full(k + 1)
                             /\ Full(k) + size < h.rect.want
<1> DEFINE P == PacketsOf(h)
           K == Len(P)
           size == P[k + 1].size
<1>0. k < K
  OBVIOUS
<1>1. /\ P \in Seq(Packet) /\ K \in Nat /\ DOMAIN P = 1..K
      /\ h.rect.want \in Nat
      /\ K > 0 /\ Full(K - 1) < h.rect.want /\ h.rect.want <= Full(K)
      /\ \A i \in 1..K : /\ P[i].size = Least(MaxPacket, h.rect.want - Full(i - 1))
                         /\ P[i].split = FALSE
  BY PacketFacts
<1> HIDE DEF P, K
<1>2. k \in Nat /\ k < K /\ k + 1 \in 1..K /\ (k + 1) - 1 = k /\ MaxPacket \in Nat \ {0}
  BY <1>0, <1>1, RectAssumption
<1>3. size = Least(MaxPacket, h.rect.want - Full(k)) /\ P[k + 1].split = FALSE
  <2>1. size = Least(MaxPacket, h.rect.want - Full((k + 1) - 1))
    BY <1>1, <1>2
  <2> QED BY <1>1, <1>2, <2>1
<1> DEFINE want == h.rect.want
<1> HIDE DEF want
<1>4. /\ want \in Nat /\ Full(K - 1) < want /\ want <= Full(K)
      /\ size = Least(MaxPacket, want - Full(k))
  BY <1>1, <1>3 DEF want
<1>5. k < K /\ Full(K - 1) < want /\ want <= Full(K) /\ k \in Nat /\ K \in Nat /\ want \in Nat
  BY <1>1, <1>2, <1>4
<1>6. /\ Full(k) \in Nat /\ size \in Nat \ {0} /\ size <= want - Full(k)
      /\ k + 1 = K => Full(k) + size = want
      /\ k + 1 # K => size = MaxPacket /\ Full(k) + size = Full(k + 1) /\ Full(k) + size < want
  BY <1>4, <1>5, PacketSize
<1> QED BY <1>1, <1>2, <1>3, <1>6 DEF want, P, K

-----------------------------------------------------------------------------
(* The pool. *)

\* What a packet taken from the wire does, while one host streams.
Taken(k) ==
  LET P == PacketsOf(flush)
  IN /\ hpc = "wait" /\ OneOwed /\ r = flush /\ rpc \in {"read", "reading"}
     /\ P \in Seq(Packet) /\ k \in Nat /\ k < Len(P) /\ Len(P) \in Nat
     /\ slot[InIdx].px = SubSeq(P, 1, k) /\ wire = SubSeq(P, k + 1, Len(P))
     /\ slot' = [slot EXCEPT ![InIdx].px = SubSeq(P, 1, k + 1)]
     /\ wire' = SubSeq(P, k + 2, Len(P))
     /\ k + 1 = Len(P) => rpc' = "publish"
     /\ k + 1 # Len(P) => rpc' = "reading" /\ done' = Full(k + 1)

LEMMA PacketTaken ==
  ASSUME OneHost, LinkPart, KernelInv, ControlType, DataType, PoolBound, ServePart, ReaderPacket
  PROVE  \E k \in Nat : Taken(k)
<1>1. /\ rpc \in {"read", "reading"} /\ wire # <<>> /\ enabled /\ rpc # "done" /\ hpc # "gone"
      /\ rpc \in Reading /\ ToFill
  BY DEF ReaderPacket, LinkPart, KernelInv, Reading, ToFill
<1>2. hpc = "wait" /\ OneOwed /\ Partway(wire)
  BY <1>1 DEF ServePart, Serving, ControlType
<1>3. r = flush /\ flush.rect \in Rects /\ flush \in Header
  BY <1>1, <1>2 DEF OneOwed, Owed, LinkPart, DataType
<1> DEFINE P == PacketsOf(r)
           K == Len(P)
<1>4. PICK k \in 0..K - 1 : /\ done = Full(k)
                            /\ slot[InIdx].px = SubSeq(P, 1, k)
                            /\ wire = SubSeq(P, k + 1, K)
  BY <1>1, <1>2 DEF Partway
<1> DEFINE p == P[k + 1]
           want == flush.rect.want
<1>5. want > 0 /\ want <= BulkBuf /\ want \in Nat /\ BulkBuf \in Nat /\ MaxPacket \in Nat \ {0}
  BY <1>3, RectAssumption DEF OneHost
<1>6. /\ P \in Seq(Packet) /\ k \in Nat /\ k < Len(P) /\ K \in Nat /\ p.split = FALSE
      /\ Full(k) \in Nat /\ p.size \in Nat \ {0} /\ p.size <= want - Full(k)
      /\ k + 1 = K => Full(k) + p.size = want
      /\ k + 1 # K => /\ p.size = MaxPacket /\ Full(k) + p.size = Full(k + 1)
                      /\ Full(k) + p.size < want
  <2>1. P = PacketsOf(flush) /\ flush \in Header /\ flush.rect.want > 0
    BY <1>3, <1>5
  <2>2. P \in Seq(Packet) /\ K \in Nat
    BY <2>1, PacketFacts
  <2>3. k \in Nat /\ k < Len(PacketsOf(flush))
    BY <2>1, <2>2
  <2> HIDE DEF P
  <2> QED BY <2>1, <2>2, <2>3, PacketStep
<1>7. /\ Head(wire) = p /\ Tail(wire) = SubSeq(P, k + 2, K) /\ p \in Packet
      /\ Append(SubSeq(P, 1, k), p) = SubSeq(P, 1, k + 1)
  BY <1>4, <1>6, NextOfRest
<1> HIDE DEF p, want, P, K
<1>8. Least(p.size, BulkBuf - done) = p.size
  BY <1>4, <1>5, <1>6 DEF Least
<1>9. [p EXCEPT !.size = p.size, !.split = @ \/ p.size < p.size] = p
  <2>1. ~(p.size < p.size)
    BY <1>6
  <2> QED BY <2>1, <1>7 DEF Packet
<1>10. /\ wire' = Tail(wire)
       /\ done' = done + p.size
       /\ slot' = [slot EXCEPT ![InIdx].px = Append(@, p)]
       /\ rpc' = AfterPacket(p, p.size)
  <2>1. PICK take : take = Least(p.size, BulkBuf - done)
    OBVIOUS
  <2>2. take = p.size /\ ~(take < p.size) /\ take # 0
    BY <2>1, <1>6, <1>8
  <2>3. /\ wire' = IF take < p.size
                   THEN <<[p EXCEPT !.size = p.size - take, !.split = TRUE]>> \o Tail(wire)
                   ELSE Tail(wire)
        /\ done' = done + take
        /\ slot' = IF take = 0 THEN slot
                   ELSE [slot EXCEPT ![InIdx].px =
                           Append(@, [p EXCEPT !.size = take, !.split = @ \/ take < p.size])]
        /\ rpc' = AfterPacket(p, take)
    BY <2>1, <1>7 DEF ReaderPacket
  <2> QED BY <2>2, <2>3, <1>9
<1>11. slot' = [slot EXCEPT ![InIdx].px = SubSeq(P, 1, k + 1)]
  BY <1>4, <1>7, <1>10
<1>12. k + 1 = K => rpc' = "publish"
  <2> SUFFICES ASSUME k + 1 = K PROVE rpc' = "publish"
    OBVIOUS
  <2>1. p.size # 0 /\ done + p.size = want /\ r.rect.want = want
    BY <1>3, <1>4, <1>6 DEF want
  <2>2. done + p.size >= r.rect.want
    BY <2>1, <1>5
  <2> QED BY <2>1, <2>2, <1>10 DEF AfterPacket
<1>13. k + 1 # K => rpc' = "reading" /\ done' = Full(k + 1)
  <2> SUFFICES ASSUME k + 1 # K PROVE rpc' = "reading" /\ done' = Full(k + 1)
    OBVIOUS
  <2>1. p.size # 0 /\ p.size = MaxPacket /\ ~(done + p.size >= r.rect.want) /\ done + p.size = Full(k + 1)
    BY <1>3, <1>4, <1>5, <1>6 DEF want
  <2> QED BY <2>1, <1>5, <1>10 DEF AfterPacket
<1>14. wire' = SubSeq(P, k + 2, K)
  BY <1>7, <1>10
<1> QED BY <1>1, <1>2, <1>3, <1>4, <1>6, <1>11, <1>12, <1>13, <1>14 DEF Taken, P, K

\* The filled slots, when no slot changes.
LEMMA IntactStays ==
  ASSUME PoolIntact, UNCHANGED <<slot, sin, sout>>
  PROVE  PoolIntact'
<1>1. Filled' = Filled
  BY DEF Filled
<1>2. \A i : At(i)' = At(i)
  BY DEF At
<1> QED BY <1>1, <1>2 DEF PoolIntact, Intact, PacketsOf

\* Steps that leave the pool as it is.
LEMMA PoolFrame ==
  ASSUME PoolPart, UNCHANGED <<blitted, slot, sin, sout>>,
         rpc' = "publish" => rpc = "publish" /\ r' = r
  PROVE  PoolPart'
<1>1. Aligned'
  BY DEF PoolPart, Aligned, Intact, PacketsOf
<1>2. PoolIntact'
  BY IntactStays DEF PoolPart
<1>3. rpc' = "publish" => Intact(r, slot[InIdx].px)'
  BY DEF PoolPart, InIdx, Intact, PacketsOf
<1> QED BY <1>1, <1>2, <1>3 DEF PoolPart

\* The reader writes the slot past the last filled one.
LEMMA PxWrite ==
  ASSUME PoolPart, ControlType, PoolBound, DataType, Filled < NSlot,
         UNCHANGED <<blitted, sin, sout, r>>,
         NEW q, slot' = [slot EXCEPT ![InIdx].px = q],
         rpc' = "publish" => q = PacketsOf(r)
  PROVE  PoolPart'
<1>1. PICK n \in Nat : n = Filled
  BY Positions
<1>2. /\ n < NSlot /\ InIdx = (sout + n) % NSlot /\ slot \in [0..NSlot - 1 -> Slot]
      /\ n \in 0..NSlot - 1 /\ InIdx \in 0..NSlot - 1
  <2>1. n < NSlot /\ slot \in [0..NSlot - 1 -> Slot]
    BY <1>1 DEF DataType
  <2>2. InIdx = (sout + n) % NSlot /\ InIdx \in 0..NSlot - 1
    BY <1>1, FirstFree
  <2>3. n \in 0..NSlot - 1
    BY <2>1, SizeAssumption
  <2> QED BY <2>1, <2>2, <2>3
<1>3. InIdx' = InIdx /\ Filled' = n
  BY <1>1 DEF InIdx, Filled
<1>4. \A i \in 0..n - 1 : At(i)' = At(i)
  <2> SUFFICES ASSUME NEW i \in 0..n - 1
               PROVE  slot'[(sout + i) % NSlot] = slot[(sout + i) % NSlot]
    BY DEF At
  <2>1. i \in 0..NSlot - 1 /\ i # n
    BY <1>2, SizeAssumption
  <2>2. (sout + i) % NSlot # InIdx /\ (sout + i) % NSlot \in 0..NSlot - 1
    BY <1>2, <2>1, Positions
  <2> HIDE DEF InIdx
  <2> QED BY <1>2, <2>2
<1>5. slot'[InIdx].px = q
  BY <1>2 DEF Slot
<1> HIDE DEF InIdx
<1>6. Aligned'
  BY DEF PoolPart, Aligned, Intact, PacketsOf
<1>7. PoolIntact'
  <2>1. \A i \in 0..n - 1 : Intact(At(i).r, At(i).px)
    BY <1>1 DEF PoolPart, PoolIntact
  <2> QED BY <2>1, <1>3, <1>4 DEF PoolIntact, Intact, PacketsOf
<1>8. rpc' = "publish" => Intact(r, slot[InIdx].px)'
  BY <1>3, <1>5 DEF Intact, PacketsOf
<1> QED BY <1>6, <1>7, <1>8 DEF PoolPart

LEMMA PoolNext ==
  ASSUME OneHost, PoolPart, LinkPart, ServePart, KernelInv, ControlType, PoolBound, DataType,
         [Next]_vars
  PROVE  PoolPart'
<1> USE DEF usbVars, btnVars, epVars, poolVars, readVars, fabVars
<1>1. CASE HostAttach
  BY <1>1, PoolFrame DEF HostAttach
<1>2. CASE HostDetach
  BY <1>2, PoolFrame DEF HostDetach, EndpointDown
<1>3. CASE HostSetBuffer
  BY <1>3, PoolFrame DEF HostSetBuffer
<1>4. CASE HostGetStatus
  BY <1>4, PoolFrame DEF HostGetStatus
<1>5. CASE HostBulk
  BY <1>5, PoolFrame DEF HostBulk
<1>6. CASE HostBulkDone
  BY <1>6, PoolFrame DEF HostBulkDone
<1>7. CASE UserPress
  BY <1>7, PoolFrame DEF UserPress
<1>8. CASE \E how \in {"silent", "zlp"} : HostGiveUp(how)
  BY <1>8, PoolFrame DEF HostGiveUp
<1>9. CASE Stop
  BY <1>9, PoolFrame DEF Stop
<1>10. CASE EpPoll
  BY <1>10, PoolFrame DEF EpPoll
<1>11. CASE EpNoPress
  BY <1>11, PoolFrame DEF EpNoPress
<1>12. CASE EpPressUnbind
  BY <1>12, PoolFrame DEF EpPressUnbind, EndpointDown
<1>13. CASE EpPressBind
  BY <1>13, PoolFrame DEF EpPressBind
<1>14. CASE EpIdleBeat
  BY <1>14, PoolFrame DEF EpIdleBeat
<1>15. CASE EpSetup
  BY <1>15, PoolFrame DEF EpSetup
<1>16. CASE EpCtrlLock
  BY <1>16, PoolFrame DEF EpCtrlLock
<1>17. CASE EpCtrl
  BY <1>17, PoolFrame DEF EpCtrl
<1>18. CASE EpEnable
  BY <1>18, PoolFrame DEF EpEnable
<1>19. CASE EpDisable
  BY <1>19, PoolFrame DEF EpDisable, DropHeaders
<1>20. CASE EpOnHost
  BY <1>20, PoolFrame DEF EpOnHost
<1>21. CASE EpBulk
  BY <1>21, PoolFrame DEF EpBulk, BatchDone, ConsumeBuffer, SignalWork
<1>22. CASE EpBeatLock
  BY <1>22, PoolFrame DEF EpBeatLock
<1>23. CASE EpBeat
  BY <1>23, PoolFrame DEF EpBeat
<1>24. CASE EpClose
  BY <1>24, PoolFrame DEF EpClose, BroadcastReader, SignalWork, SignalSlotFree, SignalSlotFull
<1>25. CASE EpJoinReader
  BY <1>25, PoolFrame DEF EpJoinReader
<1>26. CASE EpJoinBlit
  BY <1>26, PoolFrame DEF EpJoinBlit, EndpointDown
<1>27. CASE ReaderQuit
  BY <1>27, PoolFrame DEF ReaderQuit
<1>28. CASE ReaderSleep
  BY <1>28, PoolFrame DEF ReaderSleep
<1>29. CASE ReaderTake
  BY <1>29, PoolFrame DEF ReaderTake, PoolFull
<1>30. CASE ReaderSlot
  BY <1>30, PoolFrame DEF ReaderSlot, PoolFull
<1>31. CASE ReaderSize
  <2>2. CASE slot' = slot /\ rpc' = "work"
    BY <1>31, <2>2, PoolFrame DEF ReaderSize
  <2>3. CASE slot' = [slot EXCEPT ![InIdx].px = <<>>] /\ (rpc' = "publish" => r.rect.want = 0)
    <3>1. Filled < NSlot /\ UNCHANGED <<blitted, sin, sout, r>>
      BY <1>31 DEF ReaderSize, PoolBound, Filling
    <3>2. rpc' = "publish" => <<>> = PacketsOf(r)
      BY <2>3, PacketFacts DEF DataType
    <3> QED BY <2>3, <3>1, <3>2, PxWrite
  <2> QED BY <1>31, <2>2, <2>3 DEF ReaderSize
<1>32. CASE ReaderIssue
  BY <1>32, PoolFrame DEF ReaderIssue
<1>33. CASE ReaderFailed
  BY <1>33, PoolFrame DEF ReaderFailed
<1>34. CASE ReaderPacket
  <2>1. PICK k \in Nat : Taken(k)
    BY <1>34, PacketTaken
  <2> DEFINE P == PacketsOf(flush)
  <2>2. /\ P \in Seq(Packet) /\ r = flush
        /\ k + 1 # Len(P) => rpc' = "reading"
        /\ slot' = [slot EXCEPT ![InIdx].px = SubSeq(P, 1, k + 1)]
    BY <2>1 DEF Taken
  <2>3. rpc' = "publish" => SubSeq(P, 1, k + 1) = PacketsOf(r)
    <3>1. SubSeq(P, 1, Len(P)) = P
      <4> HIDE DEF P
      <4>1. P \in Seq(Packet)
        BY <2>2
      <4> QED BY <4>1, SubSeqFull
    <3>2. CASE k + 1 = Len(P)
      BY <3>1, <3>2, <2>2
    <3>3. CASE k + 1 # Len(P)
      BY <3>3, <2>2
    <3> QED BY <3>2, <3>3
  <2>4. Filled < NSlot /\ UNCHANGED <<blitted, sin, sout, r>>
    BY <1>34 DEF ReaderPacket, PoolBound, Filling
  <2> HIDE DEF P
  <2> QED BY <2>2, <2>3, <2>4, PxWrite
<1>35. CASE ReaderPublish
  <2>1. PICK k \in Nat : k = Filled
    BY Positions
  <2>2. /\ k < NSlot /\ rpc' # "publish" /\ UNCHANGED <<blitted, sout>>
        /\ slot' = [slot EXCEPT ![InIdx].r = r] /\ sin' = Succ(sin) /\ Intact(r, slot[InIdx].px)
    BY <1>35, <2>1 DEF ReaderPublish, PoolBound, Filling, PoolPart
  <2>3. Filled' = k + 1
    BY <2>1, <2>2, PublishCounts
  <2>4. /\ InIdx = (sout + k) % NSlot /\ InIdx \in 0..NSlot - 1 /\ slot \in [0..NSlot - 1 -> Slot]
        /\ k \in 0..NSlot - 1
    <3>1. InIdx = (sout + k) % NSlot /\ InIdx \in 0..NSlot - 1
      BY <2>1, FirstFree
    <3>2. k < NSlot /\ NSlot \in Nat
      BY <2>2, SizeAssumption
    <3>3. k \in 0..NSlot - 1
      BY <3>2
    <3>4. slot \in [0..NSlot - 1 -> Slot]
      BY DEF DataType
    <3> QED BY <3>1, <3>3, <3>4
  <2> HIDE DEF InIdx
  <2>5. At(k)'.r = r /\ At(k)'.px = slot[InIdx].px
    <3>1. slot'[InIdx].r = r /\ slot'[InIdx].px = slot[InIdx].px
      BY <2>2, <2>4 DEF Slot
    <3> QED BY <3>1, <2>2, <2>4 DEF At
  <2>6. \A i \in 0..k - 1 : At(i)' = At(i)
    <3> SUFFICES ASSUME NEW i \in 0..k - 1
                 PROVE  slot'[(sout + i) % NSlot] = slot[(sout + i) % NSlot]
      BY <2>2 DEF At
    <3>1. i \in 0..NSlot - 1 /\ i # k
      BY <2>4, SizeAssumption
    <3>2. (sout + i) % NSlot # InIdx /\ (sout + i) % NSlot \in 0..NSlot - 1
      BY <2>4, <3>1, Positions
    <3> QED BY <2>2, <2>4, <3>2
  <2>7. \A i \in 0..k : Intact(At(i)'.r, At(i)'.px)
    <3>1. \A i \in 0..k - 1 : Intact(At(i).r, At(i).px)
      BY <2>1 DEF PoolPart, PoolIntact
    <3>2. Intact(At(k)'.r, At(k)'.px)
      BY <2>2, <2>5
    <3> QED BY <2>6, <3>1, <3>2
  <2>8. PoolIntact'
    BY <2>3, <2>7 DEF PoolIntact, Intact, PacketsOf
  <2>9. Aligned'
    BY <2>2 DEF PoolPart, Aligned, Intact, PacketsOf
  <2> QED BY <2>2, <2>8, <2>9 DEF PoolPart
<1>36. CASE BlitQuit
  BY <1>36, PoolFrame DEF BlitQuit
<1>37. CASE BlitTake
  BY <1>37, PoolFrame DEF BlitTake
<1>38. CASE BlitDecompress
  BY <1>38, PoolFrame DEF BlitDecompress
<1>39. CASE BlitDone
  <2>1. /\ Filled > 0 /\ OutIdx = (sout + 0) % NSlot /\ Filled \in Nat
        /\ blitted' = Append(blitted, At(0)) /\ UNCHANGED <<slot, sin, sout, rpc, r>>
    BY <1>39, Positions, SizeAssumption DEF BlitDone, At, PoolBound, Draining
  <2>2. Intact(At(0).r, At(0).px)
    BY <2>1 DEF PoolPart, PoolIntact
  <2>3. blitted \in Seq(Slot) /\ At(0) \in Slot
    BY PoolNat DEF DataType
  <2>4. /\ Len(blitted) \in Nat /\ DOMAIN blitted = 1..Len(blitted)
        /\ DOMAIN blitted' = 1..Len(blitted) + 1
        /\ blitted'[Len(blitted) + 1] = At(0)
        /\ \A i \in 1..Len(blitted) : blitted'[i] = blitted[i]
    BY <2>1, <2>3, AppendProperties, LenProperties
  <2>5. \A i \in DOMAIN blitted' : Intact(blitted'[i].r, blitted'[i].px)
    <3>1. \A i \in DOMAIN blitted : Intact(blitted[i].r, blitted[i].px)
      BY DEF PoolPart, Aligned
    <3> QED BY <3>1, <2>2, <2>4
  <2>6. Aligned'
    BY <2>5 DEF Aligned, Intact, PacketsOf
  <2>7. PoolIntact'
    BY <2>1, IntactStays DEF PoolPart
  <2>8. rpc' = "publish" => Intact(r, slot[InIdx].px)'
    BY <2>1 DEF PoolPart, InIdx, Intact, PacketsOf
  <2> QED BY <2>6, <2>7, <2>8 DEF PoolPart
<1>40. CASE BlitRelease
  <2>1. /\ Filled > 0 /\ sout' = Succ(sout) /\ UNCHANGED <<sin, slot, r, blitted>>
        /\ rpc' = "publish" => rpc = "publish"
    BY <1>40 DEF BlitRelease, PoolBound, Draining, SignalSlotFree
  <2>2. /\ Filled' = Filled - 1 /\ Filled \in Nat
        /\ \A i \in Nat : (sout' + i) % NSlot = (sout + (i + 1)) % NSlot
    BY <2>1, ReleaseCounts, Positions, SizeAssumption
  <2>3. \A i \in Nat : At(i)' = At(i + 1)
    BY <2>1, <2>2 DEF At
  <2>4. \A i \in 0..Filled - 2 : Intact(At(i)'.r, At(i)'.px)
    <3> SUFFICES ASSUME NEW i \in 0..Filled - 2 PROVE Intact(At(i)'.r, At(i)'.px)
      OBVIOUS
    <3>1. i \in Nat /\ i + 1 \in 0..Filled - 1
      BY <2>2
    <3>2. Intact(At(i + 1).r, At(i + 1).px)
      BY <3>1 DEF PoolPart, PoolIntact
    <3> QED BY <3>1, <3>2, <2>3
  <2>5. Filled' - 1 = Filled - 2
    BY <2>2
  <2>6. PoolIntact'
    BY <2>4, <2>5 DEF PoolIntact, Intact, PacketsOf
  <2>7. Aligned'
    BY <2>1 DEF PoolPart, Aligned, Intact, PacketsOf
  <2>8. rpc' = "publish" => Intact(r, slot[InIdx].px)'
    BY <2>1 DEF PoolPart, InIdx, Intact, PacketsOf
  <2> QED BY <2>6, <2>7, <2>8 DEF PoolPart
<1>41. CASE BlitLock
  BY <1>41, PoolFrame DEF BlitLock
<1>42. CASE Spurious
  BY <1>42, PoolFrame DEF Spurious
<1>43. CASE UNCHANGED vars
  BY <1>43, PoolFrame DEF vars
<1> HIDE DEF usbVars, btnVars, epVars, poolVars, readVars, fabVars
<1> QED BY <1>1, <1>2, <1>3, <1>4, <1>5, <1>6, <1>7, <1>8, <1>9, <1>10, <1>11, <1>12, <1>13, <1>14, <1>15, <1>16, <1>17, <1>18, <1>19, <1>20, <1>21, <1>22, <1>23, <1>24, <1>25, <1>26, <1>27, <1>28, <1>29, <1>30, <1>31, <1>32, <1>33, <1>34, <1>35, <1>36, <1>37, <1>38, <1>39, <1>40, <1>41, <1>42, <1>43
  DEF Next, HostAct, EpAct, ReaderAct, BlitAct

-----------------------------------------------------------------------------
(* One host's transfer. *)

\* A transfer before its first packet.
LEMMA WholeTransfer ==
  ASSUME OneHost, DataType, flush.rect \in Rects
  PROVE  LET P == PacketsOf(flush)
         IN  /\ P \in Seq(Packet) /\ Len(P) \in Nat /\ Len(P) > 0
             /\ Full(0) = 0 /\ SubSeq(P, 1, 0) = <<>> /\ SubSeq(P, 1, Len(P)) = P
             /\ <<>> \o P = P
             /\ \A k \in 0..Len(P) - 1 :
                  LET w == SubSeq(P, k + 1, Len(P))
                  IN  ~(\A i \in DOMAIN w : w[i].split)
<1> DEFINE P == PacketsOf(flush)
           K == Len(P)
<1>1. /\ flush \in Header /\ flush.rect.want > 0 /\ flush.rect.want \in Nat
      /\ MaxPacket \in Nat
  BY RectAssumption DEF DataType, OneHost
<1>2. P \in Seq(Packet) /\ K \in Nat /\ K > 0
  BY <1>1, PacketFacts
<1>3. SubSeq(P, 1, K) = P
  <2> HIDE DEF P
  <2> QED BY <1>2, SubSeqFull
<1>4. SubSeq(P, 1, 0) = <<>>
  <2> HIDE DEF P
  <2> QED BY <1>2
<1>5. <<>> \o P = P
  <2> HIDE DEF P
  <2> QED BY <1>2, ConcatEmptySeq
<1>6. Full(0) = 0
  BY <1>1 DEF Full
<1>7. ASSUME NEW k \in 0..K - 1
      PROVE  LET w == SubSeq(P, k + 1, K) IN ~(\A i \in DOMAIN w : w[i].split)
  <2>1. k \in Nat /\ k < K /\ 1 \in 1..K - k
    BY <1>2
  <2>2. k < Len(PacketsOf(flush))
    BY <2>1
  <2>3. P[k + 1].split = FALSE
    BY <1>1, <2>1, <2>2, PacketStep
  <2> HIDE DEF P
  <2> DEFINE w == SubSeq(P, k + 1, K)
  <2>4. DOMAIN w = 1..K - k /\ \A i \in 1..K - k : w[i] = P[k + i]
    BY <1>2, <2>1, NextOfRest
  <2>5. 1 \in DOMAIN w /\ w[1].split = FALSE
    BY <2>1, <2>3, <2>4
  <2> HIDE DEF w
  <2>6. ~(\A i \in DOMAIN w : w[i].split)
    BY <2>5
  <2> QED BY <2>6 DEF w
<1> QED
  <2> HIDE DEF P
  <2>1. \A k \in 0..K - 1 : LET w == SubSeq(P, k + 1, K) IN ~(\A i \in DOMAIN w : w[i].split)
    BY <1>7
  <2> QED BY <1>2, <1>3, <1>4, <1>5, <1>6, <2>1 DEF P

\* The slot the reader writes is the one it was writing, and as full.
PxKept == rpc \in Reading => slot'[InIdx'].px = slot[InIdx].px

LEMMA PartwayStays ==
  ASSUME UNCHANGED <<r, done, wire, flush>>, PxKept, rpc' \in Reading <=> rpc \in Reading
  PROVE  Partway(wire) => Partway(wire)'
<1>1. CASE rpc \in Reading
  BY <1>1 DEF Partway, PxKept, PacketsOf, Full
<1>2. CASE rpc \notin Reading
  BY <1>2 DEF Partway, PacketsOf
<1> QED BY <1>1, <1>2

LEMMA ServingFrame ==
  ASSUME ServePart, enabled' => enabled, rpc' # "done" => rpc # "done",
         UNCHANGED <<rectq, buffer, r, done, wire, flush, status, hpc>>, PxKept,
         ToFill' <=> ToFill, rpc' \in Reading <=> rpc \in Reading,
         rpc' = "reading" => rpc = "reading",
         InCtrl' <=> InCtrl, InCtrl => Head(batch').h = Head(batch).h
  PROVE  ServePart'
<1> SUFFICES ASSUME enabled', rpc' # "done" PROVE Serving'
  BY DEF ServePart
<1>1. Serving
  BY DEF ServePart
<1>2. Partway(wire) => Partway(wire)'
  BY PartwayStays
<1>3. Untouched => Untouched'
  <2>1. rpc # "reading" => rpc' # "reading"
    OBVIOUS
  <2>2. rpc \in Reading => slot'[InIdx'].px = slot[InIdx].px
    BY DEF PxKept
  <2> HIDE DEF InIdx
  <2> QED BY <2>1, <2>2 DEF Untouched
<1>4. (OneOwed => OneOwed') /\ (NoneOwed => NoneOwed')
  BY DEF OneOwed, NoneOwed, Owed
<1>5. CASE hpc \in {"idle", "setbuf"}
  BY <1>1, <1>4, <1>5 DEF Serving
<1>6. CASE hpc \in {"set", "status"}
  BY <1>1, <1>3, <1>4, <1>6 DEF Serving
<1>7. CASE hpc = "bulk"
  BY <1>1, <1>3, <1>4, <1>7 DEF Serving
<1>8. CASE hpc = "wait"
  BY <1>1, <1>2, <1>4, <1>8 DEF Serving
<1> QED BY <1>5, <1>6, <1>7, <1>8 DEF Serving

LEMMA ServeNext ==
  ASSUME OneHost, LinkPart, ServePart, KernelInv, ControlType, PoolBound, DataType, [Next]_vars
  PROVE  ServePart'
<1> USE DEF usbVars, btnVars, epVars, poolVars, readVars, fabVars
<1>1. CASE HostAttach
  <2>1. session = 0
    <3>1. MaxSessions <= 1 /\ MaxSessions \in Nat /\ session \in Nat /\ session < MaxSessions
      BY <1>1, BoundAssumption DEF OneHost, HostAttach, DataType
    <3> QED BY <3>1
  <2>2. /\ wire = <<>> /\ batch = <<>> /\ rectq = <<>> /\ buffer = <<>>
        /\ rpc \in {"work", "sleepWork", "done"} /\ epc \notin {"setup", "ctrl"}
    BY <2>1 DEF LinkPart, DataType
  <2>3. UNCHANGED <<wire, batch, rectq, buffer, rpc, epc>> /\ hpc' = "idle"
    BY <1>1 DEF HostAttach
  <2> QED BY <2>2, <2>3 DEF ServePart, Serving, NoneOwed, Owed, ToFill, Reading, InCtrl
<1>2. CASE HostDetach
  BY <1>2 DEF ServePart, HostDetach, EndpointDown
<1>3. CASE HostSetBuffer
  <2>1. /\ hpc = "idle" /\ hpc' = "setbuf"
        /\ UNCHANGED <<enabled, wire, rectq, buffer, rpc, epc, batch>>
    BY <1>3 DEF HostSetBuffer
  <2>2. NoneOwed' <=> NoneOwed
    BY <2>1 DEF NoneOwed, Owed, ToFill
  <2>3. InCtrl' <=> InCtrl
    BY <2>1 DEF InCtrl
  <2> QED BY <2>1, <2>2, <2>3 DEF ServePart, Serving
<1>4. CASE HostGetStatus
  <2>1. /\ hpc = "set" /\ hpc' = "status"
        /\ UNCHANGED <<enabled, wire, rectq, buffer, rpc, epc, batch, flush, r, done, slot, sin, status>>
    BY <1>4 DEF HostGetStatus
  <2>2. (NoneOwed' <=> NoneOwed) /\ (OneOwed' <=> OneOwed)
    BY <2>1 DEF NoneOwed, OneOwed, Owed, ToFill
  <2>3. (InCtrl' <=> InCtrl) /\ (Untouched' <=> Untouched)
    BY <2>1 DEF InCtrl, Untouched, InIdx
  <2> QED BY <2>1, <2>2, <2>3 DEF ServePart, Serving
<1>5. CASE HostBulk
  <2>1. /\ hpc = "bulk" /\ hpc' = "wait" /\ wire' = wire \o PacketsOf(flush)
        /\ UNCHANGED <<enabled, rectq, buffer, rpc, epc, batch, flush, r, done, slot, sin, status>>
    BY <1>5 DEF HostBulk
  <2>2. /\ OneOwed' <=> OneOwed
        /\ InCtrl' <=> InCtrl
    BY <2>1 DEF OneOwed, Owed, ToFill, InCtrl
  <2> SUFFICES ASSUME enabled, rpc # "done" PROVE Serving'
    BY <2>1 DEF ServePart
  <2>3. OneOwed /\ Untouched /\ wire = <<>> /\ ~InCtrl
    BY <2>1 DEF ServePart, Serving
  <2>4. flush.rect \in Rects
    BY <2>1 DEF LinkPart
  <2>5. wire' = PacketsOf(flush)
    BY <2>1, <2>3, <2>4, WholeTransfer
  <2>6. Partway(wire)'
    <3>1. CASE rpc \in Reading
      <4>1. r = flush /\ done = 0 /\ slot[InIdx].px = <<>>
        BY <2>3, <3>1 DEF OneOwed, Owed, ToFill, Untouched
      <4> DEFINE P == PacketsOf(flush)
      <4>2. /\ 0 \in 0..Len(P) - 1 /\ done = Full(0) /\ slot[InIdx].px = SubSeq(P, 1, 0)
            /\ wire' = SubSeq(P, 0 + 1, Len(P))
        BY <2>4, <2>5, <4>1, WholeTransfer
      <4>3. /\ done' = Full(0) /\ slot'[InIdx'].px = SubSeq(P, 1, 0) /\ r' = flush
            /\ wire' = SubSeq(P, 0 + 1, Len(P)) /\ rpc' \in Reading
        BY <2>1, <3>1, <4>1, <4>2 DEF InIdx
      <4> HIDE DEF InIdx
      <4> QED BY <4>2, <4>3 DEF Partway, PacketsOf, Full
    <3>2. CASE rpc \notin Reading
      BY <2>1, <2>5, <3>2 DEF Partway, PacketsOf
    <3> QED BY <3>1, <3>2
  <2> QED BY <2>1, <2>2, <2>3, <2>6 DEF Serving
<1>6. CASE HostBulkDone
  <2>1. /\ hpc = "wait" /\ hpc' = "idle" /\ \A i \in DOMAIN wire : wire[i].split
        /\ UNCHANGED <<enabled, wire, rectq, buffer, rpc, epc, batch>>
    BY <1>6 DEF HostBulkDone
  <2>2. /\ NoneOwed' <=> NoneOwed
        /\ InCtrl' <=> InCtrl
    BY <2>1 DEF NoneOwed, Owed, ToFill, InCtrl
  <2> SUFFICES ASSUME enabled, rpc # "done" PROVE Serving'
    BY <2>1 DEF ServePart
  <2>3. flush.rect \in Rects
    BY <2>1 DEF LinkPart
  <2>4. ~(OneOwed /\ Partway(wire))
    <3> SUFFICES ASSUME OneOwed, Partway(wire) PROVE FALSE
      OBVIOUS
    <3> DEFINE P == PacketsOf(flush)
    <3>1. PICK k \in 0..Len(P) - 1 : wire = SubSeq(P, k + 1, Len(P))
      <4>1. CASE rpc \in Reading
        <5>1. r = flush
          BY <4>1 DEF OneOwed, Owed, ToFill
        <5> QED BY <4>1, <5>1 DEF Partway
      <4>2. CASE rpc \notin Reading
        <5>1. wire = P /\ 0 \in 0..Len(P) - 1 /\ SubSeq(P, 0 + 1, Len(P)) = P
          BY <2>3, <4>2, WholeTransfer DEF Partway
        <5> QED BY <5>1
      <4> QED BY <4>1, <4>2
    <3>2. ~(\A i \in DOMAIN wire : wire[i].split)
      BY <2>3, <3>1, WholeTransfer
    <3> QED BY <2>1, <3>2
  <2>5. NoneOwed /\ wire = <<>> /\ ~InCtrl
    BY <2>1, <2>4 DEF ServePart, Serving
  <2> QED BY <2>1, <2>2, <2>5 DEF Serving
<1>7. CASE UserPress
  BY <1>7, ServingFrame DEF UserPress, PxKept, InIdx, ToFill, Reading, InCtrl
<1>8. CASE \E how \in {"silent", "zlp"} : HostGiveUp(how)
  BY <1>8 DEF HostGiveUp, OneHost
<1>9. CASE Stop
  BY <1>9, ServingFrame DEF Stop, PxKept, InIdx, ToFill, Reading, InCtrl
<1>10. CASE EpPoll
  BY <1>10, ServingFrame DEF EpPoll, PxKept, InIdx, ToFill, Reading, InCtrl
<1>11. CASE EpNoPress
  BY <1>11, ServingFrame DEF EpNoPress, PxKept, InIdx, ToFill, Reading, InCtrl
<1>12. CASE EpPressUnbind
  BY <1>12 DEF ServePart, EpPressUnbind, EndpointDown
<1>13. CASE EpPressBind
  BY <1>13, ServingFrame DEF EpPressBind, PxKept, InIdx, ToFill, Reading, InCtrl
<1>14. CASE EpIdleBeat
  BY <1>14, ServingFrame DEF EpIdleBeat, PxKept, InIdx, ToFill, Reading, InCtrl
<1>15. CASE EpSetup
  <2>1. /\ epc = "event" /\ batch # <<>> /\ ~InCtrl
        /\ UNCHANGED <<enabled, wire, flush, rectq, buffer, rpc, r, done, slot, sin, status>>
    BY <1>15 DEF EpSetup, InCtrl
  <2>2. CASE /\ Head(batch).type = "SET_BUFFER" /\ hpc = "setbuf" /\ flush = Head(batch).h
             /\ hpc' = "set" /\ epc' = "setup" /\ batch' = batch
    <3>1. InCtrl' /\ Head(batch').h = flush' /\ (NoneOwed' <=> NoneOwed)
      BY <2>1, <2>2 DEF InCtrl, NoneOwed, Owed, ToFill
    <3> QED BY <2>1, <2>2, <3>1 DEF ServePart, Serving
  <2>3. CASE hpc' = hpc /\ ~InCtrl'
    BY <2>1, <2>3, ServingFrame DEF PxKept, InIdx, ToFill
  <2> QED BY <1>15, <2>1, <2>2, <2>3 DEF EpSetup, InCtrl
<1>16. CASE EpCtrlLock
  BY <1>16, ServingFrame DEF EpCtrlLock, PxKept, InIdx, ToFill, Reading, InCtrl
<1>17. CASE EpCtrl
  <2>1. /\ epc = "ctrl" /\ ~InCtrl'
        /\ UNCHANGED <<enabled, wire, flush, rectq, rpc, r, done, slot, sin>>
    BY <1>17 DEF EpCtrl, InCtrl
  <2> SUFFICES ASSUME enabled, rpc # "done" PROVE Serving'
    BY <2>1 DEF ServePart
  <2>2. Serving /\ hpc # "gone"
    BY DEF ServePart, KernelInv
  <2>3. CASE Head(batch).type = "SET_BUFFER"
    <3>1. InCtrl
      BY <2>1, <2>3 DEF InCtrl
    <3>2. hpc \in {"set", "status"} /\ wire = <<>> /\ NoneOwed /\ Head(batch).h = flush
      BY <2>2, <3>1 DEF Serving, ControlType
    <3>3. hpc' = hpc /\ ((buffer' = <<flush>> /\ status' = "ok") \/ (status' = "err" /\ buffer' = buffer))
      BY <1>17, <2>3, <3>2 DEF EpCtrl
    <3>4. CASE buffer' = <<flush>> /\ status' = "ok"
      <4>1. OneOwed' /\ Untouched'
        BY <2>1, <3>2, <3>4 DEF OneOwed, NoneOwed, Owed, ToFill, Untouched, Reading
      <4> QED BY <2>1, <3>2, <3>3, <3>4, <4>1 DEF Serving
    <3>5. CASE status' = "err" /\ buffer' = buffer
      <4>1. NoneOwed'
        BY <2>1, <3>2, <3>5 DEF NoneOwed, Owed, ToFill
      <4> QED BY <2>1, <3>2, <3>3, <3>5, <4>1 DEF Serving
    <3> QED BY <3>3, <3>4, <3>5
  <2>4. CASE Head(batch).type = "GET_STATUS"
    <3>1. ~InCtrl /\ UNCHANGED <<buffer, status>>
      BY <1>17, <2>4 DEF EpCtrl, InCtrl
    <3>2. CASE hpc = "status" /\ hpc' = IF status = "ok" THEN "bulk" ELSE "idle"
      <4>1. /\ (NoneOwed' <=> NoneOwed) /\ (OneOwed' <=> OneOwed) /\ (Untouched' <=> Untouched)
        BY <2>1, <3>1 DEF NoneOwed, OneOwed, Owed, ToFill, Untouched, InIdx
      <4>2. wire = <<>> /\ IF status = "ok" THEN OneOwed /\ Untouched ELSE NoneOwed
        BY <2>2, <3>1, <3>2 DEF Serving
      <4> QED BY <2>1, <3>1, <3>2, <4>1, <4>2 DEF Serving
    <3>3. CASE hpc' = hpc
      <4>1. ServePart'
        BY <2>1, <3>1, <3>3, ServingFrame DEF PxKept, InIdx, ToFill
      <4> QED BY <4>1, <2>1 DEF ServePart
    <3> QED BY <1>17, <2>4, <3>2, <3>3 DEF EpCtrl
  <2> QED BY <1>17, <2>3, <2>4 DEF EpCtrl
<1>18. CASE EpEnable
  BY <1>18, ServingFrame DEF EpEnable, PxKept, InIdx, ToFill, Reading, InCtrl
<1>19. CASE EpDisable
  <2>1. ~enabled'
    BY <1>19 DEF EpDisable, LinkPart
  <2> QED BY <2>1 DEF ServePart
<1>20. CASE EpOnHost
  <2>1. CASE epc = "attach"
    BY <1>20, <2>1, ServingFrame DEF EpOnHost, PxKept, InIdx, ToFill, InCtrl
  <2>2. CASE epc \in {"detach", "unbind"}
    <3>1. ~enabled
      BY <2>2 DEF KernelInv, LinkPart, DataType
    <3> QED BY <1>20, <3>1 DEF EpOnHost, ServePart
  <2> QED BY <1>20, <2>1, <2>2 DEF EpOnHost
<1>21. CASE EpBulk
  <2>1. /\ buffer' = <<>> /\ ~InCtrl /\ ~InCtrl'
        /\ UNCHANGED <<enabled, wire, flush, hpc, status, r, done, slot, sin>>
        /\ rpc' = rpc \/ (rpc = "sleepWork" /\ rpc' = "work")
    BY <1>21 DEF EpBulk, BatchDone, ConsumeBuffer, SignalWork, InCtrl
  <2> SUFFICES ASSUME enabled, rpc # "done" PROVE ServePart'
    BY <2>1 DEF ServePart
  <2>2. CASE buffer = <<>>
    <3>1. rectq' = rectq /\ buffer' = buffer /\ rpc' = rpc
      BY <1>21, <2>2 DEF EpBulk, ConsumeBuffer
    <3> QED BY <2>1, <3>1, ServingFrame DEF PxKept, InIdx, ToFill
  <2>3. CASE buffer # <<>>
    <3>1. ~NoneOwed
      BY <2>3 DEF NoneOwed, Owed
    <3>2. hpc \in {"set", "status", "bulk", "wait"} /\ OneOwed
      BY <2>1, <3>1 DEF ServePart, Serving, ControlType, KernelInv
    <3>3. ~ToFill /\ rectq = <<>> /\ buffer = <<flush>>
      BY <2>3, <3>2 DEF OneOwed, Owed
    <3>4. ~QueueFull
      BY <3>3, SizeAssumption DEF QueueFull
    <3>5. rectq' = <<flush>>
      BY <1>21, <3>3, <3>4 DEF EpBulk
    <3>6. rpc \notin Reading /\ rpc' \notin Reading /\ ~ToFill'
      BY <2>1, <3>3 DEF ToFill, Reading
    <3>7. OneOwed' /\ ~NoneOwed /\ Untouched'
      BY <2>1, <3>1, <3>5, <3>6 DEF OneOwed, Owed, Untouched, Reading
    <3>8. Partway(wire) => Partway(wire)'
      BY <2>1, <3>6, PartwayStays DEF PxKept
    <3>9. Serving
      BY DEF ServePart
    <3> QED BY <2>1, <3>1, <3>2, <3>7, <3>8, <3>9 DEF ServePart, Serving
  <2> QED BY <2>2, <2>3
<1>22. CASE EpBeatLock
  BY <1>22, ServingFrame DEF EpBeatLock, PxKept, InIdx, ToFill, Reading, InCtrl
<1>23. CASE EpBeat
  BY <1>23, ServingFrame DEF EpBeat, PxKept, InIdx, ToFill, Reading, InCtrl
<1>24. CASE EpClose
  BY <1>24, ServingFrame DEF EpClose, BroadcastReader, SignalWork, SignalSlotFree, SignalSlotFull, PxKept, InIdx, ToFill, Reading, InCtrl
<1>25. CASE EpJoinReader
  BY <1>25, ServingFrame DEF EpJoinReader, PxKept, InIdx, ToFill, Reading, InCtrl
<1>26. CASE EpJoinBlit
  BY <1>26 DEF ServePart, EpJoinBlit, EndpointDown
<1>27. CASE ReaderQuit
  BY <1>27 DEF ServePart, ReaderQuit
<1>28. CASE ReaderSleep
  BY <1>28, ServingFrame DEF ReaderSleep, PxKept, InIdx, ToFill, Reading, InCtrl
<1>29. CASE ReaderTake
  <2>1. /\ rpc = "work" /\ rectq # <<>> /\ r' = Head(rectq) /\ rectq' = Tail(rectq)
        /\ rpc' \in {"sleepSlot", "size"}
        /\ UNCHANGED <<enabled, wire, flush, hpc, status, buffer, epc, batch>>
    BY <1>29 DEF ReaderTake
  <2> SUFFICES ASSUME enabled, rpc # "done" PROVE Serving'
    BY <2>1 DEF ServePart
  <2>2. ~NoneOwed /\ (InCtrl' <=> InCtrl) /\ rpc \notin Reading /\ rpc' \notin Reading
    BY <2>1 DEF NoneOwed, Owed, InCtrl, Reading
  <2>3. hpc \in {"set", "status", "bulk", "wait"} /\ OneOwed /\ Serving
    BY <2>2 DEF ServePart, Serving, ControlType, KernelInv
  <2>4. rectq = <<flush>> /\ buffer = <<>>
    BY <2>1, <2>3 DEF OneOwed, Owed
  <2>5. OneOwed' /\ Untouched'
    BY <2>1, <2>2, <2>4 DEF OneOwed, Owed, ToFill, Untouched, Reading
  <2>6. Partway(wire) => Partway(wire)'
    BY <2>1, <2>2 DEF Partway, PacketsOf
  <2> QED BY <2>1, <2>2, <2>3, <2>5, <2>6 DEF Serving
<1>30. CASE ReaderSlot
  BY <1>30, ServingFrame DEF ReaderSlot, PoolFull, PxKept, InIdx, ToFill, Reading, InCtrl
<1>31. CASE ReaderSize
  <2>1. /\ rpc = "size" /\ done' = 0
        /\ UNCHANGED <<enabled, wire, flush, hpc, status, buffer, rectq, epc, batch, sin, r>>
    BY <1>31 DEF ReaderSize
  <2> SUFFICES ASSUME enabled, rpc # "done" PROVE Serving'
    BY <2>1 DEF ServePart
  <2>2. ~NoneOwed /\ (InCtrl' <=> InCtrl) /\ rpc \notin Reading /\ ToFill
    BY <2>1 DEF NoneOwed, Owed, InCtrl, Reading, ToFill
  <2>3. hpc \in {"set", "status", "bulk", "wait"} /\ OneOwed /\ Serving
    BY <2>2 DEF ServePart, Serving, ControlType, KernelInv
  <2>4. r = flush /\ r.rect \in Rects /\ rectq = <<>> /\ buffer = <<>>
    BY <2>2, <2>3 DEF OneOwed, Owed, LinkPart
  <2>5. rpc' = "issue" /\ slot' = [slot EXCEPT ![InIdx].px = <<>>]
    <3>1. r.rect.want > 0 /\ r.rect.want <= BulkBuf /\ r.rect.length <= BulkBuf
      BY <2>4 DEF OneHost
    <3>2. /\ r.rect.want \in Nat /\ r.rect.length \in Nat /\ BulkBuf \in Nat
      BY <2>4, RectAssumption
    <3>3. ~(r.rect.want > BulkBuf \/ r.rect.length > BulkBuf) /\ r.rect.want # 0
      BY <3>1, <3>2
    <3> QED BY <1>31, <3>3 DEF ReaderSize
  <2>6. slot'[InIdx'].px = <<>> /\ rpc' \in Reading
    <3>1. InIdx \in 0..NSlot - 1 /\ slot \in [0..NSlot - 1 -> Slot] /\ InIdx' = InIdx
      <4>1. sin \in Nat
        BY Positions
      <4> QED BY <2>1, <4>1, SizeAssumption, SlotIndex DEF DataType, InIdx
    <3> HIDE DEF InIdx
    <3> QED BY <2>5, <3>1 DEF Slot, Reading
  <2> HIDE DEF InIdx
  <2>7. OneOwed' /\ Untouched'
    BY <2>1, <2>4, <2>5, <2>6 DEF OneOwed, Owed, ToFill, Untouched, Reading
  <2>8. ASSUME hpc = "wait" PROVE Partway(wire)'
    <3> DEFINE P == PacketsOf(flush)
    <3>1. wire = P
      BY <2>2, <2>3, <2>8 DEF Serving, Partway
    <3>2. /\ 0 \in 0..Len(P) - 1 /\ 0 = Full(0) /\ <<>> = SubSeq(P, 1, 0)
          /\ wire = SubSeq(P, 0 + 1, Len(P))
      BY <2>4, <3>1, WholeTransfer
    <3>3. /\ done' = Full(0) /\ slot'[InIdx'].px = SubSeq(P, 1, 0) /\ r' = flush
          /\ wire' = SubSeq(P, 0 + 1, Len(P)) /\ rpc' \in Reading
      BY <2>1, <2>4, <2>6, <3>2
    <3> QED BY <3>2, <3>3 DEF Partway, PacketsOf, Full
  <2> QED BY <2>1, <2>2, <2>3, <2>7, <2>8 DEF Serving
<1>32. CASE ReaderIssue
  BY <1>32, ServingFrame DEF ReaderIssue, PxKept, InIdx, ToFill, Reading, InCtrl
<1>33. CASE ReaderFailed
  <2>1. ~enabled'
    BY <1>33 DEF ReaderFailed, LinkPart
  <2> QED BY <2>1 DEF ServePart
<1>34. CASE ReaderPacket
  <2>1. PICK k \in Nat : Taken(k)
    BY <1>34, PacketTaken
  <2> DEFINE P == PacketsOf(flush)
             K == Len(P)
  <2>2. /\ hpc = "wait" /\ OneOwed /\ r = flush /\ ToFill
        /\ P \in Seq(Packet) /\ k < K /\ K \in Nat
        /\ slot' = [slot EXCEPT ![InIdx].px = SubSeq(P, 1, k + 1)]
        /\ wire' = SubSeq(P, k + 2, K)
        /\ k + 1 = K => rpc' = "publish"
        /\ k + 1 # K => rpc' = "reading" /\ done' = Full(k + 1)
    BY <2>1 DEF Taken, ToFill, Reading
  <2>3. UNCHANGED <<enabled, flush, hpc, status, buffer, rectq, epc, batch, sin, r>>
    BY <1>34 DEF ReaderPacket
  <2> SUFFICES ASSUME enabled, rpc # "done" PROVE Serving'
    BY <1>34, <2>3 DEF ServePart, ReaderPacket
  <2>4. ~InCtrl' /\ rectq = <<>> /\ buffer = <<>>
    BY <2>2, <2>3 DEF ServePart, Serving, InCtrl, OneOwed, Owed
  <2>5. CASE k + 1 = K
    <3>1. wire' = <<>>
      <4> HIDE DEF P
      <4> QED BY <2>2, <2>5
    <3>2. NoneOwed'
      BY <2>2, <2>3, <2>4, <2>5 DEF NoneOwed, Owed, ToFill, Reading
    <3> QED BY <2>2, <2>3, <2>4, <3>1, <3>2 DEF Serving
  <2>6. CASE k + 1 # K
    <3>1. OneOwed'
      BY <2>2, <2>3, <2>4, <2>6 DEF OneOwed, Owed, ToFill, Reading
    <3>2. slot'[InIdx'].px = SubSeq(P, 1, k + 1)
      <4>1. InIdx \in 0..NSlot - 1 /\ slot \in [0..NSlot - 1 -> Slot] /\ InIdx' = InIdx
        <5>1. sin \in Nat
          BY Positions
        <5> QED BY <2>3, <5>1, SizeAssumption, SlotIndex DEF DataType, InIdx
      <4> HIDE DEF InIdx, P
      <4> QED BY <2>2, <4>1 DEF Slot
    <3> HIDE DEF InIdx
    <3>3. k + 1 \in 0..K - 1 /\ k + 2 = (k + 1) + 1
      BY <2>2, <2>6
    <3>4. /\ done' = Full(k + 1) /\ slot'[InIdx'].px = SubSeq(P, 1, k + 1) /\ r' = flush
          /\ wire' = SubSeq(P, (k + 1) + 1, Len(P)) /\ rpc' \in Reading
      BY <2>2, <2>3, <2>6, <3>2, <3>3 DEF Reading
    <3>5. Partway(wire)'
      BY <3>3, <3>4 DEF Partway, PacketsOf, Full
    <3> QED BY <2>2, <2>3, <2>4, <3>1, <3>5 DEF Serving
  <2> QED BY <2>5, <2>6
<1>35. CASE ReaderPublish
  BY <1>35, ServingFrame DEF ReaderPublish, PxKept, InIdx, ToFill, Reading, InCtrl
<1>36. CASE BlitQuit
  BY <1>36, ServingFrame DEF BlitQuit, PxKept, InIdx, ToFill, Reading, InCtrl
<1>37. CASE BlitTake
  BY <1>37, ServingFrame DEF BlitTake, PxKept, InIdx, ToFill, Reading, InCtrl
<1>38. CASE BlitDecompress
  BY <1>38, ServingFrame DEF BlitDecompress, PxKept, InIdx, ToFill, Reading, InCtrl
<1>39. CASE BlitDone
  BY <1>39, ServingFrame DEF BlitDone, PxKept, InIdx, ToFill, Reading, InCtrl
<1>40. CASE BlitRelease
  BY <1>40, ServingFrame DEF BlitRelease, SignalSlotFree, PxKept, InIdx, ToFill, Reading, InCtrl
<1>41. CASE BlitLock
  BY <1>41, ServingFrame DEF BlitLock, PxKept, InIdx, ToFill, Reading, InCtrl
<1>42. CASE Spurious
  BY <1>42, ServingFrame DEF Spurious, PxKept, InIdx, ToFill, Reading, InCtrl
<1>43. CASE UNCHANGED vars
  BY <1>43, ServingFrame DEF vars, PxKept, InIdx, ToFill, InCtrl
<1> HIDE DEF usbVars, btnVars, epVars, poolVars, readVars, fabVars
<1> QED BY <1>1, <1>2, <1>3, <1>4, <1>5, <1>6, <1>7, <1>8, <1>9, <1>10, <1>11, <1>12, <1>13, <1>14, <1>15, <1>16, <1>17, <1>18, <1>19, <1>20, <1>21, <1>22, <1>23, <1>24, <1>25, <1>26, <1>27, <1>28, <1>29, <1>30, <1>31, <1>32, <1>33, <1>34, <1>35, <1>36, <1>37, <1>38, <1>39, <1>40, <1>41, <1>42, <1>43
  DEF Next, HostAct, EpAct, ReaderAct, BlitAct

LEMMA AlignInit == Init /\ OneHost => AlignInv
<1> SUFFICES ASSUME Init, OneHost PROVE AlignInv
  OBVIOUS
<1>1. /\ ~enabled /\ blitted = <<>> /\ Filled = 0 /\ rpc = "work" /\ hpc = "gone"
      /\ wire = <<>> /\ events = <<>> /\ batch = <<>> /\ rectq = <<>> /\ buffer = <<>>
      /\ session = 0
  BY SizeAssumption DEF Init, Filled
<1>2. PoolPart
  BY <1>1 DEF PoolPart, Aligned, PoolIntact
<1>3. LinkPart /\ ServePart
  BY <1>1 DEF LinkPart, ServePart
<1> QED BY <1>2, <1>3 DEF AlignInv

LEMMA AlignAlways == ASSUME OneHost PROVE Spec => []AlignInv
<1>1. Init => AlignInv
  BY AlignInit
<1>2. /\ AlignInv /\ KernelInv /\ ControlType /\ PoolBound /\ DataType /\ [Next]_vars
      => AlignInv'
  BY LinkNext, PoolNext, ServeNext DEF AlignInv
<1>3. Spec => [](KernelInv /\ ControlType /\ PoolBound /\ DataType)
  <2>1. PoolInv => ControlType /\ PoolBound
    BY DEF PoolInv
  <2> QED BY <2>1, PoolInvAlways, KernelAlways, DataAlways, PTL
<1> QED BY <1>1, <1>2, <1>3, PTL DEF Spec

\* While one host streams, what is blitted for a header is that header's own
\* packets, all of them and no other's: over any number of frames, queue and
\* pool sizes, and with the host pressing the button, leaving or the daemon
\* stopping at any point (the RECTQ and BULK_MAXPACKET comments of gadget.c).
THEOREM PixelsAreTheHeaders == ASSUME OneHost PROVE Spec => []Aligned
<1>1. AlignInv => Aligned
  BY DEF AlignInv, PoolPart
<1> QED BY <1>1, AlignAlways, PTL

-----------------------------------------------------------------------------
(* The abstract queue. *)

\* The host of FifoSpec: one that streams and stays, and a daemon that runs on.
Steady == OneHost /\ ~MayDetach /\ MaxPresses = 0 /\ ~MayStop
SteadyInv ==
  /\ running /\ presses = 0 /\ ~button
  /\ epc \notin {"unbind", "joinReader", "joinBlit", "closed"} /\ rpc # "done"
  /\ session # 0 => enabled
  /\ flush.n <= MaxFrames /\ (hpc \notin {"gone", "idle"} => flush.n # 0)

LEMMA SteadyNext ==
  ASSUME Steady, SteadyInv, DataType, [Next]_vars
  PROVE  SteadyInv'
<1> USE DEF usbVars, btnVars, epVars, poolVars, readVars, fabVars
<1>1. CASE HostAttach
  BY <1>1 DEF SteadyInv, HostAttach
<1>2. CASE HostDetach
  BY <1>2 DEF HostDetach, Steady
<1>3. CASE HostSetBuffer
  <2>1. flush.n \in Nat /\ flush.n < MaxFrames /\ MaxFrames \in Nat
    BY <1>3, BoundAssumption DEF HostSetBuffer, DataType, Header
  <2>2. flush'.n = flush.n + 1
    BY <1>3 DEF HostSetBuffer
  <2> QED BY <1>3, <2>1, <2>2 DEF HostSetBuffer, SteadyInv
<1>4. CASE HostGetStatus
  BY <1>4 DEF SteadyInv, HostGetStatus
<1>5. CASE HostBulk
  BY <1>5 DEF SteadyInv, HostBulk
<1>6. CASE HostBulkDone
  BY <1>6 DEF SteadyInv, HostBulkDone
<1>7. CASE UserPress
  BY <1>7 DEF UserPress, Steady, SteadyInv
<1>8. CASE \E how \in {"silent", "zlp"} : HostGiveUp(how)
  BY <1>8 DEF HostGiveUp, Steady, OneHost
<1>9. CASE Stop
  BY <1>9 DEF Stop, Steady
<1>10. CASE EpPoll
  BY <1>10 DEF SteadyInv, EpPoll
<1>11. CASE EpNoPress
  BY <1>11 DEF SteadyInv, EpNoPress
<1>12. CASE EpPressUnbind
  BY <1>12 DEF SteadyInv, EpPressUnbind, EndpointDown
<1>13. CASE EpPressBind
  BY <1>13 DEF SteadyInv, EpPressBind
<1>14. CASE EpIdleBeat
  BY <1>14 DEF SteadyInv, EpIdleBeat
<1>15. CASE EpSetup
  BY <1>15 DEF SteadyInv, EpSetup
<1>16. CASE EpCtrlLock
  BY <1>16 DEF SteadyInv, EpCtrlLock
<1>17. CASE EpCtrl
  BY <1>17 DEF SteadyInv, EpCtrl
<1>18. CASE EpEnable
  BY <1>18 DEF SteadyInv, EpEnable
<1>19. CASE EpDisable
  BY <1>19 DEF SteadyInv, EpDisable, DropHeaders
<1>20. CASE EpOnHost
  BY <1>20 DEF EpOnHost, SteadyInv
<1>21. CASE EpBulk
  BY <1>21 DEF SteadyInv, EpBulk, BatchDone, ConsumeBuffer, SignalWork
<1>22. CASE EpBeatLock
  BY <1>22 DEF SteadyInv, EpBeatLock
<1>23. CASE EpBeat
  BY <1>23 DEF SteadyInv, EpBeat
<1>24. CASE EpClose
  BY <1>24 DEF SteadyInv, EpClose, BroadcastReader, SignalWork, SignalSlotFree, SignalSlotFull
<1>25. CASE EpJoinReader
  BY <1>25 DEF SteadyInv, EpJoinReader
<1>26. CASE EpJoinBlit
  BY <1>26 DEF SteadyInv, EpJoinBlit, EndpointDown
<1>27. CASE ReaderQuit
  BY <1>27 DEF SteadyInv, ReaderQuit
<1>28. CASE ReaderSleep
  BY <1>28 DEF SteadyInv, ReaderSleep
<1>29. CASE ReaderTake
  BY <1>29 DEF SteadyInv, ReaderTake, PoolFull
<1>30. CASE ReaderSlot
  BY <1>30 DEF SteadyInv, ReaderSlot, PoolFull
<1>31. CASE ReaderSize
  BY <1>31 DEF SteadyInv, ReaderSize
<1>32. CASE ReaderIssue
  BY <1>32 DEF SteadyInv, ReaderIssue
<1>33. CASE ReaderFailed
  BY <1>33 DEF SteadyInv, ReaderFailed
<1>34. CASE ReaderPacket
  BY <1>34 DEF SteadyInv, ReaderPacket, AfterPacket
<1>35. CASE ReaderPublish
  BY <1>35 DEF SteadyInv, ReaderPublish
<1>36. CASE BlitQuit
  BY <1>36 DEF SteadyInv, BlitQuit
<1>37. CASE BlitTake
  BY <1>37 DEF SteadyInv, BlitTake
<1>38. CASE BlitDecompress
  BY <1>38 DEF SteadyInv, BlitDecompress
<1>39. CASE BlitDone
  BY <1>39 DEF SteadyInv, BlitDone
<1>40. CASE BlitRelease
  BY <1>40 DEF SteadyInv, BlitRelease, SignalSlotFree
<1>41. CASE BlitLock
  BY <1>41 DEF SteadyInv, BlitLock
<1>42. CASE Spurious
  <2>1. /\ UNCHANGED <<running, presses, button, epc, session, enabled, flush, hpc>>
        /\ rpc' = rpc \/ rpc' = "work" \/ rpc' = "slot"
    BY <1>42 DEF Spurious
  <2> QED BY <2>1 DEF SteadyInv
<1>43. CASE UNCHANGED vars
  BY <1>43 DEF vars, SteadyInv
<1> HIDE DEF usbVars, btnVars, epVars, poolVars, readVars, fabVars
<1> QED BY <1>1, <1>2, <1>3, <1>4, <1>5, <1>6, <1>7, <1>8, <1>9, <1>10, <1>11, <1>12, <1>13, <1>14, <1>15, <1>16, <1>17, <1>18, <1>19, <1>20, <1>21, <1>22, <1>23, <1>24, <1>25, <1>26, <1>27, <1>28, <1>29, <1>30, <1>31, <1>32, <1>33, <1>34, <1>35, <1>36, <1>37, <1>38, <1>39, <1>40, <1>41, <1>42, <1>43
  DEF Next, HostAct, EpAct, ReaderAct, BlitAct

-----------------------------------------------------------------------------
(* The rects under way, as sequences. *)

\* A list given by its elements.
LEMMA Listed ==
  ASSUME NEW S, NEW n \in Nat, NEW f, f \in [1..n -> S]
  PROVE  f \in Seq(S) /\ Len(f) = n
OBVIOUS

\* Lists with the same elements.
LEMMA SameList ==
  ASSUME NEW S, NEW s \in Seq(S), NEW t \in Seq(S), NEW n \in Nat, Len(s) = n, Len(t) = n,
         \A i \in 1..n : s[i] = t[i]
  PROVE  s = t
BY SeqEqual

\* The released position does not count.
Off == IF bpc = "release" THEN 1 ELSE 0

LEMMA PoolListed ==
  ASSUME ControlType, PoolBound, DataType
  PROVE  /\ Off \in 0..1 /\ Off <= Filled /\ Filled \in Nat
         /\ PoolContents \in Seq(Nat) /\ Len(PoolContents) = Filled - Off
         /\ \A i \in 1..Filled - Off : PoolContents[i] = At(Off + i - 1).r.n
<1>1. Off \in 0..1 /\ Off <= Filled /\ Filled \in Nat
  <2>1. Filled \in Nat
    BY Positions, SizeAssumption
  <2>2. bpc = "release" => Filled > 0
    BY DEF PoolBound, Draining
  <2> QED BY <2>1, <2>2 DEF Off
<1>2. PICK n \in Nat : n = Filled - Off
  BY <1>1
<1>3. ASSUME NEW i \in 1..n
      PROVE  slot[(sout + i - 1 + Off) % NSlot].r.n = At(Off + i - 1).r.n
  <2>1. sout + i - 1 + Off = sout + (Off + i - 1)
    BY <1>1, Positions
  <2> QED BY <2>1 DEF At
<1>4. PoolContents = [i \in 1..n |-> slot[(sout + i - 1 + Off) % NSlot].r.n]
  BY <1>2 DEF PoolContents, Off
<1>5. PoolContents = [i \in 1..n |-> At(Off + i - 1).r.n]
  BY <1>3, <1>4
<1>6. \A i \in 1..n : At(Off + i - 1).r.n \in Nat
  <2> SUFFICES ASSUME NEW i \in 1..n PROVE At(Off + i - 1).r.n \in Nat
    OBVIOUS
  <2>1. Off + i - 1 \in Nat
    BY <1>1
  <2> QED BY <2>1, PoolNat
<1>7. PoolContents \in [1..n -> Nat]
  BY <1>5, <1>6
<1>8. PoolContents \in Seq(Nat) /\ Len(PoolContents) = n
  BY <1>7, Listed
<1> QED BY <1>1, <1>2, <1>5, <1>8

LEMMA OthersListed ==
  ASSUME DataType
  PROVE  /\ Shown \in Seq(Nat) /\ Len(Shown) = Len(blitted)
         /\ InHand \in Seq(Nat) /\ Len(InHand) <= 1
         /\ Waiting \in Seq(Nat) /\ Len(Waiting) = Len(rectq)
         /\ Len(rectq) \in Nat /\ Len(rectq) <= RectQ
<1>1. /\ blitted \in Seq(Slot) /\ rectq \in Seq(Header) /\ r \in Header
      /\ Len(rectq) <= RectQ
  BY DEF DataType
<1>2. /\ Len(blitted) \in Nat /\ DOMAIN blitted = 1..Len(blitted)
      /\ \A i \in 1..Len(blitted) : blitted[i] \in Slot
      /\ Len(rectq) \in Nat /\ DOMAIN rectq = 1..Len(rectq)
      /\ \A i \in 1..Len(rectq) : rectq[i] \in Header
  BY <1>1, LenProperties, ElementOfSeq
<1>3. Shown \in [1..Len(blitted) -> Nat]
  BY <1>2 DEF Shown, Slot, Header
<1>4. Waiting \in [1..Len(rectq) -> Nat]
  BY <1>2 DEF Waiting, Header
<1>5. InHand \in Seq(Nat) /\ Len(InHand) <= 1
  BY <1>1 DEF InHand, Header
<1> QED BY <1>1, <1>2, <1>3, <1>4, <1>5, Listed

LEMMA One ==
  ASSUME NEW n \in Nat
  PROVE  <<n>> \in Seq(Nat) /\ Len(<<n>>) = 1 /\ <<n>>[1] = n
OBVIOUS

LEMMA WayListed ==
  ASSUME ControlType, PoolBound, DataType
  PROVE  /\ Shown \in Seq(Nat) /\ PoolContents \in Seq(Nat) /\ InHand \in Seq(Nat)
         /\ Waiting \in Seq(Nat)
BY PoolListed, OthersListed

\* Concatenation, as the lemmas below use it: by its laws.
Cat(a, b) == a \o b

\* The rects shown, in the pool, in hand and waiting, as one list.
Join(s, p, h, w) == Cat(Cat(Cat(s, p), h), w)

LEMMA CatSeq ==
  ASSUME NEW a, NEW b, a \in Seq(Nat), b \in Seq(Nat)
  PROVE  /\ Cat(a, b) \in Seq(Nat) /\ Len(Cat(a, b)) = Len(a) + Len(b)
         /\ Len(a) \in Nat /\ Len(b) \in Nat
BY ConcatProperties, LenProperties DEF Cat

\* A list with one more element.
LEMMA AppendCat ==
  ASSUME NEW s, NEW n, s \in Seq(Nat), n \in Nat
  PROVE  Append(s, n) = Cat(s, <<n>>)
BY AppendIsConcat DEF Cat

LEMMA CatEmpty ==
  ASSUME NEW a, a \in Seq(Nat)
  PROVE  Cat(a, <<>>) = a
BY ConcatEmptySeq DEF Cat

LEMMA ConcatGroups == \A S : \A a, b, c \in Seq(S) : (a \o b) \o c = a \o (b \o c)
BY ConcatAssociative

LEMMA CatGroups == \A S : \A a, b, c \in Seq(S) : Cat(Cat(a, b), c) = Cat(a, Cat(b, c))
BY ConcatGroups DEF Cat

LEMMA Regroup ==
  ASSUME NEW a, NEW b, NEW c, a \in Seq(Nat), b \in Seq(Nat), c \in Seq(Nat)
  PROVE  Cat(Cat(a, b), c) = Cat(a, Cat(b, c))
BY CatGroups

\* An element of the first of two lists is where it was.
LEMMA StillThere ==
  ASSUME NEW a, NEW b, a \in Seq(Nat), b \in Seq(Nat), NEW i \in 1..Len(a)
  PROVE  i \in 1..Len(Cat(a, b)) /\ Cat(a, b)[i] = a[i]
<1>1. Len(a) \in Nat /\ Len(b) \in Nat
  BY LenProperties
<1>2. i \in 1..Len(a) + Len(b) /\ i <= Len(a)
  BY <1>1
<1> QED BY <1>1, <1>2, ConcatProperties DEF Cat

LEMMA JoinSeq ==
  ASSUME NEW s, NEW p, NEW h, NEW w,
         s \in Seq(Nat), p \in Seq(Nat), h \in Seq(Nat), w \in Seq(Nat)
  PROVE  /\ Join(s, p, h, w) \in Seq(Nat)
         /\ Len(Join(s, p, h, w)) - Len(s) = Len(p) + Len(h) + Len(w)
         /\ Len(s) \in Nat
<1>1. /\ Cat(s, p) \in Seq(Nat) /\ Len(Cat(s, p)) = Len(s) + Len(p)
      /\ Len(s) \in Nat /\ Len(p) \in Nat
  BY CatSeq
<1>2. /\ Cat(Cat(s, p), h) \in Seq(Nat) /\ Len(Cat(Cat(s, p), h)) = Len(Cat(s, p)) + Len(h)
      /\ Len(h) \in Nat
  BY <1>1, CatSeq
<1>3. /\ Join(s, p, h, w) \in Seq(Nat) /\ Len(Join(s, p, h, w)) = Len(Cat(Cat(s, p), h)) + Len(w)
      /\ Len(w) \in Nat
  BY <1>2, CatSeq DEF Join
<1> QED BY <1>1, <1>2, <1>3

\* The header in hand came out of the queue,
LEMMA HandTaken ==
  ASSUME NEW s, NEW p, NEW w, NEW one,
         s \in Seq(Nat), p \in Seq(Nat), w \in Seq(Nat), one \in Seq(Nat)
  PROVE  Join(s, p, <<>>, Cat(one, w)) = Join(s, p, one, w)
<1>1. Cat(s, p) \in Seq(Nat)
  BY CatSeq
<1>2. Cat(Cat(s, p), <<>>) = Cat(s, p)
  BY <1>1, CatEmpty
<1>3. Cat(Cat(s, p), Cat(one, w)) = Cat(Cat(Cat(s, p), one), w)
  BY <1>1, Regroup
<1> QED BY <1>2, <1>3 DEF Join

\* and goes into the pool.
LEMMA HandPut ==
  ASSUME NEW s, NEW p, NEW w, NEW one,
         s \in Seq(Nat), p \in Seq(Nat), w \in Seq(Nat), one \in Seq(Nat)
  PROVE  Join(s, Cat(p, one), <<>>, w) = Join(s, p, one, w)
<1>1. Cat(p, one) \in Seq(Nat)
  BY CatSeq
<1>2. Cat(s, Cat(p, one)) \in Seq(Nat)
  BY <1>1, CatSeq
<1>3. Cat(Cat(s, Cat(p, one)), <<>>) = Cat(s, Cat(p, one))
  BY <1>2, CatEmpty
<1>4. Cat(s, Cat(p, one)) = Cat(Cat(s, p), one)
  BY Regroup
<1> QED BY <1>3, <1>4 DEF Join

\* A header that joins the queue joins the end.
LEMMA QueueGrows ==
  ASSUME NEW s, NEW p, NEW h, NEW w, NEW one,
         s \in Seq(Nat), p \in Seq(Nat), h \in Seq(Nat), w \in Seq(Nat), one \in Seq(Nat)
  PROVE  Join(s, p, h, Cat(w, one)) = Cat(Join(s, p, h, w), one)
<1>1. Cat(s, p) \in Seq(Nat)
  BY CatSeq
<1>2. Cat(Cat(s, p), h) \in Seq(Nat)
  BY <1>1, CatSeq
<1>3. Cat(Cat(Cat(s, p), h), Cat(w, one)) = Cat(Cat(Cat(Cat(s, p), h), w), one)
  BY <1>2, Regroup
<1> QED BY <1>3 DEF Join

\* The rect that is blitted was the oldest not yet shown.
LEMMA PoolShows ==
  ASSUME NEW s, NEW p, NEW h, NEW w, NEW one, NEW n, s \in Seq(Nat), p \in Seq(Nat),
         h \in Seq(Nat), w \in Seq(Nat), one \in Seq(Nat), Len(one) = 1, one[1] = n
  PROVE  LET q == Join(s, Cat(one, p), h, w)
         IN  /\ Join(Cat(s, one), p, h, w) = q
             /\ Len(s) < Len(q) /\ q[Len(s) + 1] = n
<1>1. one \in Seq(Nat) /\ Len(one) = 1 /\ one[1] = n
  OBVIOUS
<1>2. Cat(s, Cat(one, p)) = Cat(Cat(s, one), p)
  BY <1>1, Regroup
<1>3. Join(s, Cat(one, p), h, w) = Join(Cat(s, one), p, h, w)
  BY <1>2 DEF Join
<1>4. Cat(s, one) \in Seq(Nat) /\ Len(Cat(s, one)) = Len(s) + 1 /\ Len(s) \in Nat
  BY <1>1, CatSeq
<1>5. Len(s) + 1 \in 1..Len(Cat(s, one)) /\ Cat(s, one)[Len(s) + 1] = n
  <2>1. Len(s) + 1 \in 1..Len(s) + Len(one) /\ ~(Len(s) + 1 <= Len(s)) /\ Len(s) + 1 - Len(s) = 1
    BY <1>1, <1>4
  <2>2. (s \o one)[Len(s) + 1] = one[1]
    <3>1. PICK j \in 1..Len(s) + Len(one) : j = Len(s) + 1
      BY <2>1
    <3>2. (s \o one)[j] = IF j <= Len(s) THEN s[j] ELSE one[j - Len(s)]
      BY ConcatProperties
    <3> QED BY <2>1, <3>1, <3>2
  <2> QED BY <1>1, <1>4, <2>2 DEF Cat
<1>6. PICK k : k = Len(s) + 1
  OBVIOUS
<1>7. Cat(Cat(s, one), p) \in Seq(Nat) /\ Cat(Cat(Cat(s, one), p), h) \in Seq(Nat)
  <2>1. Cat(Cat(s, one), p) \in Seq(Nat)
    BY <1>4, CatSeq
  <2> QED BY <2>1, CatSeq
<1>8. k \in 1..Len(Cat(Cat(s, one), p)) /\ Cat(Cat(s, one), p)[k] = n
  BY <1>4, <1>5, <1>6, StillThere
<1>9. k \in 1..Len(Cat(Cat(Cat(s, one), p), h)) /\ Cat(Cat(Cat(s, one), p), h)[k] = n
  BY <1>7, <1>8, StillThere
<1>10. k \in 1..Len(Join(Cat(s, one), p, h, w)) /\ Join(Cat(s, one), p, h, w)[k] = n
  BY <1>7, <1>9, StillThere DEF Join
<1>11. Len(Join(Cat(s, one), p, h, w)) \in Nat
  <2>1. Join(Cat(s, one), p, h, w) \in Seq(Nat)
    BY <1>4, JoinSeq
  <2> QED BY <2>1, LenProperties
<1>12. Len(s) < Len(Join(Cat(s, one), p, h, w))
  BY <1>4, <1>6, <1>10, <1>11
<1> QED BY <1>3, <1>6, <1>10, <1>12

-----------------------------------------------------------------------------
(* Each step, seen from the abstract queue. *)

Abstract == <<Shown, PoolContents, InHand, Waiting>>
Stays == UNCHANGED Abstract

LEMMA StaysStutters ==
  ASSUME Stays
  PROVE  UNCHANGED Fifo!vars
BY DEF Stays, Abstract, Fifo!vars

\* A step that moves no header.
LEMMA QuietStays ==
  ASSUME ControlType, PoolBound, DataType,
         UNCHANGED <<blitted, sin, sout, rectq, r>>, HeadersKept,
         bpc' = "release" <=> bpc = "release", HasHand' <=> HasHand
  PROVE  Stays
<1>1. Shown' = Shown /\ Waiting' = Waiting
  BY DEF Shown, Waiting
<1>2. InHand' = InHand
  BY DEF InHand, HasHand
<1>3. PoolContents' = PoolContents
  <2>1. Off' = Off /\ Filled' = Filled
    BY DEF Off, Filled
  <2>2. PICK n \in Nat : n = Filled - Off
    BY PoolListed
  <2>3. ASSUME NEW i \in 1..n
        PROVE  slot'[(sout + i - 1 + Off) % NSlot].r = slot[(sout + i - 1 + Off) % NSlot].r
    <3>1. Off \in Nat /\ sout \in Nat
      BY DEF Off, ControlType
    <3>2. Off + i - 1 \in Nat /\ sout + i - 1 + Off = sout + (Off + i - 1)
      BY <3>1
    <3> QED BY <3>2 DEF HeadersKept
  <2>4. PoolContents = [i \in 1..n |-> slot[(sout + i - 1 + Off) % NSlot].r.n]
    BY <2>2 DEF PoolContents, Off
  <2>5. PoolContents' = [i \in 1..n |-> slot'[(sout + i - 1 + Off) % NSlot].r.n]
    BY <2>1, <2>2 DEF PoolContents, Off
  <2> QED BY <2>3, <2>4, <2>5
<1> QED BY <1>1, <1>2, <1>3 DEF Stays, Abstract

LEMMA FifoStep ==
  ASSUME Steady, SteadyInv, PoolPart, LinkPart, ServePart, KernelInv, ControlType, PoolBound,
         DataType, [Next]_vars
  PROVE  [Fifo!Next]_(Fifo!vars)
<1> USE DEF usbVars, btnVars, epVars, poolVars, readVars, fabVars
<1>1. CASE HostAttach
  BY <1>1, QuietStays, StaysStutters DEF HostAttach, HeadersKept, HasHand, Filling
<1>2. CASE HostDetach
  BY <1>2 DEF HostDetach, Steady
<1>3. CASE HostSetBuffer
  BY <1>3, QuietStays, StaysStutters DEF HostSetBuffer, HeadersKept, HasHand, Filling
<1>4. CASE HostGetStatus
  BY <1>4, QuietStays, StaysStutters DEF HostGetStatus, HeadersKept, HasHand, Filling
<1>5. CASE HostBulk
  BY <1>5, QuietStays, StaysStutters DEF HostBulk, HeadersKept, HasHand, Filling
<1>6. CASE HostBulkDone
  BY <1>6, QuietStays, StaysStutters DEF HostBulkDone, HeadersKept, HasHand, Filling
<1>7. CASE UserPress
  BY <1>7, QuietStays, StaysStutters DEF UserPress, HeadersKept, HasHand, Filling
<1>8. CASE \E how \in {"silent", "zlp"} : HostGiveUp(how)
  BY <1>8, QuietStays, StaysStutters DEF HostGiveUp, HeadersKept, HasHand, Filling
<1>9. CASE Stop
  BY <1>9, QuietStays, StaysStutters DEF Stop, HeadersKept, HasHand, Filling
<1>10. CASE EpPoll
  BY <1>10, QuietStays, StaysStutters DEF EpPoll, HeadersKept, HasHand, Filling
<1>11. CASE EpNoPress
  BY <1>11, QuietStays, StaysStutters DEF EpNoPress, HeadersKept, HasHand, Filling
<1>12. CASE EpPressUnbind
  BY <1>12 DEF EpPressUnbind, SteadyInv
<1>13. CASE EpPressBind
  BY <1>13, QuietStays, StaysStutters DEF EpPressBind, HeadersKept, HasHand, Filling
<1>14. CASE EpIdleBeat
  BY <1>14, QuietStays, StaysStutters DEF EpIdleBeat, HeadersKept, HasHand, Filling
<1>15. CASE EpSetup
  BY <1>15, QuietStays, StaysStutters DEF EpSetup, HeadersKept, HasHand, Filling
<1>16. CASE EpCtrlLock
  BY <1>16, QuietStays, StaysStutters DEF EpCtrlLock, HeadersKept, HasHand, Filling
<1>17. CASE EpCtrl
  BY <1>17, QuietStays, StaysStutters DEF EpCtrl, HeadersKept, HasHand, Filling
<1>18. CASE EpEnable
  BY <1>18, QuietStays, StaysStutters DEF EpEnable, HeadersKept, HasHand, Filling
<1>19. CASE EpDisable
  BY <1>19 DEF EpDisable, SteadyInv, LinkPart
<1>20. CASE EpOnHost
  BY <1>20, QuietStays, StaysStutters DEF EpOnHost, HeadersKept, HasHand
<1>21. CASE EpBulk
  <2>1. CASE buffer # <<>> /\ ~QueueFull
    <3>1. /\ rectq' = Append(rectq, Head(buffer)) /\ rpc' = SignalWork(rpc)
          /\ UNCHANGED <<slot, sin, sout, r, bpc, blitted>>
      BY <1>21, <2>1 DEF EpBulk
    <3>2. buffer = <<flush>> /\ hpc \notin {"gone", "idle"}
      <4>1. session # 0 /\ enabled /\ rpc # "done"
        BY <2>1 DEF LinkPart, SteadyInv
      <4>2. ~NoneOwed
        BY <2>1 DEF NoneOwed, Owed
      <4>3. hpc \in {"set", "status", "bulk", "wait"} /\ OneOwed
        BY <1>21, <4>1, <4>2 DEF ServePart, Serving, ControlType, KernelInv, EpBulk, BatchDone, InCtrl
      <4> QED BY <2>1, <4>3 DEF OneOwed, Owed
    <3>3. flush \in Header /\ flush.n \in 1..MaxFrames
      <4>1. flush \in Header /\ flush.n \in Nat /\ flush.n # 0 /\ flush.n <= MaxFrames
        BY <3>2 DEF DataType, Header, SteadyInv
      <4> QED BY <4>1, BoundAssumption
    <3>4. rectq' = Append(rectq, flush)
      BY <3>1, <3>2
    <3>5. Shown' = Shown /\ PoolContents' = PoolContents
      BY <3>1 DEF Shown, PoolContents, Filled
    <3>6. InHand' = InHand
      BY <3>1 DEF InHand, Filling, SignalWork
    <3>7. Waiting' = Append(Waiting, flush.n)
      <4>1. rectq \in Seq(Header) /\ Len(rectq) \in Nat
        BY LenProperties DEF DataType
      <4>2. /\ DOMAIN rectq = 1..Len(rectq)
            /\ DOMAIN rectq' = 1..Len(rectq) + 1
            /\ rectq'[Len(rectq) + 1] = flush
            /\ \A i \in 1..Len(rectq) : rectq'[i] = rectq[i]
            /\ rectq' \in Seq(Header) /\ Len(rectq') = Len(rectq) + 1
        BY <4>1, <3>3, <3>4, AppendProperties, LenProperties
      <4>3. /\ Waiting \in Seq(Nat) /\ Len(Waiting) = Len(rectq)
        BY OthersListed
      <4>4. /\ Append(Waiting, flush.n) \in Seq(Nat)
            /\ Len(Append(Waiting, flush.n)) = Len(rectq) + 1
            /\ Append(Waiting, flush.n)[Len(rectq) + 1] = flush.n
            /\ \A i \in 1..Len(rectq) : Append(Waiting, flush.n)[i] = Waiting[i]
        BY <4>3, <3>3, AppendProperties
      <4>5. Waiting' = [i \in 1..Len(rectq) + 1 |-> rectq'[i].n]
        BY <4>2 DEF Waiting
      <4>6. \A i \in 1..Len(rectq) : Waiting[i] = rectq[i].n
        BY <4>2 DEF Waiting
      <4>7. \A i \in 1..Len(rectq) + 1 : rectq'[i].n = Append(Waiting, flush.n)[i]
        BY <4>1, <4>2, <4>4, <4>6
      <4>8. Append(Waiting, flush.n) = [i \in 1..Len(rectq) + 1 |-> Append(Waiting, flush.n)[i]]
        BY <4>4, LenProperties
      <4> QED BY <4>5, <4>7, <4>8
    <3>8. Len(PoolContents) + Len(InHand) + Len(Waiting) < RectQ + 1 + NSlot
      <4>1. Len(rectq) < RectQ /\ RectQ \in Nat /\ NSlot \in Nat
        BY <2>1, OthersListed, SizeAssumption DEF QueueFull
      <4>2. Len(PoolContents) \in Nat /\ Len(PoolContents) <= NSlot
        BY PoolListed, SizeAssumption DEF PoolBound
      <4>3. Len(InHand) \in Nat /\ Len(InHand) <= 1 /\ Len(Waiting) = Len(rectq) /\ Len(rectq) \in Nat
        BY OthersListed, LenProperties
      <4> QED BY <4>1, <4>2, <4>3
    <3>9. /\ Shown \o PoolContents \o InHand \o Append(Waiting, flush.n)
                = Append(Shown \o PoolContents \o InHand \o Waiting, flush.n)
          /\ Len(Shown \o PoolContents \o InHand \o Waiting) - Len(Shown)
                = Len(PoolContents) + Len(InHand) + Len(Waiting)
      <4>1. PICK s, p, h, w, n, one, q : /\ s = Shown /\ p = PoolContents /\ h = InHand
                                         /\ w = Waiting /\ n = flush.n /\ one = <<n>>
                                         /\ q = Join(s, p, h, w)
        OBVIOUS
      <4>2. /\ s \in Seq(Nat) /\ p \in Seq(Nat) /\ h \in Seq(Nat) /\ w \in Seq(Nat) /\ n \in Nat
        BY <4>1, <3>3, WayListed DEF Header
      <4>3. one \in Seq(Nat)
        BY <4>1, <4>2, One
      <4>4. q \in Seq(Nat) /\ Len(q) - Len(s) = Len(p) + Len(h) + Len(w)
        BY <4>1, <4>2, JoinSeq
      <4>5. Join(s, p, h, Cat(w, one)) = Cat(Join(s, p, h, w), one)
        BY <4>2, <4>3, QueueGrows
      <4>6. Append(w, n) = Cat(w, one) /\ Append(q, n) = Cat(q, one)
        BY <4>1, <4>2, <4>4, AppendCat
      <4>7. Join(s, p, h, Append(w, n)) = Append(q, n)
        BY <4>1, <4>5, <4>6
      <4> QED BY <4>1, <4>4, <4>7 DEF Join, Cat
    <3>10. Fifo!Accept
      BY <3>3, <3>5, <3>6, <3>7, <3>8, <3>9 DEF Fifo!Accept
    <3> QED BY <3>10 DEF Fifo!Next
  <2>2. CASE ~(buffer # <<>> /\ ~QueueFull)
    BY <1>21, <2>2, QuietStays, StaysStutters DEF EpBulk, HeadersKept, HasHand
  <2> QED BY <2>1, <2>2
<1>22. CASE EpBeatLock
  BY <1>22, QuietStays, StaysStutters DEF EpBeatLock, HeadersKept, HasHand, Filling
<1>23. CASE EpBeat
  BY <1>23, QuietStays, StaysStutters DEF EpBeat, HeadersKept, HasHand, Filling
<1>24. CASE EpClose
  BY <1>24 DEF EpClose, SteadyInv
<1>25. CASE EpJoinReader
  BY <1>25 DEF EpJoinReader, SteadyInv
<1>26. CASE EpJoinBlit
  BY <1>26 DEF EpJoinBlit, SteadyInv
<1>27. CASE ReaderQuit
  BY <1>27 DEF ReaderQuit, SteadyInv
<1>28. CASE ReaderSleep
  BY <1>28, QuietStays, StaysStutters DEF ReaderSleep, HeadersKept, HasHand, Filling
<1>29. CASE ReaderTake
  <2>1. /\ rpc = "work" /\ rectq # <<>> /\ r' = Head(rectq) /\ rectq' = Tail(rectq)
        /\ rpc' \in {"sleepSlot", "size"} /\ UNCHANGED <<slot, sin, sout, bpc, blitted>>
    BY <1>29 DEF ReaderTake
  <2>2. Shown' = Shown /\ PoolContents' = PoolContents
    BY <2>1 DEF Shown, PoolContents, Filled
  <2>3. InHand = <<>> /\ InHand' = <<r'.n>>
    BY <2>1 DEF InHand, Filling
  <2>4. rectq \in Seq(Header) /\ Tail(rectq) \in Seq(Header) /\ Head(rectq) \in Header
    BY <2>1, HeadTailProperties DEF DataType
  <2>5. r'.n \in Nat
    BY <2>1, <2>4 DEF Header
  <2>6. Waiting' \in Seq(Nat) /\ Waiting = <<r'.n>> \o Waiting'
    <3>1. PICK k \in Nat : Len(rectq) = k + 1 /\ Len(Tail(rectq)) = k
      <4>1. Len(rectq) \in Nat \ {0} /\ Len(Tail(rectq)) = Len(rectq) - 1
        BY <2>1, <2>4, EmptySeq, HeadTailProperties
      <4>2. Len(rectq) - 1 \in Nat /\ Len(rectq) = (Len(rectq) - 1) + 1
        BY <4>1
      <4> QED BY <4>1, <4>2
    <3>2. /\ DOMAIN rectq = 1..k + 1 /\ DOMAIN Tail(rectq) = 1..k
          /\ \A i \in 1..k : Tail(rectq)[i] = rectq[i + 1] /\ Tail(rectq)[i] \in Header
      BY <2>1, <2>4, <3>1, HeadTailProperties, LenProperties, ElementOfSeq
    <3>3. Head(rectq) = rectq[1]
      BY <2>4
    <3>4. Waiting' = [i \in 1..k |-> rectq[i + 1].n]
      BY <2>1, <3>2 DEF Waiting
    <3>5. Waiting' \in [1..k -> Nat]
      BY <3>2, <3>4 DEF Header
    <3>6. Waiting' \in Seq(Nat) /\ Len(Waiting') = k
      BY <3>5, Listed
    <3>7. Waiting \in Seq(Nat) /\ Len(Waiting) = k + 1 /\ \A i \in 1..k + 1 : Waiting[i] = rectq[i].n
      BY <3>1, <3>2, OthersListed DEF Waiting
    <3>8. PICK one \in Seq(Nat) : one = <<r'.n>> /\ Len(one) = 1 /\ one[1] = r'.n
      BY <2>5, One
    <3>9. PICK w \in Seq(Nat) : w = Waiting'
      BY <3>6
    <3>10. /\ one \o w \in Seq(Nat) /\ Len(one \o w) = k + 1
           /\ \A i \in 1..k + 1 : (one \o w)[i] = IF i <= 1 THEN one[i] ELSE w[i - 1]
      <4>1. 1 + k = k + 1
        OBVIOUS
      <4> QED BY <4>1, <3>6, <3>8, <3>9, ConcatProperties
    <3>11. ASSUME NEW i \in 1..k + 1 PROVE (one \o w)[i] = Waiting[i]
      <4>1. CASE i = 1
        BY <4>1, <2>1, <3>3, <3>7, <3>8, <3>10
      <4>2. CASE i # 1
        <5>1. i - 1 \in 1..k /\ ~(i <= 1) /\ (i - 1) + 1 = i
          BY <4>2
        <5>2. w[i - 1] = rectq[i].n
          BY <5>1, <3>4, <3>9
        <5> QED BY <5>1, <5>2, <3>7, <3>10
      <4> QED BY <4>1, <4>2
    <3>12. k + 1 \in Nat
      OBVIOUS
    <3>13. one \o w = Waiting
      BY <3>7, <3>10, <3>11, <3>12, SameList
    <3> QED BY <3>6, <3>8, <3>9, <3>13
  <2>7. Shown \o PoolContents \o <<>> \o (<<r'.n>> \o Waiting')
          = Shown \o PoolContents \o <<r'.n>> \o Waiting'
    <3>1. PICK s, p, w, one : s = Shown /\ p = PoolContents /\ w = Waiting' /\ one = <<r'.n>>
      OBVIOUS
    <3>2. s \in Seq(Nat) /\ p \in Seq(Nat)
      BY <3>1, WayListed
    <3>3. w \in Seq(Nat) /\ one \in Seq(Nat)
      BY <3>1, <2>5, <2>6, One
    <3>4. Join(s, p, <<>>, Cat(one, w)) = Join(s, p, one, w)
      BY <3>2, <3>3, HandTaken
    <3> QED BY <3>1, <3>4 DEF Join, Cat
  <2> QED BY <2>2, <2>3, <2>6, <2>7 DEF Fifo!vars
<1>30. CASE ReaderSlot
  BY <1>30, QuietStays, StaysStutters DEF ReaderSlot, PoolFull, HeadersKept, HasHand, Filling
<1>31. CASE ReaderSize
  <2>1. rpc = "size" /\ enabled /\ rpc # "done" /\ hpc # "gone"
    BY <1>31 DEF ReaderSize, LinkPart, SteadyInv, KernelInv
  <2>2. OneOwed /\ hpc # "idle"
    BY <2>1 DEF ServePart, Serving, NoneOwed, Owed, ToFill, ControlType
  <2>3. r.rect \in Rects
    BY <2>1, <2>2 DEF OneOwed, Owed, ToFill, LinkPart
  <2>4. rpc' = "issue" /\ slot' = [slot EXCEPT ![InIdx].px = <<>>]
    <3>1. r.rect.want > 0 /\ r.rect.want <= BulkBuf /\ r.rect.length <= BulkBuf
      BY <2>3 DEF Steady, OneHost
    <3>2. /\ r.rect.want \in Nat /\ r.rect.length \in Nat /\ BulkBuf \in Nat
      BY <2>3, RectAssumption
    <3>3. ~(r.rect.want > BulkBuf \/ r.rect.length > BulkBuf) /\ r.rect.want # 0
      BY <3>1, <3>2
    <3> QED BY <1>31, <3>3 DEF ReaderSize
  <2>5. HeadersKept
    <3> HIDE DEF InIdx
    <3>1. PICK px : px = <<>>
      OBVIOUS
    <3>2. slot' \in {slot, [slot EXCEPT ![InIdx].px = px]}
      BY <2>4, <3>1
    <3> QED BY <3>2, PxOnly
  <2> QED BY <1>31, <2>1, <2>4, <2>5, QuietStays, StaysStutters DEF ReaderSize, HasHand, Filling
<1>32. CASE ReaderIssue
  BY <1>32, QuietStays, StaysStutters DEF ReaderIssue, HeadersKept, HasHand, Filling
<1>33. CASE ReaderFailed
  BY <1>33 DEF ReaderFailed, LinkPart, SteadyInv
<1>34. CASE ReaderPacket
  <2>1. PICK k \in Nat : Taken(k)
    BY <1>34, PacketTaken DEF Steady
  <2>2. /\ rpc \in {"read", "reading"} /\ rpc' \in {"publish", "reading"}
        /\ slot' = [slot EXCEPT ![InIdx].px = SubSeq(PacketsOf(flush), 1, k + 1)]
    BY <2>1 DEF Taken
  <2>3. HeadersKept
    <3> HIDE DEF InIdx
    <3>1. PICK px : px = SubSeq(PacketsOf(flush), 1, k + 1)
      OBVIOUS
    <3>2. slot' \in {slot, [slot EXCEPT ![InIdx].px = px]}
      BY <2>2, <3>1
    <3> QED BY <3>2, PxOnly
  <2> QED BY <1>34, <2>2, <2>3, QuietStays, StaysStutters DEF ReaderPacket, HasHand, Filling
<1>35. CASE ReaderPublish
  <2>1. PICK k \in Nat : k = Filled
    BY Positions, SizeAssumption
  <2>2. /\ k < NSlot /\ rpc = "publish" /\ rpc' = "work" /\ UNCHANGED <<blitted, sout, rectq>>
        /\ slot' = [slot EXCEPT ![InIdx].r = r] /\ sin' = Succ(sin)
        /\ bpc' = "release" <=> bpc = "release"
    BY <1>35, <2>1 DEF ReaderPublish, PoolBound, Filling, SignalSlotFull
  <2>3. Filled' = k + 1 /\ Off' = Off
    BY <2>1, <2>2, PublishCounts DEF Off
  <2>4. /\ InIdx = (sout + k) % NSlot /\ InIdx \in 0..NSlot - 1 /\ slot \in [0..NSlot - 1 -> Slot]
        /\ k \in 0..NSlot - 1
    <3>1. InIdx = (sout + k) % NSlot /\ InIdx \in 0..NSlot - 1
      BY <2>1, FirstFree
    <3>2. k < NSlot /\ NSlot \in Nat
      BY <2>2, SizeAssumption
    <3>3. k \in 0..NSlot - 1
      BY <3>2
    <3>4. slot \in [0..NSlot - 1 -> Slot]
      BY DEF DataType
    <3> QED BY <3>1, <3>3, <3>4
  <2> HIDE DEF InIdx
  <2>5. At(k)'.r = r
    <3>1. slot'[InIdx].r = r
      BY <2>2, <2>4 DEF Slot
    <3> QED BY <3>1, <2>2, <2>4 DEF At
  <2>6. \A i \in 0..k - 1 : At(i)' = At(i)
    <3> SUFFICES ASSUME NEW i \in 0..k - 1
                 PROVE  slot'[(sout + i) % NSlot] = slot[(sout + i) % NSlot]
      BY <2>2 DEF At
    <3>1. i \in 0..NSlot - 1 /\ i # k
      BY <2>4, SizeAssumption
    <3>2. (sout + i) % NSlot # InIdx /\ (sout + i) % NSlot \in 0..NSlot - 1
      BY <2>4, <3>1, Positions
    <3> QED BY <2>2, <2>4, <3>2
  <2>7. PICK m \in Nat : m = k - Off
    BY <2>1, PoolListed
  <2>8. r.n \in Nat
    BY NumbersNat
  <2>9. PoolContents' = [i \in 1..m + 1 |-> IF i = m + 1 THEN r.n ELSE PoolContents[i]]
    <3>1. k + 1 - Off = m + 1
      BY <2>1, <2>7, PoolListed
    <3>2. PoolContents' = [i \in 1..m + 1 |-> slot'[(sout + i - 1 + Off) % NSlot].r.n]
      BY <2>2, <2>3, <3>1 DEF PoolContents, Off
    <3>3. ASSUME NEW i \in 1..m + 1
          PROVE  slot'[(sout + i - 1 + Off) % NSlot].r.n = IF i = m + 1 THEN r.n ELSE PoolContents[i]
      <4>1. PICK j \in Nat : j = Off + i - 1
        BY PoolListed
      <4>2. slot'[(sout + i - 1 + Off) % NSlot] = At(j)'
        <5>1. Off \in Nat /\ sout \in Nat
          BY DEF Off, ControlType
        <5>2. sout + i - 1 + Off = sout + j
          BY <4>1, <5>1
        <5> QED BY <2>2, <5>2 DEF At
      <4>3. CASE i = m + 1
        <5>1. j = k
          BY <4>1, <4>3, <2>1, <2>7, PoolListed
        <5> QED BY <2>5, <4>2, <4>3, <5>1
      <4>4. CASE i # m + 1
        <5>1. j \in 0..k - 1 /\ i \in 1..m
          BY <4>1, <4>4, <2>1, <2>7, PoolListed
        <5>2. PoolContents[i] = At(j).r.n
          BY <5>1, <4>1, <2>1, <2>7, PoolListed
        <5> QED BY <2>6, <4>2, <4>4, <5>1, <5>2
      <4> QED BY <4>3, <4>4
    <3> QED BY <3>2, <3>3
  <2>10. PoolContents' = PoolContents \o <<r.n>>
    <3>1. PICK p \in Seq(Nat) : p = PoolContents /\ Len(p) = m
      BY <2>1, <2>7, PoolListed
    <3>2. PICK one \in Seq(Nat) : one = <<r.n>> /\ Len(one) = 1 /\ one[1] = r.n
      BY <2>8, One
    <3>3. /\ p \o one \in Seq(Nat) /\ Len(p \o one) = m + 1
          /\ \A i \in 1..m + 1 : (p \o one)[i] = IF i <= m THEN p[i] ELSE one[i - m]
      BY <3>1, <3>2, ConcatProperties
    <3>4. \A i \in 1..m + 1 : (p \o one)[i] = IF i = m + 1 THEN r.n ELSE p[i]
      BY <3>2, <3>3
    <3>5. p \o one = [i \in 1..m + 1 |-> (p \o one)[i]]
      BY <3>3, LenProperties
    <3> QED BY <2>9, <3>1, <3>2, <3>4, <3>5
  <2>11. Shown' = Shown /\ Waiting' = Waiting /\ InHand = <<r.n>> /\ InHand' = <<>>
    BY <2>2 DEF Shown, Waiting, InHand, Filling
  <2>12. Shown \o (PoolContents \o <<r.n>>) \o <<>> \o Waiting
           = Shown \o PoolContents \o <<r.n>> \o Waiting
    <3>1. PICK s, p, w, one : s = Shown /\ p = PoolContents /\ w = Waiting /\ one = <<r.n>>
      OBVIOUS
    <3>2. s \in Seq(Nat) /\ p \in Seq(Nat) /\ w \in Seq(Nat)
      BY <3>1, WayListed
    <3>3. one \in Seq(Nat)
      BY <3>1, <2>8, One
    <3>4. Join(s, Cat(p, one), <<>>, w) = Join(s, p, one, w)
      BY <3>2, <3>3, HandPut
    <3> QED BY <3>1, <3>4 DEF Join, Cat
  <2> QED BY <2>10, <2>11, <2>12 DEF Fifo!vars
<1>36. CASE BlitQuit
  BY <1>36, QuietStays, StaysStutters DEF BlitQuit, SteadyInv
<1>37. CASE BlitTake
  BY <1>37, QuietStays, StaysStutters DEF BlitTake, HeadersKept, HasHand, Filling
<1>38. CASE BlitDecompress
  <2>1. bpc = "lz4" /\ OutIdx = (sout + 0) % NSlot /\ 0 \in 0..Filled - 1
    <3>1. Filled \in Nat /\ OutIdx = (sout + 0) % NSlot
      BY Positions, SizeAssumption
    <3> QED BY <1>38, <3>1 DEF BlitDecompress, PoolBound, Draining
  <2>2. Intact(slot[OutIdx].r, slot[OutIdx].px)
    BY <2>1 DEF PoolPart, PoolIntact, At
  <2> QED BY <1>38, <2>2, QuietStays, StaysStutters DEF BlitDecompress, HeadersKept, HasHand
<1>39. CASE BlitDone
  <2>1. /\ Filled > 0 /\ OutIdx = (sout + 0) % NSlot /\ Filled \in Nat
        /\ bpc = "blit" /\ bpc' = "release"
        /\ blitted' = Append(blitted, At(0)) /\ UNCHANGED <<slot, sin, sout, rpc, r, rectq>>
    BY <1>39, Positions, SizeAssumption DEF BlitDone, At, PoolBound, Draining
  <2>2. InHand' = InHand /\ Waiting' = Waiting
    BY <2>1 DEF InHand, Waiting
  <2>3. PICK n \in Nat : n = At(0).r.n
    BY PoolNat
  <2>4. PICK k \in Nat : Filled = k + 1
    <3>1. Filled - 1 \in Nat /\ Filled = (Filled - 1) + 1
      BY <2>1
    <3> QED BY <3>1
  <2>5. Off = 0 /\ Off' = 1 /\ Filled' = k + 1
    BY <2>1, <2>4 DEF Off, Filled
  <2>6. /\ PoolContents \in Seq(Nat) /\ Len(PoolContents) = k + 1
        /\ \A i \in 1..k + 1 : PoolContents[i] = At(i - 1).r.n
    <3>1. k + 1 - 0 = k + 1 /\ \A i \in 1..k + 1 : 0 + i - 1 = i - 1
      OBVIOUS
    <3> QED BY <2>4, <2>5, <3>1, PoolListed
  <2>7. PoolContents' = [i \in 1..k |-> PoolContents[i + 1]]
    <3>1. k + 1 - 1 = k
      OBVIOUS
    <3>2. PoolContents' = [i \in 1..k |-> slot[(sout + i - 1 + 1) % NSlot].r.n]
      BY <2>1, <2>5, <3>1 DEF PoolContents, Off
    <3>3. ASSUME NEW i \in 1..k
          PROVE  slot[(sout + i - 1 + 1) % NSlot].r.n = PoolContents[i + 1]
      <4>1. i + 1 \in 1..k + 1 /\ (i + 1) - 1 = i /\ sout + i - 1 + 1 = sout + i
        BY Positions
      <4> QED BY <4>1, <2>6 DEF At
    <3> QED BY <3>2, <3>3
  <2>8. PICK p \in Seq(Nat) : p = PoolContents' /\ Len(p) = k
    <3>1. \A i \in 1..k : PoolContents[i + 1] \in Nat
      <4> SUFFICES ASSUME NEW i \in 1..k PROVE PoolContents[i + 1] \in Nat
        OBVIOUS
      <4>1. i + 1 \in 1..k + 1
        OBVIOUS
      <4> QED BY <4>1, <2>6, ElementOfSeq
    <3>2. PoolContents' \in [1..k -> Nat]
      BY <2>7, <3>1
    <3> QED BY <3>2, Listed
  <2>9. PoolContents = <<n>> \o p
    <3>1. PICK one \in Seq(Nat) : one = <<n>> /\ Len(one) = 1 /\ one[1] = n
      BY One
    <3>2. /\ one \o p \in Seq(Nat) /\ Len(one \o p) = k + 1
          /\ \A i \in 1..k + 1 : (one \o p)[i] = IF i <= 1 THEN one[i] ELSE p[i - 1]
      <4>1. 1 + k = k + 1
        OBVIOUS
      <4> QED BY <4>1, <2>8, <3>1, ConcatProperties
    <3>3. ASSUME NEW i \in 1..k + 1 PROVE (one \o p)[i] = PoolContents[i]
      <4>1. CASE i = 1
        BY <4>1, <2>3, <2>6, <3>1, <3>2
      <4>2. CASE i # 1
        <5>1. i - 1 \in 1..k /\ ~(i <= 1) /\ (i - 1) + 1 = i
          BY <4>2
        <5>2. p[i - 1] = PoolContents[i]
          BY <5>1, <2>7, <2>8
        <5> QED BY <5>1, <5>2, <3>2
      <4> QED BY <4>1, <4>2
    <3>4. one \o p = PoolContents
      <4>1. k + 1 \in Nat
        OBVIOUS
      <4> QED BY <4>1, <2>6, <3>2, <3>3, SameList
    <3> QED BY <3>1, <3>4
  <2>10. Shown' = Append(Shown, n)
    <3>1. blitted \in Seq(Slot) /\ At(0) \in Slot
      BY PoolNat DEF DataType
    <3>2. PICK b \in Nat : b = Len(blitted)
      BY <3>1, LenProperties
    <3>3. /\ DOMAIN blitted = 1..b /\ DOMAIN blitted' = 1..b + 1
          /\ blitted'[b + 1] = At(0)
          /\ \A i \in 1..b : blitted'[i] = blitted[i]
      BY <2>1, <3>1, <3>2, AppendProperties, LenProperties
    <3>4. Shown \in Seq(Nat) /\ Len(Shown) = b
      BY <3>2, OthersListed
    <3>5. /\ Append(Shown, n) \in Seq(Nat) /\ Len(Append(Shown, n)) = b + 1
          /\ Append(Shown, n)[b + 1] = n
          /\ \A i \in 1..b : Append(Shown, n)[i] = Shown[i]
      BY <3>4, AppendProperties
    <3>6. Shown' = [i \in 1..b + 1 |-> blitted'[i].r.n]
      BY <3>3 DEF Shown
    <3>7. \A i \in 1..b : Shown[i] = blitted[i].r.n
      BY <3>3 DEF Shown
    <3>8. \A i \in 1..b + 1 : blitted'[i].r.n = Append(Shown, n)[i]
      BY <2>3, <3>3, <3>5, <3>7
    <3>9. Append(Shown, n) = [i \in 1..b + 1 |-> Append(Shown, n)[i]]
      BY <3>5, LenProperties
    <3> QED BY <3>6, <3>8, <3>9
  <2>11. LET q == Shown \o (<<n>> \o p) \o InHand \o Waiting
         IN  /\ Append(Shown, n) \o p \o InHand \o Waiting = q
             /\ Len(Shown) < Len(q) /\ q[Len(Shown) + 1] = n
    <3>1. PICK s, h, w, one : s = Shown /\ h = InHand /\ w = Waiting /\ one = <<n>>
      OBVIOUS
    <3>2. s \in Seq(Nat) /\ h \in Seq(Nat) /\ w \in Seq(Nat)
      BY <3>1, WayListed
    <3>3. one \in Seq(Nat) /\ Len(one) = 1 /\ one[1] = n
      BY <3>1, One
    <3>4. PICK q : q = Join(s, Cat(one, p), h, w)
      OBVIOUS
    <3>5. Join(Cat(s, one), p, h, w) = q /\ Len(s) < Len(q) /\ q[Len(s) + 1] = n
      <4>1. p \in Seq(Nat)
        BY <2>8
      <4>2. /\ Join(Cat(s, one), p, h, w) = Join(s, Cat(one, p), h, w)
            /\ Len(s) < Len(Join(s, Cat(one, p), h, w))
            /\ Join(s, Cat(one, p), h, w)[Len(s) + 1] = n
        BY <3>2, <3>3, <4>1, PoolShows
      <4> QED BY <3>4, <4>2
    <3>6. Append(s, n) = Cat(s, one)
      BY <3>1, <3>2, AppendCat
    <3>7. Join(Append(s, n), p, h, w) = q
      BY <3>5, <3>6
    <3> QED BY <3>1, <3>4, <3>5, <3>7 DEF Join, Cat
  <2>12. Fifo!Show
    <3>1. PICK q : q = Shown \o PoolContents \o InHand \o Waiting
      OBVIOUS
    <3>2. /\ Append(Shown, n) \o p \o InHand \o Waiting = q
          /\ Len(Shown) < Len(q) /\ q[Len(Shown) + 1] = n
      BY <2>9, <2>11, <3>1
    <3>3. (Shown \o PoolContents \o InHand \o Waiting)' = q
      BY <2>2, <2>8, <2>10, <3>2
    <3>4. Shown' = Append(Shown, q[Len(Shown) + 1])
      BY <2>10, <3>2
    <3> QED BY <3>1, <3>2, <3>3, <3>4 DEF Fifo!Show
  <2> QED BY <2>12 DEF Fifo!Next
<1>40. CASE BlitRelease
  <2>1. /\ Filled > 0 /\ sout' = Succ(sout) /\ UNCHANGED <<sin, slot, r, blitted, rectq>>
        /\ bpc = "release" /\ bpc' = "full" /\ rpc' = SignalSlotFree(rpc)
    BY <1>40 DEF BlitRelease, PoolBound, Draining
  <2>2. /\ Filled' = Filled - 1 /\ Filled \in Nat
        /\ \A i \in Nat : (sout' + i) % NSlot = (sout + (i + 1)) % NSlot
    BY <2>1, ReleaseCounts, Positions, SizeAssumption
  <2>3. Off = 1 /\ Off' = 0
    BY <2>1 DEF Off
  <2>4. PICK k \in Nat : k = Filled - 1
    BY <2>1, <2>2
  <2>5. PoolContents = [i \in 1..k |-> slot[(sout + i - 1 + 1) % NSlot].r.n]
    BY <2>3, <2>4 DEF PoolContents, Off
  <2>6. PoolContents' = [i \in 1..k |-> slot[(sout' + i - 1 + 0) % NSlot].r.n]
    <3>1. k - 0 = k
      OBVIOUS
    <3> QED BY <2>1, <2>2, <2>3, <2>4, <3>1 DEF PoolContents, Off
  <2>7. ASSUME NEW i \in 1..k
        PROVE  slot[(sout' + i - 1 + 0) % NSlot] = slot[(sout + i - 1 + 1) % NSlot]
    <3>1. sout \in Nat /\ sout' \in Nat
      BY <2>1, Positions, SizeAssumption DEF Succ
    <3>2. /\ i - 1 \in Nat /\ sout' + i - 1 + 0 = sout' + (i - 1)
          /\ sout + i - 1 + 1 = sout + ((i - 1) + 1)
      BY <3>1
    <3> QED BY <2>2, <3>2
  <2>8. PoolContents' = PoolContents
    BY <2>5, <2>6, <2>7
  <2>9. Shown' = Shown /\ Waiting' = Waiting /\ InHand' = InHand
    BY <2>1 DEF Shown, Waiting, InHand, SignalSlotFree, Filling
  <2> QED BY <2>8, <2>9, StaysStutters DEF Stays, Abstract
<1>41. CASE BlitLock
  BY <1>41, QuietStays, StaysStutters DEF BlitLock, HeadersKept, HasHand, Filling
<1>42. CASE Spurious
  BY <1>42, QuietStays, StaysStutters DEF Spurious, HeadersKept, HasHand, Filling
<1>43. CASE UNCHANGED vars
  BY <1>43, QuietStays, StaysStutters DEF vars, HeadersKept, HasHand
<1> HIDE DEF usbVars, btnVars, epVars, poolVars, readVars, fabVars
<1> QED BY <1>1, <1>2, <1>3, <1>4, <1>5, <1>6, <1>7, <1>8, <1>9, <1>10, <1>11, <1>12, <1>13, <1>14, <1>15, <1>16, <1>17, <1>18, <1>19, <1>20, <1>21, <1>22, <1>23, <1>24, <1>25, <1>26, <1>27, <1>28, <1>29, <1>30, <1>31, <1>32, <1>33, <1>34, <1>35, <1>36, <1>37, <1>38, <1>39, <1>40, <1>41, <1>42, <1>43
  DEF Next, HostAct, EpAct, ReaderAct, BlitAct

LEMMA SteadyInit == Init => SteadyInv
BY BoundAssumption DEF Init, SteadyInv, NoHeader

LEMMA FifoInit == Init => Fifo!Init
<1> SUFFICES ASSUME Init PROVE Fifo!Init
  OBVIOUS
<1>1. ControlType /\ PoolBound /\ DataType
  BY PoolInvInit, DataInit DEF PoolInv
<1>2. Shown = <<>> /\ InHand = <<>> /\ Waiting = <<>>
  BY DEF Init, Shown, InHand, Waiting, Filling
<1>3. PoolContents \in Seq(Nat) /\ Len(PoolContents) = 0
  <2>1. Filled - Off = 0
    BY DEF Init, Filled, Off
  <2> QED BY <1>1, <2>1, PoolListed
<1>4. PoolContents = <<>>
  BY <1>3, EmptySeq
<1> QED BY <1>2, <1>4 DEF Fifo!Init

\* A host that stays and streams rects it does not abandon sees a bounded FIFO:
\* each accepted rect joins the end of at most RECTQ + 1 + NSLOT under way and
\* is shown once, in turn; every step of the three threads is a step of RectFifo
\* or changes nothing of it.
THEOREM StreamIsFifo ==
  ASSUME Steady PROVE Spec => Fifo!Init /\ [][Fifo!Next]_(Fifo!vars)
<1>1. OneHost
  BY DEF Steady
<1>2. Spec => [](KernelInv /\ ControlType /\ PoolBound /\ DataType)
  <2>1. PoolInv => ControlType /\ PoolBound
    BY DEF PoolInv
  <2> QED BY <2>1, PoolInvAlways, KernelAlways, DataAlways, PTL
<1>3. Spec => []AlignInv
  BY <1>1, AlignAlways
<1>4. SteadyInv /\ DataType /\ [Next]_vars => SteadyInv'
  BY SteadyNext
<1>5. /\ SteadyInv /\ AlignInv /\ KernelInv /\ ControlType /\ PoolBound /\ DataType
      /\ [Next]_vars
      => [Fifo!Next]_(Fifo!vars)
  BY FifoStep DEF AlignInv
<1> QED BY <1>2, <1>3, <1>4, <1>5, SteadyInit, FifoInit, PTL DEF Spec

=============================================================================
