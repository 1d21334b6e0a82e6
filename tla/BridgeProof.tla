----------------------------- MODULE BridgeProof -----------------------------
(***************************************************************************)
(* Theorems about Bridge: for words of any width, a slave of any speed,    *)
(* any limit on the bridge's patience and processes that die anywhere.     *)
(***************************************************************************)
EXTENDS Bridge, TLAPS

-----------------------------------------------------------------------------
(* Types *)

Calls == [write : BOOLEAN, reg : Regs, word : Word, half : {"lo", "hi"}, got : Half]

\* A word is its two halves.
LEMMA WordParts ==
  /\ \A w \in Word : w.hi \in Half /\ w.lo \in Half /\ w = [hi |-> w.hi, lo |-> w.lo]
                     /\ w["hi"] = w.hi /\ w["lo"] = w.lo
  /\ \A h, l \in Half : [hi |-> h, lo |-> l] \in Word
BY DEF Word

LEMMA Zeroes == Zero \in Half /\ ZeroWord \in Word /\ ZeroWord.hi = Zero /\ ZeroWord.lo = Zero
BY BridgeAssumption DEF BridgeAssumption, ZeroWord, Word

LEMMA CallIsNotNone == \A c \in Calls : c # None
<1> SUFFICES ASSUME NEW c \in Calls, c = None PROVE FALSE
  OBVIOUS
<1>1. "write" \in DOMAIN c
  BY DEF Calls
<1>2. "write" \notin DOMAIN None
  BY DEF None
<1> QED
  BY <1>1, <1>2

LEMMA CallParts ==
  \A c \in Calls :
    /\ c.write \in BOOLEAN /\ c.reg \in Regs /\ c.word \in Word /\ c.half \in {"lo", "hi"}
    /\ c.got \in Half /\ c.word[c.half] \in Half
    /\ \A g \in Half : /\ [c EXCEPT !.half = "hi", !.got = g] \in Calls
                       /\ [c EXCEPT !.half = "hi", !.got = g].write = c.write
                       /\ [c EXCEPT !.half = "hi", !.got = g].reg = c.reg
                       /\ [c EXCEPT !.half = "hi", !.got = g].word = c.word
                       /\ [c EXCEPT !.half = "hi", !.got = g].half = "hi"
                       /\ [c EXCEPT !.half = "hi", !.got = g].got = g
BY WordParts DEF Calls

LEMMA NewCalls ==
  /\ \A r \in Regs : /\ Read(r) \in Calls /\ ~Read(r).write /\ Read(r).reg = r
                     /\ Read(r).half = "lo" /\ Read(r).word = ZeroWord /\ Read(r).got = Zero
  /\ \A r \in Regs, w \in Values :
       /\ Write(r, w) \in Calls /\ Write(r, w).write /\ Write(r, w).reg = r
       /\ Write(r, w).half = "lo" /\ Write(r, w).word = w /\ Write(r, w).got = Zero
BY Zeroes, BridgeAssumption DEF BridgeAssumption, Read, Write, Calls

LEMMA CommandParts ==
  \A c \in Commands : /\ c.strobe \in BOOLEAN /\ c.write \in BOOLEAN /\ c.reg \in Regs
                      /\ c.half \in {"lo", "hi"} /\ c.data \in Half
BY DEF Commands

\* The types in the parts the steps disturb together.
BridgeType ==
  /\ cmd \in Commands
  /\ meta \in BOOLEAN /\ now \in BOOLEAN /\ seen \in BOOLEAN /\ ack \in BOOLEAN
  /\ req \in BOOLEAN /\ rpend \in BOOLEAN /\ rhold \in BOOLEAN
  /\ wdata \in Word /\ wlo \in Half /\ readback \in Word /\ stall \in 0..StallLimit
SlaveType ==
  /\ mem \in [Regs -> Word] /\ rdata \in Word
  /\ bus \in {"idle", "accept", "done"} /\ m_write \in BOOLEAN /\ m_data \in Word /\ cap \in Word
ProcType ==
  /\ loaded \in BOOLEAN /\ proc \in {"none", "opening", "probing", "ready"}
  /\ unsafe \in BOOLEAN /\ strobe \in BOOLEAN /\ plan \in Seq(Regs)
  /\ handle \in [geom : Word, caps : Word] /\ call \in {None} \cup Calls
  /\ gp_out \in Commands
Types == BridgeType /\ SlaveType /\ ProcType /\ spoiled \in BOOLEAN

LEMMA TypesAre == Types <=> TypeOK
BY DEF Types, BridgeType, SlaveType, ProcType, TypeOK, Calls

LEMMA TypesInit == Init => Types
<1> SUFFICES ASSUME Init PROVE Types
  OBVIOUS
<1>1. Idle \in Commands
  BY Zeroes DEF Idle, Commands, Regs
<1>2. BridgeType
  <2>1. 0 \in 0..StallLimit
    BY BridgeAssumption DEF BridgeAssumption
  <2> QED
    BY <1>1, <2>1, Zeroes, Zenon DEF Init, BridgeType
<1>3. SlaveType
  BY Zeroes, BridgeAssumption DEF Init, SlaveType, BridgeAssumption
<1>4. ProcType
  <2>1. NoHandle \in [geom : Word, caps : Word] /\ <<>> \in Seq(Regs)
    BY Zeroes DEF NoHandle
  <2> QED
    BY <1>1, <2>1, Zenon DEF Init, ProcType
<1> QED
  BY <1>2, <1>3, <1>4 DEF Types, Init

\* Nothing the fabric does touches the process, and nothing the process does the
\* fabric.
LEMMA FabricStep == [Next]_vars => Clock \/ (UNCHANGED <<loaded, bridgeVars, slaveVars, spoiled>>)
BY DEF Next, Driver, HighHalf, WrongId, OpenNext, OpenDone, Return, Die, Start, Access, Begin, vars

LEMMA ReadDataType == BridgeType /\ SlaveType => ReadData \in Word
BY DEF BridgeType, SlaveType, ReadData

LEMMA ClockTypes == Types /\ Clock => BridgeType' /\ SlaveType' /\ spoiled' \in BOOLEAN
<1> SUFFICES ASSUME Types, Clock PROVE BridgeType' /\ SlaveType' /\ spoiled' \in BOOLEAN
  OBVIOUS
<1> USE DEF Types
<1>1. meta' \in BOOLEAN /\ now' \in BOOLEAN /\ seen' \in BOOLEAN
  BY CommandParts DEF Clock, Synchronise, BridgeType, ProcType
<1>2. stall' \in 0..StallLimit
  BY BridgeAssumption DEF Clock, StallCount, GiveUp, BridgeType, BridgeAssumption
<1>3. ASSUME Latch
      PROVE  /\ cmd' \in Commands /\ wdata' \in Word /\ wlo' \in Half /\ readback' \in Word
             /\ ack' \in BOOLEAN /\ req' \in BOOLEAN /\ rpend' \in BOOLEAN /\ rhold' \in BOOLEAN
  <2>1. gp_out \in Commands /\ gp_out.data \in Half
    BY CommandParts DEF ProcType
  <2> QED
    BY <1>3, <2>1, WordParts, Zeroes DEF Latch, BridgeType
<1>4. ASSUME Carry, UNCHANGED <<cmd, wdata, wlo>>
      PROVE  /\ cmd' \in Commands /\ wdata' \in Word /\ wlo' \in Half /\ readback' \in Word
             /\ ack' \in BOOLEAN /\ req' \in BOOLEAN /\ rpend' \in BOOLEAN /\ rhold' \in BOOLEAN
  <2>1. ack' \in {ack, seen} /\ readback' \in {readback, ReadData}
    BY <1>4 DEF Carry, Progress
  <2>2. req' \in {req, FALSE} /\ rpend' \in BOOLEAN /\ rhold' \in BOOLEAN
    BY <1>4 DEF Carry, Progress
  <2> QED
    BY <1>4, <2>1, <2>2, ReadDataType DEF BridgeType
<1>5. BridgeType'
  BY <1>1, <1>2, <1>3, <1>4 DEF Clock, Master, BridgeType
<1>6. bus' \in {"idle", "accept", "done"} /\ m_write' \in BOOLEAN /\ m_data' \in Word /\ cap' \in Word
  <2>1. cmd.write \in BOOLEAN /\ mem["PLL"] \in Word
    BY CommandParts DEF BridgeType, SlaveType, Regs
  <2> QED
    BY <2>1 DEF Clock, Adapter, SlaveType, BridgeType
<1>7. mem' \in [Regs -> Word] /\ rdata' \in Word
  <2>1. cmd.reg \in Regs
    BY CommandParts DEF BridgeType
  <2> QED
    BY <2>1 DEF Clock, Registers, SlaveType, BridgeType, Regs
<1>8. spoiled' \in BOOLEAN
  BY DEF Clock
<1> QED
  BY <1>5, <1>6, <1>7, <1>8 DEF SlaveType

LEMMA ResultType ==
  ASSUME Types, call # None
  PROVE  call \in Calls /\ Value \in Half /\ Result \in Word
<1>1. call \in Calls
  BY DEF Types, ProcType
<1>2. Answer \in Half
  <2>1. readback \in Word /\ cmd.half \in {"lo", "hi"}
    BY CommandParts DEF Types, BridgeType
  <2> QED
    BY <2>1, WordParts DEF Answer
<1> QED
  BY <1>1, <1>2, Zeroes, WordParts, CallParts DEF Value, Result

\* What is sent is a command, and only the strobe and the command word change.
LEMMA SendType ==
  ASSUME Types, NEW c \in Calls, NEW h \in {"lo", "hi"}, Send(c, h)
  PROVE  strobe' \in BOOLEAN /\ gp_out' \in Commands
<1>1. c.word[h] \in Half /\ c.write \in BOOLEAN /\ c.reg \in Regs
  BY WordParts, CallParts
<1>2. CASE unsafe
  <2>1. strobe' = ~strobe
    BY <1>2 DEF Send
  <2>2. gp_out' = [strobe |-> strobe', write |-> c.write, reg |-> c.reg, half |-> h, data |-> c.word[h]]
    BY <1>2, <2>1, Zenon DEF Send
  <2>3. strobe' \in BOOLEAN
    BY <2>1, Zenon
  <2> QED
    BY <1>1, <2>2, <2>3 DEF Commands
<1>3. CASE ~unsafe
  BY <1>3 DEF Types, ProcType, Send
<1> QED
  BY <1>2, <1>3

LEMMA ProcessTypes == Types /\ [Next]_vars => ProcType'
<1> SUFFICES ASSUME Types, [Next]_vars PROVE ProcType'
  OBVIOUS
<1> USE DEF Types, ProcType
<1>1. CASE Clock \/ UNCHANGED vars
  BY <1>1 DEF Clock, vars, procVars
<1>2. CASE HighHalf
  <2>1. call \in Calls /\ Value \in Half
    BY <1>2, ResultType DEF HighHalf, Answered
  <2>2. call' \in Calls
    BY <1>2, <2>1, CallParts DEF HighHalf
  <2>3. Send(call, "hi")
    BY <1>2 DEF HighHalf
  <2>4. strobe' \in BOOLEAN /\ gp_out' \in Commands
    BY <2>1, <2>3, SendType
  <2> QED
    BY <1>2, <2>2, <2>4 DEF HighHalf
<1>3. ASSUME NEW c \in Calls, Begin(c)
      PROVE  call' \in Calls /\ strobe' \in BOOLEAN /\ gp_out' \in Commands
  BY <1>3, SendType DEF Begin
<1>4. CASE WrongId
  <2>1. Begin(Read("ID")) /\ Read("ID") \in Calls
    BY <1>4, NewCalls DEF WrongId, Regs
  <2>2. <<"CAPS">> \in Seq(Regs)
    BY DEF Regs
  <2> QED
    BY <1>3, <1>4, <2>1, <2>2 DEF WrongId
<1>5. CASE OpenNext
  <2>1. plan # <<>> /\ Head(plan) \in Regs /\ Tail(plan) \in Seq(Regs)
    BY <1>5 DEF OpenNext
  <2>2. Begin(Read(Head(plan))) /\ Read(Head(plan)) \in Calls
    BY <1>5, <2>1, NewCalls DEF OpenNext
  <2>3. handle' \in [geom : Word, caps : Word]
    BY <1>5, ResultType DEF OpenNext, Done, Answered
  <2> QED
    BY <1>3, <1>5, <2>1, <2>2, <2>3 DEF OpenNext
<1>6. CASE OpenDone
  <2>1. handle' \in [geom : Word, caps : Word]
    BY <1>6, ResultType DEF OpenDone, Done, Answered
  <2> QED
    BY <1>6, <2>1 DEF OpenDone
<1>7. CASE Return
  BY <1>7 DEF Return
<1>8. CASE Die
  BY <1>8 DEF Die
<1>9. ASSUME NEW optIn \in BOOLEAN, Start(optIn) PROVE ProcType'
  <2>1. <<"GEOM", "CAPS">> \in Seq(Regs) /\ Read("ID") \in Calls
    BY NewCalls DEF Regs
  <2>2. NoHandle \in [geom : Word, caps : Word]
    BY Zeroes DEF NoHandle
  <2>3. strobe' \in BOOLEAN
    BY <1>9 DEF Start
  <2>4. [Idle EXCEPT !.strobe = ~FirstStrobe] \in Commands
    BY Zeroes DEF Idle, Commands, Regs
  <2>5. gp_out' \in Commands
    BY <1>9, <2>4 DEF Start
  <2> QED
    BY <1>9, <2>1, <2>2, <2>3, <2>5 DEF Start
<1>10. ASSUME NEW c \in Calls, Access(c) PROVE ProcType'
  BY <1>3, <1>10 DEF Access
<1> QED
  BY <1>1, <1>2, <1>4, <1>5, <1>6, <1>7, <1>8, <1>9, <1>10, NewCalls DEF Next, Driver, Regs

LEMMA TypesStep == Types /\ [Next]_vars => Types'
<1> SUFFICES ASSUME Types, [Next]_vars PROVE Types'
  OBVIOUS
<1>1. CASE Clock
  BY <1>1, ClockTypes, ProcessTypes DEF Types
<1>2. CASE UNCHANGED <<loaded, bridgeVars, slaveVars, spoiled>>
  BY <1>2, ProcessTypes DEF Types, BridgeType, SlaveType, bridgeVars, slaveVars
<1> QED
  BY <1>1, <1>2, FabricStep

LEMMA TypesAlways == Spec => []Types
BY TypesInit, TypesStep, PTL DEF Spec

\* The types of the process, the wires, the bridge and the slaves.
THEOREM TypeCorrect == Spec => []TypeOK
BY TypesAre, TypesAlways, PTL

-----------------------------------------------------------------------------
(* The echo *)

\* Where a command is: nowhere, on the wires, or in the bridge's hands; told by which
\* of the strobe's copies already differ from the last echo.
Quiet == ~req /\ ~rpend /\ ~rhold
AtRest == gp_out.strobe = ack /\ meta = ack /\ now = ack /\ seen = ack /\ Quiet
OnWire == gp_out.strobe # ack /\ (now # ack => meta # ack) /\ seen = ack /\ Quiet
AtWork ==
  /\ gp_out.strobe # ack /\ meta # ack /\ now # ack /\ seen # ack
  /\ \/ req /\ ~rpend /\ ~rhold
     \/ ~req /\ rpend /\ ~rhold
     \/ ~req /\ ~rpend /\ rhold

Phases ==
  /\ AtRest \/ OnWire \/ AtWork
  /\ ~OnWire => cmd = gp_out

\* And where the process is with it: a call in progress has its command on the wires or
\* beyond, and a process without one finds the bridge at rest.
Sent ==
  /\ call # None => proc # "none"
  /\ proc # "none" /\ unsafe => gp_out.strobe = strobe
  /\ proc # "none" /\ (call = None \/ ~unsafe) => AtRest
  /\ call # None /\ unsafe =>
       /\ gp_out.write = call.write /\ gp_out.reg = call.reg
       /\ gp_out.half = call.half /\ gp_out.data = call.word[call.half]
Echoes == loaded => Phases /\ Sent

LEMMA Flip == \A a, b, c \in BOOLEAN : a # b /\ c # b => a = c
OBVIOUS

LEMMA Bits ==
  ASSUME Types
  PROVE  /\ meta \in BOOLEAN /\ now \in BOOLEAN /\ seen \in BOOLEAN /\ ack \in BOOLEAN
         /\ gp_out.strobe \in BOOLEAN /\ strobe \in BOOLEAN /\ unsafe \in BOOLEAN
         /\ req \in BOOLEAN /\ rpend \in BOOLEAN /\ rhold \in BOOLEAN
         /\ cmd.write \in BOOLEAN /\ gp_out.write \in BOOLEAN
BY CommandParts DEF Types, BridgeType, ProcType

\* The three phases exclude each other.
LEMMA OnePhase == ~(OnWire /\ AtWork) /\ ~(AtRest /\ (OnWire \/ AtWork))
BY DEF OnWire, AtWork, AtRest

\* What a clock does to the phases.
LEMMA RestClock == Types /\ AtRest /\ Clock => AtRest' /\ Carry /\ UNCHANGED <<cmd, wdata, wlo, gp_out, ack>>
<1> SUFFICES ASSUME Types, AtRest, Clock
             PROVE  AtRest' /\ Carry /\ UNCHANGED <<cmd, wdata, wlo, gp_out, ack>>
  OBVIOUS
<1>1. gp_out' = gp_out /\ meta' = ack /\ now' = ack /\ seen' = ack
  BY DEF Clock, procVars, Synchronise, AtRest
<1>2. Carry /\ UNCHANGED <<cmd, wdata, wlo>>
  BY DEF Clock, Master, NewCommand, AtRest
<1>3. ack' = ack /\ ~req' /\ ~rpend' /\ ~rhold'
  BY <1>2 DEF Carry, Progress, AtRest, Quiet, ReadDone, WriteDone
<1> QED
  BY <1>1, <1>2, <1>3, Zenon DEF AtRest, Quiet

LEMMA WireClock ==
  Types /\ OnWire /\ Clock =>
    \/ OnWire' /\ Carry /\ UNCHANGED <<cmd, wdata, wlo, gp_out>>
    \/ NewCommand /\ AtWork' /\ Latch /\ UNCHANGED gp_out
<1> SUFFICES ASSUME Types, OnWire, Clock
             PROVE  \/ OnWire' /\ Carry /\ UNCHANGED <<cmd, wdata, wlo, gp_out>>
                    \/ NewCommand /\ AtWork' /\ Latch /\ UNCHANGED gp_out
  OBVIOUS
<1>1. gp_out' = gp_out /\ meta' = gp_out.strobe /\ now' = meta /\ seen' = now
  BY DEF Clock, procVars, Synchronise
<1>2. CASE now = ack
  <2>1. Carry /\ UNCHANGED <<cmd, wdata, wlo>>
    BY <1>2 DEF Clock, Master, NewCommand, OnWire
  <2>2. ack' = ack /\ ~req' /\ ~rpend' /\ ~rhold'
    BY <2>1 DEF Carry, Progress, OnWire, Quiet, ReadDone, WriteDone
  <2>3. OnWire'
    BY <1>1, <1>2, <2>2, Zenon DEF OnWire, Quiet
  <2> QED
    BY <1>1, <2>1, <2>3
<1>3. CASE now # ack
  <2>1. NewCommand /\ Latch
    BY <1>3 DEF Clock, Master, NewCommand, OnWire
  <2>2. ack' = ack /\ req' /\ ~rpend' /\ ~rhold'
    BY <2>1 DEF Latch
  <2>3. AtWork'
    BY <1>1, <1>3, <2>2, Zenon DEF AtWork, OnWire
  <2> QED
    BY <1>1, <2>1, <2>3
<1> QED
  BY <1>2, <1>3

LEMMA WorkClock ==
  Types /\ AtWork /\ Clock =>
    Carry /\ (AtWork' \/ AtRest') /\ UNCHANGED <<cmd, wdata, wlo, gp_out>>
<1> SUFFICES ASSUME Types, AtWork, Clock
             PROVE  Carry /\ (AtWork' \/ AtRest') /\ UNCHANGED <<cmd, wdata, wlo, gp_out>>
  OBVIOUS
<1>1. gp_out' = gp_out /\ meta' = gp_out.strobe /\ now' = meta /\ seen' = now
  BY DEF Clock, procVars, Synchronise
<1>2. now = seen /\ meta = seen /\ gp_out.strobe = seen
  BY Flip, Bits DEF AtWork
<1>3. Carry /\ UNCHANGED <<cmd, wdata, wlo>>
  BY <1>2 DEF Clock, Master, NewCommand
<1>4. CASE GiveUp
  <2>1. ack' = seen /\ ~req' /\ ~rpend' /\ ~rhold'
    BY <1>3, <1>4 DEF Carry, Progress
  <2> QED
    BY <1>1, <1>2, <1>3, <2>1 DEF AtRest, Quiet
<1>5. CASE ~GiveUp /\ req
  <2>1. \/ ack' = seen /\ ~req' /\ ~rpend' /\ ~rhold'
        \/ ack' = ack /\ ~req' /\ rpend' /\ ~rhold'
        \/ ack' = ack /\ req' /\ ~rpend' /\ ~rhold'
    BY <1>3, <1>5 DEF Carry, Progress
  <2> QED
    BY <1>1, <1>2, <1>3, <2>1 DEF AtRest, Quiet, AtWork
<1>6. CASE ~GiveUp /\ ~req
  <2>1. \/ rpend /\ ack' = ack /\ ~req' /\ ~rpend' /\ rhold'
        \/ rhold /\ ack' = seen /\ ~req' /\ ~rpend' /\ ~rhold'
    BY <1>3, <1>6 DEF Carry, Progress, AtWork, ReadDone, WriteDone
  <2> QED
    BY <1>1, <1>2, <1>3, <2>1 DEF AtRest, Quiet, AtWork
<1> QED
  BY <1>4, <1>5, <1>6

LEMMA AnsweredAtRest == loaded /\ Echoes /\ Answered => AtRest
BY DEF Echoes, Phases, Sent, Answered, OnWire, AtWork

LEMMA EchoClock == Types /\ Echoes /\ Clock => Echoes'
<1> SUFFICES ASSUME Types, Echoes, Clock PROVE Phases' /\ Sent'
  BY DEF Echoes
<1>1. loaded /\ Phases /\ Sent
  BY DEF Clock, Echoes
<1>2. UNCHANGED <<proc, unsafe, strobe, call, gp_out>>
  BY DEF Clock, procVars
<1>3. CASE AtRest
  <2>1. AtRest' /\ cmd' = cmd
    BY <1>3, RestClock
  <2>2. cmd = gp_out
    BY <1>1, <1>3, OnePhase DEF Phases
  <2> QED
    BY <1>1, <1>2, <2>1, <2>2 DEF Phases, Sent
<1>4. CASE ~AtRest /\ OnWire
  <2>1. OnWire' \/ (AtWork' /\ cmd' = gp_out)
    BY <1>4, WireClock DEF Latch
  <2> QED
    BY <1>1, <1>2, <1>4, <2>1 DEF Phases, Sent
<1>5. CASE ~AtRest /\ AtWork
  <2>1. cmd = gp_out
    BY <1>1, <1>5, OnePhase DEF Phases
  <2> QED
    BY <1>1, <1>2, <1>5, <2>1, WorkClock DEF Phases, Sent
<1> QED
  BY <1>1, <1>3, <1>4, <1>5 DEF Phases

\* What the process may do to the wires: send a command, or leave them alone and, if it
\* may drive them at all, the call with them.
Moved ==
  loaded => \/ OnWire'
            \/ gp_out' = gp_out /\ (~unsafe' \/ call' = None \/ UNCHANGED <<call, unsafe, strobe>>)

\* A command sent with the bridge at rest is on the wires, or nowhere.
LEMMA EchoSend ==
  ASSUME Types, Echoes, Answered \/ (proc # "none" /\ call = None), proc # "none",
         NEW c \in Calls, NEW h \in {"lo", "hi"}, Send(c, h),
         call' \in Calls, call'.write = c.write, call'.reg = c.reg, call'.half = h,
         call'.word = c.word,
         proc' # "none", UNCHANGED <<loaded, unsafe, bridgeVars>>
  PROVE  Echoes' /\ Moved
<1> SUFFICES ASSUME loaded PROVE Phases' /\ Sent' /\ Moved
  BY DEF Echoes, Moved
<1>1. AtRest /\ Phases /\ Sent
  BY AnsweredAtRest DEF Echoes, Sent
<1>2. UNCHANGED <<meta, now, seen, ack, req, rpend, rhold, cmd>>
  BY DEF bridgeVars
<1>3. CASE unsafe
  <2>1. /\ strobe' = ~strobe /\ gp_out'.strobe = ~strobe
        /\ gp_out'.write = c.write /\ gp_out'.reg = c.reg /\ gp_out'.half = h
        /\ gp_out'.data = c.word[h]
    BY <1>3 DEF Send
  <2>2. strobe = ack
    BY <1>1, <1>3 DEF Sent, AtRest
  <2>3. gp_out'.strobe = strobe' /\ gp_out'.strobe # ack
    BY <2>1, <2>2, Bits
  <2>4. OnWire'
    BY <1>1, <1>2, <2>3, Zenon DEF OnWire, AtRest, Quiet
  <2>5. call' # None
    BY CallIsNotNone
  <2>6. Phases'
    BY <2>4, Zenon DEF Phases
  <2>7. unsafe'
    BY <1>3
  <2>8. /\ gp_out'.write = call'.write /\ gp_out'.reg = call'.reg
        /\ gp_out'.half = call'.half /\ gp_out'.data = call'.word[call'.half]
    BY <2>1
  <2>9. Sent'
    BY <1>3, <2>3, <2>5, <2>7, <2>8, Zenon DEF Sent
  <2> QED
    BY <2>4, <2>6, <2>9 DEF Moved
<1>4. CASE ~unsafe
  <2>1. gp_out' = gp_out
    BY <1>4 DEF Send
  <2>2. AtRest'
    BY <1>1, <1>2, <2>1, Zenon DEF AtRest, Quiet
  <2>3. cmd' = gp_out'
    BY <1>1, <1>2, <2>1, OnePhase DEF Phases
  <2> QED
    BY <1>4, <2>1, <2>2, <2>3 DEF Phases, Sent, Moved
<1> QED
  BY <1>3, <1>4

\* A process that comes to be without a call, or ceases to be, leaves the wires alone.
LEMMA EchoLeave ==
  ASSUME Types, Echoes, call' = None, UNCHANGED <<loaded, unsafe, strobe, gp_out, bridgeVars>>,
         proc' = "none" \/ (proc # "none" /\ Answered)
  PROVE  Echoes' /\ Moved
<1> SUFFICES ASSUME loaded PROVE Phases' /\ Sent' /\ Moved
  BY DEF Echoes, Moved
<1>1. Phases /\ Sent
  BY DEF Echoes
<1>2. UNCHANGED <<meta, now, seen, ack, req, rpend, rhold, cmd, gp_out>>
  BY DEF bridgeVars
<1>3. Phases'
  BY <1>1, <1>2 DEF Phases, AtRest, OnWire, AtWork, Quiet
<1>4. proc' # "none" => AtRest'
  BY <1>2, AnsweredAtRest DEF AtRest, Quiet
<1>5. proc' # "none" /\ unsafe' => gp_out'.strobe = strobe'
  BY <1>1 DEF Sent
<1> QED
  BY <1>2, <1>3, <1>4, <1>5 DEF Sent, Moved

LEMMA EchoStart ==
  ASSUME Types, Echoes, NEW optIn \in BOOLEAN, Start(optIn)
  PROVE  Echoes' /\ Moved
<1> SUFFICES ASSUME loaded PROVE Phases' /\ Sent' /\ Moved
  BY DEF Echoes, Start, Moved
<1>1. AtRest /\ Phases
  BY DEF Start, Settled, AtRest, Quiet, Echoes
<1>2. UNCHANGED <<meta, now, seen, ack, req, rpend, rhold, cmd>>
  BY DEF Start, bridgeVars
<1>3. /\ call' = Read("ID") /\ proc' = "opening" /\ unsafe' = optIn
      /\ strobe' = (optIn /\ ~ack)
      /\ gp_out' = IF optIn THEN [Idle EXCEPT !.strobe = ~ack] ELSE gp_out
  BY DEF Start, FirstStrobe
<1>4. CASE optIn
  <2>1. /\ gp_out'.strobe = ~ack /\ ~gp_out'.write /\ gp_out'.write \in BOOLEAN /\ gp_out'.reg = "ID"
        /\ gp_out'.half = "lo" /\ gp_out'.data = Zero
    BY <1>3, <1>4 DEF Idle
  <2>2. strobe' = ~ack
    BY <1>3, <1>4
  <2>3. OnWire'
    BY <1>1, <1>2, <2>1, Bits DEF OnWire, AtRest, Quiet
  <2>4. /\ ~call'.write /\ call'.write \in BOOLEAN /\ call'.reg = "ID" /\ call'.half = "lo"
        /\ call'.word[call'.half] = Zero
    BY <1>3, Zeroes DEF Read, ZeroWord
  <2>5. gp_out'.write = call'.write
    BY <2>1, <2>4
  <2>6. call' # None
    BY <1>3, NewCalls, CallIsNotNone DEF Regs
  <2>7. gp_out'.strobe = strobe'
    BY <1>3, <1>4 DEF Idle
  <2>8. gp_out'.data = call'.word[call'.half]
    BY <2>1, <2>4
  <2>9. Phases'
    BY <2>3, Zenon DEF Phases
  <2>10. proc' # "none" /\ unsafe'
    BY <1>3, <1>4
  <2>11. Sent'
    BY <2>1, <2>4, <2>5, <2>6, <2>7, <2>8, <2>10, Zenon DEF Sent
  <2> QED
    BY <2>3, <2>9, <2>11 DEF Moved
<1>5. CASE ~optIn
  <2>1. gp_out' = gp_out
    BY <1>3, <1>5
  <2>2. AtRest'
    BY <1>1, <1>2, <2>1, Zenon DEF AtRest, Quiet
  <2>3. cmd' = gp_out'
    BY <1>1, <1>2, <2>1, OnePhase DEF Phases
  <2> QED
    BY <1>3, <1>5, <2>1, <2>2, <2>3 DEF Phases, Sent, Moved
<1> QED
  BY <1>4, <1>5

\* Every step keeps the phases.
LEMMA EchoStep == Types /\ Echoes /\ [Next]_vars => Echoes' /\ (Clock \/ Moved)
<1> SUFFICES ASSUME Types, Echoes, [Next]_vars PROVE Echoes' /\ (Clock \/ Moved)
  OBVIOUS
<1>1. CASE UNCHANGED vars
  BY <1>1 DEF vars, procVars, bridgeVars, Echoes, Phases, Sent, AtRest, OnWire, AtWork, Quiet, Moved
<1>2. CASE HighHalf
  <2>1. call \in Calls /\ Value \in Half /\ Answered
    BY <1>2, ResultType DEF HighHalf, Answered
  <2>2. loaded => proc # "none"
    BY <2>1, CallIsNotNone DEF Echoes, Sent
  <2>3. /\ call'.write = call.write /\ call'.reg = call.reg /\ call'.half = "hi"
        /\ call'.word = call.word /\ call' \in Calls
    BY <1>2, <2>1, CallParts DEF HighHalf
  <2>4. Send(call, "hi") /\ proc' = proc /\ UNCHANGED <<loaded, unsafe, bridgeVars>>
    BY <1>2 DEF HighHalf
  <2>5. CASE ~loaded
    BY <2>4, <2>5 DEF Echoes, Moved
  <2> QED
    BY <2>1, <2>2, <2>3, <2>4, <2>5, EchoSend
<1>3. ASSUME NEW c \in Calls, c.half = "lo", Begin(c), proc # "none", proc' # "none",
             Answered \/ call = None, UNCHANGED <<loaded, unsafe, bridgeVars>>
      PROVE  Echoes' /\ Moved
  BY <1>3, EchoSend DEF Begin
<1>4. CASE WrongId
  <2>1. Read("ID") \in Calls /\ Read("ID").half = "lo"
    BY NewCalls DEF Regs
  <2> QED
    BY <1>3, <1>4, <2>1 DEF WrongId, Done
<1>5. CASE OpenNext
  <2>1. Head(plan) \in Regs
    BY <1>5 DEF OpenNext, Types, ProcType
  <2>2. Read(Head(plan)) \in Calls /\ Read(Head(plan)).half = "lo"
    BY <2>1, NewCalls
  <2> QED
    BY <1>3, <1>5, <2>2 DEF OpenNext, Done
<1>6. CASE OpenDone
  BY <1>6, EchoLeave DEF OpenDone, Done
<1>7. CASE Return
  BY <1>7, EchoLeave DEF Return, Done
<1>8. CASE Die
  BY <1>8, EchoLeave DEF Die
<1>9. ASSUME NEW c \in Calls, c.half = "lo", Access(c) PROVE Echoes' /\ Moved
  BY <1>3, <1>9 DEF Access
<1> QED
  BY <1>1, <1>2, <1>4, <1>5, <1>6, <1>7, <1>8, <1>9, EchoClock, EchoStart, NewCalls
  DEF Next, Driver, Regs

LEMMA EchoInit == Init => Echoes
<1> SUFFICES ASSUME Init PROVE Phases /\ Sent
  BY DEF Echoes
<1>1. gp_out.strobe = FALSE
  BY DEF Init, Idle
<1>2. AtRest
  BY <1>1, Zenon DEF Init, AtRest, Quiet
<1>3. cmd = gp_out /\ proc = "none" /\ call = None
  BY Zenon DEF Init
<1> QED
  BY <1>2, <1>3, Zenon DEF Phases, Sent

-----------------------------------------------------------------------------
(* The words *)

\* Only two registers are written.
Writable == {"GEOM", "PLL"}
Targets ==
  /\ gp_out.write => gp_out.reg \in Writable
  /\ cmd.write => cmd.reg \in Writable
  /\ call # None /\ call.write => call.reg \in Writable

LEMMA TargetsInit == Init => Targets
BY DEF Init, Idle, Targets

LEMMA TargetsSend ==
  ASSUME Targets, NEW c \in Calls, NEW h \in {"lo", "hi"}, Send(c, h), cmd' = cmd,
         c.write => c.reg \in Writable, call'.write = c.write, call'.reg = c.reg
  PROVE  Targets'
<1>1. gp_out'.write => gp_out'.reg \in Writable
  <2>1. CASE unsafe
    BY <2>1 DEF Send
  <2>2. CASE ~unsafe
    BY <2>2 DEF Send, Targets
  <2> QED
    BY <2>1, <2>2
<1> QED
  BY <1>1 DEF Targets

LEMMA TargetsStep == Types /\ Targets /\ [Next]_vars => Targets'
<1> SUFFICES ASSUME Types, Targets, [Next]_vars PROVE Targets'
  OBVIOUS
<1>1. CASE Clock
  <2>1. UNCHANGED <<call, gp_out>> /\ (cmd' = gp_out \/ cmd' = cmd)
    BY <1>1 DEF Clock, procVars, Master, Latch
  <2> QED
    BY <2>1 DEF Targets
<1>2. CASE UNCHANGED vars
  BY <1>2 DEF vars, procVars, bridgeVars, Targets
<1>3. CASE HighHalf
  <2>1. call \in Calls /\ Value \in Half /\ call # None
    BY <1>3, ResultType DEF HighHalf, Answered
  <2>2. call'.write = call.write /\ call'.reg = call.reg
    BY <1>3, <2>1, CallParts DEF HighHalf
  <2>3. call.write => call.reg \in Writable
    BY <2>1 DEF Targets
  <2> QED
    BY <1>3, <2>1, <2>2, <2>3, TargetsSend DEF HighHalf, bridgeVars
<1>4. ASSUME NEW c \in Calls, c.write => c.reg \in Writable, Begin(c), UNCHANGED bridgeVars
      PROVE  Targets'
  BY <1>4, TargetsSend DEF Begin, bridgeVars
<1>5. CASE WrongId
  BY <1>4, <1>5, NewCalls DEF WrongId, Regs
<1>6. CASE OpenNext
  <2>1. Head(plan) \in Regs
    BY <1>6 DEF OpenNext, Types, ProcType
  <2> QED
    BY <1>4, <1>6, <2>1, NewCalls DEF OpenNext
<1>7. CASE OpenDone \/ Return \/ Die
  BY <1>7 DEF OpenDone, Return, Die, bridgeVars, Targets
<1>8. ASSUME NEW optIn \in BOOLEAN, Start(optIn) PROVE Targets'
  <2>1. gp_out'.write => gp_out'.reg \in Writable
    BY <1>8 DEF Start, Idle, Targets
  <2> QED
    BY <1>8, <2>1, NewCalls DEF Start, bridgeVars, Targets, Regs
<1>9. ASSUME NEW c \in Calls, c.write => c.reg \in Writable, Access(c) PROVE Targets'
  BY <1>4, <1>9 DEF Access
<1> QED
  BY <1>1, <1>2, <1>3, <1>5, <1>6, <1>7, <1>8, <1>9, NewCalls DEF Next, Driver, Regs, Writable

\* The word of a write is put together by the time the bridge holds its command, and
\* the half that came first is kept for the second.
Joined ==
  IF cmd.half = "lo" THEN wdata = [hi |-> Zero, lo |-> cmd.data] /\ wlo = cmd.data
                     ELSE wdata = [hi |-> cmd.data, lo |-> wlo]
Halves ==
  loaded => /\ ~OnWire /\ cmd.write => Joined
            /\ call # None /\ call.write /\ call.half = "hi" /\ unsafe => wlo = call.word.lo

LEMMA HalvesInit == Init => Halves
BY DEF Init, Idle, Halves

LEMMA HalvesClock == Types /\ Echoes /\ Halves /\ Clock => Halves'
<1> SUFFICES ASSUME Types, Echoes, Halves, Clock PROVE Halves'
  OBVIOUS
<1>1. loaded /\ Phases /\ Sent
  BY DEF Clock, Echoes
<1>2. UNCHANGED <<call, unsafe, gp_out>>
  BY DEF Clock, procVars
<1>3. CASE UNCHANGED <<cmd, wdata, wlo>> /\ (OnWire' \/ ~OnWire)
  BY <1>1, <1>2, <1>3 DEF Halves, Joined
<1>4. CASE OnWire /\ Latch
  <2>1. cmd' = gp_out /\ gp_out.half \in {"lo", "hi"}
    BY <1>4, CommandParts DEF Latch, Types, ProcType
  <2>2. cmd'.write => Joined'
    BY <1>4, <2>1 DEF Latch, Joined
  <2>3. call # None /\ call.write /\ call.half = "hi" /\ unsafe => wlo' = wlo
    BY <1>1, <1>4 DEF Sent, Latch
  <2> QED
    BY <1>1, <1>2, <2>2, <2>3 DEF Halves
<1> QED
  BY <1>1, <1>3, <1>4, RestClock, WireClock, WorkClock, OnePhase DEF Phases

LEMMA HalvesProcess ==
  Types /\ Echoes /\ Halves /\ [Next]_vars /\ Moved /\ UNCHANGED <<loaded, bridgeVars>> => Halves'
<1> SUFFICES ASSUME Types, Echoes, Halves, [Next]_vars, Moved, UNCHANGED <<loaded, bridgeVars>>, loaded
             PROVE  Halves'
  BY DEF Halves
<1>1. UNCHANGED <<meta, now, seen, ack, req, rpend, rhold, cmd, wdata, wlo>>
  BY DEF bridgeVars
<1>2. ~OnWire' /\ cmd'.write => Joined'
  BY <1>1 DEF Halves, Joined, Moved, OnWire, Quiet
<1>3. ASSUME call' # None => call'.half = "lo" \/ UNCHANGED <<call, unsafe>> PROVE Halves'
  BY <1>1, <1>2, <1>3 DEF Halves
<1>4. CASE HighHalf
  <2>1. call \in Calls /\ Value \in Half /\ call # None /\ call.half = "lo" /\ AtRest
    BY <1>4, ResultType, AnsweredAtRest DEF HighHalf, Answered
  <2>2. call'.write = call.write /\ call'.word = call.word /\ unsafe' = unsafe
    BY <1>4, <2>1, CallParts DEF HighHalf
  <2>3. ASSUME call.write, unsafe PROVE wlo = call.word.lo
    <3>1. ~OnWire /\ cmd = gp_out
      BY <2>1, OnePhase DEF Echoes, Phases
    <3>2. gp_out.write /\ gp_out.half = "lo" /\ gp_out.data = call.word["lo"]
      BY <2>1, <2>3 DEF Echoes, Sent
    <3>3. Joined
      BY <3>1, <3>2 DEF Halves
    <3> QED
      BY <3>1, <3>2, <3>3 DEF Joined
  <2> QED
    BY <1>1, <1>2, <2>2, <2>3 DEF Halves
<1>5. CASE WrongId \/ OpenNext
  <2>1. Head(plan) \in Regs \/ WrongId
    BY <1>5 DEF OpenNext, Types, ProcType
  <2> QED
    BY <1>3, <1>5, <2>1, NewCalls DEF WrongId, OpenNext, Begin, Regs
<1>6. CASE OpenDone \/ Return \/ Die \/ UNCHANGED vars \/ Clock
  BY <1>3, <1>6 DEF OpenDone, Return, Die, vars, procVars, Clock
<1>7. ASSUME NEW optIn \in BOOLEAN, Start(optIn) PROVE Halves'
  BY <1>3, <1>7, NewCalls DEF Start, Regs
<1>8. ASSUME NEW c \in Calls, c.half = "lo", Access(c) PROVE Halves'
  BY <1>3, <1>8 DEF Access, Begin
<1> QED
  BY <1>4, <1>5, <1>6, <1>7, <1>8, NewCalls DEF Next, Driver, Regs

-----------------------------------------------------------------------------
(* The answers *)

\* How far the slave is with a command that was not given up: the exchange in the PLL
\* window is this command's own, what it will read is in place, and at rest the word
\* has landed or the answer is the register's.
Exchange ==
  bus # "idle" => /\ m_write = cmd.write /\ m_data = wdata
                  /\ bus = "done" => IF cmd.write THEN mem["PLL"] = wdata ELSE cap = mem["PLL"]
Fetched == bus = "idle" \/ ~InWindow(cmd.reg)
Serve ==
  loaded /\ ~spoiled =>
    /\ AtWork /\ req /\ InWindow(cmd.reg) => Exchange
    /\ AtWork /\ ~req => Fetched
    /\ AtWork /\ rpend => ReadData = mem[cmd.reg]
    /\ AtWork /\ rhold => readback = mem[cmd.reg]
    /\ AtRest => Fetched
    /\ AtRest /\ cmd.write => mem[cmd.reg] = wdata
    /\ AtRest /\ ~cmd.write /\ Echoed /\ call # None => readback = mem[cmd.reg]
\* Past its acceptance a command is a read.
Reading == loaded /\ AtWork /\ ~req => ~cmd.write

LEMMA ServeInit == Init => Serve /\ Reading
<1> SUFFICES ASSUME Init PROVE Serve /\ Reading
  OBVIOUS
<1>1. ~AtWork
  BY DEF Init, Idle, AtWork
<1>2. Fetched /\ call = None
  BY DEF Init, Fetched
<1>3. ~cmd.write
  BY DEF Init, Idle
<1> QED
  BY <1>1, <1>2, <1>3, Zenon DEF Serve, Reading

\* What a clock leaves of the registers.
LEMMA MemClock ==
  ASSUME Types, Clock
  PROVE  /\ \A r \in Regs \ {"GEOM", "PLL"} : mem'[r] = mem[r]
         /\ mem'["GEOM"] = IF WriteDone /\ cmd.reg = "GEOM" THEN wdata ELSE mem["GEOM"]
         /\ mem'["PLL"] = IF bus = "accept" /\ bus' = "done" /\ m_write THEN m_data ELSE mem["PLL"]
         /\ rdata' = IF ReadDone /\ ~InWindow(cmd.reg) THEN mem[cmd.reg] ELSE rdata
<1>1. mem \in [Regs -> Word]
  BY DEF Types, SlaveType
<1>2. Registers
  BY DEF Clock
<1> QED
  BY <1>1, <1>2 DEF Registers, Regs

\* With no request the adapter only comes to an end.
LEMMA NoRequest ==
  ASSUME Types, Clock, ~req, NEW r \in Regs, bus = "idle" \/ ~InWindow(r)
  PROVE  /\ mem'[r] = mem[r] /\ rdata' = rdata
         /\ cap' = cap \/ ~InWindow(r)
         /\ bus' = "idle" \/ ~InWindow(r)
<1>1. Adapter
  BY DEF Clock
<1>2. bus = "idle" => bus' = "idle" /\ cap' = cap
  BY <1>1 DEF Adapter
<1>3. rdata' = rdata
  BY MemClock DEF ReadDone
<1>4. mem'[r] = mem[r]
  BY <1>2, MemClock DEF WriteDone, InWindow, Regs
<1> QED
  BY <1>2, <1>3, <1>4

LEMMA ServeRest ==
  ASSUME Types, Serve, Clock, AtRest PROVE Serve' /\ Reading'
<1> SUFFICES ASSUME ~spoiled' PROVE Serve' /\ Reading'
  <2>1. AtRest'
    BY RestClock
  <2> QED
    BY <2>1, OnePhase DEF Serve, Reading, AtRest, AtWork
<1>1. AtRest' /\ Carry /\ UNCHANGED <<cmd, wdata, ack>>
  BY RestClock
<1>2. ~NewCommand /\ ~req /\ ~rpend
  BY DEF AtRest, NewCommand, Quiet
<1>3. ~spoiled /\ ~GiveUp /\ loaded
  BY <1>2 DEF Clock
<1>4. readback' = readback
  BY <1>1, <1>2, <1>3 DEF Carry, Progress, ReadDone, WriteDone
<1>5. cmd.reg \in Regs
  BY CommandParts DEF Types, BridgeType
<1>6. Fetched
  BY <1>3 DEF Serve
<1>7. mem'[cmd.reg] = mem[cmd.reg] /\ Fetched'
  <2>1. bus = "idle" \/ ~InWindow(cmd.reg)
    BY <1>6 DEF Fetched
  <2>2. mem'[cmd.reg] = mem[cmd.reg] /\ (bus' = "idle" \/ ~InWindow(cmd.reg))
    BY <1>2, <1>5, <2>1, NoRequest
  <2>3. cmd' = cmd
    BY <1>1
  <2> QED
    BY <2>2, <2>3 DEF Fetched
<1>8. Echoed' /\ call' # None => Echoed /\ call # None
  BY <1>1 DEF Clock, procVars, Echoed
<1>9. ~AtWork'
  BY <1>1 DEF AtRest, AtWork
<1> QED
  BY <1>1, <1>3, <1>4, <1>7, <1>8, <1>9 DEF Serve, Reading

LEMMA ServeWire ==
  ASSUME Types, Clock, OnWire PROVE Serve' /\ Reading'
<1>1. CASE OnWire'
  <2>1. ~AtWork' /\ ~AtRest'
    BY <1>1 DEF OnWire, AtWork, AtRest
  <2> QED
    BY <2>1, Zenon DEF Serve, Reading
<1>2. CASE NewCommand /\ AtWork' /\ Latch
  <2>1. cmd' = gp_out /\ req' /\ ~rpend' /\ ~rhold' /\ ~AtRest'
    BY <1>2 DEF Latch, AtRest, AtWork
  <2>2. ~spoiled' /\ InWindow(gp_out.reg) => bus' = "idle"
    BY <1>2 DEF Clock
  <2>3. ~spoiled' /\ InWindow(cmd'.reg) => Exchange'
    BY <2>1, <2>2 DEF Exchange
  <2> QED
    BY <2>1, <2>3, Zenon DEF Serve, Reading
<1> QED
  BY <1>1, <1>2, WireClock

LEMMA ServeWork ==
  ASSUME Types, Serve, Reading, Targets, Clock, AtWork PROVE Serve' /\ Reading'
<1>0. Carry /\ (AtWork' \/ AtRest') /\ UNCHANGED <<cmd, wdata>>
  BY WorkClock
<1>1. ~NewCommand /\ loaded /\ loaded'
  <2>1. now = seen
    BY Flip, Bits DEF AtWork
  <2> QED
    BY <2>1 DEF NewCommand, Clock
<1>2. spoiled' = (spoiled \/ GiveUp)
  BY <1>1 DEF Clock
<1>3. AtWork' => ~AtRest'
  BY DEF AtWork, AtRest
<1>4. cmd.reg \in Regs /\ cmd.write \in BOOLEAN
  BY CommandParts DEF Types, BridgeType
<1>5. CASE GiveUp
  <2>1. ~AtWork' \/ req'
    <3>1. ack' = seen
      BY <1>0, <1>5 DEF Carry, Progress
    <3>2. seen' = now /\ now = seen
      BY Flip, Bits DEF AtWork, Clock, Synchronise
    <3> QED
      BY <3>1, <3>2 DEF AtWork
  <2> QED
    BY <1>2, <1>5, <2>1 DEF Serve, Reading
<1>6. CASE ~GiveUp /\ req /\ Waits
  <2>1. req' /\ ~rpend' /\ ~rhold'
    BY <1>0, <1>6 DEF Carry, Progress, ReadDone, WriteDone
  <2>2. AtWork'
    BY <1>0, <2>1 DEF AtRest, Quiet
  <2>3. InWindow(cmd.reg) /\ bus # "done" /\ cmd.reg = "PLL"
    BY <1>6 DEF Waits, InWindow
  <2>4. ~spoiled' => Exchange'
    <3>1. ~spoiled' => Exchange
      BY <1>1, <1>2, <1>6, <2>3 DEF Serve
    <3>2. Adapter
      BY DEF Clock
    <3>3. mem'["PLL"] = IF bus = "accept" /\ bus' = "done" /\ m_write THEN m_data ELSE mem["PLL"]
      BY MemClock
    <3>4. CASE bus = "idle"
      BY <1>0, <1>6, <2>3, <3>2, <3>4 DEF Adapter, Exchange
    <3>5. CASE bus = "accept"
      BY <1>0, <3>1, <3>2, <3>3, <3>5 DEF Adapter, Exchange
    <3> QED
      BY <2>3, <3>4, <3>5 DEF Types, SlaveType
  <2> QED
    BY <1>3, <2>1, <2>2, <2>4, Zenon DEF Serve, Reading
<1>7. CASE ~GiveUp /\ req /\ ~Waits /\ cmd.write
  <2>1. WriteDone /\ ~ReadDone
    BY <1>7 DEF WriteDone, ReadDone
  <2>2. ~req' /\ ~rpend' /\ ~rhold'
    BY <1>0, <1>7, <2>1 DEF Carry, Progress
  <2>3. AtRest' /\ ~AtWork'
    BY <1>0, <1>3, <2>2 DEF AtWork
  <2>4. ~spoiled' => Fetched' /\ mem'[cmd.reg] = wdata
    <3>1. CASE InWindow(cmd.reg)
      <4>1. bus = "done" /\ bus' = "idle" /\ cmd.reg = "PLL"
        BY <1>7, <3>1 DEF Waits, InWindow, Clock, Adapter
      <4>2. ~spoiled' => mem["PLL"] = wdata
        BY <1>1, <1>2, <1>7, <3>1, <4>1 DEF Serve, Exchange
      <4>3. mem'["PLL"] = mem["PLL"]
        BY <4>1, MemClock
      <4> QED
        BY <4>1, <4>2, <4>3 DEF Fetched
    <3>2. CASE ~InWindow(cmd.reg)
      <4>1. cmd.reg = "GEOM"
        BY <1>7, <3>2 DEF Targets, Writable, InWindow
      <4>2. mem'["GEOM"] = wdata
        BY <2>1, <4>1, MemClock
      <4> QED
        BY <1>0, <3>2, <4>1, <4>2 DEF Fetched
    <3> QED
      BY <3>1, <3>2
  <2> QED
    BY <1>0, <1>7, <2>3, <2>4, Zenon DEF Serve, Reading
<1>8. CASE ~GiveUp /\ req /\ ~Waits /\ ~cmd.write
  <2>1. ReadDone /\ ~WriteDone
    BY <1>8 DEF WriteDone, ReadDone
  <2>2. ~req' /\ rpend' /\ ~rhold'
    BY <1>0, <1>8, <2>1 DEF Carry, Progress
  <2>3. AtWork' /\ ~AtRest'
    BY <1>0, <2>2 DEF AtRest, Quiet
  <2>4. ~spoiled' => Fetched' /\ ReadData' = mem'[cmd.reg]
    <3>1. CASE InWindow(cmd.reg)
      <4>1. bus = "done" /\ bus' = "idle" /\ cap' = cap /\ cmd.reg = "PLL"
        BY <1>8, <3>1 DEF Waits, InWindow, Clock, Adapter
      <4>2. ~spoiled' => cap = mem["PLL"]
        BY <1>1, <1>2, <1>8, <3>1, <4>1 DEF Serve, Exchange
      <4>3. mem'["PLL"] = mem["PLL"]
        BY <4>1, MemClock
      <4> QED
        BY <1>0, <3>1, <4>1, <4>2, <4>3 DEF Fetched, ReadData
    <3>2. CASE ~InWindow(cmd.reg)
      <4>1. rdata' = mem[cmd.reg]
        BY <2>1, <3>2, MemClock
      <4>2. mem'[cmd.reg] = mem[cmd.reg]
        BY <1>4, <2>1, <3>2, MemClock DEF InWindow, Regs
      <4> QED
        BY <1>0, <3>2, <4>1, <4>2 DEF Fetched, ReadData
    <3> QED
      BY <3>1, <3>2
  <2> QED
    BY <1>0, <1>8, <2>2, <2>3, <2>4, Zenon DEF Serve, Reading
<1>9. CASE ~GiveUp /\ ~req
  <2>1. ~cmd.write
    BY <1>1, <1>9 DEF Reading
  <2>2. ~spoiled' => ~spoiled
    BY <1>2
  <2>3. ~spoiled' => Fetched
    BY <1>1, <1>9, <2>2 DEF Serve
  <2>4. ~spoiled' => mem'[cmd.reg] = mem[cmd.reg] /\ Fetched'
    <3> SUFFICES ASSUME ~spoiled' PROVE mem'[cmd.reg] = mem[cmd.reg] /\ Fetched'
      OBVIOUS
    <3>1. bus = "idle" \/ ~InWindow(cmd.reg)
      BY <2>3 DEF Fetched
    <3>2. mem'[cmd.reg] = mem[cmd.reg] /\ (bus' = "idle" \/ ~InWindow(cmd.reg))
      BY <1>4, <1>9, <3>1, NoRequest
    <3>3. cmd' = cmd
      BY <1>0
    <3> QED
      BY <3>2, <3>3 DEF Fetched
  <2>5. ~ReadDone /\ ~WriteDone
    BY <1>9 DEF ReadDone, WriteDone
  <2>6. CASE rpend
    <3>1. ~req' /\ ~rpend' /\ rhold' /\ readback' = ReadData
      BY <1>0, <1>9, <2>5, <2>6 DEF Carry, Progress
    <3>2. AtWork' /\ ~AtRest'
      BY <1>0, <3>1 DEF AtRest, Quiet
    <3>3. ~spoiled' => ReadData = mem[cmd.reg]
      BY <1>1, <2>2, <2>6 DEF Serve
    <3> QED
      BY <1>0, <2>1, <2>4, <3>1, <3>2, <3>3 DEF Serve, Reading
  <2>7. CASE ~rpend
    <3>1. ~req' /\ ~rpend' /\ ~rhold' /\ readback' = readback /\ rhold
      BY <1>0, <1>9, <2>5, <2>7 DEF Carry, Progress, AtWork
    <3>2. AtRest' /\ ~AtWork'
      BY <1>0, <1>3, <3>1 DEF AtWork
    <3>3. ~spoiled' => readback = mem[cmd.reg]
      BY <1>1, <2>2, <3>1 DEF Serve
    <3> QED
      BY <1>0, <2>1, <2>4, <3>1, <3>2, <3>3 DEF Serve, Reading
  <2> QED
    BY <2>6, <2>7
<1> QED
  BY <1>5, <1>6, <1>7, <1>8, <1>9

LEMMA ServeProcess ==
  ASSUME Types, Echoes, Serve, Reading, Moved,
         UNCHANGED <<loaded, bridgeVars, slaveVars, spoiled>>
  PROVE  Serve' /\ Reading'
<1>1. UNCHANGED <<loaded, spoiled, meta, now, seen, ack, req, rpend, rhold, cmd, wdata, readback,
                  mem, rdata, bus, m_write, m_data, cap>>
  BY DEF bridgeVars, slaveVars
<1>2. CASE OnWire'
  <2>1. ~AtWork' /\ ~AtRest'
    BY <1>2 DEF OnWire, AtWork, AtRest
  <2> QED
    BY <2>1, Zenon DEF Serve, Reading
<1>3. CASE gp_out' = gp_out
  <2>1. AtRest' = AtRest /\ AtWork' = AtWork
    BY <1>1, <1>3 DEF AtRest, AtWork, Quiet
  <2>2. Fetched' = Fetched /\ Exchange' = Exchange /\ ReadData' = ReadData
    BY <1>1 DEF Fetched, Exchange, ReadData
  <2>3. CASE ~unsafe' \/ call' = None \/ UNCHANGED <<call, unsafe, strobe>>
    <3>1. Echoed' /\ call' # None => Echoed /\ call # None
      BY <1>1, <2>3 DEF Echoed
    <3> QED
      BY <1>1, <2>1, <2>2, <3>1 DEF Serve, Reading
  <2>4. CASE ~loaded
    BY <1>1, <2>4 DEF Serve, Reading
  <2> QED
    BY <1>2, <2>3, <2>4 DEF Moved
<1>4. CASE ~loaded
  BY <1>1, <1>4 DEF Serve, Reading
<1> QED
  BY <1>2, <1>3, <1>4 DEF Moved

-----------------------------------------------------------------------------
(* The invariant, and what it says to the process *)

Inv == Types /\ Echoes /\ Targets /\ Halves /\ Serve /\ Reading

LEMMA InvInit == Init => Inv
BY TypesInit, EchoInit, TargetsInit, HalvesInit, ServeInit DEF Inv

LEMMA InvStep == Inv /\ [Next]_vars => Inv'
<1> SUFFICES ASSUME Types, Echoes, Targets, Halves, Serve, Reading, [Next]_vars PROVE Inv'
  BY DEF Inv
<1>1. Types' /\ Targets' /\ Echoes' /\ (Clock \/ Moved)
  BY TypesStep, TargetsStep, EchoStep
<1>2. CASE Clock
  <2>1. Serve' /\ Reading'
    BY <1>2, ServeRest, ServeWire, ServeWork DEF Clock, Echoes, Phases
  <2> QED
    BY <1>1, <1>2, <2>1, HalvesClock DEF Inv
<1>3. CASE ~Clock
  <2>1. UNCHANGED <<loaded, bridgeVars, slaveVars, spoiled>>
    BY <1>3, FabricStep
  <2>2. UNCHANGED <<loaded, bridgeVars>>
    BY <2>1
  <2>3. Serve' /\ Reading'
    BY <1>1, <1>3, <2>1, ServeProcess
  <2> QED
    BY <1>1, <1>3, <2>2, <2>3, HalvesProcess DEF Inv
<1> QED
  BY <1>2, <1>3

LEMMA InvAlways == Spec => []Inv
BY InvInit, InvStep, PTL DEF Spec

LEMMA EchoedAtRest ==
  ASSUME Inv, loaded, Echoed, call # None
  PROVE  AtRest /\ cmd = gp_out /\ Phases /\ Sent
BY OnePhase DEF Inv, Echoes, Phases, Sent, Echoed, OnWire, AtWork

\* When a process sees its strobe echoed, the bridge has carried out that very command
\* and is at rest (fabric.c:340-353, blitscrt_bridge.v:153-181): it is never the echo of
\* an earlier one, whoever sent it, and never early.
EchoIsMine ==
  loaded /\ Echoed /\ call # None => cmd = gp_out /\ ~req /\ ~rpend
THEOREM EchoesAreMine == Spec => []EchoIsMine
<1>1. Inv => EchoIsMine
  BY EchoedAtRest DEF EchoIsMine, AtRest, Quiet
<1> QED
  BY <1>1, InvAlways, PTL

\* What a read takes is the half it asked for of the register it asked for
\* (fabric.c:332-353), short of a command that was given up or met an exchange given
\* up before: the echo is of its own command, and that command was answered.
THEOREM AnswersAreMine == Spec => []AnswerIsMine
<1>1. Inv => AnswerIsMine
  <2> SUFFICES ASSUME Inv, loaded, Echoed, call # None, ~spoiled, ~call.write
               PROVE  Answer = mem[call.reg][call.half]
    BY DEF AnswerIsMine
  <2>1. AtRest /\ cmd = gp_out /\ Sent
    BY EchoedAtRest
  <2>2. cmd.write = call.write /\ cmd.reg = call.reg /\ cmd.half = call.half
    BY <2>1 DEF Sent, Echoed
  <2>3. readback = mem[cmd.reg]
    BY <2>1, <2>2 DEF Inv, Serve
  <2> QED
    BY <2>2, <2>3 DEF Answer
<1> QED
  BY <1>1, InvAlways, PTL

\* A word written in two halves is whole in its register when the call returns
\* (fabric.c:368-377, blitscrt_bridge.v:153-163), whatever an earlier process left.
THEOREM WordsLand == Spec => []WordLands
<1>1. Inv => WordLands
  <2> SUFFICES ASSUME Inv, loaded, Echoed, Done, ~spoiled, call.write
               PROVE  mem[call.reg] = call.word
    BY DEF WordLands
  <2>1. call # None /\ call \in Calls /\ unsafe
    BY DEF Done, Answered, Echoed, Inv, Types, ProcType
  <2>2. AtRest /\ cmd = gp_out /\ Phases /\ Sent
    BY <2>1, EchoedAtRest
  <2>3. /\ cmd.write /\ cmd.reg = call.reg /\ cmd.half = call.half
        /\ cmd.data = call.word[call.half]
    BY <2>1, <2>2 DEF Sent
  <2>4. mem[cmd.reg] = wdata
    BY <2>2, <2>3 DEF Inv, Serve
  <2>5. Joined
    BY <2>2, <2>3, OnePhase DEF Inv, Halves
  <2>6. call.word \in Word /\ call.half \in {"lo", "hi"}
    BY <2>1, CallParts
  <2>7. CASE call.half = "lo"
    <3>1. call.word.hi = Zero
      BY <2>7 DEF Done, HasHigh
    <3> QED
      BY <2>3, <2>4, <2>5, <2>6, <2>7, <3>1, WordParts DEF Joined
  <2>8. CASE call.half = "hi"
    <3>1. wlo = call.word.lo
      BY <2>1, <2>8 DEF Inv, Halves
    <3> QED
      BY <2>3, <2>4, <2>5, <2>6, <2>8, <3>1, WordParts DEF Joined
  <2> QED
    BY <2>6, <2>7, <2>8
<1> QED
  BY <1>1, InvAlways, PTL

-----------------------------------------------------------------------------
(* The open *)

\* Outside the window nothing is ever given up.
Prompt ==
  ~InWindow(cmd.reg) => stall = 0 /\ (loaded /\ ~OnWire => ~spoiled)
\* What the fabric says of itself, and that an unconfigured one says nothing.
Says == mem["ID"] = Magic /\ (~loaded => readback = ZeroWord)
\* The low half of a read, kept while the high half is on its way.
LowHalf ==
  call # None =>
    /\ (~loaded \/ ~unsafe) => call.got = Zero
    /\ loaded /\ unsafe /\ ~call.write /\ call.half = "hi" /\ ~InWindow(call.reg)
         => call.got = mem[call.reg].lo
\* How far the open has come.
Opened ==
  proc = "opening" =>
    /\ call # None /\ ~call.write
    /\ \/ call.reg = "ID" /\ plan = <<"GEOM", "CAPS">>
       \/ loaded /\ unsafe /\ call.reg = "GEOM" /\ plan = <<"CAPS">>
       \/ loaded /\ unsafe /\ call.reg = "CAPS" /\ plan = <<>> /\ handle.geom = mem["GEOM"]
OpenInv == Prompt /\ Says /\ LowHalf /\ Opened

LEMMA OpenInit == Init => OpenInv
<1> SUFFICES ASSUME Init PROVE OpenInv
  OBVIOUS
<1>1. Prompt
  BY DEF Init, Prompt
<1>2. Says
  BY DEF Init, Says, Regs
<1> QED
  BY <1>1, <1>2 DEF Init, OpenInv, LowHalf, Opened

LEMMA PromptClock == Types /\ Echoes /\ Prompt /\ Clock => Prompt'
<1> SUFFICES ASSUME Types, Echoes, Prompt, Clock, ~InWindow(cmd'.reg)
             PROVE  stall' = 0 /\ (~OnWire' => ~spoiled')
  BY DEF Prompt, Clock
<1>1. loaded /\ Phases
  BY DEF Clock, Echoes
<1>2. StallLimit # 0
  BY BridgeAssumption DEF BridgeAssumption
<1>3. CASE NewCommand /\ Latch /\ OnWire
  <2>1. cmd' = gp_out /\ ~req
    BY <1>3 DEF Latch, OnWire, Quiet
  <2> QED
    BY <1>3, <2>1 DEF Clock, StallCount
<1>4. CASE cmd' = cmd /\ ~OnWire /\ ~NewCommand
  <2>1. stall = 0 /\ ~spoiled
    BY <1>1, <1>4 DEF Prompt
  <2>2. ~GiveUp /\ (req => ReadDone \/ WriteDone)
    BY <1>2, <1>4, <2>1, Bits DEF GiveUp, ReadDone, WriteDone, Waits
  <2> QED
    BY <1>4, <2>1, <2>2 DEF Clock, StallCount
<1>5. CASE cmd' = cmd /\ OnWire /\ OnWire'
  <2>1. stall' = 0
    BY <1>5 DEF Clock, StallCount, OnWire, Quiet
  <2> QED
    BY <1>5, <2>1
<1>6. AtRest => ~OnWire /\ ~NewCommand
  BY OnePhase DEF AtRest, NewCommand
<1>7. AtWork => ~OnWire /\ ~NewCommand
  BY OnePhase, Flip, Bits DEF AtWork, NewCommand
<1> QED
  BY <1>1, <1>3, <1>4, <1>5, <1>6, <1>7, RestClock, WireClock, WorkClock DEF Phases

\* No register outside the window moves under a read.
LEMMA ReadsKeep ==
  ASSUME Types, Echoes, Targets, Clock, call # None => proc # "none",
         call # None, ~call.write, NEW r \in Regs, ~InWindow(r)
  PROVE  mem'[r] = mem[r]
<1>1. loaded /\ Phases /\ Sent
  BY DEF Clock, Echoes
<1>2. ~WriteDone
  <2> SUFFICES ASSUME WriteDone PROVE FALSE
    OBVIOUS
  <2>1. AtWork /\ ~AtRest /\ ~OnWire
    BY <1>1, OnePhase DEF WriteDone, Phases, AtRest, OnWire, Quiet
  <2>2. cmd = gp_out /\ unsafe
    BY <1>1, <2>1 DEF Phases, Sent
  <2> QED
    BY <1>1, <2>2 DEF Sent, WriteDone
<1> QED
  BY <1>2, MemClock DEF InWindow, Regs

LEMMA OpenClock == Inv /\ OpenInv /\ Clock => OpenInv'
<1> SUFFICES ASSUME Inv, OpenInv, Clock PROVE OpenInv'
  OBVIOUS
<1>0. UNCHANGED <<proc, unsafe, plan, handle, call, loaded>> /\ loaded
  BY DEF Clock, procVars
<1>1. Prompt'
  BY PromptClock DEF Inv, OpenInv
<1>2. Says'
  <2>1. mem'["ID"] = mem["ID"]
    BY MemClock DEF Inv, Regs
  <2> QED
    BY <1>0, <2>1 DEF Says, OpenInv
<1>3. ASSUME call # None, ~call.write, NEW r \in Regs, ~InWindow(r) PROVE mem'[r] = mem[r]
  BY <1>0, <1>3, ReadsKeep DEF Inv, Echoes, Sent
<1>4. call # None => call.reg \in Regs
  BY CallParts DEF Inv, Types, ProcType
<1>5. LowHalf'
  BY <1>0, <1>3, <1>4 DEF LowHalf, OpenInv
<1>6. Opened'
  <2>1. "GEOM" \in Regs /\ ~InWindow("GEOM")
    BY DEF Regs, InWindow
  <2> QED
    BY <1>0, <1>3, <2>1 DEF Opened, OpenInv
<1> QED
  BY <1>1, <1>2, <1>5, <1>6 DEF OpenInv

\* What a read returns.
LEMMA ReadResult ==
  ASSUME Inv, OpenInv, loaded, unsafe, Done, ~call.write, ~InWindow(call.reg)
  PROVE  Result = mem[call.reg]
<1>1. call # None /\ call \in Calls /\ Echoed /\ call.half = "hi"
  BY DEF Done, Answered, Echoed, HasHigh, Inv, Types, ProcType
<1>2. AtRest /\ cmd = gp_out /\ Sent
  BY <1>1, EchoedAtRest
<1>3. ~cmd.write /\ cmd.reg = call.reg /\ cmd.half = "hi"
  BY <1>1, <1>2 DEF Sent
<1>4. ~spoiled
  BY <1>2, <1>3, OnePhase DEF OpenInv, Prompt
<1>5. readback = mem[call.reg]
  BY <1>1, <1>2, <1>3, <1>4 DEF Inv, Serve
<1>6. mem[call.reg] \in Word
  BY <1>1, CallParts DEF Inv, Types, SlaveType
<1>7. Value = mem[call.reg].hi
  BY <1>1, <1>3, <1>5, <1>6, WordParts DEF Value, Answer
<1>8. call.got = mem[call.reg].lo
  BY <1>1 DEF OpenInv, LowHalf
<1> QED
  BY <1>1, <1>6, <1>7, <1>8, WordParts DEF Result

LEMMA NoValue ==
  ASSUME Inv, OpenInv, call # None, ~loaded \/ ~unsafe
  PROVE  Value = Zero /\ Result = ZeroWord
<1>1. Value = Zero
  <2>1. CASE ~unsafe
    BY <2>1 DEF Value, Echoed
  <2>2. CASE ~loaded
    <3>1. readback = ZeroWord /\ cmd.half \in {"lo", "hi"}
      BY <2>2, CommandParts DEF OpenInv, Says, Inv, Types, BridgeType
    <3> QED
      BY <3>1, Zeroes, WordParts DEF Value, Answer
  <2> QED
    BY <2>1, <2>2
<1>2. call.got = Zero
  BY DEF OpenInv, LowHalf
<1> QED
  BY <1>1, <1>2 DEF Result, ZeroWord

\* The fabric's part does not move with the process.
LEMMA FabricKeeps ==
  ASSUME Types, Echoes, OpenInv, Moved, UNCHANGED <<loaded, bridgeVars, slaveVars, spoiled>>
  PROVE  Prompt' /\ Says'
<1>1. UNCHANGED <<loaded, meta, now, seen, ack, req, rpend, rhold, cmd, stall, readback, mem, spoiled>>
  BY DEF bridgeVars, slaveVars
<1>2. Says'
  BY <1>1 DEF Says, OpenInv
<1>3. loaded /\ ~OnWire' => ~OnWire
  BY <1>1 DEF Moved, OnWire, Quiet
<1> QED
  BY <1>1, <1>2, <1>3 DEF Prompt, OpenInv

LEMMA CallsBegin ==
  ASSUME NEW c \in Calls, Begin(c), c.half = "lo", c.got = Zero
  PROVE  LowHalf'
BY DEF Begin, LowHalf

LEMMA OpenProcess ==
  Inv /\ OpenInv /\ [Next]_vars /\ ~Clock => LowHalf' /\ Opened'
<1> SUFFICES ASSUME Inv, OpenInv, [Next]_vars, ~Clock PROVE LowHalf' /\ Opened'
  OBVIOUS
<1>0. UNCHANGED <<loaded, mem>>
  BY FabricStep DEF slaveVars
<1>1. CASE UNCHANGED vars
  BY <1>0, <1>1 DEF vars, procVars, OpenInv, LowHalf, Opened
<1>2. CASE HighHalf
  <2>1. call \in Calls /\ Value \in Half /\ call # None /\ call.half = "lo" /\ Answered
    BY <1>2, ResultType DEF HighHalf, Answered, Inv
  <2>2. /\ call' \in Calls /\ call' # None /\ call'.write = call.write /\ call'.reg = call.reg
        /\ call'.got = Value /\ UNCHANGED <<proc, unsafe, plan, handle>>
    BY <1>2, <2>1, CallParts, CallIsNotNone DEF HighHalf
  <2>3. Opened'
    BY <1>0, <2>1, <2>2 DEF OpenInv, Opened
  <2>4. (~loaded \/ ~unsafe) => call'.got = Zero
    BY <2>1, <2>2, NoValue
  <2>5. ASSUME loaded, unsafe, ~call.write, ~InWindow(call.reg) PROVE call'.got = mem[call.reg].lo
    <3>1. Echoed
      BY <2>1, <2>5 DEF Answered, Echoed
    <3>2. AtRest /\ cmd = gp_out /\ Sent
      BY <2>1, <2>5, <3>1, EchoedAtRest
    <3>3. ~cmd.write /\ cmd.reg = call.reg /\ cmd.half = "lo"
      BY <2>1, <2>5, <3>2 DEF Sent
    <3>4. ~spoiled
      BY <2>5, <3>2, <3>3, OnePhase DEF OpenInv, Prompt
    <3>5. Answer = mem[call.reg][cmd.half]
      BY <2>1, <2>5, <3>1, <3>2, <3>3, <3>4 DEF Answer, Inv, Serve
    <3>6. mem[call.reg] \in Word
      BY <2>1, CallParts DEF Inv, Types, SlaveType
    <3> QED
      BY <2>2, <3>1, <3>3, <3>5, <3>6, WordParts DEF Value
  <2> QED
    BY <1>0, <2>2, <2>3, <2>4, <2>5 DEF LowHalf
<1>3. CASE WrongId
  BY <1>3, NewCalls, CallsBegin DEF WrongId, Opened, Regs
<1>4. CASE OpenNext
  <2>1. Head(plan) \in Regs /\ plan # <<>>
    BY <1>4 DEF OpenNext, Inv, Types, ProcType
  <2>2. Read(Head(plan)) \in Calls /\ Begin(Read(Head(plan)))
    BY <1>4, <2>1, NewCalls DEF OpenNext
  <2>3. LowHalf'
    BY <2>1, <2>2, NewCalls, CallsBegin
  <2>4. call' = Read(Head(plan)) /\ call' # None /\ ~call'.write /\ call'.reg = Head(plan)
    BY <2>1, <2>2, NewCalls, CallIsNotNone DEF Begin
  <2>5. CASE proc = "opening" /\ call.reg = "ID"
    <3>1. plan = <<"GEOM", "CAPS">> /\ call # None
      BY <2>5 DEF OpenInv, Opened
    <3>2. Result = Magic
      BY <1>4, <2>5 DEF OpenNext
    <3>3. loaded /\ unsafe
      BY <3>1, <3>2, NoValue, BridgeAssumption DEF BridgeAssumption
    <3>4. plan' = <<"CAPS">> /\ call'.reg = "GEOM"
      BY <1>4, <2>4, <3>1 DEF OpenNext
    <3>5. loaded' /\ unsafe'
      BY <1>0, <1>4, <3>3 DEF OpenNext
    <3>6. Opened'
      BY <2>4, <3>4, <3>5 DEF Opened
    <3> QED
      BY <2>3, <3>6
  <2>6. CASE proc = "opening" /\ call.reg # "ID"
    <3>1. loaded /\ unsafe /\ call.reg = "GEOM" /\ plan = <<"CAPS">> /\ ~call.write
      BY <2>1, <2>6 DEF OpenInv, Opened
    <3>2. Result = mem["GEOM"]
      BY <1>4, <3>1, ReadResult DEF OpenNext, InWindow
    <3>3. handle' = [handle EXCEPT !.geom = mem["GEOM"]]
      BY <1>4, <3>1, <3>2 DEF OpenNext
    <3>4. handle'.geom = mem["GEOM"]
      BY <3>3 DEF Inv, Types, ProcType
    <3>5. plan' = <<>> /\ call'.reg = "CAPS"
      BY <1>4, <2>4, <3>1 DEF OpenNext
    <3>6. loaded' /\ unsafe'
      BY <1>0, <1>4, <3>1 DEF OpenNext
    <3>7. handle'.geom = mem'["GEOM"]
      BY <1>0, <3>4
    <3>8. Opened'
      BY <2>4, <3>5, <3>6, <3>7 DEF Opened
    <3> QED
      BY <2>3, <3>8
  <2>7. CASE proc # "opening"
    <3>1. proc' # "opening"
      BY <1>4, <2>7 DEF OpenNext
    <3> QED
      BY <2>3, <3>1 DEF Opened
  <2> QED
    BY <2>5, <2>6, <2>7
<1>5. CASE OpenDone \/ Return \/ Die
  <2>1. call' = None /\ proc' # "opening"
    BY <1>5 DEF OpenDone, Return, Die
  <2> QED
    BY <2>1 DEF LowHalf, Opened
<1>6. ASSUME NEW optIn \in BOOLEAN, Start(optIn) PROVE LowHalf' /\ Opened'
  <2>1. Read("ID") \in Calls /\ call' = Read("ID") /\ plan' = <<"GEOM", "CAPS">>
    BY <1>6, NewCalls DEF Start, Regs
  <2>2. /\ call' # None /\ ~call'.write /\ call'.reg = "ID" /\ call'.half = "lo"
        /\ call'.got = Zero
    BY <2>1, NewCalls, CallIsNotNone DEF Regs
  <2> QED
    BY <2>1, <2>2 DEF LowHalf, Opened
<1>7. ASSUME NEW c \in Calls, c.half = "lo", c.got = Zero, Access(c) PROVE LowHalf' /\ Opened'
  BY <1>7, CallsBegin DEF Access, Opened
<1> QED
  BY <1>1, <1>2, <1>3, <1>4, <1>5, <1>6, <1>7, NewCalls DEF Next, Driver, Regs

LEMMA OpenStep == Inv /\ OpenInv /\ [Next]_vars => OpenInv'
<1> SUFFICES ASSUME Inv, OpenInv, [Next]_vars PROVE OpenInv'
  OBVIOUS
<1>1. CASE ~Clock
  <2>1. UNCHANGED <<loaded, bridgeVars, slaveVars, spoiled>> /\ Moved
    BY <1>1, FabricStep, EchoStep DEF Inv
  <2>2. Prompt' /\ Says'
    BY <2>1, FabricKeeps DEF Inv
  <2> QED
    BY <1>1, <2>2, OpenProcess DEF OpenInv
<1> QED
  BY <1>1, OpenClock

\* An open fails only where there is no fabric or no permission to drive it, and the
\* handle of one that succeeds says what the fabric says (fabric.c:199-307).
THEOREM OpensAreTrue == Spec => OpenIsTrue
<1>1. ASSUME Inv, OpenInv, [Next]_vars, proc = "opening"
      PROVE  /\ proc' = "probing" => ~loaded \/ ~unsafe
             /\ proc' = "ready" => handle' = [geom |-> mem["GEOM"], caps |-> mem["CAPS"]]
  <2>1. ASSUME proc' = "probing", loaded, unsafe PROVE FALSE
    <3>1. WrongId
      BY <1>1, <2>1, FabricStep DEF Next, Driver, HighHalf, OpenNext, OpenDone, Return, Die, Start,
         Access, vars, procVars, Clock
    <3>2. call.reg = "ID" /\ Done /\ Result # Magic /\ ~call.write
      BY <1>1, <3>1 DEF WrongId, OpenInv, Opened
    <3>3. Result = mem["ID"]
      BY <1>1, <2>1, <3>2, ReadResult DEF InWindow
    <3> QED
      BY <1>1, <3>2, <3>3 DEF OpenInv, Says
  <2>2. ASSUME proc' = "ready"
        PROVE  handle' = [geom |-> mem["GEOM"], caps |-> mem["CAPS"]]
    <3>1. OpenDone
      BY <1>1, <2>2 DEF Next, Driver, HighHalf, WrongId, OpenNext, Return, Die, Start, Access, vars,
         procVars, Clock
    <3>2. plan = <<>> /\ Done /\ handle' = [handle EXCEPT !.caps = Result]
      BY <1>1, <2>2, <3>1 DEF OpenDone
    <3>3. loaded /\ unsafe /\ call.reg = "CAPS" /\ ~call.write /\ handle.geom = mem["GEOM"]
      BY <1>1, <3>2 DEF OpenInv, Opened
    <3>4. Result = mem["CAPS"]
      BY <1>1, <3>2, <3>3, ReadResult DEF InWindow
    <3>5. handle \in [geom : Word, caps : Word]
      BY <1>1 DEF Inv, Types, ProcType
    <3> QED
      BY <3>2, <3>3, <3>4, <3>5
  <2> QED
    BY <2>1, <2>2
<1>2. Inv /\ OpenInv /\ [Next]_vars =>
        [proc = "opening" =>
           /\ proc' = "probing" => ~loaded \/ ~unsafe
           /\ proc' = "ready" => handle' = [geom |-> mem["GEOM"], caps |-> mem["CAPS"]]]_vars
  BY <1>1
<1> QED
  BY <1>2, InvAlways, OpenInit, OpenStep, PTL DEF Spec, OpenIsTrue
=============================================================================
