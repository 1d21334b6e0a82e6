------------------------------- MODULE Bridge -------------------------------
(***************************************************************************)
(* The register transport: gp_command and the calls above it in            *)
(* sw/fabric.c, against rtl/blitscrt_bridge.v in its GP form and the PLL    *)
(* window behind rtl/blitscrt_pllbus.v.                                     *)
(*                                                                         *)
(* A command is one word that the daemon stores and the fabric notices by  *)
(* its strobe, which crosses two flops; the answer is a word in which the  *)
(* fabric echoes the strobe once it is done.  The strobe's parity is kept  *)
(* on both sides, and a process may die and another start at any moment.   *)
(*                                                                         *)
(* A register is two halves.  Of the map this has what differs in kind:    *)
(* two constants, a register the daemon sets, and one behind the adapter   *)
(* of the PLL window, whose slave may take as long as it likes.            *)
(***************************************************************************)
EXTENDS Integers, Sequences

CONSTANTS
  Half,        \* 16-bit values
  Zero,        \* the half that is all zeroes
  Magic, Caps, \* what ID and CAPS read
  Values,      \* words a process may write
  StallLimit   \* cycles before the bridge gives up: 255 in the code

Word == [hi : Half, lo : Half]
ZeroWord == [hi |-> Zero, lo |-> Zero]

ASSUME BridgeAssumption ==
  /\ Zero \in Half /\ Magic \in Word /\ Caps \in Word /\ Magic # ZeroWord
  /\ Values \subseteq Word
  /\ StallLimit \in Nat \ {0}

Regs == {"ID", "CAPS", "GEOM", "PLL"}

VARIABLES
  loaded,      \* the fabric is configured (external, never changes)
  (* the process *)
  proc,        \* "none", "opening", "probing" (wrong ID), "ready"
  unsafe,      \* BLITSCRT_GP_UNSAFE is set for it
  strobe,      \* f->strobe
  plan,        \* registers the open still has to read
  handle,      \* sc_w, sc_h and caps of struct blitscrt_fabric
  call,        \* the register access in progress, or None
  (* the wires *)
  gp_out,      \* [strobe, write, reg, half, data]
  (* the bridge *)
  meta, now, seen, \* strobe_meta[0], strobe_meta[1], strobe_d
  cmd,         \* r_addr, r_write
  wdata, wlo, req, rpend, rhold, readback, ack, stall,
  (* the slaves *)
  mem, rdata,  \* the registers; the register block's registered readdata
  bus, m_write, m_data, cap, \* blitscrt_pllbus: state, the exchange it carries, cap
  (* history *)
  spoiled      \* this command was given up, or met an exchange given up before

procVars == <<proc, unsafe, strobe, plan, handle, call, gp_out>>
bridgeVars == <<meta, now, seen, cmd, wdata, wlo, req, rpend, rhold, readback, ack, stall>>
slaveVars == <<mem, rdata, bus, m_write, m_data, cap>>
vars == <<loaded, procVars, bridgeVars, slaveVars, spoiled>>

None == [none |-> TRUE]
NoHandle == [geom |-> ZeroWord, caps |-> ZeroWord]
Commands == [strobe : BOOLEAN, write : BOOLEAN, reg : Regs, half : {"lo", "hi"}, data : Half]
Idle == [strobe |-> FALSE, write |-> FALSE, reg |-> "ID", half |-> "lo", data |-> Zero]

Init ==
  /\ loaded \in BOOLEAN
  /\ proc = "none" /\ unsafe = FALSE /\ strobe = FALSE /\ plan = <<>>
  /\ handle = NoHandle /\ call = None /\ gp_out = Idle
  /\ meta = FALSE /\ now = FALSE /\ seen = FALSE
  /\ cmd = Idle /\ wdata = ZeroWord /\ wlo = Zero
  /\ req = FALSE /\ rpend = FALSE /\ rhold = FALSE /\ readback = ZeroWord
  /\ ack = FALSE /\ stall = 0
  /\ mem = [r \in Regs |-> CASE r = "ID" -> Magic [] r = "CAPS" -> Caps [] OTHER -> ZeroWord]
  /\ rdata = ZeroWord /\ bus = "idle" /\ m_write = FALSE /\ m_data = ZeroWord /\ cap = ZeroWord
  /\ spoiled = FALSE
-----------------------------------------------------------------------------
(* The fabric, one clock at a time *)

InWindow(r) == r = "PLL"

\* What the bridge sees of the slave it addresses.
Waits == InWindow(cmd.reg) /\ bus # "done"
ReadData == IF InWindow(cmd.reg) THEN cap ELSE rdata
ReadDone == req /\ ~cmd.write /\ ~Waits
WriteDone == req /\ cmd.write /\ ~Waits
NewCommand == now # seen
GiveUp == stall = StallLimit

\* The answer word: the half of the readback that the address selects.
Answer == readback[cmd.half]

Synchronise == meta' = gp_out.strobe /\ now' = meta /\ seen' = now

\* A new command is latched, and the halves of a write put together; in the wrong
\* version the first half is not held.
ForgetLow ==
  /\ cmd' = gp_out /\ req' = TRUE /\ rpend' = FALSE /\ rhold' = FALSE
  /\ wdata' = [ZeroWord EXCEPT ![gp_out.half] = gp_out.data]
  /\ UNCHANGED <<wlo, ack, readback>>
Latch ==
  /\ cmd' = gp_out /\ req' = TRUE /\ rpend' = FALSE /\ rhold' = FALSE
  /\ IF gp_out.write /\ gp_out.half = "hi"
     THEN wdata' = [hi |-> gp_out.data, lo |-> wlo] /\ UNCHANGED wlo
     ELSE wdata' = [hi |-> Zero, lo |-> gp_out.data] /\ wlo' = gp_out.data
  /\ UNCHANGED <<ack, readback>>

\* The rest of the bridge's priorities, in three versions: the code's, one that gives
\* up without an echo, and one that samples the data with the acceptance.
Progress(onGiveUp, sample) ==
  \/ /\ GiveUp
     /\ req' = FALSE /\ ack' = onGiveUp /\ rpend' = FALSE /\ rhold' = FALSE
     /\ UNCHANGED readback
  \/ /\ ~GiveUp /\ WriteDone
     /\ req' = FALSE /\ ack' = seen /\ rpend' = FALSE /\ rhold' = FALSE
     /\ UNCHANGED readback
  \/ /\ ~GiveUp /\ ReadDone
     /\ req' = FALSE /\ rpend' = TRUE /\ rhold' = FALSE
     /\ UNCHANGED ack /\ readback' = IF sample THEN ReadData ELSE readback
  \/ /\ ~GiveUp /\ ~req /\ rpend
     /\ readback' = IF sample THEN readback ELSE ReadData
     /\ rhold' = TRUE /\ rpend' = FALSE /\ UNCHANGED <<req, ack>>
  \/ /\ ~GiveUp /\ ~req /\ ~rpend
     /\ ack' = IF rhold THEN seen ELSE ack
     /\ rpend' = FALSE /\ rhold' = FALSE /\ UNCHANGED <<req, readback>>
  \/ /\ ~GiveUp /\ req /\ Waits
     /\ rpend' = FALSE /\ rhold' = FALSE /\ UNCHANGED <<req, ack, readback>>
NeverEcho == Progress(ack, FALSE)
EarlySample == Progress(seen, TRUE)
Carry == Progress(seen, FALSE)

Master ==
  \/ NewCommand /\ Latch
  \/ ~NewCommand /\ Carry /\ UNCHANGED <<cmd, wdata, wlo>>

StallCount ==
  stall' = IF req /\ ~ReadDone /\ ~WriteDone
           THEN IF GiveUp THEN stall ELSE stall + 1
           ELSE 0

\* The adapter of the PLL window: once begun, an exchange is carried to its end
\* whether or not the bridge still asks.  The core behind it answers when it likes.
Adapter ==
  \/ /\ bus = "idle" /\ req /\ InWindow(cmd.reg)
     /\ bus' = "accept" /\ m_write' = cmd.write /\ m_data' = wdata /\ UNCHANGED cap
  \/ bus = "idle" /\ ~(req /\ InWindow(cmd.reg)) /\ UNCHANGED <<bus, m_write, m_data, cap>>
  \/ bus = "accept" /\ UNCHANGED <<bus, m_write, m_data, cap>>
  \/ bus = "accept" /\ bus' = "done" /\ cap' = mem["PLL"] /\ UNCHANGED <<m_write, m_data>>
  \/ bus = "done" /\ bus' = "idle" /\ UNCHANGED <<m_write, m_data, cap>>

\* A write lands where it is accepted; the register block registers what it reads.
Registers ==
  /\ mem' = [mem EXCEPT
       !["GEOM"] = IF WriteDone /\ cmd.reg = "GEOM" THEN wdata ELSE @,
       !["PLL"] = IF bus = "accept" /\ bus' = "done" /\ m_write THEN m_data ELSE @]
  /\ rdata' = IF ReadDone /\ ~InWindow(cmd.reg) THEN mem[cmd.reg] ELSE rdata

Clock ==
  /\ loaded
  /\ Synchronise /\ Master /\ StallCount /\ Adapter /\ Registers
  /\ spoiled' = IF NewCommand THEN InWindow(gp_out.reg) /\ bus' # "idle" ELSE spoiled \/ GiveUp
  /\ UNCHANGED <<loaded, procVars>>
-----------------------------------------------------------------------------
(* The process: gp_command, and the calls and the open made of it *)

Read(r) == [write |-> FALSE, reg |-> r, word |-> ZeroWord, half |-> "lo", got |-> Zero]
Write(r, w) == [write |-> TRUE, reg |-> r, word |-> w, half |-> "lo", got |-> Zero]

\* Toggle the strobe and store the command; nothing is driven unless opted in.
Send(c, half) ==
  IF unsafe
  THEN /\ strobe' = ~strobe
       /\ gp_out' = [strobe |-> ~strobe, write |-> c.write, reg |-> c.reg, half |-> half,
                     data |-> c.word[half]]
  ELSE UNCHANGED <<strobe, gp_out>>

\* The spin ends on the echo.  It outlasts the bridge (100000 reads of the answer
\* against 255 cycles), so it runs out only where no fabric is there to echo.
Echoed == unsafe /\ ack = strobe
Answered == call # None /\ (~unsafe \/ ack = strobe \/ ~loaded)
Value == IF Echoed THEN Answer ELSE Zero

\* A read is always two commands, a write only if it has a high half.
HasHigh(c) == ~c.write \/ c.word.hi # Zero
HighHalf ==
  /\ Answered /\ call.half = "lo" /\ HasHigh(call)
  /\ call' = [call EXCEPT !.half = "hi", !.got = Value]
  /\ Send(call, "hi")
  /\ UNCHANGED <<loaded, proc, unsafe, plan, handle, bridgeVars, slaveVars, spoiled>>

Done == Answered /\ (call.half = "hi" \/ ~HasHigh(call))
Result == IF call.half = "hi" THEN [hi |-> Value, lo |-> call.got] ELSE [hi |-> Zero, lo |-> Value]

Begin(c) == call' = c /\ Send(c, "lo")

\* blitscrt_fabric_open.  The parity is taken from the last echo, because it
\* outlives the process; the wrong version starts from zero.  A process takes
\* longer to start than the bridge to finish what another one left behind.
FromZero == FALSE
FirstStrobe == ack
Settled == loaded => /\ gp_out.strobe = ack /\ meta = ack /\ now = ack /\ seen = ack
                     /\ ~req /\ ~rpend /\ ~rhold
Start(optIn) ==
  /\ proc = "none" /\ Settled
  /\ proc' = "opening" /\ unsafe' = optIn /\ plan' = <<"GEOM", "CAPS">> /\ handle' = NoHandle
  /\ call' = Read("ID")
  /\ strobe' = (optIn /\ ~FirstStrobe)
  /\ gp_out' = IF optIn THEN [Idle EXCEPT !.strobe = ~FirstStrobe] ELSE gp_out
  /\ UNCHANGED <<loaded, bridgeVars, slaveVars, spoiled>>

\* A wrong ID: a few probes for the log, and the open fails.
WrongId ==
  /\ proc = "opening" /\ Done /\ call.reg = "ID" /\ Result # Magic
  /\ proc' = "probing" /\ plan' = <<"CAPS">> /\ Begin(Read("ID"))
  /\ UNCHANGED <<loaded, unsafe, handle, bridgeVars, slaveVars, spoiled>>

\* The next read of the open, or of the probes.
OpenNext ==
  /\ proc \in {"opening", "probing"} /\ Done /\ plan # <<>>
  /\ proc = "opening" /\ call.reg = "ID" => Result = Magic
  /\ handle' = IF call.reg = "GEOM" THEN [handle EXCEPT !.geom = Result] ELSE handle
  /\ plan' = Tail(plan) /\ Begin(Read(Head(plan)))
  /\ UNCHANGED <<loaded, proc, unsafe, bridgeVars, slaveVars, spoiled>>
OpenDone ==
  /\ proc \in {"opening", "probing"} /\ Done /\ plan = <<>>
  /\ \/ proc = "opening" /\ proc' = "ready" /\ handle' = [handle EXCEPT !.caps = Result]
     \/ proc = "probing" /\ proc' = "none" /\ UNCHANGED handle
  /\ call' = None
  /\ UNCHANGED <<loaded, unsafe, strobe, plan, gp_out, bridgeVars, slaveVars, spoiled>>

\* blitscrt_fabric_read and _write of an open handle; a write16 is a write without
\* a high half.
Access(c) ==
  /\ proc = "ready" /\ call = None /\ Begin(c)
  /\ UNCHANGED <<loaded, proc, unsafe, plan, handle, bridgeVars, slaveVars, spoiled>>
Return ==
  /\ proc = "ready" /\ Done /\ call' = None
  /\ UNCHANGED <<loaded, proc, unsafe, strobe, plan, handle, gp_out, bridgeVars, slaveVars, spoiled>>

\* The process exits, or is killed in the middle of an access.
Die ==
  /\ proc # "none" /\ proc' = "none" /\ call' = None /\ plan' = <<>>
  /\ UNCHANGED <<loaded, unsafe, strobe, handle, gp_out, bridgeVars, slaveVars, spoiled>>

Driver == HighHalf \/ WrongId \/ OpenNext \/ OpenDone \/ Return

Next ==
  \/ Clock \/ Driver \/ Die
  \/ \E optIn \in BOOLEAN : Start(optIn)
  \/ \E r \in Regs : Access(Read(r))
  \/ \E r \in {"GEOM", "PLL"}, w \in Values : Access(Write(r, w))

Spec == Init /\ [][Next]_vars

\* The clock runs, and a process that waits keeps looking.
FairSpec == Spec /\ WF_vars(Clock) /\ WF_vars(Driver)
-----------------------------------------------------------------------------
(* Properties *)

TypeOK ==
  /\ loaded \in BOOLEAN /\ proc \in {"none", "opening", "probing", "ready"}
  /\ unsafe \in BOOLEAN /\ strobe \in BOOLEAN /\ plan \in Seq(Regs)
  /\ handle \in [geom : Word, caps : Word]
  /\ call \in {None} \cup
       [write : BOOLEAN, reg : Regs, word : Word, half : {"lo", "hi"}, got : Half]
  /\ gp_out \in Commands /\ cmd \in Commands
  /\ meta \in BOOLEAN /\ now \in BOOLEAN /\ seen \in BOOLEAN
  /\ wdata \in Word /\ wlo \in Half /\ req \in BOOLEAN /\ rpend \in BOOLEAN
  /\ rhold \in BOOLEAN /\ readback \in Word /\ ack \in BOOLEAN
  /\ stall \in 0..StallLimit
  /\ mem \in [Regs -> Word] /\ rdata \in Word
  /\ bus \in {"idle", "accept", "done"} /\ m_write \in BOOLEAN /\ m_data \in Word /\ cap \in Word
  /\ spoiled \in BOOLEAN

\* What a read takes, once its strobe is echoed, is the half it asked for of the register
\* it asked for, whoever used the transport before and however that ended, unless this
\* access was given up, or met in the PLL window an exchange that had been given up
\* before it (fabric.c:332-353).
AnswerIsMine ==
  loaded /\ Echoed /\ call # None /\ ~spoiled /\ ~call.write => Answer = mem[call.reg][call.half]

\* A word written in two halves is whole in its register when the call returns,
\* whatever an earlier process left half done.
WordLands ==
  loaded /\ Echoed /\ Done /\ ~spoiled /\ call.write => mem[call.reg] = call.word

\* An open fails only where there is no fabric or no permission to drive it, and
\* the handle of one that succeeds says what the fabric says: also after a process
\* that died between the two commands of an access.
OpenIsTrue ==
  [][proc = "opening" =>
       /\ proc' = "probing" => ~loaded \/ ~unsafe
       /\ proc' = "ready" => handle' = [geom |-> mem["GEOM"], caps |-> mem["CAPS"]]]_vars

\* Every access returns, whether or not the slave ever answers.
AccessReturns == call # None ~> call = None
=============================================================================
