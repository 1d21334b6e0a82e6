---------------------------- MODULE Supervision ----------------------------
(***************************************************************************)
(* How the daemon comes to run, and how it ends: the init process          *)
(* (linux/initramfs/init.c), main of the daemon (sw/main.c) with the       *)
(* opening of the gadget (sw/gadget.c), above the heartbeat watchdog that  *)
(* tells the screen whether it runs.                                       *)
(*                                                                         *)
(* init mounts the card, stages the gadget, launches the daemon once and   *)
(* keeps a shell; nothing restarts the daemon but a hand at that shell.    *)
(* What the daemon does once both its threads run is module Gadget.        *)
(***************************************************************************)
EXTENDS Watchdog, Sequences

CONSTANTS
  Sweeps,      \* tries at mounting the card: 8 in the code
  Boards       \* [card, nogadget, script, binary, core]: what there is to boot

ASSUME SupervisionAssumption ==
  /\ Sweeps \in Nat \ {0}
  /\ Boards \subseteq
       [card : BOOLEAN, nogadget : BOOLEAN, script : BOOLEAN, binary : BOOLEAN, core : BOOLEAN]

VARIABLES
  board,      \* what this one has
  ipc,        \* where init is
  sweep,      \* mount_fat: sweeps made
  ep0,        \* /dev/ffs-blitscrt/ep0 exists
  dpc,        \* where the daemon's main thread is; "none" when there is no process
  fab,        \* blitscrt_fabric_open gave a fabric
  gadget,     \* started without --no-gadget
  step,       \* blitscrt_gadget_open: the step it is at
  described,  \* ep0 has taken the descriptors
  bound,      \* the gadget is bound to the controller
  running,    \* g->running
  reader,     \* bulk_worker, as far as the opening meets it
  between     \* history: the broadcast found the reader between its check and its wait

init == <<board, ipc, sweep, ep0>>
usb == <<described, bound>>
threads == <<running, reader, between>>
process == <<dpc, fab, gadget, step, usb, threads>>
all == <<vars, init, process>>

NoProcess ==
  /\ dpc = "none" /\ fab = FALSE /\ gadget = FALSE /\ step = 1
  /\ described = FALSE /\ bound = FALSE
  /\ running = FALSE /\ reader = "none" /\ between = FALSE
BootInit ==
  /\ Init /\ NoProcess
  /\ board \in Boards /\ ipc = "mount" /\ sweep = 0 /\ ep0 = FALSE

\* The kernel closes what a dead process had open, and an ep0 that closes is unbound.
Gone ==
  /\ dpc' = "none" /\ fab' = FALSE /\ gadget' = FALSE /\ step' = 1
  /\ described' = FALSE /\ bound' = FALSE
  /\ running' = FALSE /\ reader' = "none" /\ between' = FALSE
-----------------------------------------------------------------------------
(* init *)

\* mount_fat: the card's partition may not have been probed yet, in which case the
\* sweep over devices and types fails.
Last == sweep = Sweeps
Mount ==
  /\ ipc = "mount"
  /\ \/ board.card /\ ~Last /\ ipc' = "stage" /\ UNCHANGED sweep
     \/ ~Last /\ sweep' = sweep + 1 /\ UNCHANGED ipc
     \/ Last /\ ipc' = "shell" /\ UNCHANGED sweep
  /\ UNCHANGED <<board, ep0, process, vars>>

\* stage_gadget: the script runs to its end before init goes on, and may not have an end;
\* the command line can keep init from it, and the wrong version does not look.
Deaf == board.script
Staged == board.script /\ ~board.nogadget
Stage ==
  /\ ipc = "stage"
  /\ ipc' \in IF Staged THEN {"script", "launch"} ELSE {"launch"}  \* fork may fail
  /\ UNCHANGED <<board, sweep, ep0, process, vars>>
ScriptEnds ==
  /\ ipc = "script" /\ ipc' = "launch"
  /\ ep0' \in BOOLEAN
  /\ UNCHANGED <<board, sweep, process, vars>>

\* A new process; fork may fail.
Exec(with) ==
  /\ dpc' = "open" /\ gadget' = with
  /\ UNCHANGED <<fab, step, usb, threads>>
Launch ==
  /\ ipc = "launch" /\ ipc' = "shell"
  /\ \/ board.binary /\ Exec(ep0)
     \/ UNCHANGED process
  /\ UNCHANGED <<board, sweep, ep0, vars>>

\* debug_shell: a child, waited for, a second's pause, the next.
Shell ==
  /\ \/ ipc = "shell" /\ ipc' \in {"child", "pause"}
     \/ ipc = "pause" /\ ipc' = "shell"
  /\ UNCHANGED <<board, sweep, ep0, process, vars>>
ShellExit ==
  /\ ipc = "child" /\ ipc' = "pause"
  /\ UNCHANGED <<board, sweep, ep0, process, vars>>

\* A hand at the shell starts the daemon again, either way.
ByHand ==
  /\ ipc = "child" /\ dpc = "none" /\ board.binary
  /\ \E with \in BOOLEAN : Exec(with)
  /\ UNCHANGED <<init, vars>>
-----------------------------------------------------------------------------
(* main *)

\* The loop that beats is entered; a daemon without a fabric beats nothing.
Enter ==
  /\ dpc' = "run"
  /\ IF fab THEN Start ELSE UNCHANGED vars

Open ==
  /\ dpc = "open" /\ dpc' = "prepare"
  /\ fab' \in {FALSE, board.core}
  /\ UNCHANGED <<gadget, step, usb, threads, init, vars>>

\* configure, dev_init, on_host(0), and the parting of the ways.
Exit == Gone /\ UNCHANGED <<init, vars>>
Prepare ==
  /\ dpc = "prepare"
  /\ \/ gadget /\ dpc' = "gadget" /\ UNCHANGED <<fab, gadget, step, usb, threads, init, vars>>
     \/ ~gadget /\ fab /\ Enter /\ UNCHANGED <<fab, gadget, step, usb, threads, init>>
     \/ ~gadget /\ ~fab /\ Exit

\* blitscrt_gadget_open, step by step; the wrong order binds before anything is behind
\* the gadget.
BindEarly == <<"buffers", "ep0", "bind", "describe", "ep1", "reader", "blit">>
OpenSteps == <<"buffers", "ep0", "describe", "ep1", "bind", "reader", "blit">>
Now == OpenSteps[step]
GadgetStep ==
  /\ dpc = "gadget" /\ Now # "blit" /\ step' = step + 1
  /\ Now = "ep0" => ep0
  /\ described' = (described \/ Now = "describe")
  /\ bound' \in IF Now = "bind" THEN BOOLEAN ELSE {bound}
  /\ running' = (running \/ Now = "bind")
  /\ reader' = IF Now = "reader" THEN "check" ELSE reader
  /\ UNCHANGED <<dpc, fab, gadget, between, init, vars>>
GadgetOpen ==
  /\ dpc = "gadget" /\ Now = "blit" /\ dpc' = "signals"
  /\ UNCHANGED <<fab, gadget, step, usb, threads, init, vars>>

\* A step fails; binding is not asked whether it did.  With the reader already there,
\* running is cleared and work broadcast, without the lock; the wrong version
\* forgets the broadcast.
JustClear == UNCHANGED reader
Broadcast == reader' = IF reader = "asleep" THEN "check" ELSE reader
GadgetFails ==
  /\ dpc = "gadget" /\ Now # "bind"
  /\ IF Now = "blit"
     THEN /\ dpc' = "join" /\ running' = FALSE /\ Broadcast
          /\ between' = (reader = "checked")
     ELSE /\ dpc' = "unwind" /\ UNCHANGED threads
  /\ UNCHANGED <<fab, gadget, step, usb, init, vars>>
Join ==
  /\ dpc = "join" /\ reader = "ended" /\ dpc' = "unwind"
  /\ UNCHANGED <<fab, gadget, step, usb, threads, init, vars>>

\* blitscrt_gadget_close with no thread to wait for: unbind, close; then main returns.
Unwind == dpc = "unwind" /\ Exit

\* The reader until it has work: it tests running under the lock, and sleeps.  No
\* header can come before run, and then the other module takes over.
Reader ==
  /\ \/ reader = "check" /\ reader' = IF running THEN "checked" ELSE "ended"
     \/ reader = "checked" /\ reader' = "asleep"
  /\ UNCHANGED <<dpc, fab, gadget, step, usb, running, between, init, vars>>

Signals ==
  /\ dpc = "signals" /\ Enter
  /\ UNCHANGED <<fab, gadget, step, usb, threads, init>>

\* A signal ends the loop; without a gadget main returns, with one it closes it, which takes
\* as long as the reader sits in a read.
Stop ==
  /\ dpc = "run"
  /\ IF up THEN Die ELSE UNCHANGED vars
  /\ IF gadget THEN dpc' = "close" /\ UNCHANGED <<fab, gadget, step, usb, threads>> ELSE Gone
  /\ UNCHANGED init
Close == dpc = "close" /\ Exit

\* Killed, crashed, or terminated before its handlers are in place.
Crash ==
  /\ dpc # "none" /\ Gone
  /\ IF up THEN Die ELSE UNCHANGED vars
  /\ UNCHANGED init

Dog == (Beat \/ Field \/ VideoReset \/ Retime) /\ UNCHANGED <<init, process>>

InitSteps == Mount \/ Stage \/ Launch \/ Shell
MainSteps == Open \/ Prepare \/ GadgetStep \/ GadgetOpen \/ GadgetFails \/ Join \/ Unwind \/ Signals
BootNext ==
  \/ InitSteps \/ ScriptEnds \/ ShellExit \/ ByHand
  \/ MainSteps \/ Reader \/ Stop \/ Close \/ Crash
  \/ Dog
BootSpec == BootInit /\ [][BootNext]_all

\* init, the daemon and its thread go on when they can; frames keep coming and a running daemon
\* beats.  The script, a person, and a join need not come to an end.
BootFair ==
  /\ BootSpec
  /\ WF_all(InitSteps) /\ WF_all(MainSteps) /\ WF_all(Reader)
  /\ WF_all(Field /\ UNCHANGED <<init, process>>) /\ WF_all(Beat /\ UNCHANGED <<init, process>>)
-----------------------------------------------------------------------------
(* Properties *)

BootTypeOK ==
  /\ board \in Boards /\ sweep \in 0..Sweeps /\ ep0 \in BOOLEAN
  /\ ipc \in {"mount", "stage", "script", "launch", "shell", "child", "pause"}
  /\ dpc \in {"none", "open", "prepare", "gadget", "join", "unwind", "signals", "run", "close"}
  /\ fab \in BOOLEAN /\ gadget \in BOOLEAN /\ step \in 1..Len(OpenSteps)
  /\ described \in BOOLEAN /\ bound \in BOOLEAN /\ running \in BOOLEAN /\ between \in BOOLEAN
  /\ reader \in {"none", "check", "checked", "asleep", "ended"}

\* A host is never offered a gadget with nothing behind it: while it is bound there is a process
\* that has given ep0 its descriptors, on every way in and out (gadget.c:820-828, 768).
BoundBacked == bound => described /\ gadget /\ dpc \notin {"none", "open", "prepare"}

\* init always comes to its shell, card or no card, unless a staging script never ends; and from
\* that, blitscrt.nogadget is the way out (init.c:286-291, 457).
ShellComes ==
  <>[](ipc = "script" /\ ~board.nogadget) \/ <>(ipc \in {"shell", "child", "pause"})

\* A gadget that cannot be opened is unbound again and its process leaves, unless the broadcast came
\* between the reader's check and its wait (gadget.c:853-865).
OpenEnds == dpc \in {"join", "unwind"} ~> dpc = "none" \/ between
=============================================================================
