------------------------------ MODULE Watchdog ------------------------------
(***************************************************************************)
(* The heartbeat watchdog of rtl/blitscrt_regs.v.  The daemon writes an    *)
(* ever new number (sw/device.c); the video side compares it across field  *)
(* edges and calls the HPS down after HB_TIMEOUT fields of the same one.   *)
(* Which banner the overlay shows hangs on that (rtl/overlay.v).           *)
(*                                                                         *)
(* Of the numbers only this is kept: whether the register differs from     *)
(* what the last field edge saw.  A field edge is a change of the field    *)
(* signal, which a progressive raster does not have.                       *)
(***************************************************************************)
EXTENDS Integers

CONSTANTS
  HB_TIMEOUT,  \* 90 fields in the code
  Period,      \* field edges a live daemon may let pass between beats: 15 in the code, and one
               \* for each change of raster in between
  Kills,       \* bound: how often the daemon dies
  Changes      \* bound: resets of the video side and changes of raster

ASSUME WatchdogAssumption ==
  /\ HB_TIMEOUT \in Nat \ {0} /\ Period \in Nat \ {0} /\ Period < HB_TIMEOUT
  /\ Kills \in Nat /\ Changes \in Nat

VARIABLES
  up,            \* the daemon runs
  waited,        \* fields, whole or cut short, since it started or last beat
  echo,          \* restarted: one of its beats may repeat the number last seen
  written,       \* hb_count # 0
  moved,         \* hb_count # hb_at_field
  progressive,   \* what the raster is
  hb_stale, hps_alive,
  kills, changes \* bounds

daemon == <<up, waited, echo, kills>>
dog == <<hb_stale, hps_alive>>
vars == <<daemon, written, moved, progressive, dog, changes>>

Init ==
  /\ up = FALSE /\ waited = 0 /\ echo = FALSE
  /\ written = FALSE /\ moved = FALSE /\ progressive = FALSE
  /\ hb_stale = HB_TIMEOUT /\ hps_alive = FALSE
  /\ kills = 0 /\ changes = 0

\* blitscrt_dev_heartbeat: once a period, and after every batch of events.
Beat ==
  /\ up /\ waited > 0 /\ waited' = 0
  /\ written' = TRUE
  /\ \/ moved' = TRUE /\ UNCHANGED echo
     \/ echo /\ moved' = FALSE /\ echo' = FALSE
  /\ UNCHANGED <<up, kills, progressive, dog, changes>>

\* The daemon is started again, and its count starts over.
Start ==
  /\ ~up /\ up' = TRUE /\ waited' = 0 /\ echo' = written
  /\ UNCHANGED <<kills, written, moved, progressive, dog, changes>>
Die ==
  /\ up /\ kills < Kills /\ up' = FALSE /\ kills' = kills + 1
  /\ UNCHANGED <<waited, echo, written, moved, progressive, dog, changes>>

\* What a field edge does, in three versions: the code's, one that does not restart
\* the count, one that forgets to take the snapshot.
Expire == hb_stale = HB_TIMEOUT /\ hps_alive' = FALSE /\ UNCHANGED hb_stale
Waste == hb_stale < HB_TIMEOUT /\ hb_stale' = hb_stale + 1 /\ UNCHANGED hps_alive
NeverFresh ==
  /\ moved' = FALSE
  /\ IF moved THEN hps_alive' = TRUE /\ UNCHANGED hb_stale ELSE Waste \/ Expire
KeepSnapshot ==
  /\ UNCHANGED moved
  /\ IF moved THEN hb_stale' = 0 /\ hps_alive' = TRUE ELSE Waste \/ Expire
FieldEdge ==
  /\ moved' = FALSE
  /\ IF moved THEN hb_stale' = 0 /\ hps_alive' = TRUE ELSE Waste \/ Expire

\* A running daemon keeps its period.
Passes ==
  /\ up => waited < Period
  /\ waited' = IF up THEN waited + 1 ELSE waited

\* A field passes, or a progressive frame.
Field ==
  /\ Passes
  /\ IF progressive THEN UNCHANGED <<moved, dog>> ELSE FieldEdge
  /\ UNCHANGED <<up, echo, kills, written, progressive, changes>>

\* Lock lost: vid_cfg_rst_n, and with it the snapshot is zero.
VideoReset ==
  /\ changes < Changes /\ changes' = changes + 1
  /\ moved' = written /\ hb_stale' = HB_TIMEOUT /\ hps_alive' = FALSE
  /\ UNCHANGED <<daemon, written, progressive>>

\* A mode is latched or the raster changes hands.  The line the beam is on may be of the
\* other field under the new timing: an edge too, of a field cut short.
Retime ==
  /\ changes < Changes /\ changes' = changes + 1
  /\ progressive' \in BOOLEAN
  /\ \/ UNCHANGED <<waited, moved, dog>>
     \/ ~(progressive /\ progressive') /\ Passes /\ FieldEdge
  /\ UNCHANGED <<up, echo, kills, written>>

Next == Beat \/ Start \/ Die \/ Field \/ VideoReset \/ Retime

Spec == Init /\ [][Next]_vars

\* Frames keep coming and a running daemon beats; a dead one may stay dead.
FairSpec == Spec /\ WF_vars(Field) /\ WF_vars(Beat)
-----------------------------------------------------------------------------
(* Properties *)

TypeOK ==
  /\ up \in BOOLEAN /\ echo \in BOOLEAN /\ written \in BOOLEAN /\ moved \in BOOLEAN
  /\ progressive \in BOOLEAN /\ hps_alive \in BOOLEAN
  /\ hb_stale \in 0..HB_TIMEOUT /\ waited \in 0..Period

\* A daemon that has not died is never called down, short of a reset of the video
\* side: changes of raster and progressive stretches between its beats do not add
\* up to a timeout.
NoFalseAlarm ==
  [][hps_alive /\ ~hps_alive' /\ kills = 0 => VideoReset]_vars

\* On an interlaced raster a daemon that stays dead is found out, and one that
\* stays up is shown up, whatever restarts and resets came before.
VerdictFound ==
  /\ <>[](~up /\ ~progressive) => <>[]~hps_alive
  /\ <>[](up /\ ~progressive) => <>[]hps_alive
=============================================================================
