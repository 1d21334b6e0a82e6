------------------------------ MODULE RectFifo ------------------------------
(***************************************************************************)
(* What sw/gadget.c promises a host that stays attached: every rect whose  *)
(* header was accepted reaches the screen once, in the order the headers   *)
(* were accepted, with its own pixels; and no more than Capacity of them   *)
(* are ever under way.                                                     *)
(***************************************************************************)
EXTENDS Naturals, Sequences

CONSTANTS Capacity, Frames

VARIABLES queued, \* headers accepted, oldest first
          shown   \* frames blitted, oldest first

vars == <<queued, shown>>

Init == queued = <<>> /\ shown = <<>>

Accept == \E f \in Frames :
  /\ Len(queued) - Len(shown) < Capacity
  /\ queued' = Append(queued, f)
  /\ UNCHANGED shown

Show ==
  /\ Len(shown) < Len(queued)
  /\ shown' = Append(shown, queued[Len(shown) + 1])
  /\ UNCHANGED queued

Next == Accept \/ Show

Spec == Init /\ [][Next]_vars /\ WF_vars(Show)
=============================================================================
