--------------------------- MODULE MCSupervision ---------------------------
(* Boards for Supervision: one of each kind that ends differently. *)
EXTENDS Supervision

Full == [card |-> TRUE, nogadget |-> FALSE, script |-> TRUE, binary |-> TRUE, core |-> TRUE]
MCBoards ==
  {Full, [Full EXCEPT !.card = FALSE], [Full EXCEPT !.nogadget = TRUE],
   [Full EXCEPT !.core = FALSE], [Full EXCEPT !.script = FALSE, !.binary = FALSE]}
=============================================================================
