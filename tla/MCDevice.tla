------------------------------ MODULE MCDevice ------------------------------
(* Model-checking instance of Device: two good modes and one the CRT refuses. *)
EXTENDS Device
Small == [w |-> 1, h |-> 1, ok |-> TRUE]
Large == [w |-> 2, h |-> 1, ok |-> TRUE]
TooFast == [w |-> 3, h |-> 2, ok |-> FALSE]
MCModes == {Small, Large, TooFast}
MCOffered == <<Large, Small>>
OneOffered == <<Small>>
MCRects == {[w |-> 1, h |-> 1], [w |-> 2, h |-> 1]}
OneMode == {Small}
OneRect == {[w |-> 1, h |-> 1]}
=============================================================================
