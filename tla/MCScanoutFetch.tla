--------------------------- MODULE MCScanoutFetch ---------------------------
(* Model-checking instance of ScanoutFetch: the constants are in the cfg files. *)
EXTENDS ScanoutFetch
=============================================================================
