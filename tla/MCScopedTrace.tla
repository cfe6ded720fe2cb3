--------------------------- MODULE MCScopedTrace ---------------------------
(* Small instances of ScopedTrace for TLC.                                 *)
EXTENDS ScopedTrace, TLC
=============================================================================
