----------------------------- MODULE MCTraceLog -----------------------------
(* Small instances of TraceLog for TLC.                                    *)
EXTENDS TraceLog, TLC
=============================================================================
