--------------------------- MODULE MCTraceViewer ---------------------------
(* One tab, two tree jobs, two views of a tab at a time, one resolution    *)
(* per file.                                                               *)
EXTENDS TraceViewer
=============================================================================
