-------------------------- MODULE MCCaptureArming --------------------------
(* The caller and two more threads in a table of two entries, so that one  *)
(* is mapped, moved by a removal, overwritten, finds the table full, or    *)
(* exits. The scenarios:                                                   *)
(*  - Linux with restricted ptrace, where the application has another      *)
(*    child and a thread exits;                                            *)
(*  - Linux without the restriction, two captures and a thread that exits; *)
(*  - Linux with restricted ptrace and mappings that change;               *)
(*  - Windows, with a thread that exits and mappings that change;          *)
(*  - Windows, with mappings that change more often.                       *)
EXTENDS CaptureArming

CONSTANTS w1, w2

MCScenarios ==
  { [platform |-> "linux", ptraceScope |-> TRUE, others |-> 1,
     mapped |-> <<w1, Caller>>, sets |-> 0, exits |-> 1, captures |-> 2],
    [platform |-> "linux", ptraceScope |-> FALSE, others |-> 0,
     mapped |-> <<w1, w2>>, sets |-> 0, exits |-> 1, captures |-> 2],
    [platform |-> "linux", ptraceScope |-> TRUE, others |-> 0,
     mapped |-> <<Caller, w1>>, sets |-> 2, exits |-> 0, captures |-> 1],
    [platform |-> "windows", ptraceScope |-> FALSE, others |-> 0,
     mapped |-> <<w1, w2>>, sets |-> 1, exits |-> 1, captures |-> 2],
    [platform |-> "windows", ptraceScope |-> FALSE, others |-> 0,
     mapped |-> <<w1, w2>>, sets |-> 2, exits |-> 0, captures |-> 1] }
=============================================================================
