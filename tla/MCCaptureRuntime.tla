-------------------------- MODULE MCCaptureRuntime --------------------------
(* The controller, which may trace itself, and one more thread; two call   *)
(* stacks, which are interchangeable; two captures.                        *)
EXTENDS CaptureRuntime

StackSymmetry == Permutations(CallStacks)
=============================================================================
