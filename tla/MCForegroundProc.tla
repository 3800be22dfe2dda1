------------------------- MODULE MCForegroundProc -------------------------
(* Four callers of run_command_in_foreground; they are interchangeable. *)
EXTENDS ForegroundProc, TLC

CONSTANTS c1, c2, c3, c4

MCCalls == {c1, c2, c3, c4}
MCSymmetry == Permutations(MCCalls)
=============================================================================
