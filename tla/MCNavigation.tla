---------------------------- MODULE MCNavigation ----------------------------
(* Model values for Navigation: four stages, the second one left out of   *)
(* opts.screens, and four move requests.                                   *)
EXTENDS Navigation

MCN == 4
MCMoves == 1 .. 4
MCScreens == {0, 2, 3}
=============================================================================
