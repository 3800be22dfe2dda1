------------------------- MODULE MCIndicationTimer -------------------------
(* One tick is 0.1s: MAX_BLOCK_TIME = 0.1 is one tick, MIN_SHOW_PROGRESS_TIME *)
(* = 1.0 is ten; the work takes up to 1.5s.                                *)
EXTENDS IndicationTimer

MCMaxBlock == 1
MCMinShow == 10
MCHorizon == 15
=============================================================================
