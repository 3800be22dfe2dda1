\* A move requested while another is still in flight (request_next_screen
\* called twice before the first background task has settled).
CONSTANTS
    N <- MCN
    Moves <- MCMoves
    Screens <- MCScreens
    Overlap = TRUE
    ViewRaises = FALSE
SPECIFICATION Spec
INVARIANT DisplayMatchesIndex
