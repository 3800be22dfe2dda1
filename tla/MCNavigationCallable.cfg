\* Moves requested one at a time; the view-producing callable that make_ui
\* returned raises when move_screen calls it.
CONSTANTS
    N <- MCN
    Moves <- MCMoves
    Screens <- MCScreens
    Overlap = FALSE
    ViewRaises = TRUE
SPECIFICATION Spec
INVARIANT DisplayMatchesIndex
