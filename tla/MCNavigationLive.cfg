\* Sequential moves; is the stage on display still live after every move?
CONSTANTS
    N <- MCN
    Moves <- MCMoves
    Screens <- MCScreens
    Overlap = FALSE
    ViewRaises = FALSE
SPECIFICATION Spec
INVARIANT DisplayedStageLive
