\* Move requests issued one at a time, as the callers of
\* request_next_screen / request_prev_screen are expected to, with make_ui
\* callables that may raise: every move returns and none leaves input blocked.
CONSTANTS
    N <- MCN
    Moves <- MCMoves
    Screens <- MCScreens
    Overlap = FALSE
    ViewRaises = TRUE
SPECIFICATION Spec
INVARIANTS
    TypeOK
    InputUnblockedAtRest
PROPERTY
    MoveReturns
