\* Calls may fail to start their child or be cancelled while they wait for
\* it: is the screen stopped only while a child runs or is being started?
CONSTANTS
    c1 = c1
    c2 = c2
    c3 = c3
    c4 = c4
    None = None
    Calls <- MCCalls
SYMMETRY MCSymmetry
SPECIFICATION CancelSpec
INVARIANT ScreenStoppedOnlyForFgProc
