\* Four overlapping calls of g = exclusive(f), each of which may be
\* cancelled while it waits or while f runs.
CONSTANTS
    g1 = g1
    g2 = g2
    g3 = g3
    g4 = g4
    None = None
    Callers <- MCCallers
SPECIFICATION Spec
INVARIANT FifoEntry
PROPERTIES
    ImplementsMutex
    NoWaiterStarves
