\* Does the fg_proc guard keep a second child off the terminal?
CONSTANTS
    c1 = c1
    c2 = c2
    c3 = c3
    c4 = c4
    None = None
    Calls <- MCCalls
SYMMETRY MCSymmetry
SPECIFICATION Spec
INVARIANT OneForegroundChild
