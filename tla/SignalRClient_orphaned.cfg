CONSTANTS
    s1 = s1
    s2 = s2
    Session <- MCSession
    NoSession = NoSession
    StatesCap = 2
SPECIFICATION Spec
SYMMETRY Symmetry
INVARIANTS ConnectedCanInvoke
CHECK_DEADLOCK FALSE
