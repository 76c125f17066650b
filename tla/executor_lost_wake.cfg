\* Both tasks may be woken from elsewhere.
SPECIFICATION Spec
CONSTANTS
    Tasks = {1, 2}
    Need <- Numbered
    Abortable = {}
    Racing = {1, 2}
INVARIANT NoLostWake
