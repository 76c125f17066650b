\* Two modules of one priority; a hook may fail once they are started.
SPECIFICATION Spec
CONSTANTS
    N = 2
    Priorities = {0}
    MaxDeps = 0
INVARIANT HookErrorRollsBack
CHECK_DEADLOCK FALSE
