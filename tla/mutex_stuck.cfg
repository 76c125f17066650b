\* Two tasks: a woken one finds the lock taken.
SPECIFICATION MutexFairSpec
CONSTANTS
    Contenders = {"c1", "c2"}
    MaxLocks = 2
PROPERTY LockResumes
CHECK_DEADLOCK FALSE
