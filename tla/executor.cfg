\* One task waits for one event and may be aborted and woken from elsewhere, the other for two.
SPECIFICATION FairSpec
CONSTANTS
    Tasks = {1, 2}
    Need <- Numbered
    Abortable = {1}
    Racing = {1}
INVARIANTS
    ScheduledIsQueued
PROPERTIES
    EveryTaskFinishes
