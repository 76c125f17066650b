\* One sleep and ticks, in whole milliseconds, around the first slot boundary of level 1.
CONSTANTS
    Sleepers = {"s"}
    SLOTS = 64
    LEVELS = 6
    Res = 1
    Instants = {0, 60, 64, 70, 125, 128, 130}
SPECIFICATION TwSpec
PROPERTIES TickFiresExpired
CHECK_DEADLOCK FALSE
