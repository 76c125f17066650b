\* Two workers; one task waits for an event, the other is ready at its first poll.
SPECIFICATION FairSpec
CONSTANTS
    Tasks = {0, 1}
    Need <- Numbered
    Abortable = {1}
    Workers = {"w0", "w1"}
    Main = "w0"
INVARIANTS
    ExclusiveTask
PROPERTIES
    ShutdownStops
