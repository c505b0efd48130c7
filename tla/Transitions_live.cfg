CONSTANTS
    c1 = c1
    c2 = c2
    Clients = {c1}
    Requests = {"Resume", "Next"}
    QueueLen = 2
    Mode = "Off"
    MaxEof = 1
    Quick = TRUE
    Tick = Tick
    Listener = Listener
    NoTask = NoTask
SPECIFICATION FairSpec
INVARIANTS OnePreload AdvanceExclusive
PROPERTIES EventuallyAudible RequestsReturn IdleIsNoticed
