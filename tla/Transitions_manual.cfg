CONSTANTS
    c1 = c1
    c2 = c2
    Clients = {c1, c2}
    Requests = {"Next", "Prev", "Play", "Pause", "Resume", "Stop", "Toggle"}
    QueueLen = 2
    Mode = "All"
    MaxEof = 0
    Quick = FALSE
    Tick = Tick
    Listener = Listener
    NoTask = NoTask
SPECIFICATION Spec
SYMMETRY ClientSymmetry
INVARIANTS TransitionsExclusive AudibleIsShown
