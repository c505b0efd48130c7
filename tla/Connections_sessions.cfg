SPECIFICATION SessionSpec
CONSTANTS
    Sessions = {"events", "mpv", "requests"}
    NoValue = NoValue
    Error = Error
    Users = {u1}
    Mpvs = {m1, m2, m3}
    Askers = {k1}
    Requests = {r1}
    Topics = {"now_playing", "queue"}
    Emitters = {e1, e2}
    RingCap = 1
    WireCap = 2
    ClientCap = 1
    MaxChanges = 3
    MaxCalls = 1
    MaxFaults = 2
    MaxRequests = 1
    MaxTime = 6
INVARIANTS OnePlayer QuietClientStays
PROPERTIES MirrorSettles BackendReturns AnswersMatch
\* The daemon stops in the end, and so do its events once nothing changes.
CHECK_DEADLOCK FALSE
