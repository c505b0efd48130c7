CONSTANTS
    d1 = d1
    d2 = d2
    u1 = u1
    u2 = u2
    Daemons = {d1, d2}
    Users = {u1}
    NoOne = NoOne
SPECIFICATION FairSpec
INVARIANTS OneListener
PROPERTIES NoOrphan LaunchEnds
