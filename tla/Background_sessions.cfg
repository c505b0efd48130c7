SPECIFICATION SessionSpec
CONSTANTS
    Sessions = {"queue", "cache", "reports", "folders", "marks", "library"}
    None = None
    i1 = i1
    i2 = i2
    i3 = i3
    i4 = i4
    s1 = s1
    s2 = s2
    CachedSongs = {s1, s2}
    Caps = {1, 2}
    MaxCacheEdits = 1
    PlayedSongs = {s1}
    MaxInstances = 1
    f1 = f1
    f2 = f2
    Folders = {f1, f2}
    Ratings = {0, 1}
    MaxOperations = 3
    MaxFailures = 1
    Inodes = {i1, i2, i3, i4}
    NoInode = NoInode
    Saver = Saver
    Closer = Closer
    SettingChanges = TRUE
    MaxEdits = 2
    MaxPlays = 3
    MaxFaults = 2
    MaxChanges = 2
INVARIANTS
    SavedWhenQuiet
    CacheIsSound
    CountedOnce
    QuietListIsCurrent
    MarksAgree
PROPERTIES
    NeverLosesASave
    EditsReachDisk
CHECK_DEADLOCK FALSE
