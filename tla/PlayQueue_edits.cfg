SPECIFICATION SessionSpec
CONSTANTS
    Sessions = {"streamed", "buffered"}
    s1 = s1
    s2 = s2
    s3 = s3
    x1 = x1
    Songs = {s1, s2, s3}
    Excluded = {}
    NoSong = NoSong
    UsedModes = {"Off", "One"}
    AutoContinue = FALSE
    StreamOnStart = TRUE
    MaxLen = 4
    MaxBatch = 2
    MaxEof = 1
INVARIANTS
    CursorOnSong
    StreamedIsNext
    StreamedIsShown
PROPERTIES
    StreamedAdvances
