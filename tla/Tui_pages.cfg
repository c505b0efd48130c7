SPECIFICATION Spec
CONSTANTS
    Sessions = {"playlists", "faulty playlists", "library", "overlays", "covers",
                "pages", "settings"}
    None = None
    Empty = Empty
    p1 = p1
    p2 = p2
    s1 = s1
    s2 = s2
    s3 = s3
    a1 = a1
    b1 = b1
    q1 = q1
    q2 = q2
    Playlists = {p1, p2}
    Songs = {s1, s2}
    InitialLists <- ServerLists
    Playables = {s1, s2, s3}
    Covers = {s1, s2, p1}
    Targets = {t1}
    Rows = {p1}
    Queries = {q1, q2}
    AlbumsOf <- TreeAlbums
    SongsOf <- TreeSongs
    Matches <- TreeMatches
    Folders <- TreeFolders
    Playing <- NoQueue
    Sorted <- TreeSorted
    Remembered <- TreeHistories
    Urls = {u1, u2}
    Secrets = {w1, w2}
    Names = {n1}
    Bindings = {k1, k2}
    Conflicting = {k3}
    MaxRating = 1
    MaxLen = 2
    MaxEvents = 1
    MaxFaults = 1
    MaxChanges = 2
    MaxOpens = 2
    MaxFetches = 2
INVARIANTS
    SongCursorInPane
    UndisturbedPaneIsServer
    QuietSearchIsCurrent
    OverlaysShowTheirSubject
    ArtIsOfTheSong
    KeysGoWhereTheUserLooks
    QuietSettingsAreConfig
CHECK_DEADLOCK FALSE
