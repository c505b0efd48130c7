---------------------------- MODULE MCBackground ----------------------------
(* What the daemon does beside playback, for TLC: sessions in which it saves   *)
(* the queue, fills the offline cache, reports plays and keeps a copy of the   *)
(* library. A session runs one of the modules; the others rest in a state in   *)
(* which nothing can happen.                                                   *)
EXTENDS QueuePersistence, FiniteSets

CONSTANTS
    Sessions,       \* the sessions to check
    None,
    i1, i2, i3, i4, s1, s2, f1, f2,
    CachedSongs, Caps, MaxCacheEdits,
    PlayedSongs, MaxInstances,
    Folders, Ratings,
    MaxOperations,  \* bound on the operations on the library
    MaxFailures,    \* bound on those that fail
    MaxPlays, MaxFaults, MaxChanges

ASSUME BackgroundAssumption ==
    /\ None \notin Nat /\ None \notin {"artists", "random"}
    /\ IsFiniteSet(CachedSongs)
    /\ MaxInstances \in Nat

VARIABLES
    session,
    \* the offline cache
    play_queue, start, enabled, cap, index, in_flight, total_bytes, disk, saved,
    tasks, evicting, plays, queue_edits, faults,
    \* the reports of plays
    song, state, past, play_instance, scrobble, modern, tick, scrobble_state,
    changes, watched, counted, lost, rewound,
    \* the copy of the library
    folder, config_gen, artists, queue_copy, random_rating, random_star, starred_id,
    rated, starred, rating_updates, operations, begun, failures, excused

T == INSTANCE TrackCache WITH
    Songs <- CachedSongs,
    MaxEdits <- MaxCacheEdits,
    queue <- play_queue,
    edits <- queue_edits

R == INSTANCE Scrobble WITH
    Songs <- PlayedSongs, MaxPlays <- MaxInstances, enabled <- scrobble

L == INSTANCE LibraryCache WITH
    Operations <- {"artists", "random", "starred", "folder", "rate", "star"},
    MaxFaults <- MaxFailures,
    tasks <- operations, faults <- failures

(* Switches of the folder and refreshes, none of which fails. *)
FoldersNext ==
    /\ (\E op \in {"artists", "folder"} : L!Begins(op)) \/ L!Proceeds
    /\ failures' = failures

(* Operations on the marks of a song in one folder. *)
MarksNext == (\E op \in {"random", "starred", "rate", "star"} : L!Begins(op)) \/ L!Proceeds

(* Any operations, one fewer. *)
LibraryNext == L!Next /\ begun' < MaxOperations

varsT ==
    <<play_queue, start, enabled, cap, index, in_flight, total_bytes, disk,
      saved, tasks, evicting, plays, queue_edits, faults>>

varsR ==
    <<song, state, past, play_instance, scrobble, modern, tick, scrobble_state,
      changes, watched, counted, lost, rewound>>

varsL ==
    <<folder, config_gen, artists, queue_copy, random_rating, random_star,
      starred_id, rated, starred, rating_updates, operations, begun, failures, excused>>

NoSave == Init /\ ~resume_on_start

NoCache ==
    /\ play_queue = None /\ start = None /\ enabled = None /\ cap = None
    /\ index = None /\ in_flight = None /\ total_bytes = None /\ disk = None
    /\ saved = None /\ tasks = None /\ evicting = None /\ plays = None
    /\ queue_edits = None /\ faults = None

NoReports ==
    /\ song = None /\ state = None /\ past = None /\ play_instance = None
    /\ scrobble = None /\ modern = None /\ tick = None /\ scrobble_state = None
    /\ changes = None /\ watched = None /\ counted = None /\ lost = None
    /\ rewound = None

NoLibrary ==
    /\ folder = None /\ config_gen = None /\ artists = None
    /\ queue_copy = None /\ random_rating = None /\ random_star = None
    /\ starred_id = None /\ rated = None /\ starred = None /\ rating_updates = None
    /\ operations = None /\ begun = None /\ failures = None /\ excused = None

SessionInit ==
    /\ session \in Sessions
    /\ \/ session = "queue" /\ Init /\ NoCache /\ NoReports /\ NoLibrary
       \/ session = "cache" /\ NoSave /\ T!Init /\ NoReports /\ NoLibrary
       \/ session = "reports" /\ NoSave /\ NoCache /\ R!Init /\ NoLibrary
       \/ session = "folders" /\ NoSave /\ NoCache /\ NoReports /\ L!Init
          /\ rated = 0
       \/ session = "marks" /\ NoSave /\ NoCache /\ NoReports /\ L!Init
          /\ folder = f1
       \/ session = "library" /\ NoSave /\ NoCache /\ NoReports /\ L!Init

SessionNext ==
    /\ UNCHANGED session
    /\ \/ session = "queue" /\ Next /\ UNCHANGED <<varsT, varsR, varsL>>
       \/ session = "cache" /\ T!Next /\ UNCHANGED <<vars, varsR, varsL>>
       \/ session = "reports" /\ R!Next /\ UNCHANGED <<vars, varsT, varsL>>
       \/ session = "folders" /\ FoldersNext /\ UNCHANGED <<vars, varsT, varsR>>
       \/ session = "marks" /\ MarksNext /\ UNCHANGED <<vars, varsT, varsR>>
       \/ session = "library" /\ LibraryNext /\ UNCHANGED <<vars, varsT, varsR>>

SessionSpec ==
    /\ SessionInit /\ [][SessionNext]_<<session, vars, varsT, varsR, varsL>>
    /\ Fairness

-----------------------------------------------------------------------------
(* "A track is only indexed once its `.part` download has been renamed into    *)
(* place, so a crash can never leave a partial file counted as cached"; and    *)
(* the total that evictions go by is that of the songs indexed.                *)
CacheIsSound == session = "cache" => T!CacheIsSound

(* "Path of a cached copy of `song_id`, if the offline cache holds one"        *)
(* (src/src/daemon/core.rs:767): what is cached for a song is that song.       *)
CachedIsTheSong == session = "cache" => T!CachedIsTheSong

(* No play is submitted twice, but one that went back before the threshold and *)
(* out of the reporter's sight.                                                *)
CountedOnce == session = "reports" => R!CountedOnce

(* "Bump gen under the subsonic lock so any refresh in flight with the         *)
(* previous folder is discarded": at rest the artists are those of the folder  *)
(* chosen, unless the refresh after the choice failed, or another one had read *)
(* the client but not the generation, or had passed its check, at the switch.  *)
QuietListIsCurrent == session \in {"folders", "library"} => L!QuietListIsCurrent

(* However ratings, stars, refreshes and switches overlap, at rest every copy  *)
(* of a song has the server's marks: unless two toggles of the star overlapped, *)
(* a refresh wrote what it had been told before the mark was set on the server, *)
(* a switch fell into the call, or a call failed that took effect.             *)
MarksAgree == session \in {"marks", "library"} => L!MarksAgree
=============================================================================
