---------------------------- MODULE MCPlayQueue ----------------------------
(* Small instances of PlayQueue for TLC: a session streams its songs, of which *)
(* there are three; the other downloads them before it starts them, continues  *)
(* with random songs at the end of the queue, and filters one of its two.      *)
EXTENDS PlayQueue

CONSTANTS
    Sessions,  \* the sessions to check
    s1, s2, s3, x1

VARIABLE session

B == INSTANCE PlayQueue WITH
    Songs <- {s1, x1},
    Excluded <- {x1},
    UsedModes <- Modes,
    AutoContinue <- TRUE,
    StreamOnStart <- FALSE,
    MaxLen <- 3

SessionInit ==
    /\ session \in Sessions
    /\ \/ session = "streamed" /\ Init
       \/ session = "buffered" /\ B!Init

SessionNext ==
    /\ UNCHANGED session
    /\ \/ session = "streamed" /\ Next
       \/ session = "buffered" /\ B!Next

(* The fairness is that of the streamed session. *)
SessionSpec == SessionInit /\ [][SessionNext]_<<session, vars>> /\ Fairness

-----------------------------------------------------------------------------
(* While songs are streamed, the gapless preload is the queue's repeat-aware   *)
(* next song, so a gapless advance plays what the queue shows.                 *)
StreamedIsNext == session = "streamed" => PreloadedIsNext

(* While songs are streamed, the file mpv plays from its first slot is the     *)
(* song the daemon shows as playing, and when it shows none as playing, paused *)
(* and stopped alike, mpv plays nothing.                                       *)
StreamedIsShown == session = "streamed" => AudibleIsShown /\ SilentUnlessPlaying

(* When mpv runs out of files while the daemon shows Playing and there is a    *)
(* next song, playback moves on, whether or not an end-file event was seen.    *)
StreamedAdvances ==
    (session = "streamed" /\ RanOut /\ next_position # None)
        ~> (~RanOut \/ next_position = None)
=============================================================================
