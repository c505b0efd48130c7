------------------------------ MODULE PlayQueue ------------------------------
(***************************************************************************)
(* The play queue, its cursor, the now-playing song and mpv's two-entry    *)
(* playlist (the playing file and the gapless preload).  One action is one *)
(* whole request, tick or mpv event, run to its end: the view of a single  *)
(* client.  What happens when handlers overlap is module Transitions.      *)
(*                                                                         *)
(* A buffered start stays visible between its dispatch and the end of its  *)
(* download task (variable prebuffer), because a user can edit the queue   *)
(* during the whole download.                                              *)
(***************************************************************************)
EXTENDS RepeatMode, MpvPlaylist, FiniteSets

CONSTANTS
    Songs,          \* song ids
    Excluded,       \* songs rejected by the configured playback filters
    NoSong,         \* now_playing.song = None
    UsedModes,      \* the repeat modes the user switches between
    AutoContinue,   \* config.auto_continue
    StreamOnStart,  \* config.stream_on_start
    MaxLen,         \* bound: longest queue
    MaxBatch,       \* bound: longest list of songs in one request
    MaxEof          \* bound: end-file events the listener has not read yet

ASSUME PlayQueueAssumption ==
    /\ NoSong \notin Songs
    /\ Excluded \subseteq Songs
    /\ UsedModes \subseteq Modes
    /\ AutoContinue \in BOOLEAN
    /\ StreamOnStart \in BOOLEAN
    /\ MaxLen \in Nat
    /\ MaxBatch \in Nat
    /\ MaxEof \in Nat

VARIABLES
    queue,           \* state.queue
    queue_position,  \* state.queue_position, 0-based or None
    song,            \* state.now_playing.song
    status,          \* state.now_playing.state
    repeat_mode,     \* state.config.repeat_mode
    mpv,             \* mpv: alive, its playlist, the entry playing (None: idle)
    prebuffer,       \* the buffered start in progress
    orphans,         \* positions of cancelled buffered starts still to preload
    eof              \* end-file (eof) events not yet read by the listener

vars == <<queue, queue_position, song, status, repeat_mode, mpv, prebuffer,
          orphans, eof>>

cursorVars == <<queue_position, song, status>>
-----------------------------------------------------------------------------
(* Inputs.  A client sends any list of songs up to the bound. *)
Batches == UNION {[1..n -> Songs] : n \in 0..MaxBatch}

passes_filters(s) == s \notin Excluded

filter_for_playback(b) == SelectSeq(b, passes_filters)

(* The filtered list, as the one-element set an action picks it from. *)
Filtered(b) == {filter_for_playback(b)} \intersect Batches

(* Where index i of the unfiltered list lands in the filtered one. *)
filter_for_playback_tracking_index(b, i) ==
    IF i # None /\ i < Len(b) /\ passes_filters(b[i + 1])
    THEN Cardinality({j \in 1..i : passes_filters(b[j])})
    ELSE None

(* pick_unplayed_random on a server batch b: the songs that are new to the *)
(* queue and pass the filters, or the whole batch when there are none.     *)
fresh(b) ==
    LET new == {i \in DOMAIN b : /\ b[i] \notin ToSet(queue)
                                 /\ passes_filters(b[i])
                                 /\ \A j \in 1..(i - 1) : b[j] # b[i]}
        nth == SetToSortSeq(new, <)
    IN [k \in 1..Len(nth) |-> b[nth[k]]]

pick_unplayed_random(b) == IF fresh(b) = <<>> THEN b ELSE fresh(b)
-----------------------------------------------------------------------------
(* preload_next_track(cur): append the repeat-aware next only when the     *)
(* playing track is the lone entry.  Fault: the entries are not counted.   *)
preload_next_track_uncounted(m, q, mode, cur) ==
    LET next == next_auto(mode, cur, Len(q))
    IN IF m.alive /\ m.list # <<>> /\ next # None /\ next < Len(q)
       THEN loadfile_append(m, q[next + 1])
       ELSE m

preload_next_track(m, q, mode, cur) ==
    LET next == next_auto(mode, cur, Len(q))
    IN IF m.alive /\ Len(m.list) = 1 /\ next # None /\ next < Len(q)
       THEN loadfile_append(m, q[next + 1])
       ELSE m

(* resync_gapless_preload: a no-op unless Playing with a cursor. *)
resync_gapless_preload(q, cur, needed) ==
    IF needed /\ status = "Playing" /\ cur # None
    THEN preload_next_track(drop_preload(mpv), q, repeat_mode, cur)
    ELSE mpv
-----------------------------------------------------------------------------
NoPrebuffer == [phase |-> "none", song |-> NoSong, pos |-> None]

(* A cancelled task that has already loaded its file still runs its        *)
(* preload; one still downloading stops at its next checkpoint.            *)
orphaned ==
    IF prebuffer.phase = "settle" THEN orphans \union {prebuffer.pos} ELSE orphans

cancel_prebuffer ==
    /\ prebuffer' = NoPrebuffer
    /\ orphans' = orphaned

(* commit_play_state_in_lock and dispatch_play for entry p of queue q.     *)
(* A buffered start silences mpv unless it idles.                          *)
stop_unless_idle(m) == IF m.pos = None THEN m ELSE mpv_stop(m)

StartPlay(q, p, buffered) ==
    /\ queue_position' = p
    /\ song' = q[p + 1]
    /\ status' = "Playing"
    /\ \/ /\ ~buffered
          /\ cancel_prebuffer
          /\ mpv' = preload_next_track(loadfile(mpv, q[p + 1]), q, repeat_mode, p)
       \/ /\ buffered
          /\ prebuffer' = [phase |-> "download", song |-> q[p + 1], pos |-> p]
          /\ orphans' = orphaned
          /\ mpv' = stop_unless_idle(mpv)

(* finish_at_queue_end and stop_keep_queue leave the same state. *)
StopKeepQueue ==
    /\ cancel_prebuffer
    /\ mpv' = mpv_stop(mpv)
    /\ status' = "Stopped"
    /\ UNCHANGED <<queue_position, song>>

(* preferred_start_mode: how a fresh queue starts. *)
preferred_start_mode == ~StreamOnStart
-----------------------------------------------------------------------------
(* Requests that move the cursor. *)
play_queue_position(p) ==
    /\ p < Len(queue)
    /\ StartPlay(queue, p, FALSE)
    /\ UNCHANGED <<queue, repeat_mode, eof>>

(* The end of next_track and advance_auto when there is no next entry:     *)
(* extend with a random batch and play its first song, or stop.  The URL   *)
(* of that song may fail to build, which leaves the songs queued.          *)
ExtendOrFinish ==
    \/ /\ AutoContinue
       /\ \E b \in Batches : \E more \in Filtered(pick_unplayed_random(b)) :
            /\ more # <<>>
            /\ Len(queue) + Len(more) <= MaxLen
            /\ queue' = queue \o more
            /\ \/ StartPlay(queue', Len(queue), preferred_start_mode)
               \/ StopKeepQueue
    \/ /\ StopKeepQueue
       /\ UNCHANGED queue

AdvanceTo(next) ==
    /\ \/ /\ next # None
          /\ next < Len(queue)
          /\ StartPlay(queue, next, FALSE)
          /\ UNCHANGED queue
       \/ /\ next # None     \* no URL
          /\ UNCHANGED <<queue, cursorVars, mpv, prebuffer, orphans>>
       \/ /\ next = None
          /\ ExtendOrFinish
    /\ UNCHANGED repeat_mode

next_track ==
    /\ queue # <<>>
    /\ AdvanceTo(IF queue_position = None THEN 0
                 ELSE next_manual(repeat_mode, queue_position, Len(queue)))
    /\ UNCHANGED eof

advance_auto ==
    /\ queue # <<>>
    /\ AdvanceTo(IF queue_position = None THEN 0
                 ELSE next_auto(repeat_mode, queue_position, Len(queue)))

(* early: the playhead is below 3 s.  Otherwise, and at position 0 without *)
(* wrap, the track only seeks to its start, which this module does not see.*)
prev_track(early) ==
    /\ early
    /\ queue_position # None
    /\ LET back == IF queue_position > 0 THEN queue_position - 1
                   ELSE prev_wrap(repeat_mode, Len(queue))
       IN /\ back # None
          /\ back < Len(queue)
          /\ StartPlay(queue, back, FALSE)
    /\ UNCHANGED <<queue, repeat_mode, eof>>

(* Fault: pausing leaves mpv alone. *)
pause_playback_keeps_mpv ==
    /\ status = "Playing"
    /\ status' = "Paused"
    /\ cancel_prebuffer
    /\ UNCHANGED <<queue, queue_position, song, repeat_mode, mpv, eof>>

pause_playback ==
    /\ status = "Playing"
    /\ status' = "Paused"
    /\ cancel_prebuffer
    /\ mpv' = mpv_stop(mpv)
    /\ UNCHANGED <<queue, queue_position, song, repeat_mode, eof>>

resume_playback ==
    /\ status \in {"Paused", "Stopped"}
    /\ queue_position # None
    /\ queue_position < Len(queue)
    /\ StartPlay(queue, queue_position, FALSE)
    /\ UNCHANGED <<queue, repeat_mode, eof>>

stop_keep_queue ==
    /\ StopKeepQueue
    /\ UNCHANGED <<queue, repeat_mode, eof>>

stop_playback ==
    /\ cancel_prebuffer
    /\ mpv' = mpv_stop(mpv)
    /\ status' = "Stopped"
    /\ song' = NoSong
    /\ queue' = <<>>
    /\ queue_position' = None
    /\ UNCHANGED <<repeat_mode, eof>>
-----------------------------------------------------------------------------
(* Where the cursor goes when entries are inserted, removed or moved, and  *)
(* whether a move can change the entry after it.  Faults: the cursor is    *)
(* not shifted; a move to the cursor itself is overlooked.                 *)
cursor_after_insert_unshifted(cur, at, n) == cur

cursor_after_insert(cur, at, n) ==
    IF cur # None /\ at <= cur THEN cur + n ELSE cur

cursor_after_remove_unshifted(cur, pos) == IF pos = cur THEN None ELSE cur

cursor_after_remove(cur, pos) ==
    IF cur = None \/ pos > cur THEN cur
    ELSE IF pos < cur THEN cur - 1
    ELSE None

cursor_after_move(cur, from, to) ==
    IF cur = from THEN to
    ELSE IF cur # None /\ from < cur /\ to >= cur THEN cur - 1
    ELSE IF cur # None /\ from > cur /\ to <= cur THEN cur + 1
    ELSE cur

next_maybe_changed_narrow(cur, from, to) == cur + 1 \in {from, to}

next_maybe_changed(cur, from, to) ==
    /\ from >= cur \/ to >= cur
    /\ from <= cur + 1 \/ to <= cur + 1
-----------------------------------------------------------------------------
(* Requests that edit the queue. *)
replace_queue_and_play(b, play_from) ==
    LET tracked == filter_for_playback_tracking_index(b, play_from)
        start == IF tracked = None /\ play_from # None THEN 0 ELSE tracked
    IN \E kept \in Filtered(b) :
       /\ b # <<>> => kept # <<>>
       /\ Len(kept) <= MaxLen
       /\ queue' = kept
       /\ \/ /\ start # None
             /\ start < Len(kept)
             /\ StartPlay(kept, start, preferred_start_mode)
          \/ /\ queue_position' = None     \* nothing to play, or no URL
             /\ UNCHANGED <<song, status, mpv, prebuffer, orphans>>
       /\ UNCHANGED <<repeat_mode, eof>>

shuffle_library(b) ==
    \E kept \in Filtered(b) :
       /\ kept # <<>>
       /\ Len(kept) <= MaxLen
       /\ queue' = kept
       /\ \/ StartPlay(kept, 0, preferred_start_mode)
          \/ /\ queue_position' = None     \* no URL
             /\ UNCHANGED <<song, status, mpv, prebuffer, orphans>>
       /\ UNCHANGED <<repeat_mode, eof>>

EnqueueAppend(b) ==
    \E kept \in Filtered(b) :
       /\ b # <<>> => kept # <<>>
       /\ Len(queue) + Len(kept) <= MaxLen
       /\ queue' = queue \o kept
       /\ mpv' = resync_gapless_preload(queue', queue_position,
                                        queue_position + 1 = Len(queue))
       /\ UNCHANGED <<cursorVars, repeat_mode, prebuffer, orphans, eof>>

EnqueueInsertAfter(pos, b) ==
    LET at == IF pos + 1 < Len(queue) THEN pos + 1 ELSE Len(queue)
    IN \E kept \in Filtered(b) :
       /\ b # <<>> => kept # <<>>
       /\ Len(queue) + Len(kept) <= MaxLen
       /\ queue' = SubSeq(queue, 1, at) \o kept \o SubSeq(queue, at + 1, Len(queue))
       /\ queue_position' = cursor_after_insert(queue_position, at, Len(kept))
       /\ mpv' = resync_gapless_preload(queue', queue_position',
                                        at = queue_position + 1)
       /\ UNCHANGED <<song, status, repeat_mode, prebuffer, orphans, eof>>

(* Removing the playing entry plays its successor, whatever the status; if *)
(* it was the last one, playback stops.                                    *)
handle_remove_from_queue(pos) ==
    /\ pos < Len(queue)
    /\ queue' = RemoveAt(queue, pos + 1)
    /\ \/ /\ pos # queue_position
          /\ queue_position' = cursor_after_remove(queue_position, pos)
          /\ mpv' = resync_gapless_preload(queue', queue_position',
                                           queue_position # None /\ pos = queue_position + 1)
          /\ UNCHANGED <<song, status, prebuffer, orphans>>
       \/ /\ pos = queue_position
          /\ pos < Len(queue')
          /\ \/ StartPlay(queue', pos, FALSE)
             \/ /\ queue_position' = cursor_after_remove(queue_position, pos)  \* no URL
                /\ UNCHANGED <<song, status, mpv, prebuffer, orphans>>
       \/ /\ pos = queue_position
          /\ pos >= Len(queue')
          /\ queue_position' = cursor_after_remove(queue_position, pos)
          /\ song' = NoSong
          /\ status' = "Stopped"
          /\ mpv' = mpv_stop(mpv)
          /\ UNCHANGED <<prebuffer, orphans>>
    /\ UNCHANGED <<repeat_mode, eof>>

move_queue_item(from, to) ==
    /\ from < Len(queue)
    /\ to < Len(queue)
    /\ from # to
    /\ queue' = InsertAt(RemoveAt(queue, from + 1), to + 1, queue[from + 1])
    /\ queue_position' = cursor_after_move(queue_position, from, to)
    /\ mpv' = resync_gapless_preload(queue', queue_position',
                                     next_maybe_changed(queue_position, from, to))
    /\ UNCHANGED <<song, status, repeat_mode, prebuffer, orphans, eof>>

clear_queue_history ==
    /\ queue_position > 0
    /\ queue' = SubSeq(queue, queue_position + 1, Len(queue))
    /\ queue_position' = 0
    /\ UNCHANGED <<song, status, repeat_mode, mpv, prebuffer, orphans, eof>>

(* Any permutation that keeps the cursor's entry in place. *)
shuffle_queue ==
    /\ queue # <<>>
    /\ \E p \in Bijection(DOMAIN queue, DOMAIN queue) :
          /\ queue_position # None => p[queue_position + 1] = queue_position + 1
          /\ queue' = [i \in DOMAIN queue |-> queue[p[i]]]
    /\ mpv' = resync_gapless_preload(queue', queue_position, TRUE)
    /\ UNCHANGED <<cursorVars, repeat_mode, prebuffer, orphans, eof>>

(* Unlike resync, not conditional on Playing. *)
set_repeat_mode(mode) ==
    /\ repeat_mode' = mode
    /\ mpv' = IF queue_position = None THEN mpv
              ELSE preload_next_track(drop_preload(mpv), queue, mode, queue_position)
    /\ UNCHANGED <<queue, cursorVars, prebuffer, orphans, eof>>
-----------------------------------------------------------------------------
(* mpv on its own.  At the end of a file it goes on to the next entry, or  *)
(* idles with its playlist kept; the listener is told only of "eof".       *)
TrackEnds(reason) ==
    /\ mpv.pos # None
    /\ mpv' = mpv_file_ends(mpv)
    /\ \/ /\ reason = "eof"
          /\ eof < MaxEof
          /\ eof' = eof + 1
       \/ /\ reason = "error"
          /\ eof' = eof
    /\ UNCHANGED <<queue, cursorVars, repeat_mode, prebuffer, orphans>>

MpvDies ==
    /\ mpv.alive
    /\ mpv' = DeadMpv
    /\ UNCHANGED <<queue, cursorVars, repeat_mode, prebuffer, orphans, eof>>

(* The watchdog of the polling task. *)
MpvRespawns ==
    /\ ~mpv.alive
    /\ mpv' = IdleMpv
    /\ UNCHANGED <<queue, cursorVars, repeat_mode, prebuffer, orphans, eof>>

(* The end-file listener: with a preload in the playlist the tick owns the *)
(* advance.                                                                *)
ListenerEof ==
    /\ eof > 0
    /\ eof' = eof - 1
    /\ \/ /\ Len(mpv.list) < 2
          /\ advance_auto
       \/ /\ Len(mpv.list) >= 2 \/ queue = <<>>
          /\ UNCHANGED <<queue, cursorVars, repeat_mode, mpv, prebuffer, orphans>>
-----------------------------------------------------------------------------
(* The 500 ms tick, by the decision it reaches. *)
TickRuns == mpv.alive /\ status = "Playing"

(* The playhead, as of the last tick, is near the end of the track and     *)
(* nothing is preloaded.  A buffered start keeps the playhead at zero.     *)
TickAdvanceEarly ==
    /\ TickRuns
    /\ queue_position # None
    /\ queue_position + 1 < Len(queue)
    /\ Len(mpv.list) < 2
    /\ prebuffer.phase = "none"
    /\ advance_auto
    /\ UNCHANGED eof

TickPreload ==
    /\ TickRuns
    /\ queue_position # None
    /\ Len(mpv.list) = 1
    /\ mpv' = preload_next_track(mpv, queue, repeat_mode, queue_position)
    /\ UNCHANGED <<queue, cursorVars, repeat_mode, prebuffer, orphans, eof>>

(* The entry a gapless advance commits to.  Fault: the manual successor. *)
gapless_target_manual == next_manual(repeat_mode, queue_position, Len(queue))

gapless_target == next_auto(repeat_mode, queue_position, Len(queue))

(* try_gapless_advance: follow mpv into its second entry. *)
try_gapless_advance ==
    LET next == gapless_target
    IN /\ TickRuns
       /\ mpv.pos = 1
       /\ queue_position # None
       /\ next # None
       /\ next < Len(queue)
       /\ queue_position' = next
       /\ song' = queue[next + 1]
       /\ mpv' = preload_next_track(playlist_remove(mpv, 0), queue, repeat_mode, next)
       /\ UNCHANGED <<queue, status, repeat_mode, prebuffer, orphans, eof>>

(* AdvanceOnIdle; a lone entry would have been decided Preload.  Fault: an *)
(* idle mpv is told by its empty playlist.                                 *)
mpv_idles_empty == mpv.list = <<>>

mpv_idles == mpv.pos = None

TickAdvanceOnIdle ==
    /\ TickRuns
    /\ mpv_idles
    /\ Len(mpv.list) # 1 \/ queue_position = None
    /\ prebuffer.phase = "none"
    /\ advance_auto
    /\ UNCHANGED eof
-----------------------------------------------------------------------------
(* The buffered start's task: load, settle, preload the entry after the    *)
(* position it was dispatched with; any failure loads the URL directly.    *)
PrebufferLoad ==
    /\ prebuffer.phase = "download"
    /\ mpv' = loadfile(mpv, prebuffer.song)
    /\ prebuffer' = IF mpv.alive THEN [prebuffer EXCEPT !.phase = "settle"]
                    ELSE NoPrebuffer
    /\ UNCHANGED <<queue, cursorVars, repeat_mode, orphans, eof>>

fallback_direct_if_current ==
    /\ prebuffer.phase = "download"
    /\ mpv' = loadfile(mpv, prebuffer.song)
    /\ prebuffer' = NoPrebuffer
    /\ UNCHANGED <<queue, cursorVars, repeat_mode, orphans, eof>>

PrebufferPreload ==
    /\ \/ /\ prebuffer.phase = "settle"
          /\ mpv' = preload_next_track(mpv, queue, repeat_mode, prebuffer.pos)
          /\ prebuffer' = NoPrebuffer
          /\ UNCHANGED orphans
       \/ \E p \in orphans :
          /\ mpv' = preload_next_track(mpv, queue, repeat_mode, p)
          /\ orphans' = orphans \ {p}
          /\ UNCHANGED prebuffer
    /\ UNCHANGED <<queue, cursorVars, repeat_mode, eof>>
-----------------------------------------------------------------------------
Positions == 0..(MaxLen - 1)

(* A start without a saved queue, or with one restored as Paused (or, when *)
(* it was saved Stopped, with only its cursor).                            *)
Init ==
    /\ queue \in UNION {[1..n -> Songs] : n \in 0..MaxLen}
    /\ \/ queue_position = None /\ song = NoSong /\ status = "Stopped"
       \/ /\ queue_position \in 0..(Len(queue) - 1)
          /\ \/ song = queue[queue_position + 1] /\ status = "Paused"
             \/ song = NoSong /\ status = "Stopped"
    /\ repeat_mode \in UsedModes
    /\ mpv = IdleMpv
    /\ prebuffer = NoPrebuffer
    /\ orphans = {}
    /\ eof = 0

Next ==
    \/ \E p \in Positions : play_queue_position(p)
    \/ next_track
    \/ \E early \in BOOLEAN : prev_track(early)
    \/ pause_playback
    \/ resume_playback
    \/ stop_keep_queue
    \/ stop_playback
    \/ \E b \in Batches, p \in Positions \union {None} : replace_queue_and_play(b, p)
    \/ \E b \in Batches : shuffle_library(b)
    \/ \E b \in Batches : EnqueueAppend(b)
    \/ \E b \in Batches, p \in Positions : EnqueueInsertAfter(p, b)
    \/ \E p \in Positions : handle_remove_from_queue(p)
    \/ \E p, r \in Positions : move_queue_item(p, r)
    \/ clear_queue_history
    \/ shuffle_queue
    \/ \E mode \in UsedModes : set_repeat_mode(mode)
    \/ \E reason \in {"eof", "error"} : TrackEnds(reason)
    \/ MpvDies
    \/ MpvRespawns
    \/ ListenerEof
    \/ TickAdvanceEarly
    \/ TickPreload
    \/ try_gapless_advance
    \/ TickAdvanceOnIdle
    \/ PrebufferLoad
    \/ fallback_direct_if_current
    \/ PrebufferPreload

Spec == Init /\ [][Next]_vars

(* The tick and the watchdog run every half second and the listener reads  *)
(* its events.  A step that finds no URL changes nothing, so fairness says *)
(* that the URL of a queued song can be built.                             *)
Fairness ==
    /\ WF_vars(MpvRespawns)
    /\ WF_vars(ListenerEof)
    /\ WF_vars(TickPreload)
    /\ WF_vars(try_gapless_advance)
    /\ WF_vars(TickAdvanceOnIdle)
    /\ WF_vars(PrebufferLoad)
    /\ WF_vars(PrebufferPreload)

FairSpec == Spec /\ Fairness
-----------------------------------------------------------------------------
MpvOK(m) ==
    /\ m \in [alive : BOOLEAN, list : Seq(Songs), pos : {None, 0, 1}]
    /\ Len(m.list) <= 2
    /\ m.pos < Len(m.list)
    /\ m.list # <<>> => m.alive

PrebufferOK(p) ==
    \/ p = NoPrebuffer
    \/ p \in [phase : {"download", "settle"}, song : Songs, pos : Nat]

(* Every variable keeps its type; mpv never holds more than two entries,   *)
(* because preload_next_track appends only to a lone one.                  *)
TypeOK ==
    /\ queue \in Seq(Songs)
    /\ queue_position \in Nat \union {None}
    /\ song \in Songs \union {NoSong}
    /\ status \in {"Stopped", "Playing", "Paused"}
    /\ repeat_mode \in Modes
    /\ MpvOK(mpv)
    /\ PrebufferOK(prebuffer)
    /\ orphans \subseteq Nat
    /\ eof \in 0..MaxEof

(* Whatever the sequence of moves, inserts, removals, drains and shuffles, *)
(* the cursor is a valid index and the entry under it is the song the      *)
(* daemon shows as playing (the remapping arithmetic of ipc/client.rs and  *)
(* queue_ops.rs).                                                          *)
CursorOnSong ==
    queue_position # None =>
        /\ queue_position < Len(queue)
        /\ song \in {NoSong, queue[queue_position + 1]}

(* The gapless preload is the queue's repeat-aware next song, so a gapless *)
(* advance plays what the queue shows (resync_gapless_preload).  Where the *)
(* next song is found by wrapping around is a property of its own.         *)
PreloadShown == status = "Playing" /\ mpv.pos # None /\ Len(mpv.list) = 2

next_position == next_auto(repeat_mode, queue_position, Len(queue))

wraps == repeat_mode = "All" /\ queue_position + 1 = Len(queue)

PreloadedIsNext ==
    PreloadShown /\ queue_position # None /\ ~wraps =>
        next_position # None /\ mpv.list[2] = queue[next_position + 1]

(* The file mpv plays from its first slot is the song the daemon shows.    *)
AudibleIsShown ==
    status = "Playing" /\ queue_position # None /\ mpv.pos = 0 =>
        mpv.list[1] = song

(* Paused and Stopped mean that mpv plays nothing: pause and stop unload   *)
(* the file to free the audio device.                                      *)
SilentUnlessPlaying == status # "Playing" => mpv.pos = None

(* When mpv runs out of files while the daemon shows Playing and there is  *)
(* a next song, playback moves on: the tick follows up with a preload or   *)
(* an advance whether or not an end-file event was seen.                   *)
RanOut == status = "Playing" /\ mpv.alive /\ mpv.pos = None /\ queue_position # None

IdleAdvances == (RanOut /\ next_position # None) ~> (~RanOut \/ next_position = None)
=============================================================================
