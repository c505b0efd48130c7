------------------------------- MODULE Scrobble -------------------------------
(* The reporting of plays (src/src/daemon/scrobble.rs): a tick reads the       *)
(* state, then the counter of play instances, and decides what to report from  *)
(* these and from what it knew of the play. A position is only before or past  *)
(* the threshold at which a play counts. A submission is sent by a spawned     *)
(* call that may fail or be late; here it is what was decided that is kept.    *)
(* The reports of what plays now, which nothing depends on, are left out.      *)
EXTENDS Naturals

CONSTANTS
    None,
    Songs,
    MaxPlays,   \* bound on the plays
    MaxChanges  \* bound on the changes of the setting and of the server's capability

VARIABLES
    song, state, past, \* now_playing; no position is past the threshold when stopped
    play_instance,
    enabled,    \* the setting
    modern,     \* playback_report_supported
    tick,       \* what the tick has read, or None
    scrobble_state,
    changes,
    watched,    \* any play: the history is that of this one
    counted,    \* history: how often it was submitted
    lost,       \* history: during it a tick found reporting off or another song
    rewound     \* history: it went back before the threshold

playback == <<song, state, past, play_instance>>
setup == <<enabled, modern, changes>>
histories == <<watched, counted, lost, rewound>>
vars == <<playback, setup, tick, scrobble_state, histories>>

Plays == 0..MaxPlays

ScrobbleState ==
    [song_id |-> None, instance |-> 0, last_past |-> FALSE, submitted |-> FALSE]

Init ==
    /\ song = None /\ state = "Stopped" /\ past = FALSE
    /\ play_instance = 0
    /\ enabled \in BOOLEAN /\ modern \in BOOLEAN
    /\ tick = None
    /\ scrobble_state = ScrobbleState
    /\ changes = 0
    /\ watched \in Plays
    /\ counted = 0 /\ lost = FALSE /\ rewound = FALSE

-----------------------------------------------------------------------------
(* Playback goes on beside the ticks. *)

(* The song, its position and the instance change under the state lock. The    *)
(* gapless advance leaves the state as it is.                                  *)
mark_play_instance ==
    /\ play_instance < MaxPlays
    /\ play_instance' = play_instance + 1
    /\ song' \in Songs /\ past' = FALSE
    /\ state' \in {"Playing", state}
    /\ UNCHANGED <<setup, tick, scrobble_state, histories>>

pause_playback ==
    /\ state = "Playing" /\ state' = "Paused"
    /\ UNCHANGED <<song, past, play_instance, setup, tick, scrobble_state, histories>>

(* After a stop the entry under the cursor starts from the top, as the same    *)
(* instance.                                                                   *)
resume_playback ==
    /\ \/ state = "Paused" /\ UNCHANGED <<song, past>>
       \/ state = "Stopped" /\ song' \in Songs /\ past' = FALSE
    /\ state' = "Playing"
    /\ UNCHANGED <<play_instance, setup, tick, scrobble_state, histories>>

Rewinds == rewound' = (rewound \/ (past /\ play_instance = watched))

(* Only stop_keep_queue keeps the song. *)
stop_playback ==
    /\ song # None
    /\ song' \in {None, song} /\ state' = "Stopped" /\ past' = FALSE
    /\ Rewinds
    /\ UNCHANGED <<play_instance, setup, tick, scrobble_state, watched, counted, lost>>

(* The playhead passes the threshold, or a seek takes it there or back. *)
Moves ==
    /\ song # None /\ state # "Stopped"
    /\ past' = ~past
    /\ Rewinds
    /\ UNCHANGED <<song, state, play_instance, setup, tick, scrobble_state, watched, counted, lost>>

Change == changes < MaxChanges /\ changes' = changes + 1

set_scrobble ==
    /\ Change /\ enabled' = ~enabled
    /\ UNCHANGED <<playback, modern, tick, scrobble_state, histories>>

refresh_scrobble_capability ==
    /\ Change /\ modern' = ~modern
    /\ UNCHANGED <<playback, enabled, tick, scrobble_state, histories>>

-----------------------------------------------------------------------------
(* scrobble_tick *)

ReadsState ==
    /\ tick = None
    /\ tick' = [enabled |-> enabled, id |-> song, state |-> state, past |-> past,
                modern |-> None, instance |-> None]
    /\ UNCHANGED <<playback, setup, scrobble_state, histories>>

ReadsCounters ==
    /\ tick # None /\ tick.instance = None
    /\ tick' = [tick EXCEPT !.modern = modern, !.instance = play_instance]
    /\ UNCHANGED <<playback, setup, scrobble_state, histories>>

(* More than two are counted as two. *)
Submits(i) == counted' = IF i = watched /\ counted < 2 THEN counted + 1 ELSE counted

SubmitsNone == counted' = counted

(* Reporting is off: what was known of the play is forgotten. *)
Forgets ==
    /\ scrobble_state' = ScrobbleState
    /\ lost' = (lost \/ tick.instance = watched)
    /\ SubmitsNone

SamePlay == scrobble_state.song_id = tick.id /\ scrobble_state.instance = tick.instance

(* The play before is finished, and may count by where it was left. *)
Finalizes ==
    LET t == scrobble_state
    IN  IF t.song_id # None /\ ~tick.modern /\ ~t.submitted /\ t.last_past
        THEN Submits(t.instance) ELSE SubmitsNone

first_seen_uncounted == FALSE \* Fault: a play first seen past the threshold is yet to count

first_seen == tick.past

Switches ==
    /\ Finalizes
    /\ scrobble_state' =
           [song_id |-> tick.id, instance |-> tick.instance, last_past |-> tick.past,
            submitted |-> first_seen]
    /\ lost' = (lost \/ (scrobble_state.instance = watched /\ tick.instance = watched))

Reaches == ~tick.modern /\ tick.state = "Playing" /\ ~scrobble_state.submitted /\ tick.past

Follows ==
    /\ IF Reaches THEN Submits(tick.instance) ELSE SubmitsNone
    /\ scrobble_state' =
           [scrobble_state EXCEPT !.submitted = @ \/ Reaches, !.last_past = tick.past]
    /\ UNCHANGED lost

Decides ==
    /\ tick # None /\ tick.instance # None
    /\ \/ ~tick.enabled /\ Forgets
       \/ tick.enabled /\ ~SamePlay /\ Switches
       \/ tick.enabled /\ SamePlay /\ tick.id # None /\ Follows
       \/ tick.enabled /\ SamePlay /\ tick.id = None /\ UNCHANGED <<scrobble_state, counted, lost>>
    /\ tick' = None
    /\ UNCHANGED <<playback, setup, watched, rewound>>

Next ==
    \/ mark_play_instance \/ pause_playback \/ resume_playback \/ stop_playback \/ Moves
    \/ set_scrobble \/ refresh_scrobble_capability
    \/ ReadsState \/ ReadsCounters \/ Decides

Spec == Init /\ [][Next]_vars

-----------------------------------------------------------------------------
(* No play is submitted twice, whatever is paused, sought, repeated or changed *)
(* between the two reads of a tick ("scrobbling re-enabled mid-play ... must   *)
(* not re-submit a counted play"), but one that went back before the threshold *)
(* and out of the reporter's sight: a stopped song that plays again is counted *)
(* again, and so is one taken back while reporting is off.                     *)
CountedOnce == counted > 1 => rewound /\ lost
=============================================================================
