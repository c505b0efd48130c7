------------------------------ MODULE DaemonHandlers ------------------------------
(* The lock program of every function of DaemonCore (src/src/daemon) that takes  *)
(* one of its locks: the guards it takes and drops, in the order of the code, the*)
(* files, servers and keychains it waits for in between, and the branches and    *)
(* early returns that change what comes next.  What is computed is left out.     *)
EXTENDS LockOrder

-----------------------------------------------------------------------------------
(* core.rs: the small readers, and mpv's lifetime.                               *)
emit_now_playing == Peek("state")
emit_queue == Peek("state")
emit_config_changed == Peek("state")
snapshot == Peek("state") \o Brief("mpv")
preferred_start_mode == Peek("state")
start_mpv == Brief("mpv")
quit_mpv == Brief("mpv")
stamp_loadfile == Brief("last_loadfile")
cached_track_path == Brief("track_cache")
release_pipewire_rate == Brief("pipewire")
clear_cover_cache == Brief("cover_art_cache")
cancel_prebuffer == Brief("prebuffer_cancel") \o Brief("prebuffer_loading")

is_idle_for_exit == Peek("state")

(* queue_ops.rs: the filter reads the configuration unless the list is empty.    *)
filter_for_playback == May(Peek("state"))

(* Up to three batches; the lock is not held while the server answers.           *)
pick_unplayed_random == Peek("state") \o Io \o May(Io \o May(Io))

(* Runs inside the caller's state guard: the cache lookup and the stamp nest.    *)
commit_play_state_in_lock == May(May(cached_track_path) \o stamp_loadfile)

(* The next song is resolved, its url and cached copy too, then mpv is asked.    *)
preload_next_track ==
    Peek("state")
    \o May(Peek("subsonic") \o May(May(cached_track_path) \o Brief("mpv")))

resync_gapless_preload == Peek("state") \o May(Brief("mpv") \o preload_next_track)

spawn_cache_population == May(Peek("state"))

(* The index file is written with the cache's own mutex held.                    *)
populate_cache ==
    Brief("track_cache")
    \o May(Io \o Either({Brief("track_cache"),
                         Io \o Brief("track_cache"),
                         Io \o Write("track_cache") \o Io \o Drop("track_cache")}))

fetch_audio_properties ==
    Brief("mpv") \o May(Brief("pipewire") \o Brief("state") \o emit_now_playing)

(* Two polls stand for the fifty: a poll leaves nothing behind.                  *)
probe_audio_params == May(Brief("mpv") \o May(Brief("mpv")))

settle_rate_then_unpause ==
    May(probe_audio_params
        \o May(Brief("pipewire") \o May(Brief("state")))
        \o May(Brief("mpv") \o emit_now_playing))

fallback_direct_if_current == Write("mpv") \o May(stamp_loadfile) \o Drop("mpv")

(* The task that downloads; the cancel slot is cleaned when it ends.             *)
prebuffer_task ==
    Io
    \o Either({<<>>,
               fallback_direct_if_current,
               Write("mpv") \o Drop("mpv"),
               Write("mpv") \o stamp_loadfile \o Drop("mpv")
                 \o May(settle_rate_then_unpause \o preload_next_track)})
    \o May(Brief("prebuffer_cancel"))

prebuffer_and_load == Either({fallback_direct_if_current, Brief("prebuffer_files")})

dispatch_play ==
    Either({cancel_prebuffer
              \o Write("mpv")
              \o Either({Drop("mpv"),
                         stamp_loadfile \o Drop("mpv")
                           \o preload_next_track \o spawn_cache_population}),
            Write("prebuffer_cancel") \o Write("prebuffer_loading")
              \o Drop("prebuffer_loading") \o Drop("prebuffer_cancel")
              \o Brief("mpv") \o prebuffer_and_load})

spawn_fast_probe == Peek("state") \o May(fetch_audio_properties)

extend_with_random_and_play ==
    Peek("subsonic")
    \o May(pick_unplayed_random
           \o May(filter_for_playback
                  \o May(Write("state") \o commit_play_state_in_lock \o Drop("state")
                         \o emit_queue
                         \o May(preferred_start_mode \o dispatch_play
                                \o emit_now_playing \o emit_queue))))

-----------------------------------------------------------------------------------
(* playback_ops.rs                                                               *)
play_queue_position_at_locked ==
    Peek("subsonic")
    \o May(Write("state") \o commit_play_state_in_lock \o Drop("state")
           \o May(dispatch_play \o May(Brief("state")) \o emit_now_playing \o emit_queue))

play_queue_position_at ==
    Write("playback_transitions") \o play_queue_position_at_locked
    \o Drop("playback_transitions")

finish_at_queue_end ==
    cancel_prebuffer \o Brief("mpv") \o Brief("state")
    \o emit_now_playing \o release_pipewire_rate

(* The decision of next_track and of advance_auto once they hold the transition. *)
play_next_or_end ==
    Peek("state")
    \o May(Either({play_queue_position_at_locked,
                   May(extend_with_random_and_play) \o May(finish_at_queue_end)}))

next_track ==
    Write("playback_transitions") \o May(play_next_or_end) \o Drop("playback_transitions")

advance_auto ==
    May(Write("playback_transitions") \o May(play_next_or_end)
        \o Drop("playback_transitions"))

(* The seek to the start drops mpv before it takes state.                        *)
prev_track ==
    Write("playback_transitions")
    \o Peek("state")
    \o May(Either({play_queue_position_at_locked, Brief("mpv") \o May(Brief("state"))}))
    \o Drop("playback_transitions")

pause_playback ==
    Brief("state")
    \o May(cancel_prebuffer \o Brief("mpv") \o emit_now_playing \o release_pipewire_rate)

resume_playback ==
    Peek("state")
    \o May(May(Brief("pipewire"))
           \o Write("playback_transitions") \o play_queue_position_at_locked
           \o Drop("playback_transitions"))

toggle_pause ==
    Peek("state") \o Either({<<>>, pause_playback, resume_playback, play_queue_position_at})

autoplay_restored_if_configured == Peek("state") \o May(resume_playback)

stop_playback ==
    cancel_prebuffer \o Brief("mpv") \o Brief("state")
    \o emit_now_playing \o emit_queue \o release_pipewire_rate

stop_keep_queue ==
    cancel_prebuffer \o Brief("mpv") \o Brief("state")
    \o emit_now_playing \o release_pipewire_rate

halt_keep_queue ==
    cancel_prebuffer \o Brief("mpv") \o Brief("state")
    \o emit_now_playing \o release_pipewire_rate

seek == Brief("mpv") \o May(Brief("state"))
seek_relative == Brief("mpv")
set_volume == Brief("mpv") \o Brief("state") \o emit_now_playing

-----------------------------------------------------------------------------------
(* queue_ops.rs, and the queue requests of ipc/client.rs.                        *)
replace_queue_and_play ==
    Write("playback_transitions")
    \o Peek("subsonic")
    \o Write("state") \o commit_play_state_in_lock \o Drop("state")
    \o clear_cover_cache \o emit_queue
    \o May(dispatch_play \o emit_now_playing \o emit_queue)
    \o Drop("playback_transitions")

move_queue_item == Brief("state") \o May(emit_queue \o May(resync_gapless_preload))
clear_queue_history == Brief("state") \o May(emit_queue)
shuffle_queue == Brief("state") \o May(emit_queue \o resync_gapless_preload)

shuffle_library ==
    Peek("subsonic")
    \o May(Io
           \o May(filter_for_playback
                  \o May(Brief("state") \o clear_cover_cache \o emit_queue
                         \o preferred_start_mode \o play_queue_position_at)))

enqueue_songs ==
    filter_for_playback
    \o Either({<<>>,
               preferred_start_mode \o replace_queue_and_play,
               Brief("state") \o emit_queue \o May(resync_gapless_preload)})

handle_remove_from_queue ==
    Brief("state")
    \o Either({<<>>,
               play_queue_position_at,
               Brief("mpv") \o emit_now_playing \o emit_queue,
               emit_queue \o May(resync_gapless_preload)})

-----------------------------------------------------------------------------------
(* library_ops.rs and loaders.rs                                                 *)
refresh_starred == Peek("subsonic") \o May(Io \o May(Brief("state")))
refresh_random == Peek("subsonic") \o May(Io \o May(Brief("state")))
refresh_playlists == Peek("subsonic") \o May(Io \o May(Brief("state")))

refresh_artists ==
    Peek("subsonic") \o May(clear_cover_cache \o Io \o May(Brief("state")))

refresh_random_album ==
    Peek("subsonic") \o May(Io \o Either({<<>>, Brief("state"), Io \o May(Brief("state"))}))

refresh_quick_play_album ==
    Peek("subsonic") \o May(Io \o Either({<<>>, Brief("state"), Io \o May(Brief("state"))}))

(* Fault: the snapshot's guard is kept until the file is written.                *)
persist_config_locked_guarded == Read("state") \o Io \o Drop("state") \o May(Brief("state"))

(* settings_ops.rs: under config_transactions, the file is written between the   *)
(* snapshot and the commit, with no other lock held.                             *)
persist_config_locked == Peek("state") \o Io \o May(Brief("state"))

persist_config ==
    Write("config_transactions") \o persist_config_locked \o Drop("config_transactions")

(* A failed save ends the function, and the guard of the transaction with it.    *)
apply_music_folder ==
    Write("config_transactions")
    \o persist_config_locked
    \o Either({Drop("config_transactions"),
               Brief("state") \o Brief("subsonic") \o Drop("config_transactions")
                 \o emit_config_changed \o refresh_artists \o refresh_random})

refresh_music_folders ==
    Peek("subsonic") \o May(Io \o May(Brief("state") \o May(apply_music_folder)))

create_playlist == Peek("subsonic") \o May(Io \o May(refresh_playlists))

load_playlist_songs == Peek("subsonic") \o May(Io \o May(Brief("state")))

playlist_edit ==
    Peek("subsonic") \o May(Io \o May(load_playlist_songs \o refresh_playlists))

fetch_lyrics == Peek("subsonic") \o May(Io \o May(Io \o May(Io)))
fetch_info == Peek("subsonic") \o May(Io)

toggle_star_song ==
    Peek("subsonic") \o May(Brief("state") \o Io \o May(Io) \o Brief("state"))

(* Fault: the client is read first, and state inside its guard.                  *)
set_song_rating_inverted ==
    Write("rating_updates")
    \o Read("subsonic") \o Write("state") \o Drop("state") \o Drop("subsonic")
    \o May(Io \o Write("state") \o Read("subsonic") \o Drop("subsonic") \o Drop("state"))
    \o Drop("rating_updates")

(* The client and its generation are read with state held, before the call and   *)
(* again to commit or to roll back; the rating lock spans both.                  *)
set_song_rating ==
    Write("rating_updates")
    \o Write("state") \o Read("subsonic") \o Drop("subsonic") \o Drop("state")
    \o May(Io \o Write("state") \o Read("subsonic") \o Drop("subsonic") \o Drop("state"))
    \o Drop("rating_updates")

load_artist == Peek("subsonic") \o May(Io \o May(Brief("state")))
load_all_albums == Peek("subsonic") \o May(Io \o May(Brief("state")))
load_album_songs == Peek("state") \o May(Peek("subsonic") \o May(Io \o May(Brief("state"))))
search == Peek("subsonic") \o May(Io)

get_cover_art ==
    Brief("cover_art_cache")
    \o May(Peek("subsonic") \o May(Io \o May(Brief("cover_art_cache"))))

handle_load_artist == load_artist \o Peek("state")

-----------------------------------------------------------------------------------
(* settings_ops.rs: the setters.                                                 *)
set_setting == persist_config \o May(emit_config_changed)

set_repeat_mode ==
    persist_config
    \o May(Peek("state") \o emit_config_changed \o May(Brief("mpv") \o preload_next_track))

set_replay_gain == persist_config \o May(Brief("mpv") \o emit_config_changed)

refresh_scrobble_capability == Peek("subsonic") \o May(Io)

(* The password is filed, the configuration saved, committed, the old keychain   *)
(* entry removed and the client replaced, all in one transaction.                *)
update_server_config ==
    Write("config_transactions")
    \o Peek("state")
    \o Either({Drop("config_transactions"),
               Io \o Drop("config_transactions"),
               Io \o Io \o May(Io) \o Drop("config_transactions"),
               Io \o Io \o Brief("state") \o May(Io) \o Brief("subsonic")
                 \o Drop("config_transactions")
                 \o refresh_starred \o refresh_artists \o refresh_playlists
                 \o refresh_music_folders \o emit_config_changed})

-----------------------------------------------------------------------------------
(* playback_tick.rs, scrobble.rs: the 500 ms tick.                               *)
gather_playback_tick_inputs ==
    Peek("state") \o Brief("mpv")
    \o May(Peek("state") \o Brief("mpv") \o Brief("prebuffer_loading")
           \o Brief("last_loadfile"))

(* Fault: the next track is preloaded with the state guard still alive.          *)
try_gapless_advance_guarded ==
    Write("state")
    \o May(Brief("mpv") \o preload_next_track)
    \o Drop("state") \o emit_now_playing \o emit_queue

try_gapless_advance ==
    Brief("state")
    \o May(Brief("mpv") \o preload_next_track \o emit_now_playing \o emit_queue)

apply_playback_tick_action ==
    Either({<<>>,
            advance_auto,
            Brief("last_preload_attempt") \o May(preload_next_track),
            try_gapless_advance})

tick_emit_position == Brief("mpv") \o May(Brief("state"))
tick_backfill_duration == Brief("mpv") \o May(Brief("state"))
tick_desktop_notification == Peek("state") \o May(Peek("state"))
tick_fetch_audio_properties_if_needed == Peek("state") \o May(fetch_audio_properties)
scrobble_tick == Peek("state") \o Brief("scrobble_state")
scrobble_report == Peek("subsonic") \o May(Io)

update_playback_info ==
    gather_playback_tick_inputs
    \o apply_playback_tick_action
    \o scrobble_tick
    \o tick_desktop_notification
    \o May(tick_emit_position \o tick_backfill_duration
           \o tick_fetch_audio_properties_if_needed)

(* polling.rs: the watchdog, and the task that saves the queue.                  *)
mpv_watchdog == Brief("mpv") \o May(start_mpv)
save_queue == Peek("state") \o Io

(* The event of mpv that ends a file, and the lagging listener's own question.   *)
mpv_event == Brief("mpv") \o May(advance_auto)

(* run.rs: the end of the daemon.                                                *)
shutdown == quit_mpv \o Io \o Peek("state") \o Either({save_queue, Io})

-----------------------------------------------------------------------------------
(* What a request of a client runs (ipc/client.rs, InProcessClient::request);    *)
(* MPRIS and the TUI of the standalone program come through the same calls.      *)
request_handlers ==
    {toggle_pause, pause_playback, resume_playback, next_track, prev_track,
     play_queue_position_at, stop_playback, stop_keep_queue, halt_keep_queue,
     seek, seek_relative, set_volume, enqueue_songs, handle_remove_from_queue,
     shuffle_queue, shuffle_library, move_queue_item, clear_queue_history,
     refresh_starred, refresh_random, refresh_random_album, refresh_quick_play_album,
     refresh_artists \o refresh_music_folders, refresh_playlists, apply_music_folder,
     create_playlist, playlist_edit, toggle_star_song, set_song_rating,
     handle_load_artist, load_all_albums, load_album_songs, load_playlist_songs, search,
     update_server_config, set_setting, set_repeat_mode, set_replay_gain,
     get_cover_art, fetch_lyrics, fetch_info, snapshot, quit_mpv}

(* What the daemon's own tasks run, each time they wake (core.rs, polling.rs,    *)
(* run.rs).                                                                      *)
daemon_tasks ==
    {update_playback_info, mpv_watchdog, mpv_event, save_queue, is_idle_for_exit,
     settle_rate_then_unpause, prebuffer_task, populate_cache, spawn_fast_probe,
     autoplay_restored_if_configured, refresh_scrobble_capability, scrobble_report,
     refresh_starred \o refresh_artists \o refresh_playlists \o refresh_music_folders,
     shutdown}
===================================================================================
