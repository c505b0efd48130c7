------------------------------ MODULE Overlays ------------------------------
(* What the terminal interface fetches beside its event loop: the lyrics and   *)
(* the artist/album overlays (src/src/app/input_lyrics.rs, input_info.rs), the *)
(* cover of the playing song, fetched by the event pump and once at startup    *)
(* (event_pump.rs, mod.rs), and the cover of the highlighted playlist          *)
(* (playlist_cover.rs). Replies come late, in any order, or fail; the song,    *)
(* the setting and the selection move meanwhile.                               *)
EXTENDS Integers, FiniteSets

CONSTANTS
    None,
    Songs,       \* what may play; a song with a cover has a cover id of its own
    Covers,      \* the songs and playlists that have a cover
    Targets,     \* artists and albums the info overlay is opened for
    Rows,        \* playlists that may be highlighted; one without a cover also
                 \* stands for an empty list
    MaxOpens,    \* bound on the fetches an overlay starts
    MaxFetches   \* bound on the spawned fetches under way at once

VARIABLES
    song,        \* daemon_state.now_playing.song
    cover_art,   \* config.cover_art
    lyrics,      \* client_state.lyrics, its cache included
    info,        \* client_state.info
    art,         \* cover_art: the id shown or reserved, and the image
    playlist_art,
    row,         \* the highlighted playlist, None off the Playlists page
    fetches,     \* spawned requests under way
    pump,        \* the cover the event pump waits for, or None
    app,         \* what the event loop is doing
    outdated     \* history: how a cover came to be of another song than plays

covers == <<cover_art, art, pump, outdated>>
vars == <<song, covers, lyrics, info, playlist_art, row, fetches, app>>

Nothing == [current_id |-> None, image |-> None]
Ready == [pc |-> "keys", song |-> None, tick |-> FALSE]
Tick == [pc |-> "ensure", song |-> None, tick |-> TRUE]

Init ==
    /\ song \in Songs \cup {None}
    /\ cover_art \in BOOLEAN
    /\ lyrics = [open |-> FALSE, song_id |-> None, status |-> "Idle", text |-> None,
                 generation |-> 0, cache |-> [s \in Songs |-> None]]
    /\ info = [open |-> FALSE, target_id |-> None, status |-> "Idle", text |-> None,
               generation |-> 0]
    /\ art = Nothing /\ playlist_art = Nothing
    /\ row = None
    /\ fetches = {}
    /\ pump = None
    /\ app = IF cover_art /\ song \in Covers
             THEN [pc |-> "seeding", song |-> song, tick |-> FALSE] ELSE Ready
    /\ outdated = FALSE

-----------------------------------------------------------------------------
(* The cover of a song or playlist (ui/cover_art.rs). *)

set_pending(id) == [current_id |-> id, image |-> None]

fail_pending(a, id) == IF a.current_id = id THEN Nothing ELSE a

(* Fault: a reply is shown whatever was reserved since. *)
superseded_never(a, id) == a.image # None

superseded(a, id) ==
    \/ a.current_id \notin {None, id}
    \/ a.current_id = id /\ a.image # None

(* An image that does not decode leaves nothing. *)
load(a, id) ==
    IF superseded(a, id) THEN {a}
    ELSE {[current_id |-> id, image |-> id], Nothing}

-----------------------------------------------------------------------------
(* The event pump: it applies one event after the other and waits for the      *)
(* cover each of them asks for. A cover of another song than plays stays       *)
(* outdated until an event reserves the right one or clears it.                *)

OfAnother(a, s) == a.current_id \notin {None, s}

AsksFor(id) ==
    IF art.current_id = id
    THEN UNCHANGED <<art, pump>>
    ELSE art' = set_pending(id) /\ pump' = id

apply_now_playing_changed ==
    /\ pump = None
    /\ song' \in Songs \cup {None}
    /\ IF ~cover_art THEN UNCHANGED <<art, pump>>
       ELSE IF song' \in Covers THEN AsksFor(song')
       ELSE art' = Nothing /\ UNCHANGED pump
    /\ outdated' = (outdated /\ OfAnother(art', song'))
    /\ UNCHANGED <<cover_art, lyrics, info, playlist_art, row, fetches, app>>

apply_config_changed ==
    /\ pump = None
    /\ cover_art' \in BOOLEAN
    /\ IF ~cover_art' THEN art' = Nothing /\ UNCHANGED pump
       ELSE IF song \in Covers THEN AsksFor(song)
       ELSE UNCHANGED <<art, pump>>
    /\ outdated' = (outdated /\ OfAnother(art', song))
    /\ UNCHANGED <<song, lyrics, info, playlist_art, row, fetches, app>>

(* The pump fell behind and lost events: a snapshot replaces the song and the  *)
(* setting, and the cover is left as it was. A request that fails replaces     *)
(* nothing.                                                                    *)
Resnapshots ==
    /\ pump = None
    /\ song' \in Songs \cup {None}
    /\ cover_art' \in BOOLEAN
    /\ outdated' = (outdated \/ OfAnother(art, song'))
    /\ UNCHANGED <<art, pump, lyrics, info, playlist_art, row, fetches, app>>

(* The reply, empty bytes and errors included. *)
CoverArrives ==
    /\ pump # None
    /\ art' \in load(art, pump) \cup {fail_pending(art, pump)}
    /\ pump' = None
    /\ UNCHANGED <<song, cover_art, outdated, lyrics, info, playlist_art, row, fetches, app>>

(* Before the event loop starts; nothing is reserved for this fetch. *)
seed_cover_art ==
    /\ app.pc = "seeding"
    /\ art' \in load(art, app.song) \cup {art}
    /\ outdated' = (outdated \/ (art.current_id = None /\ art' # art /\ app.song # song))
    /\ app' = Ready
    /\ UNCHANGED <<song, cover_art, pump, lyrics, info, playlist_art, row, fetches>>

-----------------------------------------------------------------------------
(* Lyrics. *)

Keys == app.pc = "keys"

Spawn(f) ==
    /\ Cardinality(fetches) < MaxFetches
    /\ fetches' = fetches \cup {f}

(* toggle_lyrics; a closed overlay keeps its song and its status. *)
toggle_lyrics ==
    /\ Keys /\ ~info.open
    /\ \/ lyrics.open
          /\ lyrics' = [lyrics EXCEPT !.open = FALSE]
          /\ app' = Tick
       \/ ~lyrics.open /\ song # None
          /\ lyrics' = [lyrics EXCEPT !.open = TRUE]
          /\ app' = [Ready EXCEPT !.pc = "ensure"]
    /\ UNCHANGED <<song, covers, info, playlist_art, row, fetches>>

(* handle_lyrics_key: r forgets the lyrics and asks again. *)
RetriesLyrics ==
    /\ Keys /\ lyrics.open
    /\ lyrics' = [lyrics EXCEPT !.status = "Idle", !.text = None,
                   !.cache = [s \in Songs |-> IF s = lyrics.song_id THEN None ELSE @[s]]]
    /\ app' = [Ready EXCEPT !.pc = "ensure"]
    /\ UNCHANGED <<song, covers, info, playlist_art, row, fetches>>

(* tick_post, after every event and every timeout of the loop. *)
tick_post ==
    /\ Keys
    /\ app' = Tick
    /\ UNCHANGED <<song, covers, lyrics, info, playlist_art, row, fetches>>

(* ensure_open_lyrics reads the song, then locks the client state. *)
ReadsSong ==
    /\ app.pc = "ensure"
    /\ app' = [app EXCEPT !.pc = "locked", !.song = song]
    /\ UNCHANGED <<song, covers, lyrics, info, playlist_art, row, fetches>>

Shown(text) == IF text = "" THEN "Empty" ELSE "Ready"

Answered(l, text) == [l EXCEPT !.status = Shown(text), !.text = text]

ensure_open_lyrics ==
    /\ app.pc = "locked"
    /\ LET id == app.song
           of == [lyrics EXCEPT !.song_id = id]
       IN  IF ~lyrics.open \/ (id # None /\ id = lyrics.song_id /\ lyrics.status # "Idle")
           THEN UNCHANGED <<lyrics, fetches>>
           ELSE IF id = None
           THEN lyrics' = [of EXCEPT !.status = "Empty", !.text = None] /\ UNCHANGED fetches
           ELSE IF lyrics.cache[id] # None
           THEN lyrics' = Answered(of, lyrics.cache[id]) /\ UNCHANGED fetches
           ELSE /\ lyrics.generation < MaxOpens
                /\ lyrics' = [of EXCEPT !.status = "Loading", !.text = None,
                                        !.generation = @ + 1]
                /\ Spawn([kind |-> "lyrics", id |-> id, generation |-> lyrics.generation + 1])
    /\ app' = IF app.tick THEN [app EXCEPT !.pc = "cover"] ELSE Tick
    /\ UNCHANGED <<song, covers, info, playlist_art, row>>

(* Fault: the reply of the newest fetch counts, whatever song is shown. *)
Awaited_generation(f) == lyrics.generation = f.generation

Awaited(f) == lyrics.generation = f.generation /\ lyrics.song_id = f.id

(* The lyrics of a song are its id, or empty; they are kept whatever is shown. *)
LyricsArrive(f) ==
    /\ f.kind = "lyrics"
    /\ \E text \in {f.id, ""} :
           LET kept == [lyrics EXCEPT !.cache[f.id] = text]
           IN  lyrics' = IF Awaited(f) THEN Answered(kept, text) ELSE kept
    /\ UNCHANGED <<info, playlist_art>>

LyricsFail(f) ==
    /\ f.kind = "lyrics"
    /\ lyrics' = IF Awaited(f) THEN [lyrics EXCEPT !.status = "Error", !.text = None]
                 ELSE lyrics
    /\ UNCHANGED <<info, playlist_art>>

-----------------------------------------------------------------------------
(* Artist and album info. *)

open_info(id) ==
    /\ info.generation < MaxOpens
    /\ info' = [open |-> TRUE, target_id |-> id, status |-> "Loading", text |-> None,
                generation |-> info.generation + 1]
    /\ Spawn([kind |-> "info", id |-> id, generation |-> info.generation + 1])

(* I on a row of the Library page, r in the overlay. *)
OpensInfo ==
    /\ Keys /\ ~lyrics.open
    /\ \E id \in Targets : (info.open => id = info.target_id) /\ open_info(id)
    /\ app' = Tick
    /\ UNCHANGED <<song, covers, lyrics, playlist_art, row>>

ClosesInfo ==
    /\ Keys /\ ~lyrics.open /\ info.open
    /\ info' = [info EXCEPT !.open = FALSE, !.status = "Idle", !.text = None, !.target_id = None]
    /\ app' = Tick
    /\ UNCHANGED <<song, covers, lyrics, playlist_art, row, fetches>>

InfoArrives(f) ==
    /\ f.kind = "info"
    /\ info' \in IF info.generation # f.generation \/ info.target_id # f.id THEN {info}
                 ELSE {[info EXCEPT !.status = "Ready", !.text = f.id],
                       [info EXCEPT !.status = "Empty"], [info EXCEPT !.status = "Error"]}
    /\ UNCHANGED <<lyrics, playlist_art>>

-----------------------------------------------------------------------------
(* The highlighted playlist: a key, or an event that replaces the list. *)

Highlights ==
    /\ app.pc # "seeding"
    /\ row' \in Rows \cup {None}
    /\ UNCHANGED <<song, covers, lyrics, info, playlist_art, fetches, app>>

(* Tells apart two fetches of one cover. *)
Spare(id) ==
    CHOOSE n \in 0..MaxFetches : [kind |-> "cover", id |-> id, generation |-> n] \notin fetches

(* None is the other pages, where the image stays. *)
ensure_playlist_cover ==
    /\ app.pc = "cover"
    /\ IF row = None \/ ~cover_art \/ playlist_art.current_id = row
       THEN UNCHANGED <<playlist_art, fetches>>
       ELSE IF row \in Covers
       THEN /\ playlist_art' = set_pending(row)
            /\ Spawn([kind |-> "cover", id |-> row, generation |-> Spare(row)])
       ELSE playlist_art' = Nothing /\ UNCHANGED fetches
    /\ app' = Ready
    /\ UNCHANGED <<song, covers, lyrics, info, row>>

PlaylistCoverArrives(f) ==
    /\ f.kind = "cover"
    /\ playlist_art' \in load(playlist_art, f.id) \cup {fail_pending(playlist_art, f.id)}
    /\ UNCHANGED <<lyrics, info>>

Replies ==
    /\ \E f \in fetches :
           /\ fetches' = fetches \ {f}
           /\ LyricsArrive(f) \/ LyricsFail(f) \/ InfoArrives(f) \/ PlaylistCoverArrives(f)
    /\ UNCHANGED <<song, covers, row, app>>

Next ==
    \/ apply_now_playing_changed
    \/ apply_config_changed
    \/ Resnapshots
    \/ CoverArrives
    \/ seed_cover_art
    \/ toggle_lyrics
    \/ RetriesLyrics
    \/ tick_post
    \/ ReadsSong
    \/ ensure_open_lyrics
    \/ OpensInfo
    \/ ClosesInfo
    \/ Highlights
    \/ ensure_playlist_cover
    \/ Replies

Spec == Init /\ [][Next]_vars

-----------------------------------------------------------------------------
(* The lyrics and the info on the screen are those of the song and the target  *)
(* named above them, however late replies come, and an overlay that says it is *)
(* loading has a request under way that will end it.                           *)
OverlaysShowTheirSubject ==
    /\ lyrics.status = "Ready" => lyrics.text = lyrics.song_id
    /\ lyrics.status = "Loading" => \E f \in fetches : f.kind = "lyrics" /\ Awaited(f)
    /\ info.status = "Ready" => info.text = info.target_id
    /\ info.status = "Loading" =>
           \E f \in fetches : /\ f.kind = "info" /\ f.id = info.target_id
                              /\ f.generation = info.generation

(* Once the pump is idle, the cover drawn is the playing song's. Two accidents  *)
(* put another there until an event asks for the right one: startup fetched it  *)
(* for a song that had gone by then and found nothing reserved, or the pump     *)
(* lost events and took another song from a snapshot. A cover reserved but not  *)
(* drawn has its fetch under way, so none stays blank.                          *)
ArtIsOfTheSong ==
    /\ (pump = None /\ cover_art /\ song \in Covers /\ art.image # None /\ ~outdated) =>
           art.image = song
    /\ (art.current_id # None /\ art.image = None) => pump = art.current_id
    /\ (playlist_art.current_id # None /\ playlist_art.image = None) =>
           \E f \in fetches : f.kind = "cover" /\ f.id = playlist_art.current_id
=============================================================================
