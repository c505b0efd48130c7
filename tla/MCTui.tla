------------------------------- MODULE MCTui --------------------------------
(* The terminal interface for TLC: sessions on the Playlists page, on the      *)
(* Library page, with the overlays, between the pages and on the Settings      *)
(* page. A session runs one of the modules; the state of the others is None.   *)
EXTENDS Integers, Sequences, FiniteSets

CONSTANTS
    Sessions,  \* the sessions to check
    None, Empty,
    p1, p2, s1, s2, s3, a1, b1, q1, q2,
    \* the playlists, the songs in them and what else has a cover
    Playlists, Songs, InitialLists, Playables, Covers, Targets, Rows,
    \* the library
    Queries, AlbumsOf, SongsOf, Matches, Folders, Playing, Sorted, Remembered,
    \* what forms and settings hold
    Urls, Secrets, Names, Bindings, Conflicting, MaxRating,
    MaxLen, MaxEvents, MaxFaults, MaxChanges, MaxOpens, MaxFetches

VARIABLES
    session,
    \* the Playlists page and the picker
    server, order, mirror, events, songs, selected_playlist,
    selected_song, focus, box, picker, request, faults, shown, added, disturbed,
    \* the Library page
    artists, albums_cache, albums_events, filter, filter_active,
    search_results, search_gen, searches, search_history, history_cursor,
    expanded, selected_index, view, albums, album_sort, album_selected,
    album_loads, artists_focus, artists_songs, artists_selected_song,
    artists_request, alive, failures, toggles, failed,
    \* lyrics, info and covers
    song, cover_art, lyrics, info, art, playlist_art, row, fetches, pump,
    app, outdated,
    \* pages, prompts and the Server form
    page, quit_prompt, picker_open, lyrics_open, info_open, editor, boxes,
    filter_text, form, committed_password, base_url, changes,
    page_request, should_quit, daemon_backed, phase,
    \* the Settings page
    settings, keymap, filter_editor, keybinding_editor, settings_request,
    reply, daemon, emitting, config_events, settings_changes, emitted,
    drifted, lost

(* The two playlists of a server, one of them empty.                           *)
TwoLists(list) == [p \in {p1, p2} |-> IF p = p1 THEN list ELSE <<>>]
ServerLists == {TwoLists(<<s1>>), TwoLists(<<s1, s2>>)}

(* A folder with an artist, an album and a song, and an empty folder; q1 finds *)
(* the artist and the song, q2 nothing.                                        *)
TreeAlbums == [a \in {a1} |-> <<b1>>]
TreeSongs == [b \in {b1} |-> <<s1>>]
TreeMatches == [q \in {q1, q2} |-> IF q = q1 THEN {a1, s1} ELSE {}]
TreeFolders == {<<a1>>, <<>>}
TreeSorted == [by \in {"Name", "ReleaseDate"} |-> <<b1>>]
TreeHistories == {<<q1, q2>>}
NoQueue == <<>>

P == INSTANCE PlaylistsPage

L == INSTANCE LibraryPage WITH
    focus <- artists_focus,
    songs <- artists_songs,
    selected_song <- artists_selected_song,
    request <- artists_request

O == INSTANCE Overlays WITH Songs <- Playables

G == INSTANCE Pages WITH
    picker <- picker_open,
    lyrics <- lyrics_open,
    info <- info_open,
    box <- boxes,
    filter <- filter_text,
    request <- page_request

S == INSTANCE SettingsPage WITH
    request <- settings_request,
    events <- config_events,
    changes <- settings_changes

(* None is no number, no name and no request.                                  *)
ASSUME TuiAssumption ==
    /\ None \notin Nat
    /\ None \notin Playlists \cup Songs \cup Playables \cup Covers \cup Rows
    /\ None \notin P!Requests
    /\ None \notin S!Requests
    /\ IsFiniteSet(Playlists)
    /\ InitialLists \subseteq [Playlists -> Seq(Songs)]
    /\ MaxRating \in Nat

varsP ==
    <<server, order, mirror, events, songs, selected_playlist,
      selected_song, focus, box, picker, request, faults, shown,
      added, disturbed>>

varsL ==
    <<artists, albums_cache, albums_events, filter, filter_active,
      search_results, search_gen, searches, search_history,
      history_cursor, expanded, selected_index, view, albums,
      album_sort, album_selected, album_loads, artists_focus,
      artists_songs, artists_selected_song, artists_request, alive,
      failures, toggles, failed>>

varsO ==
    <<song, cover_art, lyrics, info, art, playlist_art, row, fetches,
      pump, app, outdated>>

varsG ==
    <<page, quit_prompt, picker_open, lyrics_open, info_open, editor,
      boxes, filter_text, form, committed_password, base_url, changes,
      page_request, should_quit, daemon_backed, phase>>

varsS ==
    <<settings, keymap, filter_editor, keybinding_editor,
      settings_request, reply, daemon, emitting, config_events,
      settings_changes, emitted, drifted, lost>>

(* Two songs and no failures; one song, a failure or an edit by another client. *)
OneSong ==
    /\ picker' # None => picker'.song = s1
    /\ request = None /\ request' # None /\ request'.op = "add" => server[request'.id] = <<>>

PlaylistsInit == P!Init /\ server = TwoLists(<<s1, s2>>)
PlaylistsNext == P!Next /\ faults' = faults
FaultyInit == P!Init /\ server = TwoLists(<<s1>>)
FaultyNext == P!Next /\ OneSong

(* Lyrics and info over the cover of the playing song; the playlists' covers.  *)
OverlaysInit == O!Init /\ song \in {None, s1, s3}
OverlaysNext == O!Next /\ song' \in {None, s1, s3} /\ row' = row
CoversInit == O!Init /\ song \in {None, s1, s2}
CoversNext ==
    /\ O!Next /\ song' \in {None, s1, s2}
    /\ lyrics'.generation = lyrics.generation /\ info'.generation = info.generation

NoP ==
    /\ server = None /\ order = None /\ mirror = None /\ events = None
    /\ songs = None /\ selected_playlist = None /\ selected_song = None
    /\ focus = None /\ box = None /\ picker = None /\ request = None
    /\ faults = None /\ shown = None /\ added = None
    /\ disturbed = None

NoL ==
    /\ artists = None /\ albums_cache = None /\ albums_events = None
    /\ filter = None /\ filter_active = None /\ search_results = None
    /\ search_gen = None /\ searches = None /\ search_history = None
    /\ history_cursor = None /\ expanded = None /\ selected_index = None
    /\ view = None /\ albums = None /\ album_sort = None
    /\ album_selected = None /\ album_loads = None /\ artists_focus = None
    /\ artists_songs = None /\ artists_selected_song = None
    /\ artists_request = None /\ alive = None /\ failures = None
    /\ toggles = None /\ failed = None

NoO ==
    /\ song = None /\ cover_art = None /\ lyrics = None /\ info = None
    /\ art = None /\ playlist_art = None /\ row = None /\ fetches = None
    /\ pump = None /\ app = None /\ outdated = None

NoG ==
    /\ page = None /\ quit_prompt = None /\ picker_open = None
    /\ lyrics_open = None /\ info_open = None /\ editor = None /\ boxes = None
    /\ filter_text = None /\ form = None /\ committed_password = None
    /\ base_url = None /\ changes = None /\ page_request = None
    /\ should_quit = None /\ daemon_backed = None /\ phase = None

NoS ==
    /\ settings = None /\ keymap = None /\ filter_editor = None
    /\ keybinding_editor = None /\ settings_request = None /\ reply = None
    /\ daemon = None /\ emitting = None /\ config_events = None
    /\ settings_changes = None /\ emitted = None /\ drifted = None
    /\ lost = None

Init ==
    /\ session \in Sessions
    /\ \/ session = "playlists" /\ PlaylistsInit /\ NoL /\ NoO /\ NoG /\ NoS
       \/ session = "faulty playlists" /\ FaultyInit /\ NoL /\ NoO /\ NoG /\ NoS
       \/ session = "library" /\ L!Init /\ NoP /\ NoO /\ NoG /\ NoS
       \/ session = "overlays" /\ OverlaysInit /\ NoP /\ NoL /\ NoG /\ NoS
       \/ session = "covers" /\ CoversInit /\ NoP /\ NoL /\ NoG /\ NoS
       \/ session = "pages" /\ G!Init /\ NoP /\ NoL /\ NoO /\ NoS
       \/ session = "settings" /\ S!Init /\ NoP /\ NoL /\ NoO /\ NoG

Next ==
    /\ UNCHANGED session
    /\ \/ session = "playlists" /\ PlaylistsNext /\ UNCHANGED <<varsL, varsO, varsG, varsS>>
       \/ session = "faulty playlists" /\ FaultyNext /\ UNCHANGED <<varsL, varsO, varsG, varsS>>
       \/ session = "library" /\ L!Next /\ UNCHANGED <<varsP, varsO, varsG, varsS>>
       \/ session = "overlays" /\ OverlaysNext /\ UNCHANGED <<varsP, varsL, varsG, varsS>>
       \/ session = "covers" /\ CoversNext /\ UNCHANGED <<varsP, varsL, varsG, varsS>>
       \/ session = "pages" /\ G!Next /\ UNCHANGED <<varsP, varsL, varsO, varsS>>
       \/ session = "settings" /\ S!Next /\ UNCHANGED <<varsP, varsL, varsO, varsG>>

vars == <<session, varsP, varsL, varsO, varsG, varsS>>

Spec == Init /\ [][Next]_vars

-----------------------------------------------------------------------------
(* The song cursor never points past the song pane, which removals, answers    *)
(* and deletions replace: J and K swap the row it names without a check.       *)
SongCursorInPane ==
    session \in {"playlists", "faulty playlists"} => P!SongCursorInPane

(* Unless another client edited the playlist or a call failed, the playlist    *)
(* that the pane was loaded from holds on the server the songs in the pane,    *)
(* and after them only what this client's picker has added since, of which the *)
(* pane is not told; whichever row was highlighted when a removal or a move    *)
(* was asked for.                                                              *)
UndisturbedPaneIsServer ==
    session \in {"playlists", "faulty playlists"} => P!UndisturbedPaneIsServer

(* While no search for the current query is under way and its last one did not *)
(* fail, what the tree shows for a query are the answers to that query:        *)
(* whatever was typed, recalled or cleared while older searches were pending   *)
(* ("so a stale reply cannot overwrite a newer query").                        *)
QuietSearchIsCurrent == session = "library" => L!QuietSearchIsCurrent

(* "Step the tree selection one row, ... clamping at the ends"                 *)
(* (src/src/app/input_library.rs:1057): a step never leaves the tree.          *)
StepsStayInTree == session = "library" => L!StepsStayInTree

(* The lyrics and the info on the screen are those of the song and the target  *)
(* named above them, however late replies come, and an overlay that says it is *)
(* loading has a request under way that will end it.                           *)
OverlaysShowTheirSubject ==
    session \in {"overlays", "covers"} => O!OverlaysShowTheirSubject

(* Once the pump is idle, the cover drawn is the playing song's. Two accidents  *)
(* put another there until an event asks for the right one: startup fetched it  *)
(* for a song that had gone by then and found nothing reserved, or the pump     *)
(* lost events and took another song from a snapshot. A cover reserved but not  *)
(* drawn has its fetch under way, so none stays blank.                          *)
ArtIsOfTheSong ==
    session \in {"overlays", "covers"} => O!ArtIsOfTheSong

(* handle_key asks the layers from the bottom of the drawing order: a key goes *)
(* to the layer the user sees on top because two never open together. A box    *)
(* that captures keys, and text not yet saved, do not outlive their page.      *)
KeysGoWhereTheUserLooks == session = "pages" => G!KeysGoWhereTheUserLooks

(* At rest the page shows the daemon's settings, but for what is known to make *)
(* it drift: a change that failed to save, an editor that writes its value     *)
(* over a newer one, two events emitted in the wrong order, and the newest     *)
(* event lost on its way, until another arrives. A key pressed while a change  *)
(* by another client is under way does not, nor does losing an older event.    *)
QuietSettingsAreConfig == session = "settings" => S!QuietSettingsAreConfig

(* "the local pane already mirrors the server list, so the reordered ids are   *)
(* authoritative" (src/src/app/input_playlists.rs:446): moving a song changes  *)
(* the order of a playlist and never which songs it holds.                     *)
ReorderOnlyReorders == P!ReorderOnlyReorders
=============================================================================
