---------------------------- MODULE PlaylistsPage ----------------------------
(* The Playlists page of the terminal interface and the playlist picker        *)
(* (src/src/app/input_playlists.rs, mouse_playlists.rs), against the daemon's  *)
(* playlist operations (daemon/library_ops.rs, loaders.rs) and the server's    *)
(* lists. Keys are handled one at a time: a handler waits for the answer of    *)
(* its request. The event pump, the daemon and other clients run meanwhile.    *)
EXTENDS Cursor, SequencesExt

CONSTANTS
    Playlists, Songs,
    InitialLists,  \* what the playlists may hold at the start
    MaxLen,        \* bound on the playlists the picker adds to
    MaxEvents,     \* bound on the events under way
    MaxFaults      \* bound on failing calls and edits by other clients

VARIABLES
    server,     \* the songs of each playlist on the server
    order,      \* the playlists that exist there, in the server's order
    mirror,     \* daemon_state.library.playlists: the list on the screen
    events,     \* PlaylistsChanged events the pump has yet to apply
    songs,      \* playlists.songs: the song pane
    selected_playlist, selected_song,
    focus,      \* 0: the playlists, 1: the song pane
    box,        \* the box that captures the keys: "none", "renaming", "deleting"
    picker,     \* the song to add and the highlighted row, or None
    request,    \* the request the key handler waits for, or None
    faults,     \* failing calls and edits elsewhere so far
    shown,      \* history: the playlist the pane was loaded from, or None
    added,      \* history: the songs the picker has added to it since
    disturbed   \* history: a failure or another client changed it beside the pane

cursors == <<selected_playlist, selected_song, focus>>
history == <<shown, added, disturbed>>
vars == <<server, order, mirror, events, songs, cursors, box, picker, request,
          faults, history>>

Exists(p) == \E i \in DOMAIN order : order[i] = p

Init ==
    /\ server \in InitialLists
    /\ order \in SetToSeqs(Playlists)
    /\ mirror = order
    /\ events = <<>>
    /\ songs = <<>>
    /\ selected_playlist = None /\ selected_song = None /\ focus = 0
    /\ box = "none"
    /\ picker = None
    /\ request = None
    /\ faults = 0
    /\ shown = None /\ added = <<>> /\ disturbed = FALSE

-----------------------------------------------------------------------------
(* Keys and clicks. *)

Requests ==
    [op : {"load", "queue", "remove", "reorder", "rename", "delete", "add"},
     id : Playlists \cup {None}, at : Nat \cup {None}, ids : Seq(Songs),
     phase : {"sent", "edited", "loaded", "done", "error"},
     reply : Seq(Songs), fresh : BOOLEAN]

Asking(op, id) ==
    [op |-> op, id |-> id, at |-> None, ids |-> <<>>,
     phase |-> "sent", reply |-> <<>>, fresh |-> TRUE]

Send(r) == request' = r

Free == request = None

Keys == Free /\ picker = None /\ box = "none"

ServerSide == <<server, order, mirror, events, faults>>

Highlighted ==
    IF HasRow(mirror, selected_playlist) THEN Row(mirror, selected_playlist) ELSE None

Stay == UNCHANGED <<songs, box, picker, request, history>>

(* Keys, and the wheel, which like a click reaches the page under any box. *)
MovesInPlaylists ==
    /\ Free /\ focus = 0
    /\ selected_playlist' \in {MoveUp(selected_playlist, mirror),
                               MoveDown(selected_playlist, mirror)}
    /\ UNCHANGED <<selected_song, focus, ServerSide>> /\ Stay

MovesInSongs ==
    /\ Free /\ focus = 1
    /\ selected_song' \in {MoveUp(selected_song, songs), MoveDown(selected_song, songs)}
    /\ UNCHANGED <<selected_playlist, focus, ServerSide>> /\ Stay

(* Tab and Left; Right also starts the song cursor. *)
SwitchesPane ==
    /\ Keys
    /\ \/ focus' \in {0, 1 - focus} /\ UNCHANGED selected_song
       \/ /\ songs # <<>>
          /\ focus' = 1
          /\ selected_song' = IF selected_song = None THEN 0 ELSE selected_song
    /\ UNCHANGED <<selected_playlist, ServerSide>> /\ Stay

(* The mouse reaches the page whatever box or overlay is open. *)
Clicks ==
    /\ Free
    /\ \/ \E i \in 0..(Len(mirror) - 1) :
              selected_playlist' = i /\ focus' = 0 /\ UNCHANGED selected_song
       \/ \E i \in 0..(Len(songs) - 1) :
              selected_song' = i /\ focus' = 1 /\ UNCHANGED selected_playlist
    /\ UNCHANGED ServerSide /\ Stay

(* Enter, or a second click, on a playlist. *)
LoadsPlaylist ==
    /\ Free
    /\ Highlighted # None
    /\ Send(Asking("load", Highlighted))
    /\ UNCHANGED <<songs, cursors, box, picker, history, ServerSide>>

(* e, i, t, m and Enter on a song: requests about the queue and the stars. *)
UsesSongs ==
    /\ Free /\ songs # <<>>
    /\ Send(Asking("queue", None))
    /\ UNCHANGED <<songs, cursors, box, picker, history, ServerSide>>

(* d on a song: removed from the pane before the daemon is asked. *)
RemovesSong ==
    /\ Keys /\ focus = 1
    /\ Highlighted # None
    /\ HasRow(songs, selected_song)
    /\ songs' = WithoutRow(songs, selected_song)
    /\ selected_song' = clamp_selection(selected_song, Len(songs'))
    /\ Send([Asking("remove", Highlighted) EXCEPT !.at = selected_song])
    /\ UNCHANGED <<selected_playlist, focus, box, picker, history, ServerSide>>

(* J and K: the new order of the pane is sent as the playlist's songs. *)
move_playlist_song(delta) ==
    /\ Keys /\ focus = 1
    /\ selected_song # None
    /\ selected_song + delta \in 0..(Len(songs) - 1)
    /\ selected_song < Len(songs)
    /\ Highlighted # None
    /\ songs' = SwapRows(songs, selected_song, selected_song + delta)
    /\ selected_song' = selected_song + delta
    /\ Send([Asking("reorder", Highlighted) EXCEPT !.ids = songs'])
    /\ UNCHANGED <<selected_playlist, focus, box, picker, history, ServerSide>>

OpensBox ==
    /\ Keys /\ focus = 0
    /\ Highlighted # None
    /\ box' \in {"renaming", "deleting"}
    /\ UNCHANGED <<songs, cursors, picker, request, history, ServerSide>>

(* Esc, n, an empty name, or another page: revert_page_edits. *)
ClosesBox ==
    /\ Free /\ box # "none"
    /\ box' = "none"
    /\ UNCHANGED <<songs, cursors, picker, request, history, ServerSide>>

handle_playlists_rename_key ==
    /\ Free /\ picker = None /\ box = "renaming"
    /\ box' = "none"
    /\ IF Highlighted = None THEN UNCHANGED request
       ELSE Send(Asking("rename", Highlighted))
    /\ UNCHANGED <<songs, cursors, picker, history, ServerSide>>

(* The pane is what was read of the playlist, which may be out of date. *)
Loaded(p, stale) == shown' = p /\ added' = <<>> /\ disturbed' = stale

(* Fault: the deletion empties the pane and keeps the song cursor. *)
delete_confirm_keeps_cursor ==
    /\ Free /\ picker = None /\ box = "deleting" /\ Highlighted # None
    /\ box' = "none"
    /\ songs' = <<>>
    /\ Send(Asking("delete", Highlighted))
    /\ Loaded(None, FALSE)
    /\ UNCHANGED <<selected_playlist, selected_song, focus, picker, ServerSide>>

handle_playlists_delete_confirm_key ==
    /\ Free /\ picker = None /\ box = "deleting"
    /\ box' = "none"
    /\ IF Highlighted = None
       THEN UNCHANGED <<songs, selected_song, request, history>>
       ELSE /\ songs' = <<>> /\ selected_song' = None
            /\ Send(Asking("delete", Highlighted))
            /\ Loaded(None, FALSE)
    /\ UNCHANGED <<selected_playlist, focus, picker, ServerSide>>

(* a on a highlighted song of any page. *)
open_playlist_picker ==
    /\ Keys /\ mirror # <<>>
    /\ \E s \in Songs : picker' = [song |-> s, at |-> 0]
    /\ UNCHANGED <<songs, cursors, box, request, history, ServerSide>>

handle_playlist_picker_key ==
    /\ Free /\ picker # None
    /\ \/ picker' = None /\ UNCHANGED <<request>>
       \/ /\ picker' \in {[picker EXCEPT !.at = IF @ > 0 THEN @ - 1 ELSE 0],
                          [picker EXCEPT !.at = IF @ + 1 < Len(mirror) THEN @ + 1 ELSE @]}
          /\ UNCHANGED request
       \/ /\ HasRow(mirror, picker.at)
          /\ Len(server[Row(mirror, picker.at)]) < MaxLen
          /\ Send([Asking("add", Row(mirror, picker.at)) EXCEPT !.ids = <<picker.song>>])
          /\ picker' = None
    /\ UNCHANGED <<songs, cursors, box, history, ServerSide>>

-----------------------------------------------------------------------------
(* The daemon carries the request out, reads the edited playlist back, reads   *)
(* the list of playlists and answers. Each server call may fail.               *)

Pane == <<songs, cursors, box, picker>>

Edits == {"remove", "reorder", "add"}

Edited(list) ==
    CASE request.op = "remove" ->
            IF request.at < Len(list) THEN WithoutRow(list, request.at) ELSE list
      [] request.op = "reorder" -> request.ids
      [] request.op = "add" -> list \o request.ids

Reorderings == {list \in [DOMAIN order -> ToSet(order)] : IsInjective(list)}

Without(p) ==
    IF Exists(p) THEN WithoutRow(order, (CHOOSE i \in DOMAIN order : order[i] = p) - 1)
    ELSE order

(* What the server does; a rename may move the playlist in the order. *)
Applied ==
    /\ IF request.op \in Edits
       THEN server' = [server EXCEPT ![request.id] = Edited(@)]
       ELSE UNCHANGED server
    /\ order' \in CASE request.op = "rename" -> Reorderings
                     [] request.op = "delete" -> {Without(request.id)}
                     [] OTHER -> {order}

(* The answer to an addition is dropped: the pane stays as it was. *)
AddsToPane == request.op = "add" /\ request.id = shown

ServerCall ==
    /\ request # None /\ request.phase = "sent"
    /\ request.op \notin {"queue", "load"}
    /\ request.op # "delete" => Exists(request.id)
    /\ Applied
    /\ added' = IF AddsToPane THEN added \o request.ids ELSE added
    /\ request' = [request EXCEPT
           !.phase = IF request.op \in Edits THEN "edited" ELSE "loaded"]
    /\ UNCHANGED <<mirror, events, faults, Pane, shown, disturbed>>

(* The call fails: the server is unchanged, or its answer is lost. *)
Fault == faults < MaxFaults /\ faults' = faults + 1

ServerCallFails ==
    /\ request # None /\ request.phase = "sent"
    /\ request.op \notin {"queue", "load"}
    /\ \/ ~Exists(request.id) /\ UNCHANGED <<server, order, faults, disturbed>>
       \/ Fault /\ UNCHANGED <<server, order, disturbed>>
       \/ /\ request.op \in Edits => Exists(request.id)
          /\ Fault /\ Applied
          /\ disturbed' = (disturbed \/ AddsToPane)
    /\ request' = [request EXCEPT !.phase = "error"]
    /\ UNCHANGED <<mirror, events, Pane, shown, added>>

(* An edited playlist is read back; when that fails its list comes out empty. *)
load_playlist_songs ==
    /\ request # None
    /\ \/ request.phase = "sent" /\ request.op = "load"
       \/ request.phase = "edited"
    /\ \/ /\ Exists(request.id)
          /\ request' = [request EXCEPT !.reply = server[request.id], !.phase = "loaded"]
          /\ UNCHANGED faults
       \/ /\ request' = [request EXCEPT !.fresh = FALSE, !.phase = "loaded"]
          /\ Fault \/ (~Exists(request.id) /\ UNCHANGED faults)
    /\ UNCHANGED <<server, order, mirror, events, Pane, history>>

(* The list of playlists is read and broadcast, then the daemon answers. *)
Emits == Len(events) < MaxEvents /\ events' = Append(events, order)

refresh_playlists ==
    /\ request # None /\ request.phase = "loaded"
    /\ request' = [request EXCEPT !.phase = "done"]
    /\ \/ request.op = "load" /\ UNCHANGED <<events, faults>>
       \/ request.op # "load" /\ Emits /\ UNCHANGED faults
       \/ request.op # "load" /\ Fault /\ UNCHANGED events
    /\ UNCHANGED <<server, order, mirror, Pane, history>>

(* Ctrl+R, or another client of this daemon, refreshes the list. *)
RefreshElsewhere ==
    /\ order # (IF events = <<>> THEN mirror ELSE Last(events))
    /\ Emits
    /\ UNCHANGED <<server, order, mirror, faults, Pane, request, history>>

(* Another client of the server takes the last song off a playlist, or removes *)
(* the playlist. An answer already read is then out of date.                   *)
EditElsewhere ==
    /\ Fault
    /\ \E p \in ToSet(order) :
          \/ order' = Without(p) /\ UNCHANGED <<server, request, disturbed>>
          \/ /\ server[p] # <<>>
             /\ server' = [server EXCEPT ![p] = Front(@)]
             /\ disturbed' = (disturbed \/ p = shown)
             /\ request' = IF request # None /\ request.id = p
                              /\ request.phase \notin {"sent", "edited"}
                           THEN [request EXCEPT !.fresh = FALSE] ELSE request
             /\ UNCHANGED order
    /\ UNCHANGED <<mirror, events, Pane, shown, added>>

-----------------------------------------------------------------------------
(* The key handler resumes. *)

(* Fault: the answer to a removal or a move is dropped. *)
reconcile_nothing ==
    /\ disturbed' = (request.phase # "done" \/ ~request.fresh)
    /\ UNCHANGED <<songs, selected_song, shown, added>>

(* After a removal or a move, only a successful answer replaces the pane. *)
reconcile_playlist_songs ==
    IF request.phase = "done"
    THEN /\ songs' = request.reply
         /\ selected_song' = clamp_selection(IF selected_song = None THEN 0 ELSE selected_song,
                                             Len(songs'))
         /\ Loaded(request.id, ~request.fresh)
    ELSE disturbed' = TRUE /\ UNCHANGED <<songs, selected_song, shown, added>>

ShowLoaded ==
    /\ songs' = request.reply
    /\ selected_song' = First(songs')
    /\ focus' = 1
    /\ Loaded(request.id, ~request.fresh)

Resumes ==
    /\ request # None
    /\ request.phase \in {"done", "error"} \/ request.op = "queue"
    /\ request' = None
    /\ CASE request.op = "load" -> ShowLoaded
         [] request.op \in {"remove", "reorder"} ->
                reconcile_playlist_songs /\ UNCHANGED focus
         [] OTHER -> UNCHANGED <<songs, selected_song, focus, history>>
    /\ UNCHANGED <<selected_playlist, box, picker, ServerSide>>

(* The event pump replaces the list and leaves every cursor alone. *)
PumpPlaylists ==
    /\ events # <<>>
    /\ mirror' = Head(events)
    /\ events' = Tail(events)
    /\ UNCHANGED <<server, order, faults, Pane, request, history>>

Next ==
    \/ MovesInPlaylists \/ MovesInSongs \/ SwitchesPane \/ Clicks
    \/ LoadsPlaylist \/ UsesSongs \/ RemovesSong
    \/ move_playlist_song(1) \/ move_playlist_song(-1)
    \/ OpensBox \/ ClosesBox
    \/ handle_playlists_rename_key \/ handle_playlists_delete_confirm_key
    \/ open_playlist_picker \/ handle_playlist_picker_key
    \/ ServerCall \/ ServerCallFails \/ load_playlist_songs \/ refresh_playlists
    \/ RefreshElsewhere \/ EditElsewhere
    \/ Resumes \/ PumpPlaylists

Spec == Init /\ [][Next]_vars

-----------------------------------------------------------------------------
(* Properties. *)

(* The song cursor never points past the song pane, which removals, answers    *)
(* and deletions replace: J and K swap the row it names without a check.       *)
SongCursorInPane == InList(selected_song, songs)

(* Unless another client edited the playlist or a call failed, the playlist    *)
(* that the pane was loaded from holds on the server the songs in the pane,    *)
(* and after them only what this client's picker has added since, of which the *)
(* pane is not told; whichever row was highlighted when a removal or a move    *)
(* was asked for.                                                              *)
UndisturbedPaneIsServer ==
    ~disturbed /\ request = None =>
        songs \o added = IF shown = None THEN <<>> ELSE server[shown]

Holdings(list) == [s \in Songs |-> Cardinality({i \in DOMAIN list : list[i] = s})]

(* "the local pane already mirrors the server list, so the reordered ids are   *)
(* authoritative" (src/src/app/input_playlists.rs:446): moving a song changes  *)
(* the order of a playlist and never which songs it holds.                     *)
ReorderOnlyReorders ==
    [][request # None /\ request.op = "reorder" =>
           \A p \in Playlists : Holdings(server[p])' = Holdings(server[p])]_vars
=============================================================================
