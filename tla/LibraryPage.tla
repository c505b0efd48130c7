----------------------------- MODULE LibraryPage -----------------------------
(* The Library page of the terminal interface (src/src/app/input_library.rs,   *)
(* mouse_library.rs, ui/pages/library.rs): the artist tree, the search box     *)
(* with its debounced background searches, the flat album list and the song    *)
(* pane. Key handlers wait for their request; searches, the first load of the  *)
(* album list and the event pump run meanwhile.                                *)
EXTENDS Cursor, SequencesExt

CONSTANTS
    Empty,         \* the empty search box
    Queries,       \* what is typed into it
    AlbumsOf,      \* the albums of each artist of the server, by year
    SongsOf,       \* the songs of each album
    Matches,       \* the names that contain a query
    Folders,       \* the artists of each music folder, as sequences
    Playing,       \* the play queue
    Sorted,        \* the album list in each order
    Remembered,    \* the search histories a session may start with
    MaxChanges     \* bound on changes of the search box, view switches and failures

VARIABLES
    artists,            \* daemon_state.library.artists
    albums_cache,       \* the artists whose albums are in the mirror
    albums_events,      \* AlbumsChanged events under way, by artist
    filter, filter_active, search_results,
    search_gen,         \* counts the changes of the search box
    searches,           \* the background searches
    search_history, history_cursor,
    expanded, selected_index,
    view, albums, album_sort, album_selected,
    album_loads,        \* the background loads of the album list
    focus,              \* 0: tree or album list, 1: song pane
    songs, selected_song,
    request,            \* the request the key handler waits for, or None
    alive,              \* FALSE once a handler has panicked
    failures, toggles,
    failed              \* history: the current query's search failed

Budget == search_gen + toggles + failures < MaxChanges

search == <<filter, filter_active, search_results, search_gen, searches,
            search_history, history_cursor, failed>>
tree == <<expanded, selected_index>>
list == <<view, albums, album_sort, album_selected, album_loads, toggles>>
pane == <<focus, songs, selected_song>>
mirrored == <<artists, albums_cache, albums_events>>
ends == <<request, alive, failures>>
vars == <<mirrored, search, tree, list, pane, ends>>

Init ==
    /\ artists \in Folders
    /\ albums_cache = {} /\ albums_events = {}
    /\ filter = Empty /\ filter_active = FALSE /\ search_results = None
    /\ search_gen = 0 /\ searches = {}
    /\ search_history \in Remembered /\ history_cursor = None
    /\ expanded = {} /\ selected_index = None
    /\ view = "ArtistTree" /\ albums = <<>> /\ album_sort = "Name"
    /\ album_selected = None /\ album_loads = {}
    /\ focus = 0 /\ songs = <<>> /\ selected_song = None
    /\ request = None /\ alive = TRUE
    /\ failures = 0 /\ toggles = 0 /\ failed = FALSE

-----------------------------------------------------------------------------
(* The rows of the tree. *)

Item(kind, id) == [kind |-> kind, id |-> id]

Items(kind, ids) == [i \in DOMAIN ids |-> Item(kind, ids[i])]

Concat(rows, ids) == FlattenSeq([i \in DOMAIN ids |-> rows[ids[i]]])

push_artist_with_albums(a) ==
    <<Item("artist", a)>> \o
    IF a \in expanded /\ a \in albums_cache THEN Items("album", AlbumsOf[a]) ELSE <<>>

(* An answer is the query it was asked for, or Empty for one with nothing in   *)
(* it. Its songs and albums are filtered again by what the box holds now.      *)
Found(query) == IF query = Empty THEN {} ELSE Matches[query]

Hits(query) == Found(query) \cap Matches[filter]

(* An expanded artist shows the cached catalogue; a song that is found keeps   *)
(* its place under its album, or under a label when the album is not shown.    *)
SearchRows(a, query) ==
    LET found == [b \in ToSet(AlbumsOf[a]) |->
                     SelectSeq(SongsOf[b], LAMBDA s : s \in Hits(query))]
        nodes == SelectSeq(AlbumsOf[a], LAMBDA b : b \in Hits(query) \/ found[b] # <<>>)
        catalog == IF a \in albums_cache THEN AlbumsOf[a] ELSE <<>>
        under == [b \in DOMAIN found |-> Items("song", found[b])]
        labelled == [b \in DOMAIN found |->
                        IF found[b] = <<>> THEN <<>> ELSE <<Item("label", b)>> \o under[b]]
        shown == [b \in DOMAIN found |-> <<Item("album", b)>> \o under[b]]
    IN  IF nodes = <<>> /\ a \notin Found(query) THEN <<>>
        ELSE <<Item("artist", a)>> \o
             IF a \in expanded THEN IF catalog = <<>> THEN Concat(labelled, nodes)
                                    ELSE Concat(shown, catalog)
             ELSE Concat([b \in DOMAIN found |-> IF b \in Hits(query) THEN shown[b]
                                                 ELSE labelled[b]], nodes)

Everyone == SetToSeq(DOMAIN AlbumsOf)

(* Matched artists lead. *)
build_search_items(query) ==
    LET named == SelectSeq(Everyone, LAMBDA a : a \in Found(query))
        others == SelectSeq(Everyone, LAMBDA a : a \notin Found(query))
    IN  Concat([a \in DOMAIN AlbumsOf |-> SearchRows(a, query)], named \o others)

build_tree_items ==
    IF filter # Empty /\ search_results # None THEN build_search_items(search_results)
    ELSE Concat([a \in DOMAIN AlbumsOf |-> push_artist_with_albums(a)],
                SelectSeq(artists, LAMBDA a : filter = Empty \/ a \in Matches[filter]))

Selectable(rows, i) == rows[i + 1].kind # "label"

(* The next selectable row below or above the selection, or the selection.     *)
(* Rows are looked up one by one from the selection on.                        *)
step_tree_selection(rows, down) ==
    LET free == {i \in 0..(Len(rows) - 1) : Selectable(rows, i)}
        ahead == {i \in free : selected_index = None
                               \/ (down /\ i > selected_index)
                               \/ (~down /\ i < selected_index)}
    IN  IF ahead = {} THEN selected_index
        ELSE IF down \/ selected_index = None THEN Min(ahead) ELSE Max(ahead)

(* Going up from beyond the row after the last one looks up a missing row.     *)
StepIsOutOfBounds(rows, down) ==
    ~down /\ selected_index # None /\ selected_index > Len(rows)

-----------------------------------------------------------------------------
(* The search box. *)

Free == alive /\ request = None

Typing == Free /\ filter_active

NewQuery(query) ==
    /\ Budget
    /\ filter' = query
    /\ search_gen' = search_gen + 1
    /\ failed' = FALSE
    /\ IF query = Empty THEN search_results' = None /\ UNCHANGED searches
       ELSE /\ searches' = searches \cup
                   {[gen |-> search_gen', query |-> query, phase |-> "sleeping"]}
            /\ UNCHANGED search_results
    /\ UNCHANGED <<filter_active, search_history>>

Types ==
    /\ Typing
    /\ \E query \in Queries \cup {Empty} : NewQuery(query)
    /\ history_cursor' = None
    /\ UNCHANGED <<mirrored, tree, list, pane, ends>>

RecallsOlder ==
    /\ Typing /\ search_history # <<>>
    /\ history_cursor' = IF history_cursor = None THEN 0
                         ELSE IF history_cursor + 1 < Len(search_history)
                              THEN history_cursor + 1 ELSE Len(search_history) - 1
    /\ NewQuery(Row(search_history, history_cursor'))
    /\ UNCHANGED <<mirrored, tree, list, pane, ends>>

RecallsNewer ==
    /\ Typing /\ history_cursor # None
    /\ history_cursor' = IF history_cursor = 0 THEN None ELSE history_cursor - 1
    /\ NewQuery(IF history_cursor = 0 THEN Empty
                ELSE Row(search_history, history_cursor'))
    /\ UNCHANGED <<mirrored, tree, list, pane, ends>>

(* Neither Enter nor Esc supersedes a search that is under way. *)
LeavesBox ==
    /\ Typing
    /\ filter_active' = FALSE
    /\ \/ UNCHANGED <<filter, search_results, history_cursor>>
       \/ filter' = Empty /\ search_results' = None /\ history_cursor' = None
    /\ UNCHANGED <<search_gen, searches, search_history, failed,
                   mirrored, tree, list, pane, ends>>

(* The album list opens the box and keeps the tree as it is. *)
OpensBox ==
    /\ Free /\ ~filter_active
    /\ filter_active' = TRUE
    /\ IF view = "AlbumList" /\ focus = 0 THEN UNCHANGED tree
       ELSE expanded' = {} /\ selected_index' = 0
    /\ UNCHANGED <<filter, search_results, search_gen, searches, search_history,
                   history_cursor, failed, mirrored, list, pane, ends>>

(* Esc in the tree, or quit while a query is there. *)
exit_search ==
    /\ Free
    /\ \/ ~filter_active /\ ~(view = "AlbumList" /\ focus = 0)
       \/ ~filter_active /\ filter # Empty
    /\ filter_active' = FALSE /\ filter' = Empty
    /\ search_results' = None /\ history_cursor' = None
    /\ expanded' = {} /\ selected_index' = 0
    /\ UNCHANGED <<search_gen, searches, search_history, failed,
                   mirrored, list, pane, ends>>

-----------------------------------------------------------------------------
(* The background searches. *)

Superseded(task) == search_gen # task.gen

record(query) == <<query>> \o SelectSeq(search_history, LAMBDA q : q # query)

(* After the typing pause: the query is remembered and the daemon is asked. *)
SearchWakes(task) ==
    /\ alive
    /\ task.phase = "sleeping"
    /\ IF Superseded(task) THEN searches' = searches \ {task} /\ UNCHANGED search_history
       ELSE /\ searches' = (searches \ {task}) \cup {[task EXCEPT !.phase = "asked"]}
            /\ search_history' = record(task.query)
    /\ UNCHANGED <<filter, filter_active, search_results, search_gen, history_cursor,
                   failed, mirrored, tree, list, pane, ends>>

(* Fault: an answer is committed whatever has been typed since. *)
Commit_always(task) == search_results' = task.query

Commit(task) ==
    search_results' = IF Superseded(task) THEN search_results ELSE task.query

(* A search that fails in the daemon is answered with nothing; one that the    *)
(* daemon is not reached for changes nothing.                                  *)
SearchReturns(task) ==
    /\ alive
    /\ task.phase = "asked"
    /\ searches' = searches \ {task}
    /\ \/ Commit(task) /\ UNCHANGED <<failed, failures>>
       \/ /\ Budget /\ failures' = failures + 1
          /\ failed' = (failed \/ ~Superseded(task))
          /\ \/ UNCHANGED search_results
             \/ ~Superseded(task) /\ search_results' = Empty
    /\ UNCHANGED <<filter, filter_active, search_gen, search_history, history_cursor,
                   mirrored, tree, list, pane, request, alive>>

-----------------------------------------------------------------------------
(* The tree and the song pane. *)

Keys == Free /\ ~filter_active

Ask(op, id, at) == request' = [op |-> op, id |-> id, at |-> at]

ShowQueue ==
    /\ songs' = Playing /\ selected_song' = First(Playing)
    /\ UNCHANGED <<focus, request>>

ParentOf(song) == CHOOSE b \in DOMAIN SongsOf : song \in ToSet(SongsOf[b])

(* The pane follows the highlighted row. *)
load_pane_for_tree_item(rows, i) ==
    LET kind == IF HasRow(rows, i) THEN Row(rows, i).kind ELSE "none"
    IN  CASE kind = "album" -> Ask("pane", Row(rows, i).id, 0) /\ UNCHANGED pane
          [] kind = "song" -> /\ Ask("song", ParentOf(Row(rows, i).id), Row(rows, i).id)
                              /\ UNCHANGED pane
          [] OTHER -> ShowQueue

StepsInTree(down) ==
    /\ Keys /\ view = "ArtistTree" /\ focus = 0
    /\ LET rows == build_tree_items IN
          /\ ~StepIsOutOfBounds(rows, down)
          /\ selected_index' = step_tree_selection(rows, down)
          /\ load_pane_for_tree_item(rows, selected_index')
    /\ UNCHANGED <<expanded, mirrored, search, list, alive, failures>>

StepPanics ==
    /\ Keys /\ view = "ArtistTree" /\ focus = 0
    /\ StepIsOutOfBounds(build_tree_items, FALSE)
    /\ alive' = FALSE
    /\ UNCHANGED <<mirrored, search, tree, list, pane, request, failures>>

(* The row is played, or an artist is opened or closed. *)
Activate(item) ==
    CASE item.kind = "artist" /\ item.id \in expanded ->
            expanded' = expanded \ {item.id} /\ UNCHANGED request
      [] item.kind = "artist" /\ item.id \notin expanded ->
            IF item.id \in albums_cache
            THEN expanded' = expanded \cup {item.id} /\ UNCHANGED request
            ELSE Ask("artist", item.id, 0) /\ UNCHANGED expanded
      [] item.kind = "album" -> Ask("play", item.id, 0) /\ UNCHANGED expanded
      [] item.kind = "song" -> Ask("enqueue", None, 0) /\ UNCHANGED expanded
      [] OTHER -> UNCHANGED <<expanded, request>>

EntersTree ==
    /\ Keys /\ view = "ArtistTree" /\ focus = 0
    /\ LET rows == build_tree_items IN
          HasRow(rows, selected_index) /\ Activate(Row(rows, selected_index))
    /\ UNCHANGED <<selected_index, mirrored, search, list, pane, alive, failures>>

(* The mouse reaches the tree whatever is shown in its place. *)
ClicksTree ==
    /\ Free
    /\ LET rows == build_tree_items IN
          \E i \in 0..(Len(rows) - 1) :
             /\ selected_index' = i
             /\ focus' = 0
             /\ \/ selected_index = i /\ Activate(Row(rows, i))
                \/ /\ UNCHANGED expanded
                   /\ IF Row(rows, i).kind = "artist" \/ Row(rows, i).kind = "label"
                      THEN UNCHANGED request
                      ELSE Ask(IF Row(rows, i).kind = "album" THEN "pane" ELSE "song",
                               IF Row(rows, i).kind = "album" THEN Row(rows, i).id
                               ELSE ParentOf(Row(rows, i).id), Row(rows, i).id)
    /\ UNCHANGED <<songs, selected_song, mirrored, search, list, alive, failures>>

(* The wheel moves one row, headers included. *)
ScrollsTree ==
    /\ Free /\ focus = 0
    /\ selected_index' \in {IF selected_index = None THEN None
                               ELSE MoveUp(selected_index, build_tree_items),
                            MoveDown(selected_index, build_tree_items)}
    /\ UNCHANGED <<expanded, mirrored, search, list, pane, ends>>

MovesInSongs ==
    /\ Free
    /\ \/ focus = 1 /\ selected_song' \in {MoveUp(selected_song, songs),
                                            MoveDown(selected_song, songs)}
       \/ \E i \in 0..(Len(songs) - 1) : selected_song' = i
    /\ focus' = 1
    /\ UNCHANGED <<songs, mirrored, search, tree, list, ends>>

(* Tab, Left, Backspace; Right also starts the song cursor. *)
SwitchesPane ==
    /\ Keys
    /\ \/ ~(view = "AlbumList" /\ focus = 0)
          /\ focus' \in {0, 1 - focus} /\ UNCHANGED selected_song
       \/ /\ songs # <<>> /\ focus' = 1
          /\ selected_song' = IF selected_song = None THEN 0 ELSE selected_song
    /\ UNCHANGED <<songs, mirrored, search, tree, list, ends>>

(* e, i, t, m, f and Enter on a song ask the daemon and change nothing here. *)
Requests ==
    /\ Keys
    /\ songs # <<>> \/ build_tree_items # <<>>
    /\ Ask("enqueue", None, 0)
    /\ UNCHANGED <<mirrored, search, tree, list, pane, alive, failures>>

-----------------------------------------------------------------------------
(* The album list. *)

AlbumKeys == Keys /\ view = "AlbumList" /\ focus = 0

(* Switching to an empty list loads it in the background, in today's order. *)
handle_library_view_toggle ==
    /\ Keys /\ Budget
    /\ toggles' = toggles + 1
    /\ view' = IF view = "ArtistTree" THEN "AlbumList" ELSE "ArtistTree"
    /\ album_loads' = IF view = "ArtistTree" /\ albums = <<>>
                      THEN album_loads \cup {[at |-> toggles, sort |-> album_sort,
                                              first |-> None]}
                      ELSE album_loads
    /\ UNCHANGED <<albums, album_sort, album_selected, mirrored, search, tree, pane, ends>>

AlbumsArrive(task) ==
    /\ alive /\ task.first = None
    /\ \/ albums' = Sorted[task.sort] /\ UNCHANGED failures
       \/ albums' = <<>> /\ Budget /\ failures' = failures + 1
    /\ album_selected' = First(albums')
    /\ album_loads' = (album_loads \ {task}) \cup
           IF albums' = <<>> THEN {} ELSE {[task EXCEPT !.first = Head(albums')]}
    /\ UNCHANGED <<view, album_sort, toggles, mirrored, search, tree, pane, request, alive>>

FirstAlbumArrives(task) ==
    /\ alive /\ task.first # None
    /\ album_loads' = album_loads \ {task}
    /\ songs' = SongsOf[task.first] /\ selected_song' = First(songs')
    /\ UNCHANGED <<view, albums, album_sort, album_selected, toggles, focus,
                   mirrored, search, tree, ends>>

load_selected_album_into_pane ==
    IF HasRow(albums', album_selected')
    THEN Ask("select", Row(albums', album_selected'), 0) ELSE UNCHANGED request

CyclesSort ==
    /\ AlbumKeys
    /\ album_sort' = CHOOSE sort \in DOMAIN Sorted : sort # album_sort
    /\ albums' = IF albums = <<>> THEN <<>> ELSE Sorted[album_sort']
    /\ album_selected' = First(albums)
    /\ load_selected_album_into_pane
    /\ UNCHANGED <<view, album_loads, toggles, mirrored, search, tree, pane, alive, failures>>

MovesInAlbums ==
    /\ AlbumKeys
    /\ album_selected' \in {MoveUp(album_selected, albums), MoveDown(album_selected, albums)}
    /\ UNCHANGED albums
    /\ load_selected_album_into_pane
    /\ UNCHANGED <<view, album_sort, album_loads, toggles, mirrored, search, tree, pane,
                   alive, failures>>

(* Plays what the pane holds, whichever album that is. *)
EntersAlbum ==
    /\ AlbumKeys /\ songs # <<>>
    /\ focus' = 1 /\ selected_song' = 0
    /\ Ask("enqueue", None, 0)
    /\ UNCHANGED <<songs, mirrored, search, tree, list, alive, failures>>

-----------------------------------------------------------------------------
(* Answers and events. *)

Show(shown, cursor) == songs' = shown /\ selected_song' = cursor

PositionOf(song, of) == (CHOOSE i \in DOMAIN of : of[i] = song) - 1

Answers ==
    /\ alive /\ request # None
    /\ CASE request.op = "artist" ->
                /\ expanded' = expanded \cup {request.id}
                /\ albums_events' = albums_events \cup {request.id}
                /\ request' = None /\ UNCHANGED pane
         [] request.op \in {"pane", "select"} ->
                /\ Show(SongsOf[request.id], 0)
                /\ request' = None /\ UNCHANGED <<focus, expanded, albums_events>>
         [] request.op = "song" ->
                /\ Show(SongsOf[request.id], PositionOf(request.at, SongsOf[request.id]))
                /\ request' = None /\ UNCHANGED <<focus, expanded, albums_events>>
         [] request.op = "play" ->
                /\ Show(SongsOf[request.id], 0)
                /\ focus' = 1
                /\ Ask("enqueue", None, 0) /\ UNCHANGED <<expanded, albums_events>>
         [] OTHER -> request' = None /\ UNCHANGED <<pane, expanded, albums_events>>
    /\ UNCHANGED <<artists, albums_cache, selected_index, search, list, alive, failures>>

(* A failed load shows an album's song alone, and nothing in the album list. *)
RequestFails ==
    /\ alive /\ request # None
    /\ Budget /\ failures' = failures + 1
    /\ request' = None
    /\ CASE request.op = "song" -> Show(<<request.at>>, 0)
         [] request.op = "select" -> Show(<<>>, None)
         [] OTHER -> UNCHANGED <<songs, selected_song>>
    /\ UNCHANGED <<focus, mirrored, search, tree, list, alive>>

PumpAlbums ==
    /\ alive
    /\ \E a \in albums_events :
          albums_cache' = albums_cache \cup {a} /\ albums_events' = albums_events \ {a}
    /\ UNCHANGED <<artists, search, tree, list, pane, ends>>

(* A refresh or another music folder: the rows change and the cursor does not. *)
PumpArtists ==
    /\ alive
    /\ artists' \in Folders \ {artists}
    /\ UNCHANGED <<albums_cache, albums_events, search, tree, list, pane, ends>>

Next ==
    \/ Types \/ RecallsOlder \/ RecallsNewer \/ LeavesBox \/ OpensBox \/ exit_search
    \/ \E task \in searches : SearchWakes(task) \/ SearchReturns(task)
    \/ StepsInTree(TRUE) \/ StepsInTree(FALSE) \/ StepPanics
    \/ EntersTree \/ ClicksTree \/ ScrollsTree
    \/ MovesInSongs \/ SwitchesPane \/ Requests
    \/ handle_library_view_toggle \/ CyclesSort \/ MovesInAlbums \/ EntersAlbum
    \/ \E task \in album_loads : AlbumsArrive(task) \/ FirstAlbumArrives(task)
    \/ Answers \/ RequestFails \/ PumpAlbums \/ PumpArtists

Spec == Init /\ [][Next]_vars

-----------------------------------------------------------------------------
(* Properties. *)

(* While no search for the current query is under way and its last one did not *)
(* fail, what the tree shows for a query are the answers to that query:        *)
(* whatever was typed, recalled or cleared while older searches were pending   *)
(* ("so a stale reply cannot overwrite a newer query").                        *)
QuietSearchIsCurrent ==
    ~failed /\ filter # Empty /\ (\A task \in searches : Superseded(task)) =>
        search_results = filter

(* "Step the tree selection one row, ... clamping at the ends"                 *)
(* (src/src/app/input_library.rs:1057): a step never leaves the tree.          *)
StepsStayInTree == alive
=============================================================================
