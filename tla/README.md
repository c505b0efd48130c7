# ferrosonic: TLA+ specifications and proofs

ferrosonic is a terminal client for Subsonic music servers. A daemon
(`ferrosonicd`) owns the play queue, drives an `mpv` process over JSON IPC,
talks to the server and answers any number of clients over a Unix socket; the
TUI is one such client, MPRIS another front end. This directory specifies the
daemon, its connections and the TUI in TLA+, model-checks them with TLC and
proves the main invariants with TLAPS. Paths below are relative to the
repository; `PROJECT.json` maps every definition to the lines it models.

## Inventory

| component | code | state it keeps | operations | what makes it correct | module |
|---|---|---|---|---|---|
| Queue and cursor | `daemon/queue_ops.rs`, `ipc/client.rs` | `queue`, `queue_position` | play a list, enqueue, insert, remove, move, clear, drain history, shuffle | the cursor stays on the playing song through every edit | `PlayQueue` |
| Playback transitions | `daemon/playback_ops.rs`, `daemon/core.rs` | `now_playing`, `playback_transitions`, `advance_in_flight`, `loadfile_gen`, `play_instance` | next, prev, play-at, pause, resume, stop, toggle, automatic advance | what mpv plays is what is shown; one advance at a time; every request returns | `Transitions` |
| Playback tick | `daemon/playback_tick.rs` | `last_loadfile`, preload back-off | every 500 ms: advance early, preload, follow a gapless advance, advance on idle | playback never hangs | `PlayQueue`, `Transitions` |
| End-file listener | `daemon/core.rs` | a broadcast receiver | advance at the end of a track | never advances for what is under way | `PlayQueue`, `Transitions` |
| Rate settle | `daemon/core.rs`, `audio/pipewire.rs` | a generation per task | probe, set the rate, unpause | the current load gets unpaused | `Transitions` |
| Buffered start | `daemon/core.rs` | cancel slot | download, load, fall back to streaming, preload | a cancelled download is never heard | `PlayQueue` |
| mpv controller | `audio/mpv.rs`, `daemon/polling.rs` | process, socket, reader, pending replies | start, respawn, commands, quit | one mpv, which comes back; a reply answers its own command | `MpvController` |
| Queue persistence | `daemon/polling.rs`, `daemon/persistence.rs`, `daemon/run.rs`, `io_util.rs` | poke channel, `queue.json`, its temporary file | debounced save, save or delete at shutdown, restore | no edit is lost, a crash never breaks the file | `QueuePersistence` |
| Offline cache | `daemon/track_cache.rs`, `daemon/core.rs` | index, total, downloads, files | look up, download, commit, evict, open | the total is that of the index, a partial file is never indexed | `TrackCache` |
| Scrobbling | `daemon/scrobble.rs` | the play and what was reported of it | tick, submit | no play is submitted twice | `Scrobble` |
| Library, stars, ratings | `daemon/library_ops.rs` | lists, `config_gen`, `rating_updates`, copies of each song | refresh, switch of the folder or the server, rate, star | no list of another folder, copies agree with the server | `LibraryCache` |
| Configuration | `daemon/settings_ops.rs`, `config/mod.rs`, `secret_store.rs` | live config, file, keychain, client slot | persist then commit; server change with credential roll-back | setters are atomic, a credential is where the file says | `Settings` |
| Locks | `daemon/`, `docs/LOCK-ORDER.md` | twelve locks and three mutexes around them | every handler and task | no circular wait, no I/O under a numbered lock | `LockOrder`, `DaemonHandlers` |
| Daemon processes | `bin/`, `daemon/run.rs`, `ipc/server.rs`, `app/spawn_daemon.rs` | socket, lock file, client count, deadline | launch, serve, idle out, shut down, be killed | one listener, no orphan, a launch ends | `DaemonLifecycle` |
| Event streaming | `ipc/server.rs`, `ipc/socket_client.rs`, `app/event_pump.rs` | rings, writer queue, `needs_resync` | emit, forward, resend, lag, snapshot | a client's mirror converges | `EventStream` |
| Socket client | `ipc/socket_client.rs`, `ipc/server.rs` | pending table, tasks of both ends | request, reply, time out, ping, close | a call ends once and with its own answer | `SocketClient` |
| Playlists page | `app/input_playlists.rs` | list, pane, cursors, picker | keys, clicks, requests, events | the pane is the playlist it was loaded from | `PlaylistsPage` |
| Library page | `app/input_library.rs`, `ui/pages/library.rs` | search box, tree, album list, pane | type, recall, expand, load | what is shown answers what is asked | `LibraryPage` |
| Overlays, covers | `app/input_lyrics.rs`, `app/input_info.rs`, `app/playlist_cover.rs`, `ui/cover_art.rs` | subject, generation, reserved art | open, fetch, close | content and title belong together | `Overlays` |
| Routing, Server form | `app/input.rs`, `app/mouse.rs`, `app/input_server.rs` | page, layers, prompts, form | keys, clicks, quit | a key goes to the layer on top | `Pages` |
| Settings page | `app/input_settings.rs` | optimistic copy, editors | toggle, edit, event | at rest the page is the config | `SettingsPage` |
| MPRIS, drawing, HTTP, notifications | `mpris/`, `ui/`, `subsonic/`, `daemon/notify.rs` | views of the above | | | none |

Everything runs on a multi-threaded tokio runtime: a handler can be overtaken
at every `await`. The state lock is released between the parts of nearly every
operation, the mpv lock is taken separately, and only some operations take
`playback_transitions`. That is what is hard here, besides hand-written index
arithmetic, generations that are captured late, bounded channels that drop,
replies that come late, processes that die, and crashes between file-system
calls.

## Modules

| module | models | uses |
|---|---|---|
| `RepeatMode` | `RepeatMode::next_auto`, `next_manual`, `prev_wrap` | |
| `MpvPlaylist` | mpv's two-entry playlist as the daemon drives it | |
| `PlayQueue` | every operation on queue, cursor, shown song and mpv's playlist, each as one step | the two above |
| `Transitions` | the same playback handlers cut at their awaits, on a fixed queue | the two above |
| `QueuePersistence` | the save task, the shutdown, the file system, crash and restart | |
| `TrackCache` | the offline cache and the tasks that fill it | |
| `Scrobble` | the reporter's tick beside playback | |
| `LibraryCache` | refreshes, switches, ratings and stars, await by await | |
| `AtomicConfig`, `Settings` | what setters promise; the setters, step by step | `Settings` implements `AtomicConfig` |
| `LockOrder`, `DaemonHandlers` | fair locks and the tasks that take them; every handler as its sequence of locks | `DaemonHandlers` extends `LockOrder` |
| `DaemonLifecycle` | daemons and TUIs racing for one socket | |
| `EventStream` | emit, broadcast ring, forwarder, writer queue, client ring, event pump | |
| `Calls` | what a connection promises to those who call through it | |
| `MpvController`, `SocketClient` | the two connections | both implement `Calls` |
| `Cursor`, `PlaylistsPage`, `LibraryPage`, `SettingsPage`, `Overlays`, `Pages` | the TUI | the first three pages use `Cursor` |
| `*_proofs` | theorems and proofs | the module they are named after; `Background_proofs` is about the sessions of `MCBackground`, `Connections_proofs` about those of `MCConnections`, `Tui_proofs` about those of `MCTui` |
| `MC*` | instances for TLC | |

Definitions called "Fault: ..." are not part of the specifications; each is a
plausible bug, and `PROJECT.json` pairs it with the property that catches it.

Several MC modules check a family of independent modules in one run: a state
has a `session`, chosen at the start, that says which of them runs; the others
rest. The families are what one process does through different tasks that share
no state in the model (`MCBackground`, `MCConnections`, `MCTui`), and two
instances of one module with different constants (`MCPlayQueue`). `MCBackground`
runs `LibraryCache` in three sessions, which differ in the operations a behaviour
may begin (`FoldersNext`, `MarksNext`, `LibraryNext`); `MCTui` has one instance
per page, and its sessions differ in where they start. What a session holds
(songs, playlists, answers, bounds) is a constant that the cfg gives a value, so
that the theorems about the sessions are for every such value.

### PlayQueue

`queue`, `queue_position`, `song`, `status` and `repeat_mode` are the daemon's
fields (`None` is -1 and positions count from 0, as in the code), `mpv` is the
player, `prebuffer` the download of a buffered start with its cancel token,
`orphans` superseded downloads that still hold one, and `eof` the end-file
events in flight. Each request, tick branch and listener event is one action
with everything the handler does. That is right for what this module is about
(index arithmetic, refreshing the preload, what each path forgets to undo)
and wrong for races, which are `Transitions`' subject.
Left out: seeking and the playhead, volume, random-song replies failing.

### Transitions

A step is what a task does between two awaits; `pc` says where each task is.
The tasks are the clients (one request at a time each, as the server serves a
connection), the tick, the listener and the settle tasks. Entries of the fixed
queue are named by position. Generations are only compared for equality with
the current one, so a captured generation is one bit: the task is in
`gen_current` or `instance_current` until the next stamp empties the set.
Merged on purpose: the tick's two reads of the state, releasing the lock with
a handler's last step. Left out: mpv failing or dying, buffered starts,
auto-continue, editing the queue. `Quick` assumes that no track comes near its
end while a handler is running; only `Transitions_live` uses it.

### QueuePersistence

A queue is a version number. `file`, `tmp` and `fd` are inodes, so that two
writers of one temporary file, a rename under an open descriptor and a crash at
any file-system call are what they are on disk. `Running` covers the daemon's
life; `Crash` is a kill or the exit forced after five seconds.

### TrackCache

`index`, `in_flight` and `total_bytes` are the struct's fields, `disk` the files
(which song's audio each really holds, and whether all of it), `saved` the index
on the disk. A start of a song is two steps, the commit that looks the song up
and, after the load, the second look-up that spawns the download, with edits of
the queue in between. Any step may be the last before a kill (`open`), any file
may be deleted, a download, a rename or the write of the index may fail. The
lock is held from a commit to the end of the eviction (`evicting`), while file
operations of other downloads go on.

### Scrobble

The tick is its three steps: read the state, read the counter and the
capability, decide. Playback, the setting and the capability change between
them. `watched` names one play at the start, and `counted` is how often that one
was submitted, so a behaviour follows any one play. `lost` and `rewound` are
histories of the same play, for the exception `CountedOnce` makes.

### LibraryCache

Every operation is cut at its awaits, and keeps the client it cloned and the
generation it read in its task. The artists stand for the lists that a folder
scopes; a song has a copy in the queue and one among the random songs, each with
a rating and a star, besides the index of starred songs. Where the code lets an
old answer through (see the last section), the history `excused` remembers which
list was reached, until it is written anew, so that what the properties still
say is exact about the rest.

### Settings, AtomicConfig

A setter is its steps under `config_transactions`: snapshot, place the secret in
the keychain or in the password file, save, commit to the live state, remove an
orphaned credential, swap the client; each file or keychain call may fail, and
the daemon may be killed between any two and started again, with and without
`FERROSONIC_PASSWORD`. One switch stands for the simple setters. `AtomicConfig`
is what a caller may rely on; `Settings!AtomicSpec` is the refinement: what a
restart would read changes at the rename of the file, and at no other step.

### LockOrder, DaemonHandlers

`DaemonHandlers` has one program per function of the daemon that takes a lock:
the guards in the order they are taken and dropped, the I/O in between (`Io`) and
the branches (`May`). `LockOrder` runs any programs on tokio's locks, which
serve their waiters first come, first served, so that a reader queues behind a
waiting writer. What is computed is left out.

### DaemonLifecycle

Daemons are processes with a main task, the serve task and the idle monitor;
users start a TUI, which connects or spawns. `file` is the listener the socket
file leads to and `lock` the holder of the flock. Any daemon may be killed at
any step.

### EventStream

The state is a version per topic; an event carries the version it read. The
rings are the connection's unread part of a broadcast plus a lagged flag.
`reserved` holds the two slots `try_send_resync` takes before it reads the
snapshot. `sent` is a history variable. One connection, whose only request is
the snapshot, and the request succeeds.

### Calls, MpvController, SocketClient

`Calls` says that a call ends once, with the answer to its own question or an
error. Both connections implement it: `AnswersMatch` in each is the refinement,
which maps the command an operation waits for, and the request of each asker,
to a call. `MpvController` has the processes as the system sees them (a child,
one left by a killed daemon, a hung one), the lock, the operations under it
(start with its clean-up, commands, quit) and the reader. `SocketClient` has
both ends of a connection: pending table, writer and reader of the client, the
daemon's loop that serves one request at a time, the keepalive and both timeouts.

### The TUI

`PlaylistsPage`, `LibraryPage` and `SettingsPage` have one action per key, click or
answer that changes something. The event loop handles one key at a time and
waits for its request in the handler, so a page has at most one `request`, while
the event pump, spawned searches and other clients run beside it. `Overlays` has
the fetches that are spawned. `Pages` is the routing: which layer a key or a
click reaches, which layers close with which, the prompts and the Server form.

Three of them keep histories for what the code leaves as it is, so that the
properties say exactly how far the screen is right: in `PlaylistsPage`, `added` is
what the picker has added to the playlist in the pane, of which the pane is not
told, and `disturbed` that a failed call or another client changed it; in
`Overlays`, `outdated` is set when startup draws the cover of a song that has gone,
and when the pump has lost events and takes another song from a snapshot
(`Resnapshots`), until an event reserves another cover or clears it; in
`SettingsPage`, `drifted` names the accidents listed with the property, and `lost`
that the newest event never reached the pump. An event is lost when it is sent:
where on its way makes no difference to a page that never sees it. A search that
the daemon cannot make is an answer without results (`Empty`), one that does not
reach the daemon leaves the results as they were; both count as `failed`.

## Runs

| run | checks | instance |
|---|---|---|
| `PlayQueue_edits` | `CursorOnSong`, `StreamedIsNext`, `StreamedIsShown`, `StreamedAdvances` | streamed: 4 entries, 3 songs, batches of 2, repeat Off and One; buffered: 3 entries, a playable and a filtered song, all modes, auto-continue |
| `Transitions_manual` | `TransitionsExclusive`, `AudibleIsShown` | 2 clients, all requests, 2 entries, repeat All, no track ends |
| `Transitions_live` | `OnePreload`, `AdvanceExclusive`, `EventuallyAudible`, `RequestsReturn`, `IdleIsNoticed` | 1 client, resume and next, a track ends, repeat Off |
| `Background_sessions` | `SavedWhenQuiet`, `NeverLosesASave`, `EditsReachDisk`; `CacheIsSound`; `CountedOnce`; `QuietListIsCurrent`, `MarksAgree` | saves: 2 edits over all restarts, 4 inodes; cache: 2 songs, caps of 1 and 2, 3 starts, an edit, 2 faults; reports: 1 song, an instance and the one before any, 2 changes of setting or capability; library: 3 operations on folders, 3 on marks with a fault, any 2 with a fault |
| `DaemonLifecycle_idle` | `OneListener`, `NoOrphan`, `LaunchEnds` | 2 daemon processes, a user, any number of launches and kills |
| `LockOrder_two` | `OrderRespected`, `IoUnlocked`, `NoCircularWait` | 2 tasks, each running any of the handlers and background tasks |
| `Settings_crash` | `SettingsAgree`, `CredentialIsFiled`, `EnvStaysTransient`, `AtomicSpec` | 2 tasks, 2 accounts, 2 passwords, a folder; any number of failures, kills and restarts |
| `Connections_sessions` | `MirrorSettles`; `OnePlayer`, `BackendReturns`; `QuietClientStays`; `AnswersMatch` | events: 2 emitters, 3 changes, rings of 1, wire of 2; mpv: 3 process ids, a handler operation, 2 faults; requests: a request beside the keepalive, 6 steps of 15 s |
| `Tui_pages` | `SongCursorInPane`, `UndisturbedPaneIsServer`; `QuietSearchIsCurrent`; `OverlaysShowTheirSubject`, `ArtIsOfTheSong`; `KeysGoWhereTheUserLooks`; `QuietSettingsAreConfig` | 2 playlists with 2 songs, or 1 song with failures and edits by others; 2 queries, an artist, an album; 2 songs, 3 covers, 2 fetches at once; 2 changes of the login or the settings |
| `Cache_names` | `CachedIsTheSong`, violated | the cache session of `Background_sessions` |
| `Tui_step` | `StepsStayInTree`, violated | the library session of `Tui_pages` |
| `Tui_reorder` | `ReorderOnlyReorders`, violated | the playlists session of `Tui_pages` |

Why the bounds are enough.

- Four entries let a move or removal fall before, at and after both the cursor
  and its successor; a third mpv entry or a fifth entry adds no new relation
  between them, and the cursor theorem is for every length.
- Two clients, the tick and the listener make every pair of handlers overlap; two
  lock tasks likewise. The lock theorems are for any number.
- Two edits are enough for one to be in the file, one in the task and a poke in
  the channel; four inodes are the most that can be named or open at once.
- Three starts of two songs let a download be committed, its song be evicted by
  another and be asked for again while a third is under way. Sizes only matter
  against the cap, so every song has size one and the caps are one and two.
- A position is before or past the threshold of a play; which of two plays is
  `watched` is chosen at the start.
- Two switches of a folder and a refresh, three operations on one song's marks,
  and any two operations of all kinds: the shortest races need two, and three let
  one of them fall into both steps of another.
- Two daemons are enough for one to hold the lock while another probes, removes
  or gives up; a process id that has exited may start again.
- Rings of one entry overflow at every second event, and a wire of two is the
  smallest that can hold a resynchronisation.
- Three mpvs are two that were left behind, or one and one that died, and their
  successor. mpv is assumed to exit within the reaper's second once told to. A
  killed daemon either takes its mpv along (Linux, `PDEATHSIG`) or leaves it, in
  whatever state it is. A process id that a socket file is left of is not reused.
- In `SocketClient` time passes only while a handler of the daemon works, in steps
  of `PING_INTERVAL`, of which the request timeout is two and the idle timeout three.
- A pane with two songs has a first and a last row to move, remove and leave a
  cursor past; two queries are the one typed and the one before it.

Deadlock is checked except in `Background_sessions`, `Cache_names`,
`Connections_sessions` and the `Tui_` runs: there a session ends when its bounded
operations, faults or changes are used up and everything has been answered.

Fairness. `Transitions`: a running handler keeps running, strongly because it
waits for tokio's `Mutex`, which queues its waiters first come first served;
the tick and the listener start again because they are loops over a timer and a
channel; the 1.5 s window elapses. `PlayQueue` (the streamed session): tick,
watchdog, listener and download go on, and URLs of queued songs can be built.
`QueuePersistence`: the handlers and the save task run; the shutdown and crashes
need not happen. `DaemonLifecycle`: processes that are not killed go on, as does
a TUI once it was launched; nobody has to launch, quit or kill anything.
`EventStream`: tasks run and the client reads its socket. `MpvController`: the
watchdog's timer fires, it gets the mpv lock when that is free again and again,
an operation goes on, and an mpv that was started listens; that mpv answers is
not assumed, nor that anything fails. The other modules have no liveness
property and no fairness.

## Proofs

A theorem holds for every value of the constants that satisfies the named
assumptions of the module and the theorem's own hypotheses, which are listed
below. Each rests on an inductive invariant, proved by one lemma per action.

**Queue** (`PlayQueue_proofs`; its first lemmas do the work on indices: where
inserting, removing, moving and slicing leave each old entry).

- `TypeCorrect`, `CursorCorrect`: types, at most two files in mpv, and
  `CursorOnSong`. `Inv` adds that the shown song is known only together with a
  cursor, and that a download in progress names a song.
- `PreloadIsNextAndSilent`, and from it `StreamedPreloadFollowsQueue`: while
  songs are streamed (`StreamOnStart`), mpv's second entry is the queue's next
  song, and mpv plays only while Playing is shown. Each edit ends with a refresh of
  the preload, but a refresh is skipped when the successor did not change;
  `NextStays` says when that is.
- `StreamedPlaysWhatIsShown`: mpv's first slot is the song shown. Its further
  hypothesis, that repeat All is not used, is needed: there the preload goes stale
  where the queue wraps around (see the next section).

**Transitions** (`Transitions_proofs`), any number of clients, any queue length.

- `TypeCorrect`, `TransitionsNeverOverlap`: a task at a label between taking and
  giving back the lock is its holder. The invariant has more labels than the
  property (the preload and both stop labels), because drop and hand-over
  happen there.
- `AdvanceSingleFlight`: the flag is set exactly when some task holds an
  `AdvanceGuard`, and at most one does, because guards are held only at the labels
  of an advance.
- `PreloadNeverDoubles`: the count check under the mpv lock is enough, whatever the
  generations say.
- `ManualAudibleIsShown`: `AudibleIsShown` when no file ends by itself
  (`MaxEof = 0`, as in the run). The step from one file to the next without a gap
  commits without the lock, and with it the property is false. `ManualInv`: the
  holder of the lock loads the entry shown (`LoadsShown`); when nobody is about to
  load, mpv's first entry is that one (`FirstIsShown`); mpv never reaches the
  preloaded entry (`NoGapless`).

**Locks** (`LockOrder_proofs`), any number of tasks.

- `TypeCorrect`: for any programs, guards of a lock exclude one another, and a task
  is queued once, for the lock its next step asks for.
- `HandlersKeepTheOrder`, `WorldWaitsAreUnlocked`, `DaemonNeverDeadlocks`: for tasks
  that run the daemon's own programs, any of them (`Handlers` a subset of
  `request_handlers` and `daemon_tasks`). `Runs` says of a program and the guards
  held that the rest of it keeps the order and does its I/O outside the locks;
  every program starts so, and each step keeps it. For the deadlock, suppose every
  member of a set of tasks is blocked by a member. Take the lock of greatest rank that
  one of them waits for, and the first of them in its queue: a member that
  blocks it holds that lock and itself waits for another, which the order ranks
  higher.

**Settings** (`Settings_proofs`), any number of tasks, accounts, passwords and
folders; `SettingsAssumption` says that `None` and the two marks of a password from
elsewhere are none of these.

- `TypeCorrect`, `CredentialAlwaysFiled`: the strengthening says what each step of
  the server change has already placed and not yet removed, that only the holder of
  `config_transactions` is past its snapshot, and that the file is what the
  snapshot says until the save.
- `SettingsAlwaysAgree`, `EnvNeverStored`: `Follows` adds what a candidate and the
  client take from the file and the environment at each step.
- `SettersAreAtomic`: `Spec => AtomicSpec`. The initial states correspond, a
  setter's first step asks, its save makes the change or fails it, a kill after the
  save keeps it, and every other step is a stutter.

**Daemon processes** (`DaemonLifecycle_proofs`), any number of daemons and users:
`AtMostOneListener`, because a serve task that is past `acquire_socket_lock` holds
the lock (`ServesLocked`) whoever else gives up or is killed; `NoStaleClient`,
because who is killed or closed is taken out of the count in the same step.

**Background tasks** (`Background_proofs`), about `Spec` of `QueuePersistence` and
`SessionSpec` of `MCBackground`. `BackgroundAssumption`: `None` is neither a
number nor the name of a list, and finitely many songs are cached.

- `TypeCorrect`, `NoPokeIsLost`: `OnItsWay` strengthens `SavedWhenQuiet` by saying
  where the latest queue is when it is not in the file: with a handler, in the
  channel, or with the task.
- `SavesAreAtomic`: `Alone` says that until the shutdown sequence starts only
  the save task has the temporary file, and what is in it; `Growing` that versions
  only grow from disk to snapshot to memory. Both are conditional on
  `pc[Closer] = "running"`: during the shutdown they are false.
- `CacheStaysSound`: a download that is under way has its song's reservation, and a
  reserved song is not indexed (`Reservations`), so a commit counts what was not
  counted (`Accounted`); a file that bears a song's final name is whole, and so is
  the partial one of a download that is about to rename it (`Files`).
- `NoPlayCountsTwice`: once the play was counted, the reporter either still has it
  as submitted or will never see it again (`CountedFollows`, `Over`). A tick works
  on what it read, so `Remembered` and `TickRemembered` relate the reading of
  a tick, the memory of the reporter and the play now.
- `ListEndsCurrent`, `MarksEndEqual`: `ListInv` says that the artists are those of the
  folder, or that an operation which is still going on will write them, or that the
  history excuses it. `RatingInv`: the update that holds `rating_updates` knows the
  rating it replaces or asks for, and without one the copies are right; `StarInv`:
  the same, step by step, of the one toggle that is under way.

**Connections** (`Connections_proofs`), about `SessionSpec` of `MCConnections`: any
topics and emitters, handlers and process ids, tasks of a client and requests, and
any capacities and bounds. `ConnectionsAssumption`: `NoValue` is no task, process,
request, frame or call, the polling task and the shutdown are no handlers, and the
ping is no other caller.

- `OnlyOnePlayer`: until the first start of a daemon is past its clean-up, an mpv
  that listens may be an earlier daemon's, and then the socket file leads to it
  unless the history `astray` names it (`LeftOver`); `Starts` says at each step of
  a start what is already gone, so that the spawn finds nothing else that plays.
  Only the holder of the lock is in an operation (`LockTyped`), and every process
  is the child or was given up (`Accounted`).
- `EveryAnswerMatches`: both connections implement `Calls`. A number is given out once
  (`Numbered`, `OwnNumbers`), so what carries a call's number, in whatever queue of
  either end, carries its question or the answer to it (`Sound`, `AboutCalls`). What
  a call shows of itself changes when it is asked, answered or failed, and
  forgotten; every other step is a stutter.
- `AQuietClientStays`: whoever is in the table is on its way (`OnTheWay`), and while
  the keepalive runs a connection that has been quiet for one period has a ping
  that is due, to be sent or in a queue (`FrameIsComing`), so that it is never quiet
  for the three that end it.
- `AtRestUpToDate`: the safety half of `MirrorSettles`. For the two topics that are
  resent, the mirror is current, or something is under way: an event to send, in
  the ring, the writer queue or the client's ring, a loss that has not been noticed,
  or the intention to send or ask again (`MirrorIsCurrent`). That needs the same of
  what each queue says last about a topic (`SaidIsCurrent`) and of the one snapshot
  requested (`RepliesAreCurrent`, `OneSnapshot`); a snapshot that is older than an
  event is followed by that event.

**TUI** (`Tui_proofs`), about `Spec` of `MCTui`: any playlists, songs, covers,
queries, forms and bounds. `TuiAssumption`: `None` is no number, name or request, the
playlists are finitely many, the server starts with lists of songs, and ratings
are numbers. Each page has its invariant:

- `SongCursorStays`, `PaneIsTheServers`: the request that a key waits for may be
  overtaken at each of its phases by events, deletions and other clients' edits.
  An answer that no edit has overtaken is what the server has (`AnswerIsServer`),
  and the pane, followed by what the picker has added since, is that, unless a
  removal or a reordering is still out (`PaneIsServer`).
- `SearchEndsCurrent`: a search that has the current generation asks the query
  typed, and it is still under way, has failed, or its answer is shown.
- `OverlaysAreTrue`, `CoverIsOfTheSong`: whatever says that it is loading has a fetch
  with its subject and generation (`LyricsShown`, `InfoShown`, `ArtReserved`,
  `PlaylistArtFetched`), and what is shown is its subject's. The cover's exception is
  the history `outdated`, which a snapshot sets and the next event clears together
  with the cover.
- `KeysReachTheTop`: at most one layer and one text box is open (`OneLayer`,
  `OneBox`): each opens by a key that reached the page, and none does while
  something is open over it. Text that is not saved does not outlive its page
  (`FormKept`).
- `SettingsEndCurrent`: every change of the settings is either emitted or has an
  emission under way that has read at least it (`Emissions`); the last event in the
  channel is then the newest one (`NewestIsLast`), if it was not lost.

Only model-checked:

- Liveness: `StreamedAdvances`, `EventuallyAudible`, `RequestsReturn`, `IdleIsNoticed`,
  `EditsReachDisk`, `NoOrphan`, `LaunchEnds`, `MirrorSettles`, `BackendReturns`. Fairness
  and ENABLED are outside the prover's reach.
- What the code violates (`CachedIsTheSong`, `StepsStayInTree`, `ReorderOnlyReorders`).

## Where the code departs from what it says

With a run each:

- *A song cached under another's name* (`Cache_names`): the entry to cache is looked
  up by position after the load; an edit in between gives the audio of the song
  that was started the id of another, which then plays it whenever it is started.
- *A step out of the tree* (`Tui_step`): with the tree cursor two rows past the
  end, because rows went away under it, Up indexes past the last row.
- *Reordering replaces* (`Tui_reorder`): J and K send the songs of the pane as the
  new order of the highlighted playlist, which need not be the pane's.

Kept here as notes, because the properties are stated in the weaker form that
the code does keep, or because the behaviour is outside what a run asks:

Playback

- Under repeat All the preload is refreshed only when the entry at cursor + 1
  changes, but at the end of the queue the successor is entry 0; so the streamed
  session uses repeat Off and One.
- Removing the last entry while it downloads stops mpv, not the download,
  which then plays the removed song; and a buffered start preloads the successor
  of the position it was dispatched with. So three properties are stated for
  streamed songs.
- When the last track ends with an error mpv keeps the entry, the tick sees one
  entry and prefers a preload for ever; Playing stays on the screen.
- The listener may advance a second time for a track end that the tick has
  already followed: the single-flight flag only helps while they overlap.
- Pause and stop do not take the transition lock: one that falls between another
  handler's commit and its load stops mpv too early.
- The gapless advance commits without the lock and can move the cursor between
  another handler's commit and load; the tick's preload captures its generation
  after it has read the cursor; a settle task past its last check unpauses the
  file of a newer load; a Next that reads the flag just before an automatic
  advance takes it makes a second transition.
- MPRIS reads the mirror when an event arrives that the pump may not have
  applied yet.

mpv and the socket

- A reader that ends leaves the pending table as it is, so that a command waits
  its full five seconds. A shutdown's three-second timeout is shorter and cancels
  quit, and dropping the child ends mpv.
- A watchdog that has read the shutdown flag before it waits for the mpv lock
  starts mpv again after quit. A hung mpv is not noticed (`BackendReturns` and
  `OnePlayer` exempt it).
- Off Linux, where nothing takes mpv along with a killed daemon, an mpv that did not
  listen yet is not found by the next daemon's clean-up, which looks for a socket:
  two mpvs run, and when the older one listens at last it takes the path of the
  socket, so that the daemon may even connect to it instead of its own child.
  `OnePlayer` exempts it (`astray`), and with it whoever it took the path from.
- The ping loop ends with the first ping that fails or times out, for which one
  request of thirty seconds is enough; afterwards the daemon closes the client's
  connection when it is quiet (`QuietClientStays` says: as long as the keepalive runs).
- A request filed after the reader has drained the table waits its own timeout.
- Two tasks may send events in another order than they read the state
  (`MirrorSettles` allows for the last one sent), and only the queue and
  now-playing topics are resent after a loss.

Queue and configuration files

- With ResumeOnStart off the queue is still saved by the save task and restored
  after a crash. During shutdown the save task and the shutdown share one
  temporary file, and a save that has started can follow the deletion
  (`NeverLosesASave` stops there).
- A second daemon that fails with "already running" deletes the socket of the
  first, and after the end of `serve` a stopping daemon unlinks the path without
  the lock. A client that connects between the idle monitor's check and the exit
  is served by a daemon that stops.
- A failed save of a new password for the same account leaves it in the keychain
  or password file. With `FERROSONIC_PASSWORD` set, an unrelated save erases the
  inline password. Copies of settings outside the state (the cache switch and
  cap, mpv's replay gain) are stored after the lock was dropped.
- `docs/LOCK-ORDER.md` says numbered guards are released before I/O; the track
  cache's is not (`IoUnlocked` exempts it), and a commit looks at a file under it
  and the state lock.

Offline cache, reports, library

- Songs are cached by id alone, whichever server they came from; a cached file can
  be evicted between its look-up and its load; a kill between the rename and the
  write of the index leaves a file that nothing removes, as do kills during a download.
- A repeat between the tick's two reads marks the new play as submitted, and it
  is never counted. A play taken back before the threshold while reporting is off,
  or stopped and started again, is counted twice (`CountedOnce` exempts it).
- A refresh that cloned the client before a switch and reads `config_gen` after
  it, or that passed its check before the switch and writes after it, publishes
  the previous folder's list (`QuietListIsCurrent` exempts it); `load_artist` and
  `load_all_albums` check nothing, and a new server leaves the caches of albums
  and playlist songs.
- Overlapping toggles of a star can leave the index unlike the server; a refresh of
  the starred or the random songs during one leaves the index or the random copy
  stale; a switch of the folder counts as one of
  the server, so that a rating that fails afterwards is not rolled back
  (`MarksAgree` exempts these).

The TUI

- A song that the picker adds to the playlist in the pane does not appear there, as
  the answer is dropped; J and K, which send the pane as the whole playlist, then
  take it off the server again.
- When the pump has lost events it takes a snapshot of the daemon's state, and
  leaves what it keeps beside it: the cover of the song before stays drawn, and
  none is fetched for the new one, until the next change of the song or of a
  setting. A `ConfigChanged` that a full queue or a ring dropped is not sent again,
  and the Settings page shows the old values until the next one.
- The delete confirmation acts on the playlist highlighted when y is pressed.
- Clicks and scrolling in the album list act on the hidden tree; a late answer of
  the first album's songs overwrites the pane.
- An adjusted setting is read and written under separate locks; a save that fails
  leaves the optimistic value; an editor writes its value over a newer one; the
  key bindings in force do not follow another client's change.
- At startup a cover can be shown for a song that has gone by the time nothing was
  reserved for its successor.
- A search that fails in the daemon shows as one without results.

## Not modelled

Drawing, but for the rows and layers that keys and clicks index; terminal input,
themes, option parsing, logging; the HTTP client and its data types;
notifications; PipeWire's own behaviour; the keychain's, but for its failures;
MPRIS, which forwards to the requests modelled here. They keep no state a later
step depends on, or none these models could say anything about. mpv's own
behaviour, the file system's and tokio's locks are modelled from how the daemon
uses them, and marked external in the map. Of what is modelled partly: the
bounded caches of albums, playlists and covers (a sequential structure that the
repository tests by random operations), audio-property probing in the tick, the
rate probe of a settle task, the transfer of a buffered start, and the
Queue and QuickPlay pages' own lists.

## What could come next

Every safety property of the passing runs has its theorem. What is left:
`Transitions` with a queue that is edited, which needs another state
space than two entries allow; the Queue page's clamping of its cursor, which the
event pump does in a second lock.
