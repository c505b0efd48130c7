---------------------------- MODULE DaemonLifecycle ----------------------------
(***************************************************************************)
(* Daemon processes and the socket they share.  A TUI connects to the      *)
(* socket or starts a daemon and waits for its socket.  A daemon takes the *)
(* socket's lock file, removes a stale socket, binds and serves until a    *)
(* client asks it to stop, a signal arrives or nobody has needed it for a  *)
(* while; then it stops mpv, removes the socket and exits.                 *)
(*                                                                         *)
(* A process id that is off may be started again.  Any daemon may be       *)
(* killed at any moment.  Of the playback only what the idle monitor       *)
(* distinguishes is kept: "restored" is Paused in a session that has not   *)
(* played yet, "active" is Playing, or Paused after having played.         *)
(***************************************************************************)
EXTENDS FiniteSets, Integers

CONSTANTS
    Daemons,        \* daemon process ids
    Users,          \* TUI processes
    NoOne

ASSUME LifecycleAssumption == NoOne \notin Daemons

VARIABLES
    file,       \* the daemon whose listener the socket file leads to
    lock,       \* the daemon that holds the flock on the lock file
    main,       \* "off", "boot", "run", "quit" (in shutdown), "exit"
    server,     \* the serve task: "none", "lock", "probe", "bind", "accept",
                \* "done"
    stop,       \* the shutdown flag
    monitor,    \* the idle monitor: "sleep", "counted", "done"
    idle_ticks,
    playback,   \* "stopped", "restored", "active"
    clients,    \* the connections a daemon has counted (active_clients)
    tui,        \* "off", "connect", "wait", "retry", "on"
    at          \* the daemon at the other end of a TUI's connection

vars == <<file, lock, main, server, stop, monitor, idle_ticks, playback,
          clients, tui, at>>

processVars == <<main, server, stop>>
idleVars    == <<monitor, idle_ticks>>
tuiVars     == <<tui, at>>

IDLE_TICKS_TO_EXIT == 2

(* The listener exists from bind until the accept loop ends. *)
Listening(d) == server[d] = "accept"

(* Connecting to the path succeeds. *)
Reachable == file # NoOne /\ Listening(file)

Init ==
    /\ file = NoOne
    /\ lock = NoOne
    /\ main = [d \in Daemons |-> "off"]
    /\ server = [d \in Daemons |-> "none"]
    /\ stop = [d \in Daemons |-> FALSE]
    /\ monitor = [d \in Daemons |-> "done"]
    /\ idle_ticks = [d \in Daemons |-> 0]
    /\ playback = [d \in Daemons |-> "stopped"]
    /\ clients = [d \in Daemons |-> {}]
    /\ tui = [u \in Users |-> "off"]
    /\ at = [u \in Users |-> NoOne]
-----------------------------------------------------------------------------
(* A TUI is started; unless daemons are disabled it looks for the socket. *)
Launch(u) ==
    /\ tui[u] = "off"
    /\ tui' = [tui EXCEPT ![u] = "connect"]
    /\ UNCHANGED <<file, lock, processVars, idleVars, playback, clients, at>>

(* A connection waits in the listener's backlog until it is accepted. *)
connect(u) ==
    /\ Reachable
    /\ tui' = [tui EXCEPT ![u] = "on"]
    /\ at' = [at EXCEPT ![u] = file]

(* connect_or_spawn: the first attempt, or the last one after the wait. *)
Connects(u) ==
    /\ tui[u] \in {"connect", "retry"}
    /\ connect(u)
    /\ UNCHANGED <<file, lock, processVars, idleVars, playback, clients>>

(* spawn_daemon: the binary runs itself with --daemon. *)
Spawns(u) ==
    /\ tui[u] = "connect"
    /\ ~Reachable
    /\ \E d \in Daemons :
        /\ main[d] = "off"
        /\ main' = [main EXCEPT ![d] = "boot"]
    /\ tui' = [tui EXCEPT ![u] = "wait"]
    /\ UNCHANGED <<file, lock, server, stop, idleVars, playback, clients, at>>

(* Every process id is in use: the spawn itself fails. *)
SpawnFails(u) ==
    /\ tui[u] = "connect"
    /\ ~Reachable
    /\ \A d \in Daemons : main[d] # "off"
    /\ tui' = [tui EXCEPT ![u] = "off"]
    /\ UNCHANGED <<file, lock, processVars, idleVars, playback, clients, at>>

(* wait_for_socket: a probe that succeeds is closed again at once. *)
SocketIsUp(u) ==
    /\ tui[u] = "wait"
    /\ Reachable
    /\ tui' = [tui EXCEPT ![u] = "retry"]
    /\ UNCHANGED <<file, lock, processVars, idleVars, playback, clients, at>>

(* The deadline passed, or the last attempt failed: "daemon unreachable".  *)
(* Fault: the wait has no deadline.                                        *)
GivesUp_never(u) ==
    /\ tui[u] = "retry"
    /\ ~Reachable
    /\ tui' = [tui EXCEPT ![u] = "off"]
    /\ UNCHANGED <<file, lock, processVars, idleVars, playback, clients, at>>

GivesUp(u) ==
    /\ tui[u] \in {"wait", "retry"}
    /\ ~Reachable
    /\ tui' = [tui EXCEPT ![u] = "off"]
    /\ UNCHANGED <<file, lock, processVars, idleVars, playback, clients, at>>

(* The connection's guard is dropped when its handler returns.             *)
(* Fault: it is counted for ever.                                          *)
release_client_leaks(d, u) == clients[d]

release_client(d, u) == clients[d] \ {u}

(* The user quits, leaving the daemon running ... *)
Quits(u) ==
    /\ tui[u] = "on"
    /\ tui' = [tui EXCEPT ![u] = "off"]
    /\ at' = [at EXCEPT ![u] = NoOne]
    /\ clients' = [d \in Daemons |-> IF d = at[u] THEN release_client(d, u)
                                                   ELSE clients[d]]
    /\ UNCHANGED <<file, lock, processVars, idleVars, playback>>

(* ... or asks it to stop as well. *)
Stops(u) ==
    /\ tui[u] = "on"
    /\ at[u] # NoOne
    /\ u \in clients[at[u]]
    /\ stop' = [stop EXCEPT ![at[u]] = TRUE]
    /\ tui' = [tui EXCEPT ![u] = "off"]
    /\ at' = [at EXCEPT ![u] = NoOne]
    /\ clients' = [clients EXCEPT ![at[u]] = release_client(at[u], u)]
    /\ UNCHANGED <<file, lock, main, server, idleVars, playback>>

(* The Shutdown event, or the end of the stream, makes the TUI quit. *)
SeesTheEnd(u) ==
    /\ tui[u] = "on"
    /\ at[u] \notin {d \in Daemons : main[d] = "run"}
    /\ tui' = [tui EXCEPT ![u] = "off"]
    /\ at' = [at EXCEPT ![u] = NoOne]
    /\ clients' = [d \in Daemons |-> IF d = at[u] THEN release_client(d, u)
                                                   ELSE clients[d]]
    /\ UNCHANGED <<file, lock, processVars, idleVars, playback>>

TuiStep(u) ==
    \/ Connects(u) \/ Spawns(u) \/ SpawnFails(u) \/ SocketIsUp(u) \/ GivesUp(u)
    \/ SeesTheEnd(u)
-----------------------------------------------------------------------------
(* run, up to the server task: the core is built with the restored queue,  *)
(* mpv and the monitors are started, playback perhaps too.                 *)
Boots(d) ==
    /\ main[d] = "boot"
    /\ main' = [main EXCEPT ![d] = "run"]
    /\ server' = [server EXCEPT ![d] = "lock"]
    /\ stop' = [stop EXCEPT ![d] = FALSE]
    /\ monitor' = [monitor EXCEPT ![d] = "sleep"]
    /\ idle_ticks' = [idle_ticks EXCEPT ![d] = 0]
    /\ \E p \in {"stopped", "restored", "active"} : playback' = [playback EXCEPT ![d] = p]
    /\ clients' = [clients EXCEPT ![d] = {}]
    /\ UNCHANGED <<file, lock, tuiVars>>

(* acquire_socket_lock never waits.  Fault: the lock is not looked at. *)
lock_is_free_always == TRUE

lock_is_free == lock = NoOne

AcquiresLock(d) ==
    /\ server[d] = "lock"
    /\ lock_is_free
    /\ lock' = d
    /\ server' = [server EXCEPT ![d] = "probe"]
    /\ UNCHANGED <<file, main, stop, idleVars, playback, clients, tuiVars>>

(* The file is closed, and the lock free, when serve returns. *)
released(d) == IF lock = d THEN NoOne ELSE lock

(* serve returns an error: locked, or somebody answers, or the name is taken. *)
ServeFails(d) ==
    /\ \/ server[d] = "lock" /\ ~lock_is_free
       \/ server[d] = "probe" /\ Reachable
       \/ server[d] = "bind" /\ file # NoOne
    /\ server' = [server EXCEPT ![d] = "done"]
    /\ lock' = released(d)
    /\ UNCHANGED <<file, main, stop, idleVars, playback, clients, tuiVars>>

(* handle_stale_socket: nobody answers on the file, so it is removed. *)
RemovesStale(d) ==
    /\ server[d] = "probe"
    /\ ~Reachable
    /\ file' = NoOne
    /\ server' = [server EXCEPT ![d] = "bind"]
    /\ UNCHANGED <<lock, main, stop, idleVars, playback, clients, tuiVars>>

Binds(d) ==
    /\ server[d] = "bind"
    /\ file = NoOne
    /\ file' = d
    /\ server' = [server EXCEPT ![d] = "accept"]
    /\ UNCHANGED <<lock, main, stop, idleVars, playback, clients, tuiVars>>

(* The accept loop looks at the shutdown flag first (biased). *)
Accepts(d) ==
    /\ server[d] = "accept"
    /\ ~stop[d]
    /\ \E u \in Users :
        /\ at[u] = d /\ u \notin clients[d]
        /\ clients' = [clients EXCEPT ![d] = @ \cup {u}]
    /\ UNCHANGED <<file, lock, processVars, idleVars, playback, tuiVars>>

(* Connections in the backlog end with the listener. *)
hung_up(d) == [u \in Users |-> IF at[u] = d /\ u \notin clients[d] THEN NoOne ELSE at[u]]

(* serve returns: listener and lock are dropped, accepted connections stay. *)
ServeReturns(d) ==
    /\ server[d] = "accept"
    /\ stop[d]
    /\ server' = [server EXCEPT ![d] = "done"]
    /\ lock' = released(d)
    /\ at' = hung_up(d)
    /\ UNCHANGED <<file, main, stop, idleVars, playback, clients, tui>>

(* run goes on to shutdown when the server task is over or a signal has    *)
(* come, which leaves the server task running.  quit_mpv sets the flag.    *)
BeginsShutdown(d) ==
    /\ main[d] = "run"
    /\ main' = [main EXCEPT ![d] = "quit"]
    /\ stop' = [stop EXCEPT ![d] = TRUE]
    /\ UNCHANGED <<file, lock, server, idleVars, playback, clients, tuiVars>>

ServerIsOver(d) == server[d] = "done" /\ BeginsShutdown(d)

Signalled(d) == server[d] # "done" /\ BeginsShutdown(d)

(* shutdown removes the socket, whoever bound it ... *)
RemovesSocket(d) ==
    /\ main[d] = "quit"
    /\ file' = NoOne
    /\ main' = [main EXCEPT ![d] = "exit"]
    /\ UNCHANGED <<lock, server, stop, idleVars, playback, clients, tuiVars>>

(* The process ends: the system closes what it had open. *)
process_ends(d) ==
    /\ main' = [main EXCEPT ![d] = "off"]
    /\ server' = [server EXCEPT ![d] = "none"]
    /\ stop' = [stop EXCEPT ![d] = FALSE]
    /\ monitor' = [monitor EXCEPT ![d] = "done"]
    /\ idle_ticks' = [idle_ticks EXCEPT ![d] = 0]
    /\ playback' = [playback EXCEPT ![d] = "stopped"]
    /\ clients' = [clients EXCEPT ![d] = {}]
    /\ at' = [u \in Users |-> IF at[u] = d THEN NoOne ELSE at[u]]
    /\ lock' = released(d)
    /\ UNCHANGED <<file, tui>>

(* ... and saves or removes the queue. *)
Exits(d) == main[d] = "exit" /\ process_ends(d)

(* SIGKILL, a signal before the handlers are set, or the 5 s backstop. *)
Killed(d) == main[d] # "off" /\ process_ends(d)
-----------------------------------------------------------------------------
(* The idle monitor reads the number of clients ... *)
MonitorCounts(d) ==
    /\ monitor[d] = "sleep"
    /\ ~stop[d]
    /\ IF clients[d] = {}
       THEN monitor' = [monitor EXCEPT ![d] = "counted"] /\ UNCHANGED idle_ticks
       ELSE idle_ticks' = [idle_ticks EXCEPT ![d] = 0] /\ UNCHANGED monitor
    /\ UNCHANGED <<file, lock, processVars, playback, clients, tuiVars>>

(* ... waits for the state lock and reads the playback state.              *)
is_idle_for_exit(d) == playback[d] \in {"stopped", "restored"}

MonitorDecides(d) ==
    /\ monitor[d] = "counted"
    /\ ~is_idle_for_exit(d)
    /\ idle_ticks' = [idle_ticks EXCEPT ![d] = 0]
    /\ monitor' = [monitor EXCEPT ![d] = "sleep"]
    /\ UNCHANGED <<file, lock, processVars, playback, clients, tuiVars>>

idle_for_long(n) == n >= IDLE_TICKS_TO_EXIT

MonitorTicks(d) ==
    /\ monitor[d] = "counted"
    /\ is_idle_for_exit(d)
    /\ idle_ticks' = [idle_ticks EXCEPT ![d] = @ + 1]
    /\ IF idle_for_long(idle_ticks'[d])
       THEN /\ stop' = [stop EXCEPT ![d] = TRUE]
            /\ monitor' = [monitor EXCEPT ![d] = "done"]
       ELSE /\ monitor' = [monitor EXCEPT ![d] = "sleep"]
            /\ UNCHANGED stop
    /\ UNCHANGED <<file, lock, main, server, playback, clients, tuiVars>>

(* The shutdown signal ends the monitor between two checks. *)
MonitorEnds(d) ==
    /\ monitor[d] = "sleep"
    /\ stop[d]
    /\ monitor' = [monitor EXCEPT ![d] = "done"]
    /\ UNCHANGED <<file, lock, processVars, idle_ticks, playback, clients, tuiVars>>

(* A connected client starts playback; playback stops by a request or at   *)
(* the end of the queue.                                                   *)
Plays(d) ==
    /\ clients[d] # {}
    /\ playback[d] # "active"
    /\ playback' = [playback EXCEPT ![d] = "active"]
    /\ UNCHANGED <<file, lock, processVars, idleVars, clients, tuiVars>>

PlaybackStops(d) ==
    /\ playback[d] = "active"
    /\ playback' = [playback EXCEPT ![d] = "stopped"]
    /\ UNCHANGED <<file, lock, processVars, idleVars, clients, tuiVars>>

MonitorStep(d) == MonitorCounts(d) \/ MonitorDecides(d) \/ MonitorTicks(d) \/ MonitorEnds(d)

ServerStep(d) ==
    \/ AcquiresLock(d) \/ ServeFails(d) \/ RemovesStale(d) \/ Binds(d)
    \/ Accepts(d) \/ ServeReturns(d)

MainStep(d) == Boots(d) \/ ServerIsOver(d) \/ RemovesSocket(d) \/ Exits(d)

Next ==
    \/ \E u \in Users : Launch(u) \/ TuiStep(u) \/ Quits(u) \/ Stops(u)
    \/ \E d \in Daemons :
        \/ MainStep(d) \/ Signalled(d) \/ Killed(d)
        \/ ServerStep(d) \/ MonitorStep(d)
        \/ Plays(d) \/ PlaybackStops(d)

Spec == Init /\ [][Next]_vars

(* Each task of a process that is alive keeps running. *)
FairSpec ==
    /\ Spec
    /\ \A u \in Users : WF_vars(TuiStep(u))
    /\ \A d \in Daemons :
        WF_vars(MainStep(d)) /\ WF_vars(ServerStep(d)) /\ WF_vars(MonitorStep(d))
-----------------------------------------------------------------------------
(* Two daemons never listen at once, however many are started together:    *)
(* the lock keeps a second one from taking the first one's socket for      *)
(* stale between its creation and its first accept.                        *)
OneListener == Cardinality({d \in Daemons : Listening(d)}) <= 1

(* The idle monitor's promise: a daemon that nobody is connected to and    *)
(* that has nothing to play does not stay, even one that cannot be reached *)
(* any more.                                                               *)
Needed(d) == (\E u \in Users : at[u] = d) \/ playback[d] = "active"

NoOrphan == \A d \in Daemons : []<>(main[d] = "off" \/ Needed(d))

(* A TUI that was started gets a daemon or gives up. *)
LaunchEnds == \A u \in Users : tui[u] = "connect" ~> tui[u] \in {"on", "off"}
=============================================================================
