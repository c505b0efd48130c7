---------------------------- MODULE MpvController ----------------------------
(* The controller of the mpv process (src/src/audio/mpv.rs) and who uses it:   *)
(* the watchdog of the polling task (daemon/polling.rs), handlers that send    *)
(* commands, and the shutdown (core.rs, run.rs). All of them hold the mpv lock *)
(* for a whole operation. mpv runs beside them: it starts, answers, hangs, and *)
(* exits; the daemon may be killed too, and started again.                     *)
(*                                                                             *)
(* A command is its name, and mpv's answer repeats it. What commands do to mpv *)
(* is left out, but for quit.                                                  *)
EXTENDS Naturals, Sequences

CONSTANTS
    None, Error,
    Users,       \* handlers that send commands
    Mpvs,        \* process ids
    MaxCalls,    \* bound on the operations of the handlers
    MaxFaults    \* bound on what goes wrong with processes, sockets and the daemon

VARIABLES
    status,      \* of a process id: "none", "starting", "up", "hung" or "exited"
    foreign,     \* mpvs whose daemon has died
    socket,      \* the mpv that made the socket file, or None
    process,     \* the child the controller owns, or None
    astray,      \* history: those of them to which the socket file did not lead
                 \* when the daemon was killed, or has not led since
    conn,        \* the connection the writer and the reader share, or None
    reader,      \* the reader task: "none", "running" or "finished"
    pending, request_id,
    holder,      \* of the mpv lock, or None
    op,          \* what the holder does: a step of start or quit, or "commands"
    todo,        \* the commands it still sends
    call,        \* the command it waits for, or None
    poll,        \* the polling task: "boot", "ready", "asks", "dead" or "over"
    shutdown,    \* "no", "asked", "quit" once mpv has been told, or "off"
    faults, used

processes == <<status, foreign, socket, process, astray>>
ipc == <<conn, reader, pending, request_id, call>>
lock == <<holder, op, todo>>
tasks == <<poll, shutdown>>
vars == <<processes, ipc, lock, tasks, faults, used>>

Alive == {"starting", "up", "hung"}

(* The commands of one operation, sent while the lock is held: the loads, with *)
(* and without a change of the pause property; the changes of a property; the  *)
(* queries; the pause toggle; the other changes of mpv's playlist. An error    *)
(* ends the operation.                                                         *)
loadfile == {<<"set", "playlist">>, <<"playlist">>}
set_property == {<<"set">>}
get_property == {<<"get">>}
toggle_pause == {<<"get", "set">>}
playlist_commands == {<<"playlist">>}
Programs == loadfile \cup set_property \cup get_property \cup toggle_pause \cup playlist_commands
Commands == {"set", "get", "playlist", "quit"}

Init ==
    /\ status = [p \in Mpvs |-> "none"] /\ foreign = {}
    /\ socket = None /\ process = None /\ astray = {}
    /\ conn = None /\ reader = "none" /\ pending = {} /\ request_id = 1
    /\ holder = None /\ op = None /\ todo = <<>> /\ call = None
    /\ poll = "boot" /\ shutdown = "no"
    /\ faults = 0 /\ used = 0

-----------------------------------------------------------------------------
(* Operations. *)

Fault == faults < MaxFaults /\ faults' = faults + 1

Lock(task, step) == holder = None /\ holder' = task /\ op' = step

Unlock == holder' = None /\ op' = None /\ todo' = <<>>

(* The controller gives up the child and has it killed and waited for. *)
reap_child ==
    /\ process' = None
    /\ status' = IF process = None THEN status ELSE [status EXCEPT ![process] = "none"]

(* The writer and the reader are dropped, which closes the connection. *)
drop_connection == conn' = None /\ reader' = "none"

reset_ipc == drop_connection /\ pending' = {}

(* is_running: the connection is there, its reader has not ended and the child *)
(* has not exited. *)
IsRunning == conn # None /\ reader = "running" /\ process # None /\ status[process] \in Alive

ClearsDeadState ==
    IF conn # None /\ ~IsRunning
    THEN reap_child /\ drop_connection
    ELSE UNCHANGED <<process, status, conn, reader>>

is_running ==
    /\ holder = None
    /\ ClearsDeadState
    /\ UNCHANGED <<foreign, socket, astray, pending, request_id, call, lock, shutdown, faults,
                   used>>

-----------------------------------------------------------------------------
(* The polling task. The watchdog looks and starts mpv under separate locks.   *)

WatchdogTicks ==
    /\ poll = "ready"
    /\ poll' = IF shutdown = "no" THEN "asks" ELSE "over"
    /\ UNCHANGED <<processes, ipc, lock, shutdown, faults, used>>

WatchdogLooks ==
    /\ poll = "asks" /\ is_running
    /\ poll' = IF IsRunning THEN "ready" ELSE "dead"

update_playback_info == poll = "ready" /\ conn # None /\ is_running /\ UNCHANGED poll

(* The boot of the daemon, and then the watchdog. *)
start_mpv ==
    /\ poll \in {"boot", "dead"}
    /\ Lock("poll", "start")
    /\ UNCHANGED <<processes, ipc, todo, tasks, faults, used>>

-----------------------------------------------------------------------------
(* start *)

In(step) == holder = "poll" /\ op = step

EndsStart == Unlock /\ poll' = "ready"

Started_if_alive == \* Fault: a live child counts as started, connected or not
    process # None /\ status[process] \in Alive

Started == process # None /\ status[process] \in Alive /\ conn # None

tear_down_keeps_child == \* Fault: a respawn resets the connection only
    reset_ipc /\ UNCHANGED <<process, status>>

tear_down_connection == reset_ipc /\ reap_child

(* Only the boot and the watchdog start mpv, and neither finds it started. *)
TearsDown ==
    /\ In("start")
    /\ IF Started
       THEN EndsStart /\ UNCHANGED <<process, status, conn, reader, pending>>
       ELSE /\ IF process # None \/ conn # None
               THEN tear_down_connection
               ELSE UNCHANGED <<process, status, conn, reader, pending>>
            /\ op' = "reap" /\ UNCHANGED <<holder, todo, poll>>
    /\ UNCHANGED <<foreign, socket, astray, request_id, call, shutdown, faults, used>>

Reclaims(s) == s \in foreign /\ status[s] = "up"

(* The mpv of an earlier daemon is told to quit, and waited for unless it is   *)
(* hung; then the socket file is removed.                                      *)
reap_stale_mpv_at ==
    /\ In("reap")
    /\ socket' = None
    /\ IF Reclaims(socket)
       THEN /\ status' = [status EXCEPT ![socket] = "none"]
            /\ foreign' = foreign \ {socket} /\ astray' = astray \ {socket}
       ELSE UNCHANGED <<status, foreign, astray>>
    /\ op' = "spawn"
    /\ UNCHANGED <<process, ipc, holder, todo, tasks, faults, used>>

(* Bound: a start needs a process id of Mpvs that is free, and not the one a   *)
(* socket file is left of.                                                     *)
Free == {q \in Mpvs : status[q] = "none" /\ q # socket}

Spawns ==
    /\ In("spawn") /\ Free # {}
    /\ LET p == CHOOSE q \in Free : TRUE
       IN  /\ process' = p /\ status' = [status EXCEPT ![p] = "starting"]
    /\ op' = "wait"
    /\ UNCHANGED <<foreign, socket, astray, ipc, holder, todo, tasks, faults, used>>

SpawnFails ==
    /\ In("spawn") /\ Fault
    /\ EndsStart
    /\ UNCHANGED <<processes, ipc, shutdown, used>>

(* The file appears, or five seconds pass: because mpv exited or is slow. *)
SocketAppears ==
    /\ In("wait") /\ socket # None
    /\ op' = "connect"
    /\ UNCHANGED <<processes, ipc, holder, todo, tasks, faults, used>>

SocketNotCreated ==
    /\ In("wait") /\ socket = None
    /\ IF status[process] = "starting" THEN Fault ELSE UNCHANGED faults
    /\ EndsStart
    /\ UNCHANGED <<processes, ipc, shutdown, used>>

Connection(p) == [to |-> p, open |-> TRUE, inbox |-> <<>>, replies |-> <<>>]

(* connect, and the query for mpv's version *)
connect ==
    /\ In("connect") /\ status[socket] \in Alive
    /\ conn' = Connection(socket) /\ reader' = "running" /\ pending' = {}
    /\ op' = "commands" /\ todo' = <<"get">>
    /\ UNCHANGED <<processes, request_id, call, holder, tasks, faults, used>>

ConnectFails ==
    /\ In("connect") /\ status[socket] \notin Alive
    /\ reset_ipc
    /\ EndsStart
    /\ UNCHANGED <<processes, request_id, call, shutdown, faults, used>>

-----------------------------------------------------------------------------
(* send_command: the sender is filed, the command is written, and the reader's *)
(* answer is awaited for COMMAND_DEADLINE.                                     *)

BeginsCommands(u) ==
    /\ poll # "boot" /\ used < MaxCalls /\ used' = used + 1
    /\ Lock(u, "commands")
    /\ todo' \in Programs
    /\ UNCHANGED <<processes, ipc, tasks, faults>>

next_id_constant == 1 \* Fault: the request id never moves

next_id == request_id + 1

FilesSender ==
    /\ op = "commands" /\ call = None /\ todo # <<>>
    /\ request_id' = next_id
    /\ call' = [command |-> Head(todo), id |-> request_id, written |-> FALSE, answer |-> None]
    /\ pending' = pending \cup {request_id}
    /\ UNCHANGED <<processes, conn, reader, lock, tasks, faults, used>>

Unanswered == call # None /\ call.answer = None

Fails ==
    /\ call' = [call EXCEPT !.answer = Error]
    /\ pending' = pending \ {call.id}

Writes ==
    /\ Unanswered /\ ~call.written
    /\ IF conn # None /\ conn.open
       THEN /\ conn' = [conn EXCEPT !.inbox = Append(@, [id |-> call.id, command |-> call.command])]
            /\ call' = [call EXCEPT !.written = TRUE]
            /\ UNCHANGED pending
       ELSE Fails /\ UNCHANGED conn
    /\ UNCHANGED <<processes, reader, request_id, lock, tasks, faults, used>>

DeadlinePasses ==
    /\ Unanswered /\ call.written
    /\ Fails
    /\ UNCHANGED <<processes, conn, reader, request_id, lock, tasks, faults, used>>

reader_loop ==
    /\ reader = "running" /\ conn.replies # <<>>
    /\ LET r == Head(conn.replies)
       IN  /\ pending' = pending \ {r.id}
           /\ call' = IF r.id \in pending /\ Unanswered /\ call.id = r.id
                      THEN [call EXCEPT !.answer = r.command] ELSE call
    /\ conn' = [conn EXCEPT !.replies = Tail(@)]
    /\ UNCHANGED <<processes, reader, request_id, lock, tasks, faults, used>>

ReaderEnds ==
    /\ reader = "running" /\ ~conn.open /\ conn.replies = <<>>
    /\ reader' = "finished"
    /\ UNCHANGED <<processes, conn, pending, request_id, call, lock, tasks, faults, used>>

(* After an error the rest is not sent. The start only wanted the version. *)
CommandReturns ==
    /\ op = "commands" /\ call # None /\ call.answer # None
    /\ call' = None
    /\ IF call.answer = Error \/ Len(todo) = 1
       THEN Unlock /\ poll' = IF holder = "poll" THEN "ready" ELSE poll
       ELSE todo' = Tail(todo) /\ UNCHANGED <<holder, op, poll>>
    /\ UNCHANGED <<processes, conn, reader, pending, request_id, shutdown, faults, used>>

-----------------------------------------------------------------------------
(* The shutdown: the flag, then quit, for which it waits three seconds. *)

request_shutdown ==
    /\ shutdown = "no" /\ poll # "boot"
    /\ shutdown' = "asked"
    /\ UNCHANGED <<processes, ipc, lock, poll, faults, used>>

quit_mpv ==
    /\ shutdown = "asked" /\ holder # "main"
    /\ Lock("main", "quit")
    /\ todo' = IF conn # None THEN <<"quit">> ELSE <<>>
    /\ UNCHANGED <<processes, ipc, tasks, faults, used>>

SendsQuit ==
    /\ op = "quit" /\ todo # <<>> /\ call = None
    /\ request_id' = next_id
    /\ call' = [command |-> "quit", id |-> request_id, written |-> FALSE, answer |-> None]
    /\ pending' = pending \cup {request_id}
    /\ UNCHANGED <<processes, conn, reader, lock, tasks, faults, used>>

shutdown_sync ==
    /\ op = "quit" /\ IF todo = <<>> THEN call = None ELSE call # None /\ call.answer # None
    /\ reap_child /\ drop_connection /\ socket' = None
    /\ call' = None
    /\ Unlock /\ shutdown' = "quit"
    /\ UNCHANGED <<foreign, astray, pending, request_id, poll, faults, used>>

(* Its three seconds pass while it waits for the lock or for the answer. *)
QuitTimesOut ==
    /\ shutdown = "asked"
    /\ IF holder = "main" THEN Unlock /\ call' = None ELSE UNCHANGED <<lock, call>>
    /\ shutdown' = "quit"
    /\ UNCHANGED <<processes, conn, reader, pending, request_id, poll, faults, used>>

Gone ==
    /\ process' = None /\ conn' = None /\ reader' = "none" /\ pending' = {} /\ request_id' = 1
    /\ Unlock /\ call' = None

(* The tasks are dropped and the controller with them, which reaps its child. *)
Exits ==
    /\ shutdown = "quit"
    /\ Gone
    /\ status' = IF process = None THEN status ELSE [status EXCEPT ![process] = "none"]
    /\ socket' = None
    /\ poll' = "over" /\ shutdown' = "off"
    /\ UNCHANGED <<foreign, astray, faults, used>>

-----------------------------------------------------------------------------
(* mpv, and what goes wrong. *)

hang_up(p) ==
    conn' = IF conn # None /\ conn.to = p THEN [conn EXCEPT !.open = FALSE] ELSE conn

(* It takes the path of the socket file for itself, whoever's it was. *)
MpvListens(p) ==
    /\ status[p] = "starting"
    /\ status' = [status EXCEPT ![p] = "up"] /\ socket' = p
    /\ astray' = astray \cup ({socket} \cap foreign)
    /\ UNCHANGED <<foreign, process, ipc, lock, tasks, faults, used>>

(* A child that exits stays until it is waited for. *)
Ends(p) ==
    /\ status' = [status EXCEPT ![p] = IF p = process THEN "exited" ELSE "none"]
    /\ foreign' = foreign \ {p} /\ astray' = astray \ {p}

(* An answer, after which a mpv told to quit exits. *)
MpvAnswers ==
    /\ conn # None /\ conn.open /\ conn.inbox # <<>> /\ status[conn.to] = "up"
    /\ LET m == Head(conn.inbox)
           quits == m.command = "quit"
       IN  /\ conn' = [conn EXCEPT !.inbox = Tail(@), !.replies = Append(@, m), !.open = ~quits]
           /\ IF quits THEN Ends(conn.to) ELSE UNCHANGED <<status, foreign, astray>>
    /\ UNCHANGED <<socket, process, reader, pending, request_id, call, lock, tasks,
                   faults, used>>

MpvExits(p) ==
    /\ status[p] \in Alive /\ Fault
    /\ Ends(p)
    /\ hang_up(p)
    /\ UNCHANGED <<socket, process, reader, pending, request_id, call, lock, tasks, used>>

MpvHangs(p) ==
    /\ status[p] = "up" /\ Fault
    /\ status' = [status EXCEPT ![p] = "hung"]
    /\ UNCHANGED <<foreign, socket, process, astray, ipc, lock, tasks, used>>

MpvHangsUp ==
    /\ conn # None /\ conn.open /\ Fault
    /\ hang_up(conn.to)
    /\ UNCHANGED <<processes, reader, pending, request_id, call, lock, tasks, used>>

(* The daemon is killed and started again. Its mpv dies with it on Linux;      *)
(* elsewhere it lives on, though it may not listen yet.                        *)
DaemonIsKilled ==
    /\ shutdown # "off" /\ Fault
    /\ Gone
    /\ \/ /\ status' = IF process = None THEN status ELSE [status EXCEPT ![process] = "none"]
          /\ UNCHANGED foreign
       \/ /\ process # None /\ status[process] \in Alive
          /\ foreign' = foreign \cup {process}
          /\ UNCHANGED status
    /\ astray' = foreign' \ {socket}
    /\ poll' = "boot" /\ shutdown' = "no"
    /\ UNCHANGED <<socket, used>>

-----------------------------------------------------------------------------
Starting ==
    TearsDown \/ reap_stale_mpv_at \/ Spawns \/ SpawnFails
        \/ SocketAppears \/ SocketNotCreated \/ connect \/ ConnectFails

Commanding == FilesSender \/ Writes \/ DeadlinePasses \/ CommandReturns

Reading == reader_loop \/ ReaderEnds

Quitting == request_shutdown \/ quit_mpv \/ SendsQuit \/ shutdown_sync \/ QuitTimesOut \/ Exits

Failing == (\E p \in Mpvs : MpvExits(p) \/ MpvHangs(p)) \/ MpvHangsUp \/ DaemonIsKilled

Next ==
    \/ WatchdogTicks \/ WatchdogLooks \/ update_playback_info \/ start_mpv
    \/ Starting \/ Commanding \/ Reading \/ Quitting
    \/ \E u \in Users : BeginsCommands(u)
    \/ \E p \in Mpvs : MpvListens(p)
    \/ MpvAnswers
    \/ Failing

Spec == Init /\ [][Next]_vars

(* The runtime runs ready tasks; tokio's lock is fair; a spawned mpv comes up. *)
Fairness ==
    /\ WF_vars(WatchdogTicks) /\ SF_vars(WatchdogLooks) /\ SF_vars(start_mpv)
    /\ WF_vars(Starting) /\ WF_vars(Commanding) /\ WF_vars(Reading)
    /\ WF_vars(SendsQuit \/ shutdown_sync)
    /\ WF_vars(\E p \in Mpvs : MpvListens(p))

FairSpec == Spec /\ Fairness

-----------------------------------------------------------------------------
OutOfReach(p) == status[p] = "hung" \/ p \in astray

OnePlayer ==
    \A p \in Mpvs :
        status[p] # "none" => p = process \/ (p \in foreign /\ (process = None \/ OutOfReach(p)))

Connected == IsRunning /\ conn.open /\ status[conn.to] = "up"

Hung == \E p \in Mpvs : status[p] = "hung" /\ (p = process \/ (conn # None /\ conn.to = p))

BackendReturns == []<>(Connected \/ Hung \/ shutdown # "no")

Called(t) ==
    IF holder = t /\ call # None
    THEN [question |-> call.command, answer |-> call.answer] ELSE None

Contract == INSTANCE Calls WITH
    Callers <- Users \cup {"poll", "main"},
    Questions <- Commands,
    calls <- [t \in Users \cup {"poll", "main"} |-> Called(t)]

AnswersMatch == Contract!Spec
=============================================================================
