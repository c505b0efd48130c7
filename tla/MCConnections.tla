---------------------------- MODULE MCConnections ----------------------------
(* The connections of the daemon for TLC: sessions of its events to a client,  *)
(* of a client's requests, and of its commands to mpv. A session runs one of   *)
(* the modules; the others rest in a state in which nothing can happen.        *)
EXTENDS EventStream

CONSTANTS
    Sessions,  \* the sessions to check
    NoValue, Error,
    Users, Mpvs,        \* handlers that send commands to mpv, process ids
    Askers, Requests,   \* tasks of a client, and what they ask for
    MaxCalls, MaxFaults, MaxRequests, MaxTime

VARIABLES
    session,
    \* mpv and its controller
    status, foreign, socket, process, astray, conn, reader, pending, request_id, holder,
    op, todo, call, poll, shutdown, faults, used,
    \* requests over the socket
    calls, socket_pending, next_id, queue, writer, socket_reader, open, inbox,
    serving, replies, quiet, keepalive, time, asked, idled

M == INSTANCE MpvController WITH None <- NoValue

C == INSTANCE SocketClient WITH
    None <- NoValue,
    pending <- socket_pending,
    reader <- socket_reader

(* The connection to mpv and a call over it, a frame of a client and its call. *)
Lines == [id : Nat, command : M!Commands]
Connections == [to : Mpvs, open : BOOLEAN, inbox : Seq(Lines), replies : Seq(Lines)]
Commanded ==
    [command : M!Commands, id : Nat, written : BOOLEAN, answer : M!Commands \cup {NoValue, Error}]
Frames == [id : Nat, request : Requests \cup {"Ping"}]
Requested ==
    [request : Requests \cup {"Ping"}, id : Nat, sent : BOOLEAN, age : Nat,
     answer : Requests \cup {"Ping", NoValue, Error}]

(* A call of either, as Calls sees it. *)
Promised ==
    [question : M!Commands \cup Requests \cup {"Ping"},
     answer : M!Commands \cup Requests \cup {"Ping", NoValue, Error}]

(* NoValue is no task, process, request, frame or call.                        *)
ASSUME ConnectionsAssumption ==
    /\ NoValue \notin Users \cup Mpvs \cup Askers \cup Requests \cup M!Commands
    /\ NoValue \notin {Error, "poll", "main", "start", "reap", "spawn", "wait", "connect",
                      "commands", "Ping"}
    /\ NoValue \notin Connections \cup Commanded \cup Frames \cup Requested \cup Promised
    /\ {"poll", "main"} \cap Users = {}
    /\ "Ping" \notin Askers
    /\ MaxTime \in Nat

varsM ==
    <<status, foreign, socket, process, astray, conn, reader, pending, request_id,
      holder, op, todo, call, poll, shutdown, faults, used>>

varsC ==
    <<calls, socket_pending, next_id, queue, writer, socket_reader, open,
      inbox, serving, replies, quiet, keepalive, time, asked, idled>>

NoEvents ==
    /\ state = [t \in Topics |-> 0] /\ sent = state /\ mirror = state
    /\ changes = MaxChanges
    /\ emitting = [e \in Emitters |-> Idle]
    /\ ring = <<>> /\ lagged = FALSE
    /\ forwarder = "select" /\ needs_resync = FALSE /\ snap = Nothing
    /\ server = [step |-> "idle", msg |-> Nothing]
    /\ wire = <<>> /\ client_ring = <<>> /\ client_lagged = FALSE /\ pump = "idle"

NoMpv ==
    /\ status = [p \in Mpvs |-> "none"] /\ foreign = {}
    /\ socket = NoValue /\ process = NoValue /\ astray = {} /\ conn = NoValue
    /\ reader = "none" /\ pending = {} /\ request_id = 1
    /\ holder = NoValue /\ op = NoValue /\ todo = <<>> /\ call = NoValue
    /\ poll = "over" /\ shutdown = "off"
    /\ faults = MaxFaults /\ used = MaxCalls

NoRequests ==
    /\ calls = [c \in Askers \cup {"Ping"} |-> NoValue] /\ socket_pending = {} /\ next_id = 1
    /\ queue = <<>> /\ writer = "over" /\ socket_reader = "over"
    /\ open = FALSE /\ inbox = <<>> /\ serving = NoValue /\ replies = <<>>
    /\ quiet = 0 /\ keepalive = "over"
    /\ time = MaxTime /\ asked = MaxRequests /\ idled = FALSE

SessionInit ==
    /\ session \in Sessions
    /\ \/ session = "events" /\ Init /\ NoMpv /\ NoRequests
       \/ session = "mpv" /\ NoEvents /\ M!Init /\ NoRequests
       \/ session = "requests" /\ NoEvents /\ NoMpv /\ C!Init

SessionNext ==
    /\ UNCHANGED session
    /\ \/ session = "events" /\ Next /\ UNCHANGED <<varsM, varsC>>
       \/ session = "mpv" /\ M!Next /\ UNCHANGED <<vars, varsC>>
       \/ session = "requests" /\ C!Next /\ UNCHANGED <<vars, varsM>>

SessionSpec ==
    SessionInit /\ [][SessionNext]_<<session, vars, varsM, varsC>> /\ Fairness /\ M!Fairness

-----------------------------------------------------------------------------
(* Whatever fails, is killed or left behind by an earlier daemon, no mpv plays *)
(* beside the one the controller owns, and none is left a zombie ("would be    *)
(* orphaned holding the audio device while the watchdog spawned a second       *)
(* mpv"). Two outlive the start of their successor: one that hangs, and, where *)
(* an mpv survives its daemon (off Linux), one the socket file did not lead    *)
(* to: it did not listen yet when the daemon was killed, or such a one had     *)
(* taken the file over.                                                        *)
OnePlayer == M!OnePlayer

(* However mpv exits, is slow to start or hangs up, the watchdog gets back one *)
(* that is connected ("early-returning there would wedge the backend           *)
(* forever"), unless it hangs, which nobody notices, or the daemon stops.      *)
BackendReturns == M!BackendReturns

(* Both connections keep the contract of Calls: a late reply never answers a   *)
(* later request, and a call ends once, whatever times out or is closed.       *)
AnswersMatch == M!AnswersMatch /\ C!AnswersMatch

(* "The daemon closes a connection idle for `IDLE_TIMEOUT`; this stays well    *)
(* under a third of it so a live-but-quiet TUI never trips that timeout"       *)
(* (src/src/ipc/socket_client.rs:24): as long as the keepalive runs, which     *)
(* ends with the first ping that fails.                                        *)
QuietClientStays == C!QuietClientStays
=============================================================================
