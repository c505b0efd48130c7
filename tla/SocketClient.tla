----------------------------- MODULE SocketClient -----------------------------
(* Requests over the socket (src/src/ipc/socket_client.rs) and the loop of the *)
(* daemon that serves a connection (ipc/server.rs): the table of pending       *)
(* requests, the writer and reader tasks, timeouts, the keepalive, the idle    *)
(* timeout of the daemon and what a lost connection does to those who wait.    *)
(*                                                                             *)
(* Time goes in steps of PING_INTERVAL. Only a handler of the daemon takes     *)
(* that long: every other step is done before time goes on.                    *)
EXTENDS Naturals, Sequences

CONSTANTS
    None, Error,
    Askers,      \* tasks of the client that make requests, but for the keepalive
    Requests,    \* what they ask for
    MaxRequests, \* bound on their requests
    MaxTime      \* bound on the time

Ping == "Ping"
Callers == Askers \cup {Ping}

PING_INTERVAL_late == 3 \* Fault: the interval of the daemon's timeout
PING_INTERVAL == 1

REQUEST_TIMEOUT == 2
IDLE_TIMEOUT == 3

VARIABLES
    calls,       \* of each caller, its request, or None
    pending, next_id,
    queue,       \* frames for the writer task
    writer, reader,  \* the tasks: "running", "draining" (the reader) or "over"
    open,        \* the daemon has not closed the connection
    inbox,       \* requests the daemon has yet to read
    serving,     \* the one it serves, or None
    replies,
    quiet,       \* how long the daemon has waited for a frame
    keepalive,   \* the ping task: "waits", "due" or "over"
    time, asked,
    idled        \* history: the daemon closed an idle connection

client == <<calls, pending, next_id, queue, writer, reader, keepalive>>
daemon == <<open, inbox, serving, quiet, idled>>
vars == <<client, daemon, replies, time, asked>>

Init ==
    /\ calls = [c \in Callers |-> None]
    /\ pending = {} /\ next_id = 1
    /\ queue = <<>> /\ writer = "running" /\ reader = "running"
    /\ open = TRUE /\ inbox = <<>> /\ serving = None /\ replies = <<>>
    /\ quiet = 0 /\ keepalive = "waits"
    /\ time = 0 /\ asked = 0 /\ idled = FALSE

-----------------------------------------------------------------------------
(* request_with_timeout *)

Awaiting(c) == calls[c] # None /\ calls[c].answer = None

FilesSender(c, what) ==
    /\ calls[c] = None
    /\ calls' = [calls EXCEPT ![c] =
           [request |-> what, id |-> next_id, sent |-> FALSE, age |-> 0, answer |-> None]]
    /\ pending' = pending \cup {next_id}
    /\ next_id' = next_id + 1
    /\ UNCHANGED <<queue, writer, reader, daemon, replies, time>>

request(c) ==
    /\ asked < MaxRequests /\ asked' = asked + 1
    /\ \E r \in Requests : FilesSender(c, r)
    /\ UNCHANGED keepalive

Withdraws(c) ==
    /\ calls' = [calls EXCEPT ![c].answer = Error]
    /\ pending' = pending \ {calls[c].id}

Sends(c) ==
    /\ Awaiting(c) /\ ~calls[c].sent
    /\ IF writer = "running"
       THEN /\ queue' = Append(queue, [id |-> calls[c].id, request |-> calls[c].request])
            /\ calls' = [calls EXCEPT ![c].sent = TRUE]
            /\ UNCHANGED pending
       ELSE Withdraws(c) /\ UNCHANGED queue
    /\ UNCHANGED <<next_id, writer, reader, keepalive, daemon, replies, time, asked>>

TimesOut(c) ==
    /\ Awaiting(c) /\ calls[c].age >= REQUEST_TIMEOUT
    /\ Withdraws(c)
    /\ UNCHANGED <<next_id, queue, writer, reader, keepalive, daemon, replies, time, asked>>

Returned(c) == calls[c] # None /\ calls[c].answer # None

Returns(c) ==
    /\ c # Ping /\ Returned(c)
    /\ calls' = [calls EXCEPT ![c] = None]
    /\ UNCHANGED <<pending, next_id, queue, writer, reader, keepalive, daemon, replies, time, asked>>

(* The keepalive ends with the first ping that fails. *)
Pings ==
    /\ keepalive = "due"
    /\ FilesSender(Ping, Ping)
    /\ keepalive' = "waits"
    /\ UNCHANGED asked

PingReturns ==
    /\ Returned(Ping)
    /\ calls' = [calls EXCEPT ![Ping] = None]
    /\ keepalive' = IF calls[Ping].answer = Error THEN "over" ELSE keepalive
    /\ UNCHANGED <<pending, next_id, queue, writer, reader, daemon, replies, time, asked>>

-----------------------------------------------------------------------------
(* The tasks of connect. *)

WriterWrites ==
    /\ writer = "running" /\ queue # <<>>
    /\ queue' = Tail(queue)
    /\ IF open
       THEN inbox' = Append(inbox, Head(queue)) /\ UNCHANGED writer
       ELSE writer' = "over" /\ UNCHANGED inbox
    /\ UNCHANGED <<calls, pending, next_id, reader, keepalive, open, serving, quiet, idled,
                   replies, time, asked>>

ReaderResolves ==
    /\ reader = "running" /\ replies # <<>>
    /\ LET r == Head(replies)
       IN  /\ pending' = pending \ {r.id}
           /\ calls' = [c \in Callers |->
                  IF r.id \in pending /\ Awaiting(c) /\ calls[c].id = r.id
                  THEN [calls[c] EXCEPT !.answer = r.answer] ELSE calls[c]]
    /\ replies' = Tail(replies)
    /\ UNCHANGED <<next_id, queue, writer, reader, keepalive, daemon, time, asked>>

ReaderSeesTheEnd ==
    /\ reader = "running" /\ ~open /\ replies = <<>>
    /\ reader' = "draining"
    /\ UNCHANGED <<calls, pending, next_id, queue, writer, keepalive, daemon, replies, time, asked>>

(* A request filed after this waits for its timeout. *)
ReaderDrains ==
    /\ reader = "draining" /\ reader' = "over"
    /\ pending' = {}
    /\ calls' = [c \in Callers |->
           IF Awaiting(c) /\ calls[c].id \in pending
           THEN [calls[c] EXCEPT !.answer = Error] ELSE calls[c]]
    /\ UNCHANGED <<next_id, queue, writer, keepalive, daemon, replies, time, asked>>

-----------------------------------------------------------------------------
(* handle_connection: one request after the other, each served in line. *)

Reads ==
    /\ open /\ serving = None /\ inbox # <<>>
    /\ serving' = Head(inbox) /\ inbox' = Tail(inbox)
    /\ UNCHANGED <<client, open, quiet, idled, replies, time, asked>>

(* The handler may fail, or the daemon or the client may not know the variant. *)
Answers ==
    /\ open /\ serving # None
    /\ \E answer \in {serving.request, Error} :
           replies' = Append(replies, [id |-> serving.id, answer |-> answer])
    /\ serving' = None /\ quiet' = 0
    /\ UNCHANGED <<client, open, inbox, idled, time, asked>>

Closes == open' = FALSE /\ inbox' = <<>> /\ serving' = None

IdlesOut ==
    /\ open /\ serving = None /\ inbox = <<>> /\ quiet >= IDLE_TIMEOUT
    /\ Closes /\ idled' = TRUE
    /\ UNCHANGED <<client, quiet, replies, time, asked>>

(* The daemon stops or is killed. *)
DaemonEnds ==
    /\ open /\ Closes
    /\ UNCHANGED <<client, quiet, idled, replies, time, asked>>

-----------------------------------------------------------------------------
Prompt(c) == Sends(c) \/ Returns(c)

Busy ==
    \/ \E c \in Callers : (Awaiting(c) /\ (~calls[c].sent \/ calls[c].age >= REQUEST_TIMEOUT)) \/ Returned(c)
    \/ keepalive = "due" /\ calls[Ping] = None
    \/ writer = "running" /\ queue # <<>>
    \/ reader = "running" /\ (replies # <<>> \/ ~open)
    \/ reader = "draining"
    \/ open /\ serving = None /\ (inbox # <<>> \/ quiet >= IDLE_TIMEOUT)

Passes ==
    /\ time < MaxTime /\ ~Busy
    /\ time' = time + 1
    /\ calls' = [c \in Callers |-> IF Awaiting(c) THEN [calls[c] EXCEPT !.age = @ + 1] ELSE calls[c]]
    /\ quiet' = IF serving = None THEN quiet + 1 ELSE quiet
    /\ keepalive' = IF keepalive = "waits" /\ time' % PING_INTERVAL = 0 THEN "due" ELSE keepalive
    /\ UNCHANGED <<pending, next_id, queue, writer, reader, open, inbox, serving, idled,
                   replies, asked>>

Next ==
    \/ \E c \in Askers : request(c)
    \/ \E c \in Callers : Prompt(c) \/ TimesOut(c)
    \/ Pings \/ PingReturns
    \/ WriterWrites \/ ReaderResolves \/ ReaderSeesTheEnd \/ ReaderDrains
    \/ Reads \/ Answers \/ IdlesOut \/ DaemonEnds
    \/ Passes

Spec == Init /\ [][Next]_vars

-----------------------------------------------------------------------------
(* A connection is closed as idle only when its keepalive has given up.        *)
QuietClientStays == idled => keepalive = "over"

Contract == INSTANCE Calls WITH
    Questions <- Requests \cup {Ping},
    calls <- [c \in Callers |->
        IF calls[c] = None THEN None
        ELSE [question |-> calls[c].request, answer |-> calls[c].answer]]

AnswersMatch == Contract!Spec
=============================================================================
