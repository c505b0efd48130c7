----------------------------- MODULE EventStream -----------------------------
(***************************************************************************)
(* How a client's mirror follows the daemon's state.  A handler changes    *)
(* the state, later reads it back and broadcasts it.  Each connection has  *)
(* a receiver on that broadcast ring and a forwarder that moves events to  *)
(* the connection's bounded writer queue; when either overflows, events    *)
(* are dropped and the forwarder resends the queue and the now-playing     *)
(* state from a snapshot.  The client's reader feeds a second ring, and    *)
(* its event pump applies events to the mirror; when that ring overflows,  *)
(* the pump subscribes again and asks for a whole snapshot.                *)
(*                                                                         *)
(* The state is one version number per topic.  A message carries the       *)
(* versions of the topics it is about.  One connection is modelled, with   *)
(* no request of the client other than Snapshot, which always succeeds.    *)
(***************************************************************************)
EXTENDS Integers, Sequences

CONSTANTS
    Topics,         \* parts of the state that events are about
    Emitters,       \* daemon tasks that change the state
    RingCap,        \* EVENT_CHANNEL_CAPACITY of the daemon
    WireCap,        \* EVENT_FORWARD_CAPACITY
    ClientCap,      \* EVENT_CHANNEL_CAPACITY of the client
    MaxChanges      \* bound: changes of the state

ASSUME EventStreamAssumption ==
    /\ {"now_playing", "queue"} \subseteq Topics
    /\ RingCap \in Nat \ {0}
    /\ WireCap \in Nat \ {0}
    /\ ClientCap \in Nat \ {0}
    /\ MaxChanges \in Nat

VARIABLES
    state,         \* version of each topic in the daemon
    changes,       \* changes so far
    emitting,      \* what each emitter is about to send
    sent,          \* history: what the last event about each topic said
    ring,          \* the connection's unread part of the broadcast
    lagged,        \* the broadcast has overwritten part of it
    forwarder,     \* "select", or "resync": two slots reserved in the wire
    needs_resync,  \* the forwarder's flag
    snap,          \* the snapshot the forwarder has read
    server,        \* the dispatcher's reply to Snapshot, if it is serving one
    wire,          \* the writer queue and the socket
    client_ring,   \* the event pump's receiver
    client_lagged,
    pump,          \* "idle", "ask" or "wait": the pump's Snapshot request
    mirror         \* version of each topic the client shows

vars == <<state, changes, emitting, sent, ring, lagged, forwarder, needs_resync,
          snap, server, wire, client_ring, client_lagged, pump, mirror>>

daemonVars    == <<state, changes, emitting, sent>>
ringVars      == <<ring, lagged>>
forwarderVars == <<forwarder, needs_resync, snap>>
clientVars    == <<client_ring, client_lagged, pump, mirror>>

Versions == 0..MaxChanges
Unknown == -1      \* what a client shows before its first snapshot
None == "none"

(* A message about some topics; reply marks the answer to Snapshot. *)
Message(reply, topics, source) ==
    [reply |-> reply, update |-> [t \in topics |-> source[t]]]

Nothing == Message(FALSE, {}, <<>>)

Idle == [step |-> "idle", topic |-> None, msg |-> Nothing]

(* What a ring of capacity cap holds after msg: it loses its oldest. *)
Pushed(msgs, msg, cap) ==
    IF Len(msgs) < cap THEN Append(msgs, msg) ELSE Append(Tail(msgs), msg)

(* An update copied over what was known before. *)
Merge(known, update) ==
    [t \in Topics |-> IF t \in DOMAIN update THEN update[t] ELSE known[t]]
-----------------------------------------------------------------------------
(* A handler changes a topic under the state lock ... *)
Change(e, t) ==
    /\ emitting[e] = Idle
    /\ changes < MaxChanges
    /\ changes' = changes + 1
    /\ state' = [state EXCEPT ![t] = changes + 1]
    /\ emitting' = [emitting EXCEPT ![e] = [step |-> "changed", topic |-> t, msg |-> Nothing]]
    /\ UNCHANGED <<sent, ringVars, forwarderVars, server, wire, clientVars>>

(* ... then emit_queue, emit_now_playing or emit_config_changed clones it  *)
(* under the state lock ...                                                *)
EmitReads(e) ==
    /\ emitting[e].step = "changed"
    /\ emitting' = [emitting EXCEPT
           ![e] = [step |-> "read", topic |-> @.topic,
                   msg |-> Message(FALSE, {@.topic}, state)]]
    /\ UNCHANGED <<state, changes, sent, ringVars, forwarderVars, server, wire,
                   clientVars>>

(* ... and sends it without the lock.  A full ring loses its oldest event. *)
EmitSends(e) ==
    /\ emitting[e].step = "read"
    /\ ring' = Pushed(ring, emitting[e].msg, RingCap)
    /\ lagged' = (lagged \/ Len(ring) = RingCap)
    /\ sent' = Merge(sent, emitting[e].msg.update)
    /\ emitting' = [emitting EXCEPT ![e] = Idle]
    /\ UNCHANGED <<state, changes, forwarderVars, server, wire, clientVars>>
-----------------------------------------------------------------------------
(* The topics a resynchronisation sends again, and the two slots of the    *)
(* wire it reserves or does not start.                                     *)
Resynced == {"now_playing", "queue"}

room_for_resync(used) == used + 2 <= WireCap

(* Fault: an event that does not fit is dropped and forgotten. *)
ForwardDrops_forgets ==
    /\ Len(wire) = WireCap
    /\ UNCHANGED <<wire, forwarder, needs_resync>>

ForwardDrops ==
    /\ Len(wire) = WireCap
    /\ needs_resync' = TRUE
    /\ UNCHANGED <<wire, forwarder>>

ForwardEvent ==
    /\ forwarder = "select"
    /\ ~lagged
    /\ ring # <<>>
    /\ ring' = Tail(ring)
    /\ \/ /\ Len(wire) < WireCap
          /\ wire' = Append(wire, Head(ring))
          /\ forwarder' = IF needs_resync /\ room_for_resync(Len(wire')) THEN "resync"
                          ELSE "select"
          /\ UNCHANGED needs_resync
       \/ ForwardDrops
    /\ UNCHANGED <<daemonVars, lagged, snap, server, clientVars>>

(* The receiver skips what was overwritten and reports it once. *)
ForwarderLagged ==
    /\ forwarder = "select"
    /\ lagged
    /\ lagged' = FALSE
    /\ needs_resync' = TRUE
    /\ UNCHANGED <<daemonVars, ring, forwarder, snap, server, wire, clientVars>>

(* The 500 ms retry.  Fault: only a successful send retries. *)
resync_due_never == FALSE

resync_due == needs_resync

RetryTick ==
    /\ forwarder = "select"
    /\ resync_due
    /\ room_for_resync(Len(wire))
    /\ forwarder' = "resync"
    /\ UNCHANGED <<daemonVars, ringVars, needs_resync, snap, server, wire, clientVars>>

(* core.snapshot() copies the state, then waits for the mpv lock. *)
ResyncReads ==
    /\ forwarder = "resync"
    /\ snap = Nothing
    /\ snap' = Message(FALSE, Resynced, state)     \* read, not yet split in two
    /\ UNCHANGED <<daemonVars, ringVars, forwarder, needs_resync, server, wire, clientVars>>

ResyncSends ==
    /\ forwarder = "resync"
    /\ snap # Nothing
    /\ wire' = wire \o <<Message(FALSE, {"now_playing"}, snap.update),
                         Message(FALSE, {"queue"}, snap.update)>>
    /\ forwarder' = "select"
    /\ needs_resync' = FALSE
    /\ snap' = Nothing
    /\ UNCHANGED <<daemonVars, ringVars, server, clientVars>>
-----------------------------------------------------------------------------
(* The connection's dispatcher serves one request at a time; its reply     *)
(* waits for a free slot.                                                  *)
reserved == IF forwarder = "resync" THEN 2 ELSE 0

ServeSnapshot ==
    /\ server = [step |-> "asked", msg |-> Nothing]
    /\ server' = [step |-> "reply", msg |-> Message(TRUE, Topics, state)]
    /\ UNCHANGED <<daemonVars, ringVars, forwarderVars, wire, clientVars>>

SendReply ==
    /\ server.step = "reply"
    /\ Len(wire) + reserved < WireCap
    /\ wire' = Append(wire, server.msg)
    /\ server' = [step |-> "idle", msg |-> Nothing]
    /\ UNCHANGED <<daemonVars, ringVars, forwarderVars, clientVars>>
-----------------------------------------------------------------------------
(* The client's reader.  A reply wakes the waiting pump, which copies the  *)
(* snapshot over the mirror.                                               *)
ReadEvent ==
    /\ wire # <<>>
    /\ ~Head(wire).reply
    /\ wire' = Tail(wire)
    /\ client_ring' = Pushed(client_ring, Head(wire), ClientCap)
    /\ client_lagged' = (client_lagged \/ Len(client_ring) = ClientCap)
    /\ UNCHANGED <<daemonVars, ringVars, forwarderVars, server, pump, mirror>>

ReadReply ==
    /\ wire # <<>>
    /\ Head(wire).reply
    /\ wire' = Tail(wire)
    /\ pump = "wait"
    /\ mirror' = Merge(mirror, Head(wire).update)
    /\ pump' = "idle"
    /\ UNCHANGED <<daemonVars, ringVars, forwarderVars, server, client_ring, client_lagged>>

(* The event pump. *)
ApplyEvent ==
    /\ pump = "idle"
    /\ ~client_lagged
    /\ client_ring # <<>>
    /\ mirror' = Merge(mirror, Head(client_ring).update)
    /\ client_ring' = Tail(client_ring)
    /\ UNCHANGED <<daemonVars, ringVars, forwarderVars, server, wire, client_lagged, pump>>

(* A lagged pump subscribes again, and only then asks for a snapshot. *)
PumpLagged ==
    /\ pump = "idle"
    /\ client_lagged
    /\ client_lagged' = FALSE
    /\ client_ring' = <<>>
    /\ pump' = "ask"
    /\ UNCHANGED <<daemonVars, ringVars, forwarderVars, server, wire, mirror>>

PumpAsks ==
    /\ pump = "ask"
    /\ server.step = "idle"
    /\ server' = [step |-> "asked", msg |-> Nothing]
    /\ pump' = "wait"
    /\ UNCHANGED <<daemonVars, ringVars, forwarderVars, wire, client_ring,
                   client_lagged, mirror>>
-----------------------------------------------------------------------------
(* A client that has subscribed and is about to ask for its first snapshot *)
Init ==
    /\ state = [t \in Topics |-> 0]
    /\ changes = 0
    /\ emitting = [e \in Emitters |-> Idle]
    /\ sent = [t \in Topics |-> 0]
    /\ ring = <<>>
    /\ lagged = FALSE
    /\ forwarder = "select"
    /\ needs_resync = FALSE
    /\ snap = Nothing
    /\ server = [step |-> "idle", msg |-> Nothing]
    /\ wire = <<>>
    /\ client_ring = <<>>
    /\ client_lagged = FALSE
    /\ pump = "ask"
    /\ mirror = [t \in Topics |-> Unknown]

Emit(e) == EmitReads(e) \/ EmitSends(e)

Next ==
    \/ \E e \in Emitters, t \in Topics : Change(e, t)
    \/ \E e \in Emitters : Emit(e)
    \/ ForwardEvent
    \/ ForwarderLagged
    \/ RetryTick
    \/ ResyncReads
    \/ ResyncSends
    \/ ServeSnapshot
    \/ SendReply
    \/ ReadEvent
    \/ ReadReply
    \/ ApplyEvent
    \/ PumpLagged
    \/ PumpAsks

Spec == Init /\ [][Next]_vars

(* Every task keeps running and the client keeps reading. *)
Fairness ==
    /\ \A e \in Emitters : WF_vars(Emit(e))
    /\ WF_vars(ForwardEvent \/ ForwarderLagged)
    /\ WF_vars(RetryTick)
    /\ WF_vars(ResyncReads \/ ResyncSends)
    /\ WF_vars(ServeSnapshot)
    /\ WF_vars(SendReply)
    /\ WF_vars(ReadEvent \/ ReadReply)
    /\ WF_vars(ApplyEvent \/ PumpLagged \/ PumpAsks)

FairSpec == Spec /\ Fairness
-----------------------------------------------------------------------------
(* The client shows the daemon's queue and now-playing state, or what the  *)
(* last event about them said.  (The two differ when tasks send in another *)
(* order than they read.)                                                  *)
UpToDate == \A t \in Resynced : mirror[t] \in {state[t], sent[t]}

(* Whatever was lost on the way, once the state stops changing the client  *)
(* ends up showing it: dropping and resending never leaves it with         *)
(* anything older.                                                         *)
MirrorSettles == <>[]UpToDate
=============================================================================
