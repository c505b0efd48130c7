------------------------ MODULE DaemonLifecycle_proofs ------------------------
(***************************************************************************)
(* Proofs about DaemonLifecycle, for any number of daemons and of TUIs.    *)
(***************************************************************************)
EXTENDS DaemonLifecycle, FiniteSetTheorems, TLAPS

(* The states in which a serve task has the lock file locked.              *)
Serving == {"probe", "bind", "accept"}

DaemonsTyped ==
    /\ file \in Daemons \cup {NoOne}
    /\ lock \in Daemons \cup {NoOne}
    /\ main \in [Daemons -> {"off", "boot", "run", "quit", "exit"}]
    /\ server \in [Daemons -> {"none", "lock", "done"} \cup Serving]
    /\ stop \in [Daemons -> BOOLEAN]
    /\ monitor \in [Daemons -> {"sleep", "counted", "done"}]
    /\ idle_ticks \in [Daemons -> Nat]
    /\ playback \in [Daemons -> {"stopped", "restored", "active"}]

ConnectionsTyped ==
    /\ clients \in [Daemons -> SUBSET Users]
    /\ tui \in [Users -> {"off", "connect", "wait", "retry", "on"}]
    /\ at \in [Users -> Daemons \cup {NoOne}]

(* A serve task past acquire_socket_lock holds the lock.                   *)
ServesLocked == \A d \in Daemons : server[d] \in Serving => lock = d

(* A TUI is connected only while it runs, and a daemon counts only the     *)
(* connections that lead to it.                                            *)
CountsAreConnections ==
    /\ \A u \in Users : tui[u] # "on" => at[u] = NoOne
    /\ \A d \in Daemons : \A u \in clients[d] : at[u] = d

Inv == DaemonsTyped /\ ConnectionsTyped /\ ServesLocked /\ CountsAreConnections

LEMMA InitInv == Init => Inv
BY DEF Init, Inv, DaemonsTyped, ConnectionsTyped, ServesLocked, CountsAreConnections,
       Serving

(* What a step of the processes has to show, and a step of the TUIs.       *)
LEMMA StepInv ==
    ASSUME Inv,
           DaemonsTyped' \/ UNCHANGED <<file, lock, processVars, idleVars, playback>>,
           ServesLocked' \/ UNCHANGED <<lock, server>>,
           (ConnectionsTyped' /\ CountsAreConnections') \/ UNCHANGED <<clients, tuiVars>>
    PROVE  Inv'
<1>1. UNCHANGED <<file, lock, processVars, idleVars, playback>> => DaemonsTyped'
  BY DEF Inv, DaemonsTyped, processVars, idleVars
<1>2. UNCHANGED <<lock, server>> => ServesLocked'
  BY DEF Inv, ServesLocked
<1>3. UNCHANGED <<clients, tuiVars>> => ConnectionsTyped' /\ CountsAreConnections'
  BY DEF Inv, ConnectionsTyped, CountsAreConnections, tuiVars
<1> QED BY <1>1, <1>2, <1>3 DEF Inv

(* The lock is given back by its holder, whose serve task is over.         *)
LEMMA ReleasedInv ==
    ASSUME Inv, NEW d \in Daemons, NEW s \in {"none", "done"},
           server' = [server EXCEPT ![d] = s], lock' = released(d)
    PROVE  ServesLocked' /\ lock' \in Daemons \cup {NoOne}
<1>1. lock' \in {lock, NoOne} /\ (lock # d => lock' = lock)
  BY DEF released
<1>2. ASSUME NEW e \in Daemons, server'[e] \in Serving PROVE lock' = e
  <2>1. e # d /\ server[e] \in Serving
    BY <1>2 DEF Inv, DaemonsTyped, Serving
  <2>2. lock = e
    BY <2>1 DEF Inv, ServesLocked
  <2> QED BY <1>1, <2>1, <2>2
<1> QED BY <1>1, <1>2 DEF ServesLocked, Inv, DaemonsTyped

LEMMA UserInv ==
    ASSUME Inv, NEW u \in Users, Launch(u) \/ TuiStep(u) \/ Quits(u) \/ Stops(u)
    PROVE  Inv'
<1> USE DEF Inv
<1>1. ASSUME NEW s \in {"off", "connect", "wait", "retry"}, tui[u] # "on",
             tui' = [tui EXCEPT ![u] = s], UNCHANGED <<clients, at>>
      PROVE  ConnectionsTyped' /\ CountsAreConnections'
  BY <1>1 DEF ConnectionsTyped, CountsAreConnections
<1>2. CASE Launch(u) \/ SocketIsUp(u) \/ GivesUp(u) \/ SpawnFails(u)
  <2>1. PICK s \in {"off", "connect", "wait", "retry"} : tui' = [tui EXCEPT ![u] = s]
    BY <1>2 DEF Launch, SocketIsUp, GivesUp, SpawnFails
  <2>2. ConnectionsTyped' /\ CountsAreConnections'
    BY <1>1, <1>2, <2>1 DEF Launch, SocketIsUp, GivesUp, SpawnFails
  <2> QED BY <1>2, <2>2, StepInv
          DEF Launch, SocketIsUp, GivesUp, SpawnFails, processVars
<1>3. CASE Spawns(u)
  <2>1. DaemonsTyped'
    BY <1>3 DEF Spawns, DaemonsTyped, idleVars
  <2>2. ConnectionsTyped' /\ CountsAreConnections'
    BY <1>1, <1>3 DEF Spawns
  <2> QED BY <1>3, <2>1, <2>2, StepInv DEF Spawns
<1>4. CASE Connects(u)
  <2>1. file \in Daemons /\ tui[u] # "on"
    BY <1>4 DEF Connects, connect, Reachable, DaemonsTyped
  <2>2. \A d \in Daemons : u \notin clients[d]
    BY <2>1, LifecycleAssumption DEF CountsAreConnections
  <2>3. ConnectionsTyped' /\ CountsAreConnections'
    BY <1>4, <2>1, <2>2 DEF Connects, connect, ConnectionsTyped, CountsAreConnections
  <2> QED BY <1>4, <2>3, StepInv DEF Connects, processVars
<1>5. ASSUME tui' = [tui EXCEPT ![u] = "off"], at' = [at EXCEPT ![u] = NoOne],
             clients' \in [Daemons -> SUBSET Users],
             \A d \in Daemons : /\ clients'[d] \subseteq clients[d]
                                /\ d = at[u] => u \notin clients'[d]
      PROVE  ConnectionsTyped' /\ CountsAreConnections'
  <2>1. ConnectionsTyped'
    BY <1>5 DEF ConnectionsTyped
  <2>2. ASSUME NEW d \in Daemons, NEW v \in clients'[d] PROVE at'[v] = d
    <3>1. v \in clients[d] /\ at[v] = d /\ v \in Users
      BY <1>5 DEF CountsAreConnections, ConnectionsTyped
    <3>2. v # u
      BY <1>5, <3>1
    <3> QED BY <1>5, <3>1, <3>2 DEF ConnectionsTyped
  <2>3. ASSUME NEW v \in Users, tui'[v] # "on" PROVE at'[v] = NoOne
    BY <1>5, <2>3 DEF ConnectionsTyped, CountsAreConnections
  <2> QED BY <2>1, <2>2, <2>3 DEF CountsAreConnections
<1>6. CASE Quits(u) \/ SeesTheEnd(u)
  <2>1. /\ tui' = [tui EXCEPT ![u] = "off"] /\ at' = [at EXCEPT ![u] = NoOne]
        /\ clients' = [d \in Daemons |-> IF d = at[u] THEN clients[d] \ {u} ELSE clients[d]]
    BY <1>6 DEF Quits, SeesTheEnd, release_client
  <2>2. ConnectionsTyped' /\ CountsAreConnections'
    BY <1>5, <2>1 DEF ConnectionsTyped
  <2> QED BY <1>6, <2>2, StepInv DEF Quits, SeesTheEnd, processVars
<1>7. CASE Stops(u)
  <2>1. at[u] \in Daemons
    BY <1>7 DEF Stops, ConnectionsTyped
  <2>2. /\ tui' = [tui EXCEPT ![u] = "off"] /\ at' = [at EXCEPT ![u] = NoOne]
        /\ clients' = [clients EXCEPT ![at[u]] = clients[at[u]] \ {u}]
    BY <1>7 DEF Stops, release_client
  <2>3. ConnectionsTyped' /\ CountsAreConnections'
    BY <1>5, <2>1, <2>2 DEF ConnectionsTyped
  <2>4. DaemonsTyped'
    BY <1>7, <2>1 DEF Stops, DaemonsTyped, idleVars
  <2> QED BY <1>7, <2>3, <2>4, StepInv DEF Stops
<1> QED BY <1>2, <1>3, <1>4, <1>6, <1>7 DEF TuiStep

LEMMA MainInv ==
    ASSUME Inv, NEW d \in Daemons, MainStep(d) \/ Signalled(d) \/ Killed(d)
    PROVE  Inv'
<1> USE DEF Inv
<1>1. CASE Boots(d)
  <2>1. DaemonsTyped'
    BY <1>1 DEF Boots, DaemonsTyped
  <2>2. ServesLocked'
    BY <1>1 DEF Boots, DaemonsTyped, ServesLocked, Serving
  <2>3. ConnectionsTyped' /\ CountsAreConnections'
    BY <1>1 DEF Boots, ConnectionsTyped, CountsAreConnections, tuiVars
  <2> QED BY <2>1, <2>2, <2>3
<1>2. CASE BeginsShutdown(d)
  <2>1. DaemonsTyped'
    BY <1>2 DEF BeginsShutdown, DaemonsTyped, idleVars
  <2> QED BY <1>2, <2>1, StepInv DEF BeginsShutdown
<1>3. CASE RemovesSocket(d)
  <2>1. DaemonsTyped'
    BY <1>3 DEF RemovesSocket, DaemonsTyped, idleVars
  <2> QED BY <1>3, <2>1, StepInv DEF RemovesSocket
<1>4. CASE process_ends(d)
  <2>1. ServesLocked' /\ lock' \in Daemons \cup {NoOne}
    BY <1>4, ReleasedInv DEF process_ends
  <2>2. DaemonsTyped'
    BY <1>4, <2>1 DEF process_ends, DaemonsTyped
  <2>3. ConnectionsTyped' /\ CountsAreConnections'
    BY <1>4 DEF process_ends, ConnectionsTyped, CountsAreConnections
  <2> QED BY <2>1, <2>2, <2>3
<1> QED BY <1>1, <1>2, <1>3, <1>4
        DEF MainStep, Signalled, Killed, ServerIsOver, Exits

LEMMA ServerInv ==
    ASSUME Inv, NEW d \in Daemons, ServerStep(d)
    PROVE  Inv'
<1> USE DEF Inv
<1>1. CASE AcquiresLock(d)
  <2>1. DaemonsTyped'
    BY <1>1 DEF AcquiresLock, DaemonsTyped, Serving, idleVars
  <2>2. \A e \in Daemons : server[e] \notin Serving
    BY <1>1, LifecycleAssumption DEF AcquiresLock, lock_is_free, ServesLocked
  <2>3. ServesLocked'
    BY <1>1, <2>2 DEF AcquiresLock, DaemonsTyped, ServesLocked
  <2> QED BY <1>1, <2>1, <2>3, StepInv DEF AcquiresLock
<1>2. CASE ServeFails(d)
  <2>1. ServesLocked' /\ lock' \in Daemons \cup {NoOne}
    BY <1>2, ReleasedInv DEF ServeFails
  <2>2. DaemonsTyped'
    BY <1>2, <2>1 DEF ServeFails, DaemonsTyped, idleVars
  <2> QED BY <1>2, <2>1, <2>2, StepInv DEF ServeFails
<1>3. CASE RemovesStale(d) \/ Binds(d)
  <2>1. DaemonsTyped'
    BY <1>3 DEF RemovesStale, Binds, DaemonsTyped, Serving, idleVars
  <2>2. ServesLocked'
    BY <1>3 DEF RemovesStale, Binds, DaemonsTyped, ServesLocked, Serving
  <2> QED BY <1>3, <2>1, <2>2, StepInv DEF RemovesStale, Binds
<1>4. CASE Accepts(d)
  <2>1. ConnectionsTyped' /\ CountsAreConnections'
    BY <1>4 DEF Accepts, ConnectionsTyped, CountsAreConnections, tuiVars
  <2> QED BY <1>4, <2>1, StepInv DEF Accepts, processVars
<1>5. CASE ServeReturns(d)
  <2>1. ServesLocked' /\ lock' \in Daemons \cup {NoOne}
    BY <1>5, ReleasedInv DEF ServeReturns
  <2>2. DaemonsTyped'
    BY <1>5, <2>1 DEF ServeReturns, DaemonsTyped, idleVars
  <2>3. ConnectionsTyped' /\ CountsAreConnections'
    BY <1>5 DEF ServeReturns, hung_up, ConnectionsTyped, CountsAreConnections
  <2> QED BY <2>1, <2>2, <2>3
<1> QED BY <1>1, <1>2, <1>3, <1>4, <1>5 DEF ServerStep

LEMMA MonitorInv ==
    ASSUME Inv, NEW d \in Daemons, MonitorStep(d) \/ Plays(d) \/ PlaybackStops(d)
    PROVE  Inv'
<1>1. UNCHANGED <<clients, tuiVars>> /\ UNCHANGED <<lock, server>> /\ UNCHANGED <<file, main>>
  BY DEF MonitorStep, MonitorCounts, MonitorDecides, MonitorTicks, MonitorEnds, Plays,
         PlaybackStops, processVars
<1>2. DaemonsTyped'
  <2>1. CASE MonitorCounts(d) \/ MonitorDecides(d) \/ MonitorEnds(d)
    BY <1>1, <2>1 DEF MonitorCounts, MonitorDecides, MonitorEnds, processVars, Inv,
       DaemonsTyped
  <2>2. CASE MonitorTicks(d)
    <3>1. /\ idle_ticks' = [idle_ticks EXCEPT ![d] = @ + 1]
          /\ \/ /\ stop' = [stop EXCEPT ![d] = TRUE]
                /\ monitor' = [monitor EXCEPT ![d] = "done"]
             \/ /\ stop' = stop
                /\ monitor' = [monitor EXCEPT ![d] = "sleep"]
          /\ server' = server /\ lock' = lock /\ playback' = playback
      BY <2>2 DEF MonitorTicks
    <3>2. idle_ticks' \in [Daemons -> Nat]
      BY <3>1 DEF Inv, DaemonsTyped
    <3> QED BY <1>1, <3>1, <3>2 DEF Inv, DaemonsTyped
  <2>3. CASE Plays(d) \/ PlaybackStops(d)
    BY <1>1, <2>3 DEF Plays, PlaybackStops, processVars, idleVars, Inv, DaemonsTyped
  <2> QED BY <2>1, <2>2, <2>3 DEF MonitorStep
<1> QED BY <1>1, <1>2, StepInv

LEMMA NextInv == Inv /\ [Next]_vars => Inv'
<1> SUFFICES ASSUME Inv, [Next]_vars PROVE Inv'
  OBVIOUS
<1>1. CASE UNCHANGED vars
  BY <1>1, StepInv DEF vars, processVars, idleVars, tuiVars
<1> QED BY <1>1, UserInv, MainInv, ServerInv, MonitorInv DEF Next

LEMMA InvHolds == Spec => []Inv
BY InitInv, NextInv, PTL DEF Spec

(* Two daemons never listen at once, however many are started together,    *)
(* killed and started again: whoever listens holds the flock on the lock   *)
(* file from before it looked at the socket (acquire_socket_lock, serve).  *)
THEOREM AtMostOneListener == Spec => []OneListener
<1>1. Inv => OneListener
  <2> SUFFICES ASSUME Inv PROVE OneListener
    OBVIOUS
  <2> DEFINE L == {d \in Daemons : Listening(d)}
  <2>1. L \subseteq {lock}
    BY DEF Inv, ServesLocked, Listening, Serving
  <2>2. CASE L = {}
    BY <2>2, FS_EmptySet DEF OneListener
  <2>3. CASE L = {lock}
    <3>1. Cardinality({lock}) = 1
      BY FS_Singleton
    <3> QED BY <2>3, <3>1 DEF OneListener
  <2> QED BY <2>1, <2>2, <2>3
<1> QED BY InvHolds, <1>1, PTL

(* active_clients counts only connections that lead to the daemon, however *)
(* they ended: no count that stays behind keeps the idle monitor awake.    *)
THEOREM NoStaleClient ==
    Spec => [](\A d \in Daemons : \A u \in clients[d] : at[u] = d)
<1>1. Inv => \A d \in Daemons : \A u \in clients[d] : at[u] = d
  BY DEF Inv, CountsAreConnections
<1> QED BY InvHolds, <1>1, PTL
===============================================================================
