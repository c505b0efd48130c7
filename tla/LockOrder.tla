-------------------------------- MODULE LockOrder --------------------------------
(* The locks of DaemonCore and the tasks that take them (src/docs/LOCK-ORDER.md  *)
(* declares their order).  A task runs a program: a sequence of steps, each the  *)
(* acquisition or the release of a lock, an input or output it waits for, or a   *)
(* choice the code makes on data this module leaves out.  The programs are those *)
(* of DaemonHandlers, one per function of src/src/daemon.  A tokio Mutex is an   *)
(* RwLock that is only written; both serve their waiters first come, first served.*)
EXTENDS Naturals, Sequences, FiniteSets

CONSTANTS
    Tasks,      \* the tokio tasks that run handlers at the same time
    Handlers    \* the programs a task may run

(* The fields of DaemonCore that are locks, and the place of each in the order.  *)
(* The two prefix locks and rating_updates are taken by a task that holds nothing.*)
Rank ==
    [config_transactions  |-> 0, playback_transitions |-> 0, rating_updates |-> 0,
     state |-> 1, track_cache |-> 2, subsonic |-> 3, mpv |-> 4, pipewire |-> 5,
     prebuffer_cancel |-> 6, prebuffer_loading |-> 7, prebuffer_files |-> 8,
     last_loadfile |-> 9, last_preload_attempt |-> 10, cover_art_cache |-> 11,
     scrobble_state |-> 12]

Locks == DOMAIN Rank

(* What a task may keep while it waits for a file, the keychain or the network.  *)
(* (track_cache is a blocking mutex around its own index file.)                  *)
KeptAcrossIo ==
    {"config_transactions", "playback_transitions", "rating_updates", "track_cache"}

----------------------------------------------------------------------------------
(* Steps, and the idioms programs are written with.                              *)
Read(l) == <<[do |-> "read", lock |-> l]>>
Write(l) == <<[do |-> "write", lock |-> l]>>
Drop(l) == <<[do |-> "drop", lock |-> l]>>
Io == <<[do |-> "io"]>>
Either(programs) == <<[do |-> "either", branches |-> programs]>>

May(program) == Either({<<>>, program})   \* also an early return: May(the rest)
Peek(l) == Read(l) \o Drop(l)             \* self.l.read().await.clone()
Brief(l) == Write(l) \o Drop(l)           \* a block around one exclusive guard

----------------------------------------------------------------------------------
VARIABLES
    todo,       \* what each task has still to do; <<>> when it runs no handler
    readers,    \* the tasks that hold a shared guard of each lock
    writers,    \* the tasks that hold its exclusive guard: at most one
    waiting     \* the tasks in the lock's queue

vars == <<todo, readers, writers, waiting>>

Acquisitions == {"read", "write"}

About(t, do) == todo[t] # <<>> /\ Head(todo[t]).do = do

Acquires(t) == todo[t] # <<>> /\ Head(todo[t]).do \in Acquisitions

Wanted(t) == Head(todo[t]).lock

Holders(l) == readers[l] \cup writers[l]

Held(t) == {l \in Locks : t \in Holders(l)}

Queued(t) == \E l \in Locks : \E i \in DOMAIN waiting[l] : waiting[l][i] = t

(* A shared guard is compatible with readers, an exclusive one with nobody.      *)
Compatible(t) ==
    /\ writers[Wanted(t)] = {}
    /\ About(t, "write") => readers[Wanted(t)] = {}

GiveTo(t) ==
    LET l == Wanted(t) IN
    /\ todo' = [todo EXCEPT ![t] = Tail(@)]
    /\ readers' = [readers EXCEPT ![l] = IF About(t, "read") THEN @ \cup {t} ELSE @]
    /\ writers' = [writers EXCEPT ![l] = IF About(t, "write") THEN @ \cup {t} ELSE @]

Init ==
    /\ todo = [t \in Tasks |-> <<>>]
    /\ readers = [l \in Locks |-> {}]
    /\ writers = [l \in Locks |-> {}]
    /\ waiting = [l \in Locks |-> <<>>]

(* A request arrives, a timer fires or a task is spawned.                        *)
Start(t) ==
    /\ todo[t] = <<>>
    /\ \E h \in Handlers : todo' = [todo EXCEPT ![t] = h]
    /\ UNCHANGED <<readers, writers, waiting>>

(* Nobody is in the way and nobody waits: the guard is given at once.            *)
Acquire(t) ==
    /\ Acquires(t)
    /\ ~Queued(t)
    /\ waiting[Wanted(t)] = <<>>
    /\ Compatible(t)
    /\ GiveTo(t)
    /\ UNCHANGED waiting

(* Otherwise the task is put at the end of the lock's queue.                     *)
Wait(t) ==
    /\ Acquires(t)
    /\ ~Queued(t)
    /\ waiting[Wanted(t)] # <<>> \/ ~Compatible(t)
    /\ waiting' = [waiting EXCEPT ![Wanted(t)] = Append(@, t)]
    /\ UNCHANGED <<todo, readers, writers>>

(* The first of the queue is served as soon as the guards allow it.              *)
Grant(t) ==
    /\ Acquires(t)
    /\ waiting[Wanted(t)] # <<>>
    /\ Head(waiting[Wanted(t)]) = t
    /\ Compatible(t)
    /\ waiting' = [waiting EXCEPT ![Wanted(t)] = Tail(@)]
    /\ GiveTo(t)

(* A guard goes out of scope.                                                    *)
Release(t) ==
    /\ About(t, "drop")
    /\ LET l == Head(todo[t]).lock IN
       /\ readers' = [readers EXCEPT ![l] = @ \ {t}]
       /\ writers' = [writers EXCEPT ![l] = @ \ {t}]
    /\ todo' = [todo EXCEPT ![t] = Tail(@)]
    /\ UNCHANGED waiting

(* The answer of the server, the disk or the keychain, or its timeout.           *)
IoReturns(t) ==
    /\ About(t, "io")
    /\ todo' = [todo EXCEPT ![t] = Tail(@)]
    /\ UNCHANGED <<readers, writers, waiting>>

(* A branch on data that is not modelled.                                        *)
Branch(t) ==
    /\ About(t, "either")
    /\ \E p \in Head(todo[t]).branches : todo' = [todo EXCEPT ![t] = p \o Tail(@)]
    /\ UNCHANGED <<readers, writers, waiting>>

Step(t) ==
    Acquire(t) \/ Wait(t) \/ Grant(t) \/ Release(t) \/ IoReturns(t) \/ Branch(t)

Next == \E t \in Tasks : Start(t) \/ Step(t)

Spec == Init /\ [][Next]_vars

----------------------------------------------------------------------------------
(* The guards of a lock exclude one another, and a task waits once, in the queue *)
(* of the lock its next step acquires.                                           *)
TypeOK ==
    /\ todo = [t \in Tasks |-> todo[t]]
    /\ readers \in [Locks -> SUBSET Tasks]
    /\ writers \in [Locks -> SUBSET Tasks]
    /\ waiting \in [Locks -> Seq(Tasks)]
    /\ \A l \in Locks : \A t \in writers[l] : Holders(l) = {t}
    /\ \A l \in Locks : \A i \in DOMAIN waiting[l] :
          Acquires(waiting[l][i]) /\ Wanted(waiting[l][i]) = l
    /\ \A l \in Locks : \A i, j \in DOMAIN waiting[l] :
          waiting[l][i] = waiting[l][j] => i = j

(* A task that asks for a lock holds only locks that come before it: the order   *)
(* docs/LOCK-ORDER.md declares for every field of DaemonCore.                    *)
OrderRespected ==
    \A t \in Tasks : Acquires(t) => \A l \in Held(t) : Rank[l] < Rank[Wanted(t)]

(* While a task waits for a file, the keychain or the server it keeps no lock    *)
(* that playback needs: a slow disk or server cannot stall the tick.             *)
IoUnlocked == \A t \in Tasks : About(t, "io") => Held(t) \subseteq KeptAcrossIo

(* u stands in t's way: it holds the lock t waits for, or waits before t.        *)
BlockedBy(t, u) ==
    \E l \in Locks : \E i \in DOMAIN waiting[l] :
        /\ waiting[l][i] = t
        /\ u \in Holders(l) \/ \E j \in 1..(i - 1) : waiting[l][j] = u

(* No set of tasks waits only for itself, whatever the handlers they run.        *)
NoCircularWait ==
    \A W \in (SUBSET Tasks) \ {{}} : \E t \in W : \A u \in W : ~BlockedBy(t, u)
==================================================================================
