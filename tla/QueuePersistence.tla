--------------------------- MODULE QueuePersistence ---------------------------
(***************************************************************************)
(* How the play queue gets to disk and back.  Every change of the queue    *)
(* pokes a save task through a channel of capacity one; the task waits     *)
(* half a second, drains the channel and writes a snapshot.  A graceful    *)
(* stop writes the last snapshot itself (or deletes the file), while a     *)
(* write of the save task may still be running on the blocking pool.  Both *)
(* go through the same temporary file.                                     *)
(*                                                                         *)
(* A queue is a version number, 0 being the empty queue.                   *)
(***************************************************************************)
EXTENDS Integers

CONSTANTS
    Inodes,         \* identities of files on disk
    NoInode,        \* a path that does not exist
    Saver,          \* the save task, and its write on the blocking pool
    Closer,         \* the shutdown sequence, and its write
    SettingChanges, \* bound: whether clients change resume_on_start
    MaxEdits        \* bound: changes of the queue

ASSUME QueuePersistenceAssumption ==
    /\ NoInode \notin Inodes
    /\ Saver # Closer
    /\ SettingChanges \in BOOLEAN
    /\ MaxEdits \in Nat

VARIABLES
    queue,         \* the queue in memory
    edits,         \* changes so far: the next change makes version edits + 1
    unscheduled,   \* handlers between a change and schedule_queue_save
    resume_on_start, \* the setting
    signal,        \* the channel of capacity 1 holds a poke
    shutdown,      \* the shutdown flag
    pc,            \* where the two tasks are
    snapshot,      \* the snapshot each of them writes
    fd,            \* the temporary file each of them has open
    file,          \* queue.json
    tmp,           \* queue.json.tmp
    content,       \* the content of each inode
    write_failed   \* history: the save task's last write failed

vars == <<queue, edits, unscheduled, resume_on_start, signal, shutdown, pc, snapshot, fd, file,
          tmp, content, write_failed>>

editVars == <<queue, edits, unscheduled, resume_on_start>>
diskVars == <<file, tmp, content>>

Writers == {Saver, Closer}

Versions == 0..MaxEdits
Empty == -1     \* a file that was created or truncated and not written yet
Torn == -2      \* bytes of two writers in one file

Goto(w, label) == pc' = [pc EXCEPT ![w] = label]

Running == pc[Closer] \notin {"exited", "down"}
-----------------------------------------------------------------------------
(* The daemon changes the queue, and later pokes the save task. *)
EditCommits ==
    /\ Running
    /\ edits < MaxEdits
    /\ edits' = edits + 1
    /\ queue' = edits + 1
    /\ unscheduled' = unscheduled + 1
    /\ UNCHANGED <<resume_on_start, signal, shutdown, pc, snapshot, fd, diskVars,
                   write_failed>>

set_resume_on_start ==
    /\ Running
    /\ SettingChanges
    /\ resume_on_start' = ~resume_on_start
    /\ UNCHANGED <<queue, edits, unscheduled, signal, shutdown, pc, snapshot, fd,
                   diskVars, write_failed>>

(* A full channel already holds a poke: try_send drops this one. *)
schedule_queue_save ==
    /\ Running
    /\ unscheduled > 0
    /\ unscheduled' = unscheduled - 1
    /\ signal' = TRUE
    /\ UNCHANGED <<queue, edits, resume_on_start, shutdown, pc, snapshot, fd, diskVars,
                   write_failed>>
-----------------------------------------------------------------------------
(* spawn_queue_persistence: wait for a poke or the shutdown, sleep, drain, *)
(* check for the shutdown again, read the state, save.                     *)
SaverWakes ==
    /\ pc[Saver] = "wait"
    /\ \/ /\ signal
          /\ signal' = FALSE
          /\ Goto(Saver, "sleep")
       \/ /\ shutdown
          /\ Goto(Saver, "stopped")
          /\ UNCHANGED signal
    /\ UNCHANGED <<editVars, shutdown, snapshot, fd, diskVars, write_failed>>

SaverDrains ==
    /\ pc[Saver] = "sleep"
    /\ signal' = FALSE
    /\ Goto(Saver, IF shutdown THEN "stopped" ELSE "snapshot")
    /\ UNCHANGED <<editVars, shutdown, snapshot, fd, diskVars, write_failed>>

snapshot_from_state(w) ==
    /\ pc[w] = "snapshot"
    /\ snapshot' = [snapshot EXCEPT ![w] = queue]
    /\ Goto(w, "open")
    /\ UNCHANGED <<editVars, signal, shutdown, fd, diskVars, write_failed>>
-----------------------------------------------------------------------------
(* atomic_write_bytes, one file-system call at a time.  The save task goes *)
(* back to waiting whatever the outcome; the shutdown goes on to exit.     *)
(* Fault: the channel is drained after the write.                          *)
AfterSave_drains(w) ==
    /\ Goto(w, IF w = Saver THEN "wait" ELSE "leave")
    /\ fd' = [fd EXCEPT ![w] = NoInode]
    /\ signal' = FALSE

AfterSave(w) ==
    /\ Goto(w, IF w = Saver THEN "wait" ELSE "leave")
    /\ fd' = [fd EXCEPT ![w] = NoInode]
    /\ UNCHANGED signal

(* Fault: queue.json itself is opened for writing. *)
open_in_place(w) ==
    \E i \in Inodes :
       /\ \/ i = file
          \/ file = NoInode /\ i \notin {tmp, fd[Saver], fd[Closer]}
       /\ file' = i
       /\ UNCHANGED tmp
       /\ fd' = [fd EXCEPT ![w] = i]
       /\ content' = [content EXCEPT ![i] = Empty]

(* Open with create and truncate. *)
open_temporary(w) ==
    \E i \in Inodes :
       /\ \/ i = tmp
          \/ tmp = NoInode /\ i \notin {file, fd[Saver], fd[Closer]}
       /\ tmp' = i
       /\ UNCHANGED file
       /\ fd' = [fd EXCEPT ![w] = i]
       /\ content' = [content EXCEPT ![i] = Empty]

Open(w) ==
    /\ pc[w] = "open"
    /\ open_temporary(w)
    /\ Goto(w, "write")
    /\ UNCHANGED <<editVars, signal, shutdown, snapshot, write_failed>>

(* Written over another writer's bytes, the result depends on the lengths. *)
Write(w) ==
    /\ pc[w] = "write"
    /\ \E result \in (IF content[fd[w]] \in {Empty, snapshot[w]} THEN {snapshot[w]}
                      ELSE {snapshot[w], Torn}) :
          content' = [content EXCEPT ![fd[w]] = result]
    /\ Goto(w, "rename")
    /\ UNCHANGED <<editVars, signal, shutdown, snapshot, fd, file, tmp, write_failed>>

(* A failed write removes the temporary file, whoever is writing it. *)
WriteFails(w) ==
    /\ pc[w] \in {"open", "write"}
    /\ tmp' = NoInode
    /\ write_failed' = (write_failed \/ w = Saver)
    /\ AfterSave(w)
    /\ UNCHANGED <<editVars, shutdown, snapshot, file, content>>

(* The other writer may have renamed the temporary file already. *)
Rename(w) ==
    /\ pc[w] = "rename"
    /\ file' = IF tmp = NoInode THEN file ELSE tmp
    /\ tmp' = NoInode
    /\ write_failed' = IF w = Saver THEN tmp = NoInode ELSE write_failed
    /\ AfterSave(w)
    /\ UNCHANGED <<editVars, shutdown, snapshot, content>>
-----------------------------------------------------------------------------
(* A Shutdown request or the idle monitor raises the flag, which ends the  *)
(* accept loop; a signal gets to quit_mpv, which raises it too.            *)
request_shutdown ==
    /\ Running
    /\ ~shutdown
    /\ shutdown' = TRUE
    /\ UNCHANGED <<editVars, signal, pc, snapshot, fd, diskVars, write_failed>>

ShutdownDecides ==
    /\ pc[Closer] = "running"
    /\ shutdown
    /\ Goto(Closer, IF resume_on_start THEN "snapshot" ELSE "remove")
    /\ UNCHANGED <<editVars, signal, shutdown, snapshot, fd, diskVars, write_failed>>

remove ==
    /\ pc[Closer] = "remove"
    /\ file' = NoInode
    /\ Goto(Closer, "leave")
    /\ UNCHANGED <<editVars, signal, shutdown, snapshot, fd, tmp, content, write_failed>>

(* The runtime drops its tasks and waits for writes that have started.     *)
Exit ==
    /\ pc[Closer] = "leave"
    /\ pc[Saver] \notin {"open", "write", "rename"}
    /\ Goto(Closer, "exited")
    /\ UNCHANGED <<editVars, signal, shutdown, snapshot, fd, diskVars, write_failed>>

(* A crash, a kill, or the exit forced five seconds into the shutdown. *)
Crash ==
    /\ Running
    /\ Goto(Closer, "down")
    /\ UNCHANGED <<editVars, signal, shutdown, snapshot, fd, diskVars, write_failed>>

(* A file that does not parse is moved aside.  Fault: it is loaded as is.  *)
Readable == file # NoInode /\ content[file] \in Versions

OnDisk_unchecked == IF file = NoInode THEN 0 ELSE content[file]

OnDisk == IF Readable THEN content[file] ELSE 0

(* The next start restores what it finds. *)
Restart ==
    /\ ~Running
    /\ queue' = OnDisk
    /\ file' = IF Readable THEN file ELSE NoInode
    /\ unscheduled' = 0
    /\ signal' = FALSE
    /\ shutdown' = FALSE
    /\ pc' = [w \in Writers |-> IF w = Saver THEN "wait" ELSE "running"]
    /\ snapshot' = [w \in Writers |-> 0]
    /\ fd' = [w \in Writers |-> NoInode]
    /\ write_failed' = FALSE
    /\ UNCHANGED <<edits, resume_on_start, tmp, content>>
-----------------------------------------------------------------------------
Init ==
    /\ queue = 0
    /\ edits = 0
    /\ unscheduled = 0
    /\ resume_on_start \in BOOLEAN
    /\ signal = FALSE
    /\ shutdown = FALSE
    /\ pc = [w \in Writers |-> IF w = Saver THEN "wait" ELSE "running"]
    /\ snapshot = [w \in Writers |-> 0]
    /\ fd = [w \in Writers |-> NoInode]
    /\ file = NoInode
    /\ tmp = NoInode
    /\ content = [i \in Inodes |-> Empty]
    /\ write_failed = FALSE

Save(w) ==
    /\ Running
    /\ snapshot_from_state(w) \/ Open(w) \/ Write(w) \/ WriteFails(w) \/ Rename(w)

Next ==
    \/ EditCommits
    \/ set_resume_on_start
    \/ schedule_queue_save
    \/ Running /\ SaverWakes
    \/ Running /\ SaverDrains
    \/ \E w \in Writers : Save(w)
    \/ request_shutdown
    \/ ShutdownDecides
    \/ remove
    \/ Exit
    \/ Crash
    \/ Restart

Spec == Init /\ [][Next]_vars

(* Handlers and the save task keep running while the daemon does. *)
Fairness ==
    /\ WF_vars(schedule_queue_save)
    /\ WF_vars(Running /\ SaverWakes)
    /\ WF_vars(Running /\ SaverDrains)
    /\ WF_vars(Save(Saver))

FairSpec == Spec /\ Fairness
-----------------------------------------------------------------------------
Labels == {"wait", "sleep", "stopped", "snapshot", "open", "write", "rename",
           "running", "remove", "leave", "exited", "down"}

(* The type of every variable. *)
TypeOK ==
    /\ queue \in Versions /\ edits \in Versions
    /\ unscheduled \in Versions
    /\ resume_on_start \in BOOLEAN
    /\ signal \in BOOLEAN /\ shutdown \in BOOLEAN /\ write_failed \in BOOLEAN
    /\ pc \in [Writers -> Labels]
    /\ snapshot \in [Writers -> Versions]
    /\ fd \in [Writers -> Inodes \union {NoInode}]
    /\ file \in Inodes \union {NoInode}
    /\ tmp \in Inodes \union {NoInode}
    /\ content \in [Inodes -> Versions \union {Empty, Torn}]

(* No poke is lost: whenever the save task waits and no poke is under way, *)
(* the file holds the queue, unless its last write failed (the drain comes *)
(* before the snapshot in spawn_queue_persistence).                        *)
SavedWhenQuiet ==
    Running /\ ~shutdown /\ ~write_failed /\ pc[Saver] = "wait" /\ ~signal
        /\ unscheduled = 0 => OnDisk = queue

(* Until the shutdown sequence starts, what a restart would restore never  *)
(* gets older, disappears or becomes unreadable, at whatever file-system   *)
(* call of a save the daemon is interrupted (atomic_write_bytes).          *)
NeverLosesASave == [][pc[Closer] = "running" => OnDisk' >= OnDisk]_vars

(* A change reaches the disk, unless the daemon stops or a write fails. *)
EditsReachDisk ==
    \A v \in 1..MaxEdits :
        (queue = v /\ Running /\ ~shutdown)
            ~> (OnDisk >= v \/ ~Running \/ shutdown \/ write_failed)
=============================================================================
